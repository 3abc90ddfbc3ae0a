------------------------------- MODULE ServerView -------------------------------
(***************************************************************************)
(* What a server makes of the requests of a generated client, by the       *)
(* serialisation rules of OpenAPI: the reference for GeneratedClient.      *)
(***************************************************************************)
EXTENDS GeneratedClient

(* What a server that knows the parameter reads from the request.           *)
Pairs(request, keys(_)) == SelectSeq(request.query, LAMBDA x : keys(x.key))
Shaped(p, texts) ==
  IF texts = <<>> THEN <<>>
  ELSE IF p.shape = "array" THEN <<[items |-> texts]>> ELSE <<[text |-> texts[1]]>>

Received(op, request, p) ==
  LET name == p.name.text
      own == Pairs(request, LAMBDA k : k = <<name>>)
      holes == SelectSeq([i \in DOMAIN op.path |-> i], LAMBDA i : "hole" \in DOMAIN op.path[i] /\ op.path[i].hole.text = name)
      header(h) == IF h \in DOMAIN request.headers THEN <<request.headers[h]>> ELSE <<>>
      cookies == IF header("Cookie") = <<>> THEN <<>>
                 ELSE SelectSeq(header("Cookie")[1], LAMBDA c : c.key = <<name>>)
  IN CASE p.in = "path" -> Shaped(p, request.path[holes[1]].value.texts)
       [] p.in = "query" /\ p.style = "deepObject" ->
            LET deep == Pairs(request, LAMBDA k : Len(k) = 2 /\ k[1] = name)
            IN IF deep = <<>> THEN <<>>
               ELSE <<[fields |-> [f \in {deep[i].key[2] : i \in DOMAIN deep} |->
                        (CHOOSE x \in Range(deep) : x.key[2] = f).value.texts[1]]]>>
       [] p.in = "query" /\ p.style = "form" /\ p.shape = "object" ->
            LET each == Pairs(request, LAMBDA k : Len(k) = 1 /\ k[1] \in p.fields)
            IN IF each = <<>> THEN <<>>
               ELSE <<[fields |-> [f \in {each[i].key[1] : i \in DOMAIN each} |->
                        (CHOOSE x \in Range(each) : x.key[1] = f).value.texts[1]]]>>
       [] p.in = "query" /\ p.shape # "object" ->
            IF (p.style = "form" /\ ~p.explode) \/ p.style \in {"pipeDelimited", "spaceDelimited"}
            THEN (IF Len(own) = 1 THEN Shaped(p, own[1].value.texts) ELSE <<>>)
            ELSE Shaped(p, [i \in DOMAIN own |-> own[i].value.texts[1]])
       [] p.in = "header" ->
            IF header(name) = <<>> THEN <<>>
            ELSE IF p.shape = "array" THEN Shaped(p, [i \in DOMAIN header(name)[1] |-> <<header(name)[1][i]>>])
            ELSE <<[text |-> header(name)[1]]>>
       [] p.in = "cookie" -> IF cookies = <<>> THEN <<>> ELSE Shaped(p, cookies[1].value.texts)

(* An empty list cannot be told from none. *)
Sent(arg) == IF arg = <<[items |-> <<>>]>> THEN <<>> ELSE arg

(* What no client carries: a comma inside the items of a header; and what   *)
(* the TypeScript one does not: an object in the default style, and a       *)
(* cookie next to a credential that is one.                                 *)
ListsCarriable(op, arg(_)) ==
  \A p \in Range(op.params) :
    (p.in = "header" /\ p.shape = "array" /\ arg(p) # <<>>) =>
      \A i \in DOMAIN arg(p)[1].items : Len(arg(p)[1].items[i]) = 1
NoFormObject(op) == \A p \in Range(op.params) : p.style = "form" => p.shape # "object"
CookiesCarriable(op, auth) ==
  (\E p \in Range(op.params) : p.in = "cookie") =>
    (Branch(op, auth) = <<>> \/ Branch(op, auth)[1].in # "cookie")

CredentialSent(op, request, auth) ==
  LET fit == SelectSeq(op.security, LAMBDA s : auth # <<>> /\ s.kind = auth[1].kind) IN
  fit # <<>> =>
    CASE fit[1].in = "header" -> fit[1].name \in DOMAIN request.headers
                                 /\ request.headers[fit[1].name] = <<"secret">>
      [] fit[1].in = "query"  -> \E x \in Range(request.query) : x.key = <<fit[1].name>> /\ x.value.texts = <<<<"secret">>>>
      [] fit[1].in = "cookie" -> \E c \in Range(request.headers["Cookie"]) : c.key = <<fit[1].name>>
      [] fit[1].in = "none"   -> request.headers["Authorization"] = <<"secret">>

(* The properties a form has, read from its pairs: of a list each item.     *)
FormSays(content, form, fields) ==
  \A p \in Range(content.props) :
    LET own == SelectSeq(form, LAMBDA x : x[1] = p)
        texts == [i \in DOMAIN own |-> own[i][2]]
    IN IF p \notin DOMAIN fields THEN own = <<>>
       ELSE IF "items" \in DOMAIN fields[p] THEN texts = fields[p].items
       ELSE IF "text" \in DOMAIN fields[p] THEN texts = <<fields[p].text>>
       ELSE content.media = MULTIPART => texts = <<fields[p]>>

BodySent(op, content, request, arg) ==
  LET media == {request.headers[h] : h \in DOMAIN request.headers \cap {"content-type", "Content-Type"}}
  IN /\ content \in Range(op.body[1].content)
     /\ media = (IF content.media = MULTIPART THEN {} ELSE {<<content.media>>})
     /\ IF content.media \in {URLENCODED, MULTIPART}
        THEN FormSays(content, request.body[1].form, arg[1].fields)
        ELSE request.body = arg

(* The good responses of an operation are all JSON, or none is. *)
Good(op) == {r \in Range(op.responses) : Success(r.status)}
AllJson(op) == \A r \in Good(op) : r.media = <<JSON>>
NoJson(op) == \A r \in Good(op) : JSON \notin Range(r.media)

(* The value a method returns is the one the server has sent. *)
ResultFits(op, result(_)) ==
  \A r \in Good(op) : \A m \in (IF r.media = <<>> THEN {"none"} ELSE Range(r.media)) :
    result(m).kind \notin {"throws", "fails"} /\ (m # "none" => result(m).value = "value")
================================================================================
