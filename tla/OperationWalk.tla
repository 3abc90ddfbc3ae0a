---------------------------- MODULE OperationWalk ----------------------------
(***************************************************************************)
(* The parser's walk over everything of an OpenAPI description that is not *)
(* a schema (crates/forge-parser: lib.rs, operations.rs, security.rs,      *)
(* ref_walk.rs): security schemes, paths, webhooks, their operations, and  *)
(* what hangs below them.  Most of these may be references, into this      *)
(* document or another, and chains of references, which with_resolved_     *)
(* object follows; what a path or an operation declares is merged into the *)
(* operations of the IR, and the operations of callbacks join them there.  *)
(*                                                                         *)
(* The recursion is a stack of frames, one for each JSON value being read. *)
(* The JSON tree is data: a node has the fields that decide something and  *)
(* its parts, listed in the order in which the code reads them.            *)
(***************************************************************************)
EXTENDS Naturals, FiniteSets, Sequences, SequencesExt, Functions, TLC

CONSTANT Specs

(* A specification: `version` is accepted or not, `info` complete or not;   *)
(* servers and tags of the root; `security`, the requirements of the root;  *)
(* entries.schemes, .paths, .webhooks, sequences of parts; `ident`, what    *)
(* sanitize::ident makes of the names it changes; `at`, the node behind     *)
(* every reference that can be resolved, <<document, <<class, name>>>>.     *)
(*                                                                          *)
(* A part is [slot, key, node]: the node, what it is read as, and its key.  *)
(* A node is [kind, file, frag, has, parts]: an "object", a "ref" to frag   *)
(* of a file ("" for its own document) or something else, "bad".  `has`     *)
(* maps the fields that are present and of the right type to their values.  *)
Main == "main"
Phases == <<"schemes", "paths", "webhooks">>
ReadAs == [schemes |-> "scheme", paths |-> "path", webhooks |-> "webhook"]

ASSUME SpecsAssumption ==
  \A s \in Specs : \A p \in Range(Phases) :
    s.entries[p] \in Seq({e \in Range(s.entries[p]) : e.slot = ReadAs[p]})

VARIABLES
  spec,      (* the specification                                           *)
  ir,        (* what goes into the IR: operations, webhooks, schemes, ...   *)
  current,   (* Ctx::current_doc                                            *)
  walking,   (* Ctx::walking: the references being followed                 *)
  touched,   (* Ctx::referenced_component_path_items and _media_types       *)
  unused,    (* the declared ones the scans at the end warn about           *)
  seen,      (* seen_op_ids                                                 *)
  failed,    (* has an error diagnostic been pushed?                        *)
  phase,     (* the index of the phase in Phases                            *)
  todo,      (* entries of the phase still to be read                       *)
  stack,     (* the values being read, the innermost first                  *)
  pc,        (* "begin", "root", "enter", "parts", "leave", "done"          *)
  ret        (* what the frame being left came to: <<>> or <<value>>        *)

where == <<current, walking, touched>>
vars == <<spec, ir, where, unused, seen, failed, phase, todo, stack, pc, ret>>

NoFields == [x \in {} |-> x]
Has(n, field) == field \in DOMAIN n.has
HasPart(n, slots) == \E p \in Range(n.parts) : p.slot \in slots

Ident(name) == IF name \in DOMAIN spec.ident THEN spec.ident[name] ELSE name

-----------------------------------------------------------------------------
(* What is read as what. *)

(* Read through with_resolved_object.  The path items of a callback, and    *)
(* operations, encodings, flows and schemas are read as they stand.         *)
Followed == {"scheme", "path", "webhook", "parameter", "body", "content", "response",
             "header", "link", "example", "callback"}

(* What is read below a value; its other members are passed over.           *)
ItemParts == {"parameter", "op"}
PartsOf ==
  [scheme |-> {"flow"}, path |-> ItemParts, webhook |-> ItemParts, expr |-> ItemParts,
   op |-> {"parameter", "body", "response", "callback"}, callback |-> {"expr"},
   parameter |-> {"schema", "example"}, header |-> {"schema", "example"},
   body |-> {"content"}, response |-> {"header", "content", "link"},
   content |-> {"schema", "item", "encoding", "example"}, encoding |-> {"header"}]
Known(f, part) == f.slot \in DOMAIN PartsOf /\ part.slot \in PartsOf[f.slot]

(* Fields without which a value comes to nothing. *)
Required == [op |-> {"operationId"}, parameter |-> {"name", "in"}, schema |-> {"type"},
             item |-> {"type"}]
RequiredOfScheme ==
  [apiKey |-> {"name", "in"}, http |-> {"scheme"}, mutualTLS |-> {}, oauth2 |-> {"flows"},
   openIdConnect |-> {"openIdConnectUrl"}]
RequiredOfFlow ==
  [implicit |-> {"authorizationUrl"}, password |-> {"tokenUrl"},
   clientCredentials |-> {"tokenUrl"},
   authorizationCode |-> {"authorizationUrl", "tokenUrl"}]
(* Parts one of which must be there. *)
RequiredParts ==
  [parameter |-> {"schema"}, header |-> {"schema"}, body |-> {"content"},
   content |-> {"schema", "item"}]

(* Fields of which the first is kept if both are there. *)
Exclusive == {<<"operationRef", "operationId">>, <<"value", "externalValue">>}
Clashes(n) == {e \in Exclusive : Range(e) \subseteq DOMAIN n.has}
Kept(n) == Restrict(n.has, DOMAIN n.has \ {e[2] : e \in Clashes(n)})

Locations == {"path", "query", "header", "cookie", "querystring"}
Statuses == {"default", "200", "404", "4XX"}

UnknownScheme(f) ==
  f.slot = "scheme" /\ Has(f.node, "type") /\ f.node.has.type \notin DOMAIN RequiredOfScheme

Usable(f) ==
  LET n == f.node IN
  /\ n.kind # "bad"
  /\ f.slot \in DOMAIN Required => Required[f.slot] \subseteq DOMAIN n.has
  /\ f.slot = "scheme" => /\ Has(n, "type") /\ ~UnknownScheme(f)
                          /\ RequiredOfScheme[n.has.type] \subseteq DOMAIN n.has
  /\ f.slot = "flow" => /\ f.key \in DOMAIN RequiredOfFlow
                        /\ RequiredOfFlow[f.key] \subseteq DOMAIN n.has
  /\ f.slot \in DOMAIN RequiredParts => HasPart(n, RequiredParts[f.slot])

InResponse == Len(stack) > 1 /\ stack[2].slot = "response"

(* Some things are left out without an error: a request body, or an entry   *)
(* of a response's content, that is no object, a header without a schema, a *)
(* security scheme of an unknown type (a warning), and a schema that comes  *)
(* to nothing (see AllOfSeesTarget of SchemaWalk).                          *)
Silent(f) ==
  IF f.node.kind = "bad"
  THEN f.slot = "body" \/ (f.slot = "content" /\ InResponse)
  ELSE f.slot \in {"header", "schema", "item"} \/ UnknownScheme(f)

-----------------------------------------------------------------------------
(* Servers and requirements. *)

(* parse_servers_array: a server without a URL is dropped with an error. *)
Servers(n) == IF Has(n, "servers") THEN SelectSeq(n.has.servers, LAMBDA url : url # "") ELSE <<>>
BadServer(n) == Has(n, "servers") /\ "" \in Range(n.has.servers)

(* parse_requirements: the alternatives, each a set of schemes, become one  *)
(* list.                                                                    *)
Requirements(alternatives) == {Ident(s) : s \in UNION Range(alternatives)}

(* The first list that is not empty: the operation's, the path item's, the  *)
(* root's.                                                                  *)
EffectiveServers(op, item) ==
  LET lists == SelectSeq(<<Servers(op), Servers(item), ir.servers>>, LAMBDA l : l # <<>>)
  IN IF lists = <<>> THEN <<>> ELSE Head(lists)

(* An operation without `security` inherits, one with `[]` has none. *)
EffectiveSecurity(op) ==
  IF Has(op, "security") THEN Requirements(op.has.security) ELSE ir.security

(* The values that were read as one of `slots`.                             *)
Slots(values, slots) ==
  FlattenSeq([i \in DOMAIN values |-> IF values[i].slot \in slots THEN <<values[i]>> ELSE <<>>])
Located(values, loc) ==
  SelectSeq(values, LAMBDA v : v.slot = "parameter" /\ v.has["in"] = loc)

(* Mutant: the path item's parameters stay beside the operation's. *)
MergedBoth(shared, own) == shared \o own

(* merge_path_item_params, for the parameters of one location. *)
Merged(shared, own) ==
  SelectSeq(shared, LAMBDA p : \A q \in Range(own) : q.has.name # p.has.name) \o own

Params(item, op) ==
  [loc \in Locations |-> Merged(Located(item.got, loc), Located(op.got, loc))]

-----------------------------------------------------------------------------
(* The phases of parse_with_resolver. *)

EmptyIr == [operations |-> <<>>, webhooks |-> <<>>, schemes |-> <<>>, servers |-> <<>>,
            tags |-> <<>>, security |-> {}]

Init ==
  /\ spec \in Specs
  /\ ir = EmptyIr
  /\ current = Main
  /\ walking = {} /\ touched = {} /\ unused = {} /\ seen = {}
  /\ failed = FALSE
  /\ phase = 0
  /\ todo = <<>> /\ stack = <<>>
  /\ pc = "begin"
  /\ ret = <<>>

(* parse_tags: a tag without a name goes, and so does a parent nobody is. *)
Tags(tags) ==
  LET named == SelectSeq(tags, LAMBDA t : t.name # "")
      names == {t.name : t \in Range(named)}
  IN [i \in DOMAIN named |->
        IF named[i].parent \in names THEN named[i] ELSE [named[i] EXCEPT !.parent = ""]]

(* check_version, parse_info, parse_servers, parse_tags. *)
Begin ==
  /\ pc = "begin"
  /\ \/ /\ ~spec.version
        /\ failed' = TRUE /\ pc' = "done"
        /\ UNCHANGED <<ir, phase, todo>>
     \/ /\ spec.version
        /\ ir' = [ir EXCEPT !.servers = Servers(spec.root), !.tags = Tags(spec.tags)]
        /\ failed' = (~spec.info \/ BadServer(spec.root) \/ \E t \in Range(spec.tags) : t.name = "")
        /\ phase' = 1
        /\ todo' = spec.entries.schemes
        /\ pc' = "root"
  /\ UNCHANGED <<spec, where, unused, seen, stack, ret>>

(* The requirements of the root are read after the schemes. *)
DefaultSecurity(p) ==
  IF p = "paths" /\ Has(spec.root, "security")
  THEN Requirements(spec.root.has.security) ELSE ir.security

Ids(ops) == {ops[i].has.id : i \in DOMAIN ops}

(* Mutant: parse_webhooks starts with no operation ids. *)
SeenBeforeNone(p) == {}

(* parse_webhooks starts with the ids of all operations so far. *)
SeenBefore(p) == IF p = "webhooks" THEN Ids(ir.operations) ELSE {}

NextPhase ==
  /\ pc = "root" /\ todo = <<>> /\ phase < Len(Phases)
  /\ LET p == Phases[phase + 1] IN
     /\ phase' = phase + 1
     /\ todo' = spec.entries[p]
     /\ ir' = [ir EXCEPT !.security = DefaultSecurity(p)]
     /\ seen' = SeenBefore(p)
  /\ UNCHANGED <<spec, where, unused, failed, stack, pc, ret>>

(* scan_unused_component_path_items and scan_unused_component_media_types. *)
Declared ==
  {k[2] : k \in {x \in DOMAIN spec.at : x[1] = Main /\ x[2][1] \in {"pathItems", "mediaTypes"}}}

Scan ==
  /\ pc = "root" /\ todo = <<>> /\ phase = Len(Phases)
  /\ unused' = Declared \ touched
  /\ pc' = "done"
  /\ UNCHANGED <<spec, ir, where, seen, failed, phase, todo, stack, ret>>

Frame(part) ==
  [slot |-> part.slot, key |-> part.key, node |-> part.node, prev |-> current,
   keys |-> <<>>, next |-> 1, got |-> <<>>]

NextRoot ==
  /\ pc = "root" /\ todo # <<>>
  /\ todo' = Tail(todo)
  /\ stack' = <<Frame(Head(todo))>>
  /\ pc' = "enter"
  /\ UNCHANGED <<spec, ir, where, unused, seen, failed, phase, ret>>

-----------------------------------------------------------------------------
(* with_resolved_object. *)

Give(value) == pc' = "leave" /\ ret' = value
Replace(f) == stack' = <<f>> \o Tail(stack)

Reference(f) == f.slot \in Followed /\ f.node.kind = "ref"
Target(f) == <<IF f.node.file = "" THEN current ELSE f.node.file, f.node.frag>>

(* Mutant: no reference is taken for a cycle. *)
CyclicNever(key) == FALSE

Cyclic(key) == key \in walking

(* The document cannot be loaded, or the pointer leads nowhere. *)
RefDangles ==
  /\ pc = "enter" /\ Reference(Head(stack)) /\ Target(Head(stack)) \notin DOMAIN spec.at
  /\ failed' = TRUE
  /\ Give(<<>>)
  /\ UNCHANGED <<spec, ir, where, unused, seen, phase, todo, stack>>

(* One turn of the loop: the target takes the place of the reference. *)
FollowRef ==
  /\ pc = "enter" /\ Reference(Head(stack)) /\ Target(Head(stack)) \in DOMAIN spec.at
  /\ LET f == Head(stack)
         key == Target(f)
     IN /\ touched' = IF key[2] \in Declared /\ key[1] = Main THEN touched \union {key[2]} ELSE touched
        /\ \/ /\ Cyclic(key)
              /\ failed' = TRUE
              /\ Give(<<>>)
              /\ UNCHANGED <<current, walking, stack>>
           \/ /\ ~Cyclic(key)
              /\ Replace([f EXCEPT !.node = spec.at[key], !.keys = Append(@, key)])
              /\ walking' = walking \union {key}
              /\ current' = key[1]
              /\ UNCHANGED <<failed, pc, ret>>
  /\ UNCHANGED <<spec, ir, unused, seen, phase, todo>>

(* What the root of the walk hands over to the context. *)
Delivered ==
  LET f == Head(stack)
      ops == IF ret = <<>> THEN <<>> ELSE Slots(ret[1].got, {"op"})
  IN CASE f.slot = "path" -> [ir EXCEPT !.operations = @ \o ops]
       [] f.slot = "webhook" -> [ir EXCEPT !.webhooks = Append(@, [name |-> f.key, operations |-> ops])]
       [] f.slot = "scheme" -> [ir EXCEPT !.schemes = @ \o ret]

(* Mutant: the document is not switched back. *)
LeaveElsewhere ==
  /\ pc = "leave"
  /\ LET f == Head(stack)
         outer == Tail(stack)
     IN /\ walking' = walking \ Range(f.keys)
        /\ \/ /\ outer = <<>>
              /\ ir' = Delivered
              /\ stack' = <<>> /\ pc' = "root"
           \/ /\ outer # <<>>
              /\ stack' = <<[Head(outer) EXCEPT !.next = @ + 1, !.got = @ \o ret]>> \o Tail(outer)
              /\ pc' = "parts"
              /\ UNCHANGED ir
  /\ UNCHANGED <<spec, current, touched, unused, seen, failed, phase, todo, ret>>

(* The references followed are let go of, and the value goes to its owner. *)
Leave ==
  /\ pc = "leave"
  /\ LET f == Head(stack)
         outer == Tail(stack)
     IN /\ walking' = walking \ Range(f.keys)
        /\ current' = f.prev
        /\ \/ /\ outer = <<>>
              /\ ir' = Delivered
              /\ stack' = <<>> /\ pc' = "root"
           \/ /\ outer # <<>>
              /\ stack' = <<[Head(outer) EXCEPT !.next = @ + 1, !.got = @ \o ret]>> \o Tail(outer)
              /\ pc' = "parts"
              /\ UNCHANGED ir
  /\ UNCHANGED <<spec, touched, unused, seen, failed, phase, todo, ret>>

-----------------------------------------------------------------------------
(* Reading a value. *)

Value(f, has, got) == [slot |-> f.slot, key |-> f.key, has |-> has, got |-> got]

Plain(f) == pc = "enter" /\ ~Reference(f)

(* The path item of a callback counts, also without operations. *)
Refused(f) == IF f.slot = "expr" THEN <<Value(f, [ids |-> {}], <<>>)>> ELSE <<>>

Refuse ==
  /\ pc = "enter"
  /\ LET f == Head(stack) IN
     /\ Plain(f) /\ ~Usable(f)
     /\ failed' = (failed \/ ~Silent(f))
     /\ Give(Refused(f))
  /\ UNCHANGED <<spec, ir, where, unused, seen, phase, todo, stack>>

(* What is wrong with a value that is read all the same. *)
Flawed(n) ==
  \/ Clashes(n) # {}
  \/ HasPart(n, {"schema"}) /\ HasPart(n, {"item"})
  \/ BadServer(n)

Accept ==
  /\ pc = "enter"
  /\ LET f == Head(stack) IN
     /\ Plain(f) /\ Usable(f)
     /\ failed' = (failed \/ Flawed(f.node))
  /\ pc' = "parts"
  /\ UNCHANGED <<spec, ir, where, unused, seen, phase, todo, stack, ret>>

(* Without its schema a parameter, a header or a media type is given up.    *)
GivenUp(f) ==
  /\ f.slot \in {"parameter", "header", "content"} /\ f.got = <<>>
  /\ \E i \in 1..(f.next - 1) : f.node.parts[i].slot \in {"schema", "item"}
Finished(f) == f.next > Len(f.node.parts) \/ GivenUp(f)

(* An item schema beside a schema, the encodings of a response's content,   *)
(* and a response with a status that is none (an error) are passed over.    *)
BadStatus(part) == part.slot = "response" /\ part.key \notin Statuses
Skipped(f, part) ==
  \/ ~Known(f, part)
  \/ part.slot = "item" /\ HasPart(f.node, {"schema"})
  \/ part.slot = "encoding" /\ InResponse
  \/ BadStatus(part)

NextPart ==
  /\ pc = "parts"
  /\ LET f == Head(stack)
         part == f.node.parts[f.next]
     IN /\ ~Finished(f) /\ ~Skipped(f, part)
        /\ stack' = <<Frame(part)>> \o stack
  /\ pc' = "enter"
  /\ UNCHANGED <<spec, ir, where, unused, seen, failed, phase, todo, ret>>

(* Mutant: the loop does not go on after a part it passes over. *)
SkipPartAgain ==
  /\ pc = "parts"
  /\ LET f == Head(stack)
         part == f.node.parts[f.next]
     IN /\ ~Finished(f) /\ Skipped(f, part)
        /\ failed' = (failed \/ BadStatus(part))
  /\ UNCHANGED <<spec, ir, where, unused, seen, phase, todo, stack, pc, ret>>

SkipPart ==
  /\ pc = "parts"
  /\ LET f == Head(stack)
         part == f.node.parts[f.next]
     IN /\ ~Finished(f) /\ Skipped(f, part)
        /\ Replace([f EXCEPT !.next = @ + 1])
        /\ failed' = (failed \/ BadStatus(part))
  /\ UNCHANGED <<spec, ir, where, unused, seen, phase, todo, pc, ret>>

(* An operation takes from its path item, and from the root, what it does   *)
(* not say itself.                                                          *)
Operation(item, op) ==
  Value(op, [id |-> Ident(op.node.has.operationId),
             params |-> Params(item, op),
             security |-> EffectiveSecurity(op.node),
             servers |-> EffectiveServers(op.node, item.node)],
        Slots(op.got, {"body", "response", "callback"}))

(* The operations of callbacks have been seen before the one they are of. *)
CloseOperation ==
  /\ pc = "parts" /\ Head(stack).slot = "op" /\ Finished(Head(stack))
  /\ LET op == Operation(stack[2], Head(stack)) IN
     \/ /\ op.has.id \in seen
        /\ failed' = TRUE
        /\ Give(<<>>)
        /\ UNCHANGED seen
     \/ /\ op.has.id \notin seen
        /\ seen' = seen \union {op.has.id}
        /\ Give(<<op>>)
        /\ UNCHANGED failed
  /\ UNCHANGED <<spec, ir, where, unused, phase, todo, stack>>

(* Mutant: the operations of a callback stay with it. *)
CloseExpressionAlone ==
  /\ pc = "parts" /\ Head(stack).slot = "expr" /\ Finished(Head(stack))
  /\ LET f == Head(stack)
         ops == Slots(f.got, {"op"})
     IN Give(<<Value(f, [ids |-> Ids(ops)], <<>>)>>)
  /\ UNCHANGED <<spec, ir, where, unused, seen, failed, phase, todo, stack>>

(* The operations of a callback join the others; it keeps their ids.        *)
CloseExpression ==
  /\ pc = "parts" /\ Head(stack).slot = "expr" /\ Finished(Head(stack))
  /\ LET f == Head(stack)
         ops == Slots(f.got, {"op"})
     IN /\ ir' = [ir EXCEPT !.operations = @ \o ops]
        /\ Give(<<Value(f, [ids |-> Ids(ops)], <<>>)>>)
  /\ UNCHANGED <<spec, where, unused, seen, failed, phase, todo, stack>>

(* What is empty, or in no known place, comes to nothing.                   *)
Fruitful(f) ==
  /\ f.slot \in {"parameter", "header", "content", "body"} => f.got # <<>>
  /\ f.slot = "parameter" => f.node.has["in"] \in Locations
  /\ f.slot = "scheme" /\ f.node.has.type = "oauth2" => f.got # <<>>

(* A parameter in no known place, a scheme without a usable flow; what is   *)
(* missing below a value has been complained about there.                   *)
Complains(f) == f.slot = "scheme" \/ (f.slot = "parameter" /\ f.got # <<>>)

CloseOther ==
  /\ pc = "parts"
  /\ LET f == Head(stack) IN
     /\ f.slot \notin {"op", "expr"} /\ Finished(f)
     /\ Give(IF Fruitful(f) THEN <<Value(f, Kept(f.node), f.got)>> ELSE <<>>)
     /\ failed' = (failed \/ (~Fruitful(f) /\ Complains(f)))
  /\ UNCHANGED <<spec, ir, where, unused, seen, phase, todo, stack>>

Finish == pc = "done" /\ UNCHANGED vars

Next ==
  \/ Begin \/ NextPhase \/ Scan \/ NextRoot
  \/ RefDangles \/ FollowRef \/ Leave
  \/ Refuse \/ Accept \/ NextPart \/ SkipPart
  \/ CloseOperation \/ CloseExpression \/ CloseOther
  \/ Finish

Spec == Init /\ [][Next]_vars /\ WF_vars(Next)

-----------------------------------------------------------------------------
(* Properties. *)

(* The walk ends, for every way in which references, callbacks and          *)
(* documents lead back to each other.                                       *)
Terminates == <>(pc = "done")

(* The document a frame reads in, and the one below depth i of the stack.   *)
Document(f) == IF f.keys = <<>> THEN f.prev ELSE f.keys[Len(f.keys)][1]
Below(s, i) == IF i < Len(s) THEN Document(s[i + 1]) ELSE Main

(* Every value is read in the document it is written in, however many       *)
(* references led to it, and whatever was read or refused before it: the    *)
(* current document and the references in progress are those of the calls   *)
(* in progress (ref_walk.rs:195-199).                                       *)
ContextFollowsRefs ==
  /\ current = Below(stack, 0)
  /\ \A i \in DOMAIN stack : stack[i].prev = Below(stack, i)
  /\ walking = UNION {Range(f.keys) : f \in Range(stack)}

(* No reference is followed while it is being followed, through callbacks,  *)
(* other documents or itself: "non-schema cycles can't form legitimate IR"  *)
(* (ref_walk.rs:24-25).                                                     *)
NoRefReentry ==
  /\ \A i, j \in DOMAIN stack : i # j => Range(stack[i].keys) \cap Range(stack[j].keys) = {}
  /\ \A i \in DOMAIN stack : Cardinality(Range(stack[i].keys)) = Len(stack[i].keys)

(* The operations of the IR, of its webhooks, and of the items being read.  *)
Webhooked == FlattenSeq([i \in DOMAIN ir.webhooks |-> ir.webhooks[i].operations])
Pending == FlattenSeq([i \in DOMAIN stack |-> Slots(stack[i].got, {"op"})])
AllOperations == ir.operations \o Webhooked \o Pending

(* No two operations have the same id, after sanitizing, be they of paths,  *)
(* webhooks or callbacks, also while some of them are still on their way.   *)
OperationIdsUnique ==
  pc # "leave" => Cardinality(Ids(AllOperations)) = Len(AllOperations)

(* Every id that a callback of an operation keeps is the id of an operation *)
(* of the IR, even where the operation that had the callback was dropped or *)
(* belongs to a webhook.                                                    *)
CallbackIds(op) ==
  UNION {UNION {e.has.ids : e \in Range(c.got)} : c \in Range(Slots(op.got, {"callback"}))}
CallbacksResolve ==
  \A op \in Range(AllOperations) : CallbackIds(op) \subseteq Ids(ir.operations)
=============================================================================
