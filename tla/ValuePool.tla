------------------------------- MODULE ValuePool -------------------------------
(***************************************************************************)
(* The pool in which the parser keeps defaults, examples, bounds and       *)
(* extensions (crates/forge-parser/src/value.rs).                          *)
(*                                                                         *)
(* A JSON value is a record of one field: [null |-> 0], [bool |-> b],      *)
(* [int |-> n] for a number written without a fraction, [float |-> n],     *)
(* [str |-> s], [list |-> values], [fields |-> pairs of a name and a value *)
(* in the order of the names].  A node of the pool is the same with        *)
(* references, positions in the pool, in place of the values.              *)
(***************************************************************************)
EXTENDS Naturals, Sequences, SequencesExt

CONSTANTS
  MaxI64,    (* the largest 64-bit integer                                  *)
  Precision  (* floats of that size are this far apart                      *)

(* An integer that i64 cannot hold is kept as the float next to it. *)
AsFloat(n) == [float |-> n - (n % Precision)]

(* Mutant: of an object only the values tell it from others. *)
NodeKeyOfValues(node) ==
  IF "fields" \in DOMAIN node
  THEN [fields |-> [i \in DOMAIN node.fields |-> node.fields[i][2]]] ELSE node

(* NodeKey: what makes two nodes the same. *)
NodeKey(node) == node

(* intern: the position of the node, which is added if it is new. *)
Intern(pool, node) ==
  LET known == {i \in DOMAIN pool : NodeKey(pool[i]) = NodeKey(node)} IN
  IF known # {} THEN [pool |-> pool, at |-> CHOOSE i \in known : TRUE]
  ELSE [pool |-> Append(pool, node), at |-> Len(pool) + 1]

RECURSIVE InternJson(_, _)

(* The parts of a list or an object, one after the other into one pool. *)
InternAll(pool, values) ==
  FoldLeft(LAMBDA done, v : LET one == InternJson(done.pool, v)
                            IN [pool |-> one.pool, at |-> Append(done.at, one.at)],
           [pool |-> pool, at |-> <<>>], values)

(* intern_json. *)
InternJson(pool, v) ==
  CASE "int" \in DOMAIN v -> Intern(pool, IF v.int <= MaxI64 THEN v ELSE AsFloat(v.int))
    [] "list" \in DOMAIN v ->
         LET parts == InternAll(pool, v.list) IN Intern(parts.pool, [list |-> parts.at])
    [] "fields" \in DOMAIN v ->
         LET parts == InternAll(pool, [i \in DOMAIN v.fields |-> v.fields[i][2]])
         IN Intern(parts.pool,
                   [fields |-> [i \in DOMAIN v.fields |-> <<v.fields[i][1], parts.at[i]>>]])
    [] OTHER -> Intern(pool, v)
================================================================================
