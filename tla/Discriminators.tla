---------------------------- MODULE Discriminators ----------------------------
(***************************************************************************)
(* The tags of a discriminated union (crates/forge-parser: schema.rs,      *)
(* parse_oneof_discriminated).  A union is the sequence of the ids of its  *)
(* variants; the explicit entries of its discriminator are a sequence of   *)
(* pairs of a tag and an id, in the order of the tags.                     *)
(***************************************************************************)
EXTENDS Naturals, Sequences, SequencesExt

(* Mutant: only a mapping without explicit entries is completed. *)
MappingAsWritten(variants, explicit) ==
  IF explicit = <<>> THEN [i \in DOMAIN variants |-> <<variants[i], variants[i]>>] ELSE explicit

(* The explicit entries whose id is a variant, then one for every variant   *)
(* that has none yet.                                                       *)
Mapping(variants, explicit) ==
  LET valid == FlattenSeq([k \in DOMAIN explicit |->
                 IF explicit[k][2] \in Range(variants) THEN <<explicit[k]>> ELSE <<>>])
      mapped(i) == (\E e \in Range(valid) : e[2] = variants[i])
                   \/ \E j \in 1..(i - 1) : variants[j] = variants[i]
      rest == FlattenSeq([i \in DOMAIN variants |->
                IF mapped(i) THEN <<>> ELSE << <<variants[i], variants[i]>> >>])
  IN valid \o rest

(* The tag of a variant, if it has one: the first entry that targets it.    *)
Tag(mapping, variant) ==
  LET entries == {k \in DOMAIN mapping : mapping[k][2] = variant}
  IN IF entries = {} THEN <<>> ELSE <<mapping[Min(entries)][1]>>

-----------------------------------------------------------------------------
(* What tags are for. *)

(* Explicit entries have a tag each, and none has for its tag the id of a   *)
(* variant that has no tag of its own.                                      *)
Unambiguous(variants, explicit) ==
  /\ \A d, e \in Range(explicit) : d[1] = e[1] => d = e
  /\ \A e \in Range(explicit) : e[1] \in Range(variants) => \E d \in Range(explicit) : d[2] = e[1]

(* A value that carries a tag is read as the one variant that the tag leads *)
(* to: every variant has a tag that leads to it, an explicit entry for a    *)
(* variant is kept, and no tag leads out of the union.                      *)
TagsLead(variants, explicit) ==
  LET mapping == Mapping(variants, explicit)
      Leads(tag) == {e[2] : e \in {x \in Range(mapping) : x[1] = tag}}
  IN /\ \A v \in Range(variants) : Tag(mapping, v) # <<>> /\ Leads(Tag(mapping, v)[1]) = {v}
     /\ \A e \in Range(explicit) : e[2] \in Range(variants) => Leads(e[1]) = {e[2]}
     /\ \A e \in Range(mapping) : e[2] \in Range(variants)
================================================================================
