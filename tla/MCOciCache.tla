----------------------------- MODULE MCOciCache -----------------------------
(* Instances of OciCache for TLC: a manifest for each of two layers, or      *)
(* three manifests, two of which declare the same layer.                     *)
EXTENDS OciCache, TLC

CONSTANTS p1, p2, l1, l2, m1, m2, m3, n1, n2, f1, f2

Tag(n) == [name |-> n, digest |-> NoManifest]
Pin(m) == [name |-> NoName, digest |-> m]
TagAndPin(n, m) == [name |-> n, digest |-> m]

PlainRefs == {Tag(n1), Pin(m1), Pin(m2)}
SoloRefs == {Tag(n1), Tag(n2), Pin(m1), TagAndPin(n2, m3)}
RaceRefs == {Tag(n1), Pin(m1), TagAndPin(n1, m2)}

TwoLayerOf == (m1 :> l1) @@ (m3 :> l2)
ThreeLayerOf == (m1 :> l1) @@ (m2 :> l1) @@ (m3 :> l2)

SeparatePaths == (n1 :> f1) @@ (n2 :> f2)
OneName == (n1 :> f1)

ProcSymmetry == Permutations(Procs)
=============================================================================
