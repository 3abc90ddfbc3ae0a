----------------------------- MODULE MCGenerate -----------------------------
(* Instances of Generate for TLC. *)
EXTENDS Generate

CONSTANTS d1, d2

Path(c) == [abs |-> FALSE, comps |-> c]
A == [path |-> Path(<<"a">>), size |-> 1]
DotA == [path |-> Path(<<".", "a">>), size |-> 1]
AB == [path |-> Path(<<"a", "b">>), size |-> 1]
C == [path |-> Path(<<"c">>), size |-> 2]
Up == [path |-> Path(<<"..", "c">>), size |-> 1]

MCNodes == {<<"a">>, <<"a", "b">>, <<"c">>}
MCFileLists == {<<>>, <<A, C>>, <<C>>, <<AB>>, <<A, AB>>, <<A, DotA>>, <<A, Up>>}

Tolerated == [empty |-> FALSE, tolerant |-> TRUE]
Strict == [empty |-> FALSE, tolerant |-> FALSE]
NoProgram == [empty |-> TRUE, tolerant |-> TRUE]

TwoPipelines ==
  << [stages |-> <<"t", "g">>, dir |-> d1, hooks |-> <<Tolerated, Strict>>],
     [stages |-> <<"h">>, dir |-> d2, hooks |-> <<NoProgram>>] >>
SharedDir ==
  << [stages |-> <<"t", "g">>, dir |-> d1, hooks |-> <<Strict>>],
     [stages |-> <<"h">>, dir |-> d1, hooks |-> <<>>] >>
OnePipeline == << [stages |-> <<"t", "g">>, dir |-> d1, hooks |-> <<Strict>>] >>

MCManifests == {OnePipeline, SharedDir, TwoPipelines}
=============================================================================
