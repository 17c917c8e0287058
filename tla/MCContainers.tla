----------------------------- MODULE MCContainers -----------------------------
(***************************************************************************)
(* Containers for TLC: blocks of two, four and eight slots, so that every  *)
(* container grows twice, and heaps of six nodes, three levels.            *)
(***************************************************************************)
EXTENDS Containers

MCSources == {<<>>, <<"a">>, <<"b", "a", "a">>}
MCAlphabet == [path   |-> {"a", "b", "/"},
               format |-> {"a", "{", "}"},
               escape |-> {"esc", "[", "2", ";", "K", "E"}]
MCArguments == {<<>>, <<<<"a">>>>, <<<<"{", "}">>, <<"b">>>>, <<<<>>, <<"}">>, <<"{">>>>}
=============================================================================
