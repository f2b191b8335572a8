--------------------------- MODULE MCCheckRegistry ---------------------------
(* Two plugins of the same name in two namespaces, and one that is alone with *)
(* its name.                                                                  *)
EXTENDS CheckRegistry, TLC

SpecSymmetry == Permutations(Specs)

MCPlugins == {<<"ns1", "a">>, <<"ns2", "a">>, <<"ns1", "b">>}
=============================================================================
