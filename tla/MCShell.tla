------------------------------ MODULE MCShell -------------------------------
(* Lines of seven characters, argv for two words, paths of six characters. *)
EXTENDS Shell

MCPathArgs == BoundedSeq({"a", ".", "/"}, 6) \ {<<>>}
MCDirs == {<<>>, <<<<"a">>>>, <<<<"a">>, <<"a">>>>}
=============================================================================
