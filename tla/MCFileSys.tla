----------------------------- MODULE MCFileSys ------------------------------
(* A partition of nine sectors for data, counting the one after its end.   *)
EXTENDS FileSys

MCPaths == {<<"a">>, <<"b">>, <<"a", "b">>}
MCCounts == {2}
=============================================================================
