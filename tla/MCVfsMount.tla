----------------------------- MODULE MCVfsMount -----------------------------
(* A directory with a subdirectory, and one beside it.                     *)
EXTENDS VfsMount, TLC

MCDir == {<<>>, <<"a">>, <<"a", "b">>, <<"c">>}
MCSymmetry == Permutations(Handle)
=============================================================================
