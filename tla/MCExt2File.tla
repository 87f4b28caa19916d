---------------------------- MODULE MCExt2File ----------------------------
(* A file of at most two blocks of three bytes, two callers.              *)
EXTENDS Ext2File, TLC

MCPayload == {<<"y", "x">>, <<"x", "y", "y", "x">>}

MCSymmetry == Permutations(Block) \cup Permutations(Handle)
=============================================================================
