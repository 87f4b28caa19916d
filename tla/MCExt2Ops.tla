----------------------------- MODULE MCExt2Ops -----------------------------
(* Links of one character, whose number is that of a block or of none, and *)
(* a link too long for its inode.                                          *)
EXTENDS Ext2Ops, TLC

MCText == {[len |-> 1, no |-> 11], [len |-> 1, no |-> 97], [len |-> 3, no |-> 97]}
MCSymmetry == Permutations(Name) \cup Permutations(Ino) \cup Permutations(Handle)
=============================================================================
