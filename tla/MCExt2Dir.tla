----------------------------- MODULE MCExt2Dir -----------------------------
(* A directory of three blocks of 10 words, with names of two lengths.     *)
EXTENDS Ext2Dir

MCDots == {".", ".."}
MCNeed == [n \in Names |-> IF n = NoName THEN 2 ELSE IF n = "c" THEN 7 ELSE 3]

Ent(n, ino, len) == [name |-> n, ino |-> ino, len |-> len]
Dotted == [o \in {0, 3} |-> IF o = 0 THEN Ent(".", 1, 3) ELSE Ent("..", 2, BlockWords - 3)]
Hole == [o \in {0} |-> Ent(NoName, 0, BlockWords)]

\* as ext2 drivers leave it: the first entry of the block was removed
Ghost == [o \in {0, 3} |-> IF o = 0 THEN Ent("b", 0, 3) ELSE Ent("a", 1, BlockWords - 3)]

\* what mkdir makes, and directories with a block kept for later (lost+found),
\* and with one whose first name was removed by another driver
MCImages == {[i \in 0 .. 0 |-> Dotted]}
            \cup {[i \in 0 .. 1 |-> IF i = 0 THEN Dotted ELSE last] : last \in {Hole, Ghost}}

\* zeros, a block that was freed with the last name in it, and the first block
\* of another directory, which was removed
Alone == [o \in {0} |-> Ent("a", 2, BlockWords)]
MCLeft == {[o \in {} |-> 0], Alone, Dotted}
=============================================================================
