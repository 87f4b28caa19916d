----------------------------- MODULE MCVfsTree -----------------------------
(* Small trees, clients and images for VfsTree.                            *)
EXTENDS VfsTree

Rel(el) == [abs |-> FALSE, el |-> el]
Abs(el) == [abs |-> TRUE, el |-> el]

File == [type |-> "REG", to |-> <<>>]
Dir == [type |-> "DIR", to |-> <<>>]
Link(to) == [type |-> "LNK", to |-> to]

Disk(entries) ==
  [p \in Node |-> IF p = Root THEN Dir
                  ELSE IF p \in DOMAIN entries THEN entries[p] ELSE NoEntry]

\* a directory with a link to it beside
LinkImage == Disk([p \in {<<"a">>, <<"b">>} |-> IF p = <<"a">> THEN Dir ELSE Link(<<"a">>)])
MCTarget == {<<"a">>, <<"b">>}
MCPath == {Rel(<<"a">>), Rel(<<"b">>), Rel(<<"b", "a">>), Rel(<<"..">>), Abs(<<>>)}

\* a directory with a file in it
DirImage == Disk([p \in {<<"a">>, <<"a", "b">>} |-> IF p = <<"a">> THEN Dir ELSE File])
DirPath == {Rel(<<"a">>), Rel(<<"a", "b">>), Rel(<<"..">>), Abs(<<>>), Abs(<<"a">>)}
=============================================================================
