---------------------------- MODULE MCFileSystem ----------------------------
(* FileSystem for TLC: small trees of directories, and calls on them. *)
EXTENDS FileSystem, TLC

Free == [type |-> "free", entry |-> None]
File == [type |-> "file", entry |-> None]
Dir(parent, self, names) ==
  [type |-> "dir",
   entry |-> [e \in Entry |-> CASE e = "." -> self [] e = ".." -> parent
                                [] e \in DOMAIN names -> names[e] [] OTHER -> 0]]

First(tree, removedDirs, cwds, open) ==
  [tree |-> tree, removed |-> removedDirs, cwds |-> cwds, open |-> open]

MCLayout ==
  { First(<<Dir(1, 1, [a |-> 2]), Dir(1, 2, <<>>), Free>>, {}, {1}, 0),
    First(<<Dir(1, 1, [a |-> 2]), Dir(1, 2, [b |-> 3]), Dir(2, 3, <<>>)>>, {}, {1, 3}, 0),
    First(<<Dir(1, 1, [a |-> 2, b |-> 2]), File, Free>>, {}, {1}, 0),
    First(<<Dir(1, 1, [a |-> 2]), File, Free>>, {}, {1}, 2),
    First(<<Dir(1, 1, <<>>), Dir(1, 2, <<>>), Free>>, {2}, {1, 2}, 0),
    First(<<Dir(1, 1, <<>>), Free, Dir(2, 3, <<>>)>>, {3}, {3}, 0) }

MCPath == {<<"/">>, <<"a">>, <<"b">>, <<"a", "b">>, <<"..">>}

(* To a new name, to one that exists, into a directory, of a directory, of *)
(* no file, and to the root.                                               *)
MCLinkPaths ==
  { << <<"a">>, <<"b">> >>, << <<"b">>, <<"a">> >>, << <<"a">>, <<"a">> >>,
    << <<"a">>, <<"a", "b">> >>, << <<"a", "b">>, <<"b">> >>,
    << <<"..">>, <<"b">> >>, << <<"a">>, <<"/">> >> }

Symmetry == Permutations(Process)

=============================================================================
