------------------------------ MODULE MCNames -------------------------------
(* Two processes, the root and two more inodes, two names.                 *)
EXTENDS Names, TLC

CONSTANTS p1, p2

TwoProcs == {p1, p2}
Symm == Permutations(TwoProcs)
ThreeInums == 1 .. 3
TwoNames == {"a", "b"}

Root == [abs |-> TRUE, elems |-> <<>>]
Abs(s) == [abs |-> TRUE, elems |-> s]
Rel(s) == [abs |-> FALSE, elems |-> s]
Req(call, path) == [call |-> call, path |-> path, new |-> Root]
Link(old, new) == [call |-> "link", path |-> old, new |-> new]

Files == {Req("create", Abs(<<"a">>)), Req("unlink", Rel(<<"a">>)),
          Link(Abs(<<"a">>), Abs(<<"b">>)), Req("unlink", Abs(<<"b">>))}
Dirs == {Req("mkdir", Abs(<<"a">>)), Req("chdir", Abs(<<"a">>)),
         Req("create", Rel(<<"b">>)), Req("unlink", Abs(<<"a">>))}
Tree == {Req("mkdir", Rel(<<"a">>)), Req("mknod", Abs(<<"a", "b">>)),
         Req("unlink", Rel(<<"a", "b">>)), Req("unlink", Abs(<<"a">>)),
         Req("mknod", Abs(<<"a">>)), Link(Abs(<<"a">>), Abs(<<"a", "b">>))}
Kinds == {Req("mknod", Abs(<<"a">>)), Req("open", Rel(<<"a">>)), Req("chdir", Abs(<<"a">>)),
          Link(Rel(<<"a">>), Root), Req("create", Rel(<<"a">>)), Req("unlink", Abs(<<"a">>)),
          Req("mkdir", Root)}
Parents == {Req("mkdir", Abs(<<"a">>)), Req("mkdir", Abs(<<"a", "b">>)),
            Req("chdir", Abs(<<"a", "b">>)), Req("unlink", Abs(<<"a", "b">>)),
            Req("unlink", Abs(<<"a">>)), Req("chdir", Rel(<<"..">>))}
SomeLoads == {Files, Dirs, Tree, Kinds, Parents}
=============================================================================
