------------------------------- MODULE MCInode -------------------------------
(* The root and a directory /a at the start; one process removes what the  *)
(* other one uses.                                                         *)
EXTENDS Inode

CONSTANTS p1, p2

Dir(up, nlink, i, n, child) ==
  [type |-> "dir", nlink |-> nlink,
   ent |-> [NoEntries EXCEPT !["."] = i, ![".."] = up, ![n] = child]]
MCImage == [i \in Inums |-> CASE i = 1 -> Dir(1, 2, 1, "a", 2)
                              [] i = 2 -> Dir(1, 1, 2, "a", 0)
                              [] OTHER -> FreeInode]

Abs(elems) == [abs |-> TRUE, elems |-> elems]
Rel(elems) == [abs |-> FALSE, elems |-> elems]
Call(op, path) == [op |-> op, path |-> path, new |-> None]

MCCalls ==
  (p1 :> {Call("mkdir", Abs(<<"a", "b">>)), Call("unlink", Abs(<<"a", "b">>)),
          Call("unlink", Abs(<<"a">>)), Call("mknod", Abs(<<"b">>))})
  @@
  (p2 :> {Call("create", Abs(<<"a", "b">>)), Call("chdir", Abs(<<"a", "b">>)),
          Call("chdir", Rel(<<"..">>)), Call("unlink", Abs(<<"b">>)),
          Call("open", Abs(<<>>)),
          [op |-> "link", path |-> Abs(<<"a", "b">>), new |-> Abs(<<"b">>)]})
==============================================================================
