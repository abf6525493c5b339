------------------------------ MODULE MCTrees ------------------------------
(* Trees with the address of a node, a name store with two entries and     *)
(* one below the first, and two volumes that two commands change.          *)
EXTENDS Trees, TLC

(* Everything is done with one node: it is looked up with and without the  *)
(* lock of the tree, linked, unlinked, and created by a link or without    *)
(* one.                                                                    *)
TheOps == [d \in Addr |-> Operations]
-----------------------------------------------------------------------------
a == <<"a">>
b == <<"b">>
x == <<"x">>

File(v) == [p \in {<<>>} |-> v]
Folder(entries, v) == [p \in {<<>>} \union entries |-> IF p = <<>> THEN Dir ELSE v]
FolderX == Folder({x}, "f")

Link(p, v) == [path |-> p, new |-> v, from |-> {}, unchanged |-> FALSE, kind |-> {}]
Sure(r) == [r EXCEPT !.unchanged = TRUE]
As(r, k) == [r EXCEPT !.kind = {k}]

(* No node: Missing of NameTree.                                           *)
Nil == [p \in {} |-> {}]
Move(p, q) == <<Sure(Link(p, Nil)), [Link(q, Nil) EXCEPT !.from = {p}]>>

(* A link with an assertion, one without, a pair written together, a move  *)
(* that may go over an entry, below itself or above itself, removals, a    *)
(* new root and the removal of the root, which is refused.                 *)
TheBatches == {
  <<Sure(Link(a, FolderX))>>,
  <<Link(a \o x, File("g"))>>,
  <<Sure(Link(a, File("g"))), Sure(Link(b, File("g")))>>,
  Move(a, b), Move(a, a \o x), Move(a \o x, a),
  <<As(Link(a, Nil), "blob")>>,
  <<As(Sure(Link(a, Nil)), "tree")>>,
  <<Link(<<>>, FolderX)>>, <<Link(<<>>, Nil)>> }

TheLookups == {<<a, b>>, <<a \o x>>}
-----------------------------------------------------------------------------
A == <<"v", "a">>
B == <<"v", "b">>
g == <<".grits">>

(* Two volumes: "v" with a file or a directory "a", perhaps a "b" of       *)
(* either kind, and an inbox; "w", which is empty.                         *)
Under(p, v) == [q \in {p \o r : r \in DOMAIN v} |-> v[SubSeq(q, Len(p) + 1, Len(q))]]
Empty == Folder({}, {})
Guarded == Folder({g}, Dir) @@ Under(g \o <<"access.json">>, File({"x"}))
Two == {Nil, File({"2"}), Empty, Guarded @@ Under(a, File({"2"}))}
Bare == Folder({<<"v">>, <<"v", "in">>, <<"w">>}, Dir)
TheVolumes ==
  {Bare @@ Under(A, File({"1"})) @@ Under(B, two) : two \in Two \ {Empty}}
  \cup {Bare @@ Under(A, Folder({a}, {"1"})) @@ Under(B, two) : two \in {Nil, Empty}}

C(cmd, opt, src, dest) == [cmd |-> cmd, opt |-> opt, src |-> src, dest |-> dest]
Far == <<"w", "b">>
Below == Append(B, "a")
Commands ==
  {C("rm", opt, A, <<>>) : opt \in SUBSET {"r", "f"}}
  \cup {C("mkdir", opt, B, <<>>) : opt \in SUBSET {"f"}}
  \cup {C("mkdir", {"p"} \cup opt, Below, <<>>) : opt \in SUBSET {"f"}}
  \cup {C("cp", opt, A, B) : opt \in {{}, {"i"}, {"ff"}}}
  \cup {C("mv", opt, A, B) : opt \in SUBSET {"f"}} \cup {C("mv", opt, A, Far) : opt \in SUBSET {"i"}}
  \cup {C("unzip", opt, A, Below) : opt \in SUBSET {"f"}} \cup {C("unzip", {}, A, B)}
  \cup {C("mv", {}, B, A), C("mv", {}, A, A), C("write", {}, A, <<>>), C("append", {}, A, <<>>),
        C("rmdir", {}, A, <<>>), C("send", {}, <<>>, <<"v", "in">>),
        C("allow", {}, B, <<>>), C("deny", {}, B, "x")}
-----------------------------------------------------------------------------
(* The cache of nodes alone.                                               *)
NodesOnly == part = "nodes" /\ SpecAll
=============================================================================
