-------------------------- MODULE MCClientCache --------------------------
(* ClientCache with a root and two paths below it.                        *)
EXTENDS ClientCache

RootAndTwo == {"", "a", "b"}
UnderRoot == {<<p, p>> : p \in RootAndTwo} \union {<<"", "a">>, <<"", "b">>}
RootOrNot == {RootAndTwo, {"a", "b"}}
=============================================================================
