------------------------------ MODULE MCDCache ------------------------------
(* A small name space: /a, /a/b, /a/c, /b and /b/a, where b and a mean        *)
(* different inodes in different directories, and two names that do not exist. *)
EXTENDS DCache, TLC

MCDir == [i \in Inodes |->
            CASE i = 2 -> ("a" :> 3 @@ "b" :> 4 @@ "c" :> 0)
              [] i = 3 -> ("a" :> 0 @@ "b" :> 5 @@ "c" :> 6)
              [] i = 4 -> ("a" :> 7 @@ "b" :> 0 @@ "c" :> 0)
              [] OTHER -> ("a" :> 0 @@ "b" :> 0 @@ "c" :> 0)]

MCPaths == {<<>>, <<"a">>, <<"b">>, <<"c">>, <<"a", "b">>, <<"a", "c">>, <<"b", "a">>,
            <<"b", "b">>}

\* Two files of the root directory.
MCFlatPaths == {<<"a">>, <<"b">>}
=============================================================================
