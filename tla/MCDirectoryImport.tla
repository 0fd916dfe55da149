-------------------------- MODULE MCDirectoryImport --------------------------
(* A file a and a directory d with a file x; d may also be a vault.          *)
EXTENDS DirectoryImport, TLC

MCOrder == <<<<"a">>, <<"d">>, <<"d", "x">>>>

Tree(root, a, d, x) == <<>> :> root @@ <<"a">> :> a @@ <<"d">> :> d @@ <<"d", "x">> :> x

MCSources == {Tree(Dir, "v1", Dir, "v1"), Tree(Dir, "v1", Vault, "v1"), Tree(Vault, "v1", Dir, "v1")}

\* No directory; one to merge with.
MCDests == {Tree(Gone, Gone, Gone, Gone), Tree(Dir, "v2", Gone, Gone)}

LimitAll == [source |-> 1, dest |-> 1, fault |-> 1, crash |-> 1, clean |-> 1, start |-> 1]
=============================================================================
