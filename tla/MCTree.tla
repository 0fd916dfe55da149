------------------------------- MODULE MCTree -------------------------------
(* A directory a with a file x, a file b, and a free name c: a copy of a   *)
(* to c can be repeated to merge, a copy of b goes over a file or a        *)
(* directory.                                                              *)
EXTENDS Walker, TLC

MCNames == {"a", "b", "c", "x", ".h"}

\* Two levels: a to c in the root, x in each of them
MCPaths == {<<n>> : n \in {"a", "b", "c"} \cup OwnNames}
           \cup {<<n, k>> : n \in {"a", "b", "c"}, k \in {"x"} \cup OwnNames}

MCStart == <<"a">> :> Dir @@ <<"a", "x">> :> "v1" @@ <<"b">> :> "v2"

(* x holds a directory x, which holds a hidden file and a directory x with  *)
(* a file.                                                                 *)
MCPathsNested ==
    LET x(n) == [i \in 1..n |-> "x"]
    IN {x(n) : n \in 1..3} \cup {Append(x(n), o) : n \in 0..3, o \in {"a", ".h"} \cup OwnNames}
MCStartNested == <<"x">> :> Dir @@ <<"x", "x">> :> Dir @@ <<"x", "x", "x">> :> Dir
                 @@ <<"x", "x", "x", "a">> :> "v1" @@ <<"x", "x", ".h">> :> "v2"

MCCopying  == <<".copying1", ".copying2">>
MCReplaced == <<".replaced1", ".replaced2">>

Op(op, src, dst, over) == [op |-> op, src |-> src, dst |-> dst, over |-> over]

MCRequests ==
    {Op(op, s, d, over) : op \in {"copy", "move"}, over \in BOOLEAN,
                          s \in {<<"a">>, <<"b">>}, d \in {<<"b">>, <<"c">>}}
    \cup {Op("copy", <<"b">>, <<"a", "x">>, TRUE), Op("copy", <<"a">>, <<"a", "x">>, TRUE),
          Op("copy", <<"b">>, <<"c", "x">>, FALSE), Op("rename", <<"a">>, <<"c">>, FALSE),
          Op("delete", <<"b">>, <<"b">>, FALSE), Op("deltree", <<"a">>, <<"a">>, FALSE),
          Op("create", <<"c">>, <<"c">>, FALSE), Op("create", <<"c", "x">>, <<"c", "x">>, FALSE),
          Op("mkone", <<"c">>, <<"c">>, FALSE)}

(* x/x is moved onto x, to be merged with it.                              *)
MCRequestsNested == {Op("move", <<"x", "x">>, <<"x">>, TRUE)}

NoWalks == {}

(* Listings of the root, and its export with room for one directory and    *)
(* for more                                                                *)
MCWalks ==
    {[op |-> "list", src |-> <<>>, recursive |-> FALSE, hidden |-> FALSE, pending |-> 0]}
    \cup {[op |-> "export", src |-> <<>>, recursive |-> TRUE, hidden |-> TRUE, pending |-> n] : n \in {0, 1}}
=============================================================================
