------------------------------ MODULE MCWebDav ------------------------------
(* Small instances of WebDav: two handles of one root path. *)
EXTENDS WebDav, TLC

CONSTANTS h1, h2, r1, i1, i2, m1, m2

MCRootOf == [h \in Handles |-> r1]

\* A temporary session on any port, and a persistent one that wants its own.
MCOptions ==
    {[life |-> "ephemeral", tls |-> FALSE, port |-> NoPort, mode |-> ""],
     [life |-> "persistent", tls |-> TRUE, port |-> 1, mode |-> "digest"]}
=============================================================================
