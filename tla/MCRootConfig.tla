---------------------------- MODULE MCRootConfig ----------------------------
(* Two processes, two passwords, one hint beside the empty one.  See the      *)
(* README for the bounds.                                                     *)
EXTENDS RootConfig

CONSTANTS p1, p2, pwA, pwB

MCProcs == {p1, p2}
MCPasswords == {pwA, pwB}

Creation(alg, ms, need, changeable, hint) ==
    [alg |-> alg, ms |-> ms, need |-> need, changeable |-> changeable, hint |-> hint]

\* Three of the derivers, with and without an envelope and a hint; AES-XTS needs
\* 64 bytes.
MCCreateOptions ==
    {Creation("", 0, 64, TRUE, "none"), Creation("scrypt", 600, 32, FALSE, "h"),
     Creation("HKDF-SHA-256", 0, 1, FALSE, "none")}
=============================================================================
