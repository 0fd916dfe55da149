----------------------------- MODULE MCConvert -----------------------------
(* Bounds for model checking Convert. *)
EXTENDS Convert, TLC

Bounds(edit, create, clean, fault, crash) ==
    [e \in Events |-> CASE e = "edit" -> edit [] e = "create" -> create [] e = "clean" -> clean
                       [] e = "fault" -> fault [] e = "crash" -> crash]

\* Anything goes, a little of each.
LimitAll == Bounds(1, 1, 1, 1, 2)
\* Only crashes, I/O errors and edits.
LimitFaults == Bounds(1, 0, 0, 1, 2)
MCSymmetry == Permutations(Ops)
=============================================================================
