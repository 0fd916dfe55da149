--------------------------- MODULE MCFileReplace ---------------------------
(* Bounds for model checking FileReplace. *)
EXTENDS FileReplace

Bounds(start, write, fault, crash, clean) ==
    [e \in Events |-> CASE e = "start" -> start [] e = "write" -> write [] e = "fault" -> fault
                       [] e = "crash" -> crash [] e = "clean" -> clean]

LimitAll == Bounds(2, 1, 1, 2, 1)
=============================================================================
