---------------------------- MODULE MCRootLock ----------------------------
(* Bounds for model checking RootLock. *)
EXTENDS RootLock, TLC

Bounds(edit, save, timeout, lock, end) ==
    [e \in Events |-> CASE e = "edit" -> edit [] e = "save" -> save
                       [] e = "timeout" -> timeout
                       [] e = "lock" -> lock [] e = "end" -> end]

\* Two editors and two saves crossing with one automatic lock.
LimitSaves == Bounds(2, 2, 0, 1, 0)
\* Windows and texts are interchangeable; used where no liveness is checked.
Symmetry == Permutations(Windows) \cup Permutations(Texts)
\* Automatic locks, endings by hand and unlocks crossing.
LimitLocks == Bounds(1, 1, 1, 2, 1)
=============================================================================
