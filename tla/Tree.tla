-------------------------------- MODULE Tree --------------------------------
(***************************************************************************)
(* The entries of one secure root and the operations on them: copy (of a   *)
(* file or a directory, with or without overwriting), move, rename,        *)
(* deletion of a file or of a tree, creation of a file or a directory.     *)
(* Sources: native/sec_fs/copy.go, create_entry.go, directory_delete.go,   *)
(* sec_root.go, and lib/services/secure_entry_move_service.dart.           *)
(*                                                                         *)
(* The operations run on threads that share one open root.  A step is one  *)
(* call of that root; Rename is two (the check and the rename), during     *)
(* which the root's lock keeps out every call but the one that is made     *)
(* outside it (the mkdir of CreateDirectory).                              *)
(***************************************************************************)
EXTENDS Naturals, FiniteSets, SequencesExt

CONSTANTS
    Threads,      \* the threads that run operations
    Names,        \* the names of entries
    Hidden,       \* those that start with a dot
    Copying, Replaced,  \* the random temporary and backup name of each operation
    Paths,        \* the paths an entry may have: a bound on the depth of the tree
    Old,          \* contents of the files at the start
    Start,        \* the entries at the start
    Requests,     \* the operations that may be asked for
    MaxCalls,     \* operations asked for
    MaxFaults,    \* failing system calls
    MaxCrashes    \* ends of the process

VARIABLES
    tree,      \* what is at each path
    job,       \* what each thread is doing
    renaming,  \* the thread that holds the root's lock for Rename, or Nobody
    calls, faults, crashes

vars == <<tree, job, renaming, calls, faults, crashes>>

Nobody == "nobody"
None   == "none"     \* nothing at the path
Dir    == "dir"
Empty  == "empty"    \* a file of length zero

(* The random names of uniqueCopyPath are new: one temporary and one       *)
(* backup name of each operation stand for them.  All start with a dot.    *)
Ids      == 1..MaxCalls
OwnNames == {Copying[n] : n \in Ids} \cup {Replaced[n] : n \in Ids}

(* A file that is still being written: the writer holds it open, so it     *)
(* stays the same file when a directory above it is renamed.  Its first    *)
(* name stands for it.                                                     *)
Partial(n) == Copying[n]

(* The entries operations make for themselves, and what is below them      *)
Own(q)  == \E i \in 1..Len(q) : q[i] \in OwnNames
Visible == {q \in Paths : ~Own(q) /\ Last(q) \notin Hidden}

IsFile(x) == x \notin {None, Dir}

Parent(q) == Front(q)
Within(q, top) == IsStrictPrefix(top, q)
Under(q, top)  == IsPrefix(top, q)

Ops == {"copy", "move", "rename", "delete", "deltree", "create", "mkone"}

ASSUME NamesAssumption ==
    /\ MaxCalls \in Nat /\ Ids \subseteq DOMAIN Copying \cap DOMAIN Replaced
    /\ Names \cap OwnNames = {} /\ Hidden \subseteq Names
    /\ \A m, n \in Ids : /\ Copying[m] # Replaced[n]
                         /\ m # n => Copying[m] # Copying[n] /\ Replaced[m] # Replaced[n]
    /\ Nobody \notin Threads

(* With a path come those above it and the names an operation may use      *)
(* beside it.                                                              *)
ASSUME PathsAssumption ==
    /\ IsFiniteSet(Paths) /\ Paths \subseteq Seq(Names \cup OwnNames) \ {<<>>}
    /\ \A q \in Paths : \A n \in 1..Len(q) : SubSeq(q, 1, n) \in Paths
    /\ \A q \in Paths, o \in OwnNames : ~Own(q) => Append(Parent(q), o) \in Paths

(* At the start nothing is left of earlier operations.                     *)
ASSUME StartAssumption ==
    /\ (Old \cup {Empty}) \cap {None, Dir} = {}
    /\ (Old \cup {None, Dir, Empty}) \cap OwnNames = {}
    /\ \A q \in DOMAIN Start :
          /\ q \in Paths /\ ~Own(q) /\ Start[q] \in Old \cup {Empty, Dir}
          /\ \A r \in Paths : Within(q, r) => r \in DOMAIN Start /\ Start[r] = Dir

(* A caller does not know the names the operations make for themselves.    *)
ASSUME RequestsAssumption ==
    \A r \in Requests :
        /\ r.op \in Ops /\ r.over \in BOOLEAN
        /\ r.src \in Paths /\ ~Own(r.src) /\ r.dst \in Paths /\ ~Own(r.dst)

(* q seen from src, put under dst                                          *)
Moved(q, src, dst) == dst \o SubSeq(q, Len(src) + 1, Len(q))

ParentIsDir(tr, q) == \A r \in Paths : Within(q, r) => tr[r] = Dir
Children(tr, q)    == {c \in Paths : Parent(c) = q /\ tr[c] # None}

(***************************************************************************)
(* The calls of the root.                                                  *)
(***************************************************************************)
\* MkdirAll, of a path that is not below a file
CanMkdirAll(tr, q) == \A r \in Paths : Under(q, r) => tr[r] \in {None, Dir}
MkdirAll(tr, q)    == [r \in Paths |-> IF Under(q, r) THEN Dir ELSE tr[r]]

\* os.Remove: a file, or a directory with nothing in it
CanRemove(tr, q) == tr[q] # None /\ Children(tr, q) = {}
RemoveEntry(tr, q)    == [tr EXCEPT ![q] = None]

\* os.Rename: an entry with all that is below it, none too deep at its new
\* place.  A directory made at the target after the check is replaced when
\* both are directories.
CanRename(tr, from, to) ==
    /\ tr[from] # None
    /\ ParentIsDir(tr, to)
    /\ ~Within(to, from)
    /\ tr[to] = Dir => tr[from] = Dir /\ Children(tr, to) = {}
    /\ IsFile(tr[to]) => IsFile(tr[from])
    /\ \A r \in Paths : Under(r, from) /\ tr[r] # None => Moved(r, from, to) \in Paths
RenameEntry(tr, from, to) ==
    [r \in Paths |-> IF Under(r, to) THEN
                         IF Moved(r, to, from) \in Paths THEN tr[Moved(r, to, from)] ELSE None
                     ELSE IF Under(r, from) THEN None ELSE tr[r]]

\* ReadDir without the option that includes hidden entries
Listed(tr, q) == Children(tr, q) \cap Visible

(***************************************************************************)
(* The threads.                                                            *)
(***************************************************************************)
Idle == [pc |-> "idle"]

(* A move is a rename, or a copy and a deletion when it may overwrite.      *)
FirstStep(r) == IF r.op # "move" THEN r.op ELSE IF r.over THEN "copy" ELSE "rename"

(* The work of one operation.  todo: entries still to be copied, each with *)
(* its target and whether the listing said it was a directory; had: the    *)
(* target existed; data: the content read; dir: what the caller knows the  *)
(* source to be; alone: nobody else has been at work since it began, with  *)
(* the tree before.                                                        *)
Job(r, alone) ==
    [id |-> calls + 1, pc |-> FirstStep(r), op |-> r.op, src |-> r.src, dst |-> r.dst, over |-> r.over,
     from |-> r.src, to |-> r.dst, todo |-> <<>>, had |-> FALSE, data |-> None,
     dir |-> tree[r.src] = Dir, alone |-> alone,
     before |-> IF alone THEN tree ELSE <<>>, ok |-> FALSE]

Disturbed(j) == IF j.pc = "idle" THEN j ELSE [j EXCEPT !.alone = FALSE, !.before = <<>>]

(* The lock of the root: its calls wait for a Rename in progress.          *)
Locked(t) == renaming \in {Nobody, t}

(* The record j with the fields of d                                       *)
With(d, j) == [f \in DOMAIN d \cup DOMAIN j |-> IF f \in DOMAIN d THEN d[f] ELSE j[f]]

(* Thread t goes on with the fields of d, and the others are not alone.     *)
Goto(t, d) ==
    job' = [u \in Threads |-> IF u = t THEN With(d, job[t]) ELSE Disturbed(job[u])]

End(t, ok) == Goto(t, [pc |-> "done", ok |-> ok])

Pass == UNCHANGED <<faults, renaming>>

Fault == faults < MaxFaults /\ faults' = faults + 1 /\ UNCHANGED renaming

Fails(t) == End(t, FALSE) /\ UNCHANGED tree

(* A step of thread t at pc, under the root's lock                         *)
At(t, pc) == job[t].pc = pc /\ Locked(t) /\ UNCHANGED <<calls, crashes>>

Begin(t, r) ==
    /\ job[t].pc = "idle" /\ calls < MaxCalls
    /\ calls' = calls + 1
    /\ Goto(t, Job(r, \A u \in Threads : job[u].pc = "idle"))
    /\ UNCHANGED <<tree, renaming, faults, crashes>>

(* The caller has its answer.                                              *)
Answer(t) ==
    /\ job[t].pc = "done"
    /\ job' = [job EXCEPT ![t] = Idle]
    /\ UNCHANGED <<tree, renaming, calls, faults, crashes>>

(***************************************************************************)
(* CopyEntry                                                               *)
(***************************************************************************)
CopyEntry(t) == LET j == job[t] IN
    /\ At(t, "copy") /\ Pass
    /\ \/ /\ j.src = j.dst \/ Within(j.dst, j.src) \/ tree[j.src] = None
          /\ Fails(t)
       \/ /\ j.src # j.dst /\ ~Within(j.dst, j.src) /\ tree[j.src] # None
          /\ Goto(t, [pc |-> IF tree[j.src] = Dir THEN "dir" ELSE "file"])
          /\ UNCHANGED tree

(* FileExists and Stat of the target.  Both are reads: an entry removed    *)
(* between them shows as a call that fails.                                *)
CopyDirectory(t) == LET j == job[t] IN
    /\ At(t, "dir") /\ Pass /\ UNCHANGED tree
    /\ IF IsFile(tree[j.to]) \/ (tree[j.to] = Dir /\ ~j.over)
       THEN End(t, FALSE)
       ELSE Goto(t, [pc |-> IF tree[j.to] = Dir THEN "list" ELSE "mkdir"])

CopyMkdir(t) == LET j == job[t] IN
    /\ At(t, "mkdir")
    /\ \/ /\ CanMkdirAll(tree, j.to) /\ Pass
          /\ tree' = MkdirAll(tree, j.to)
          /\ Goto(t, [pc |-> "list"])
       \/ ~CanMkdirAll(tree, j.to) /\ Pass /\ Fails(t)
       \/ Fault /\ Fails(t)

(* What is in the directory of j to copy, none of it too deep at its target *)
CanList(j) == /\ tree[j.from] = Dir
              /\ \A c \in Listed(tree, j.from) : Moved(c, j.src, j.dst) \in Paths

(* The entries, in the order the file system has them, come before what    *)
(* is left of the directories above.                                       *)
CopyList(t) == LET j == job[t] IN
    /\ At(t, "list") /\ UNCHANGED tree
    /\ \/ /\ CanList(j) /\ Pass
          /\ \E order \in SetToSeqs(Listed(tree, j.from)) :
               Goto(t, [pc |-> "next",
                        todo |-> [i \in 1..Len(order) |->
                                    [from |-> order[i], to |-> Moved(order[i], j.src, j.dst),
                                     dir |-> tree[order[i]] = Dir]] \o j.todo])
       \/ ~CanList(j) /\ Pass /\ End(t, FALSE)
       \/ Fault /\ End(t, FALSE)

CopyNext(t) == LET j == job[t] IN
    /\ At(t, "next") /\ Pass /\ UNCHANGED tree
    /\ IF j.todo = <<>>
       THEN IF j.op # "move" THEN End(t, TRUE)
            ELSE Goto(t, [pc |-> IF j.dir THEN "deltree" ELSE "delete"])
       ELSE Goto(t, [pc |-> IF Head(j.todo).dir THEN "dir" ELSE "file",
                     from |-> Head(j.todo).from, to |-> Head(j.todo).to,
                     todo |-> Tail(j.todo)])

CopyFile(t) == LET j == job[t] IN
    /\ At(t, "file") /\ Pass /\ UNCHANGED tree
    /\ IF tree[j.to] = Dir \/ (IsFile(tree[j.to]) /\ ~j.over)
       THEN End(t, FALSE)
       ELSE Goto(t, [pc |-> "open", had |-> tree[j.to] # None])

(* The source is open from here on: its content is the one it has now.     *)
CopyOpen(t) == LET j == job[t] IN
    /\ At(t, "open") /\ UNCHANGED tree
    /\ \/ IsFile(tree[j.from]) /\ Pass /\ Goto(t, [pc |-> "temp", data |-> tree[j.from]])
       \/ ~IsFile(tree[j.from]) /\ Pass /\ End(t, FALSE)
       \/ Fault /\ End(t, FALSE)

(* The temporary file beside the target of thread t                        *)
TempPath(t)   == Append(Parent(job[t].to), Copying[job[t].id])
BackupPath(t) == Append(Parent(job[t].to), Replaced[job[t].id])

(* MkdirAll of the parent, and the creation of the temporary file, which   *)
(* makes the parent again when it has gone.                                *)
CopyTemp(t) == LET up == Parent(job[t].to) IN
    /\ At(t, "temp")
    /\ \/ /\ CanMkdirAll(tree, up) /\ Pass
          /\ tree' = [MkdirAll(tree, up) EXCEPT ![TempPath(t)] = Partial(job[t].id)]
          /\ Goto(t, [pc |-> "data"])
       \/ ~CanMkdirAll(tree, up) /\ Pass /\ Fails(t)
       \/ Fault /\ Fails(t)

(* io.Copy and Close: the file is complete, wherever it is by now.         *)
CopyData(t) == LET j == job[t] IN
    /\ At(t, "data")
    /\ \/ /\ Pass
          /\ tree' = [q \in Paths |-> IF tree[q] = Partial(job[t].id) THEN j.data ELSE tree[q]]
          /\ Goto(t, [pc |-> IF j.had THEN "backup" ELSE "commit"])
       \/ Fault /\ UNCHANGED tree /\ Goto(t, [pc |-> "drop"])

(* The renames: of the request, of the copy to its target, of the target   *)
(* to the backup, of the copy to the target so freed, and of the backup    *)
(* back when that fails.                                                   *)
Renames == {"rename", "commit", "backup", "swap", "undo"}

RenameFrom(t) == CASE job[t].pc = "rename" -> job[t].src
                   [] job[t].pc \in {"commit", "swap"} -> TempPath(t)
                   [] job[t].pc = "backup" -> job[t].to
                   [] OTHER -> BackupPath(t)
RenameTo(t) == CASE job[t].pc = "rename" -> job[t].dst
                 [] job[t].pc = "backup" -> BackupPath(t)
                 [] OTHER -> job[t].to

AfterRenameNoUndo(t, ok) ==
    CASE job[t].pc = "rename" -> End(t, ok)
      [] job[t].pc = "commit" -> Goto(t, [pc |-> IF ok THEN "next" ELSE "drop"])
      [] job[t].pc = "backup" -> Goto(t, [pc |-> IF ok THEN "swap" ELSE "drop"])
      [] OTHER                -> Goto(t, [pc |-> IF ok THEN "unback" ELSE "drop"])

AfterRename(t, ok) ==
    CASE job[t].pc = "rename" -> End(t, ok)
      [] job[t].pc = "commit" -> Goto(t, [pc |-> IF ok THEN "next" ELSE "drop"])
      [] job[t].pc = "backup" -> Goto(t, [pc |-> IF ok THEN "swap" ELSE "drop"])
      [] job[t].pc = "swap"   -> Goto(t, [pc |-> IF ok THEN "unback" ELSE "undo"])
      [] OTHER                -> Goto(t, [pc |-> "drop"])

RenameCheckNot(t) ==
    /\ job[t].pc \in Renames /\ renaming = Nobody
    /\ renaming' = t
    /\ UNCHANGED <<tree, job, calls, crashes, faults>>

(* Rename takes the lock for itself and refuses a target that exists.      *)
RenameCheck(t) ==
    /\ job[t].pc \in Renames /\ renaming = Nobody
    /\ UNCHANGED <<tree, calls, crashes, faults>>
    /\ IF RenameFrom(t) # RenameTo(t) /\ tree[RenameTo(t)] = None
       THEN renaming' = t /\ UNCHANGED job
       ELSE UNCHANGED renaming /\ AfterRename(t, RenameFrom(t) = RenameTo(t))

RenameDo(t) ==
    /\ renaming = t /\ renaming' = Nobody
    /\ UNCHANGED <<calls, crashes>>
    /\ \/ /\ CanRename(tree, RenameFrom(t), RenameTo(t))
          /\ tree' = RenameEntry(tree, RenameFrom(t), RenameTo(t))
          /\ AfterRename(t, TRUE) /\ UNCHANGED faults
       \/ /\ ~CanRename(tree, RenameFrom(t), RenameTo(t))
          /\ AfterRename(t, FALSE) /\ UNCHANGED <<tree, faults>>
       \/ /\ faults < MaxFaults /\ faults' = faults + 1
          /\ AfterRename(t, FALSE) /\ UNCHANGED tree

CopyDropBoth(t) ==
    /\ At(t, "drop") /\ End(t, FALSE) /\ Pass
    /\ tree' = [q \in Paths |-> IF q \in {TempPath(t), BackupPath(t)} THEN None ELSE tree[q]]

(* DeleteFile of the temporary file, whose error is not looked at          *)
CopyDrop(t) ==
    /\ At(t, "drop") /\ End(t, FALSE)
    /\ \/ Pass /\ tree' = IF CanRemove(tree, TempPath(t)) THEN RemoveEntry(tree, TempPath(t)) ELSE tree
       \/ Fault /\ UNCHANGED tree

(* DeleteFile of the backup                                                *)
CopyUnback(t) ==
    /\ At(t, "unback")
    /\ \/ /\ CanRemove(tree, BackupPath(t)) /\ Pass
          /\ tree' = RemoveEntry(tree, BackupPath(t)) /\ Goto(t, [pc |-> "next"])
       \/ ~CanRemove(tree, BackupPath(t)) /\ Pass /\ Fails(t)
       \/ Fault /\ Fails(t)

(***************************************************************************)
(* The other operations                                                    *)
(***************************************************************************)
DeleteFile(t) == LET j == job[t] IN
    /\ At(t, "delete")
    /\ \/ /\ CanRemove(tree, j.src) /\ Pass
          /\ tree' = RemoveEntry(tree, j.src) /\ End(t, TRUE)
       \/ ~CanRemove(tree, j.src) /\ Pass /\ Fails(t)
       \/ Fault /\ Fails(t)

(* deleteDirectoryTree: a directory only, looked through before ...         *)
DeleteDirectoryTree(t) ==
    /\ At(t, "deltree") /\ Pass /\ UNCHANGED tree
    /\ IF tree[job[t].src] = Dir THEN Goto(t, [pc |-> "clear"]) ELSE End(t, FALSE)

(* ... RemoveAll takes away what is in it, one entry at a time, and then    *)
(* the directory itself.                                                   *)
RemoveAll(t) == LET j == job[t] IN
    /\ At(t, "clear")
    /\ \/ \E c \in Paths :
            /\ Within(c, j.src) /\ CanRemove(tree, c) /\ Pass
            /\ tree' = RemoveEntry(tree, c) /\ Goto(t, [pc |-> "clear"])
       \/ /\ Children(tree, j.src) = {} /\ Pass
          /\ tree' = RemoveEntry(tree, j.src) /\ End(t, TRUE)
       \/ Fault /\ Fails(t)

(* CreateEmptyFile: OpenFile makes the parent and refuses what exists; when *)
(* Close fails, what is at the path by then is deleted.                    *)
CreateEmptyFile(t) == LET j == job[t] IN
    /\ At(t, "create")
    /\ \/ /\ CanMkdirAll(tree, Parent(j.dst)) /\ tree[j.dst] = None /\ Pass
          /\ tree' = [MkdirAll(tree, Parent(j.dst)) EXCEPT ![j.dst] = Empty]
          /\ Goto(t, [pc |-> "close"])
       \/ /\ ~(CanMkdirAll(tree, Parent(j.dst)) /\ tree[j.dst] = None) /\ Pass /\ Fails(t)

CloseEmptyFile(t) == LET j == job[t] IN
    /\ At(t, "close")
    /\ \/ Pass /\ End(t, TRUE) /\ UNCHANGED tree
       \/ /\ Fault /\ End(t, FALSE)
          /\ tree' = IF CanRemove(tree, j.dst) THEN RemoveEntry(tree, j.dst) ELSE tree

(* CreateDirectory: only GetStorePath is under the lock; the mkdir is made *)
(* past it, whatever Rename is doing.                                      *)
CreateDirectory(t) ==
    /\ At(t, "mkone") /\ Pass /\ UNCHANGED tree
    /\ Goto(t, [pc |-> "mkdir1"])

Mkdir(t) == LET j == job[t] IN
    /\ j.pc = "mkdir1" /\ Pass /\ UNCHANGED <<calls, crashes>>
    /\ \/ /\ tree[j.dst] = None /\ ParentIsDir(tree, j.dst)
          /\ tree' = [tree EXCEPT ![j.dst] = Dir] /\ End(t, TRUE)
       \/ ~(tree[j.dst] = None /\ ParentIsDir(tree, j.dst)) /\ Fails(t)

(* The process ends: its threads and its lock go, the files stay.           *)
Crash ==
    /\ crashes < MaxCrashes /\ crashes' = crashes + 1
    /\ \E t \in Threads : job[t].pc # "idle"
    /\ job' = [t \in Threads |-> Idle]
    /\ renaming' = Nobody
    /\ UNCHANGED <<tree, calls, faults>>

Init ==
    /\ tree = [q \in Paths |-> IF q \in DOMAIN Start THEN Start[q] ELSE None]
    /\ job = [t \in Threads |-> Idle]
    /\ renaming = Nobody
    /\ calls = 0 /\ faults = 0 /\ crashes = 0

Step(t) ==
    \/ \E r \in Requests : Begin(t, r)
    \/ CopyEntry(t) \/ CopyDirectory(t) \/ CopyMkdir(t) \/ CopyList(t) \/ CopyNext(t)
    \/ CopyFile(t) \/ CopyOpen(t) \/ CopyTemp(t) \/ CopyData(t)
    \/ RenameCheck(t) \/ RenameDo(t) \/ CopyDrop(t) \/ CopyUnback(t)
    \/ DeleteFile(t) \/ DeleteDirectoryTree(t) \/ RemoveAll(t)
    \/ CreateEmptyFile(t) \/ CloseEmptyFile(t) \/ CreateDirectory(t) \/ Mkdir(t)
    \/ Answer(t)

Next == (\E t \in Threads : Step(t)) \/ Crash

Spec == Init /\ [][Next]_vars

(***************************************************************************)
(* Properties                                                              *)
(***************************************************************************)
(* The contents of complete files, those of unfinished copies apart        *)
Contents(tr) == {tr[q] : q \in {r \in Paths : ~\E n \in Ids : Last(r) = Copying[n]}}
                \cap (Old \cup {Empty})

(* The paths an operation in progress was asked to change: what it was     *)
(* told to delete or move, what it was told to overwrite, and the empty    *)
(* file it has made itself.                                                *)
AskedToRemove(j, q) ==
    /\ j.pc \notin {"idle", "done"}
    /\ \/ j.op \in {"delete", "deltree", "move", "rename"} /\ Under(q, j.src)
       \/ j.op \in {"copy", "move"} /\ j.over /\ Under(q, j.dst)
       \/ j.pc = "close" /\ q = j.dst /\ tree[q] = Empty

(* What the code does besides: CreateEmptyFile deletes by path when its    *)
(* Close fails (create_entry.go:23), and the file that another call has    *)
(* put in the place of its own by then is gone.                            *)
ClosesOver(t, q) ==
    job[t].pc = "close" /\ q = job[t].dst /\ tree[q] # Empty /\ faults' = faults + 1

(* A file keeps its place and its content unless an operation in progress  *)
(* was asked to remove, move or replace it: no order of two operations     *)
(* makes one of them write over a file it found absent, and no failure     *)
(* makes an operation take away a file of somebody else (the checks of     *)
(* CopyEntry, the refusal of Rename, the creation without replacing) -     *)
(* with the one exception of ClosesOver, a creation whose Close fails      *)
(* after its file was replaced.                                            *)
NothingUnasked ==
    [][\A q \in Visible : IsFile(tree[q]) /\ tree'[q] # tree[q] =>
           \E t \in Threads : AskedToRemove(job[t], q) \/ ClosesOver(t, q)]_vars

(* The removals that are the last step of a deletion (of its own, or of the *)
(* source at the end of a move), of a replacement, or of a creation that   *)
(* fails and takes its own empty file back                                 *)
MayRemove(t, q) == LET j == job[t] IN
    \/ j.pc = "delete" /\ q = j.src
    \/ j.pc = "clear" /\ Under(q, j.src)
    \/ j.pc = "close" /\ q = j.dst /\ tree[q] = Empty
    \/ j.pc = "unback" /\ q = BackupPath(t)

(* A content that leaves the root for good leaves it by the last step of   *)
(* an operation that may do that: a deletion, or the removal of the backup *)
(* once the copy that replaces it is in place.  A failure or a crash in    *)
(* the middle of a replacing copy leaves it in the tree, under the         *)
(* target's name or the backup's.  The one exception is ClosesOver: the    *)
(* content put over a new empty file goes with it when its Close fails.    *)
NothingLost ==
    [][\A v \in Contents(tree) \ Contents(tree') :
           \E t \in Threads, q \in Paths :
               tree[q] = v /\ tree'[q] = None /\ (MayRemove(t, q) \/ ClosesOver(t, q))]_vars

(* What the tree is after a copy or a move: the entries that are taken     *)
(* along (all by a rename; by a copy those to which listings lead from the *)
(* source) are at dst and nothing but what was moved has gone.             *)
Taken(j) ==
    {q \in Paths :
        /\ Under(q, j.src) /\ j.before[q] # None
        /\ FirstStep(j) = "copy" => \A r \in Paths : Under(q, r) /\ Within(r, j.src) => r \in Visible}
After(j) ==
    [q \in Paths |->
        IF \E s \in Taken(j) : Moved(s, j.src, j.dst) = q
        THEN j.before[CHOOSE s \in Taken(j) : Moved(s, j.src, j.dst) = q]
        ELSE IF j.op # "copy" /\ Under(q, j.src) THEN None
        ELSE IF Within(j.dst, q) THEN Dir
        ELSE j.before[q]]

(* The copy of a directory into one that is above it and may be overwritten *)
MergesAbove(j) == FirstStep(j) = "copy" /\ j.over /\ Within(j.src, j.dst)

(* A copy, a move or a rename that succeeds with nobody else at work does  *)
(* exactly that, and leaves no temporary file or backup; one that fails    *)
(* after a single failing call leaves every file that can be seen with the *)
(* content it had or with the one the operation was to give it.  A         *)
(* directory merged into one above it may write into itself: that case is  *)
(* MovesAreComplete's.                                                     *)
CopiesAreExact ==
    \A t \in Threads : LET j == job[t] IN
        /\ j.pc = "done" /\ j.alone /\ j.op \in {"copy", "move", "rename"}
        /\ ~MergesAbove(j)
        => IF j.ok THEN j.src = j.dst \/ tree = After(j)
           ELSE faults <= 1 => \A q \in Visible : IsFile(j.before[q]) =>
                                  tree[q] \in {j.before[q], After(j)[q]}

(* A move takes everything along: "the source is deleted only after the    *)
(* target directory has been copied completely"                            *)
(* (docs/design/CROSS_ROOT_DIRECTORY_MOVE_DESIGN.md:9).                    *)
MovesAreComplete ==
    \A t \in Threads : LET j == job[t] IN
        j.pc = "done" /\ j.alone /\ j.op = "move" /\ j.ok =>
            \A q \in Paths : Under(q, j.src) /\ IsFile(j.before[q]) =>
                j.before[q] \in Contents(tree)
=============================================================================
