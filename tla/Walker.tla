------------------------------- MODULE Walker -------------------------------
(***************************************************************************)
(* Walks over the directories of a secure root while other threads change  *)
(* them: the listings of the program (ReadDir_FFI, the list command) and   *)
(* the export of a directory, which walks twice, to count and to export.   *)
(* Sources: native/sec_fs/sec_dir_walker.go, and walkRootEntries and       *)
(* exportDirectory of sec_transfer/v3/manager.go.                          *)
(*                                                                         *)
(* Only WalkDir itself is under the lock of the root.  What the walker     *)
(* holds is an open directory, which stays the same directory when it is   *)
(* renamed, a batch of names read from it, and paths still to be opened.   *)
(* Options no caller sets (MaxDepth, SkipFiles, SkipDirs) and calls none   *)
(* makes (NextBatch, HasNext, Reset) are left out.                         *)
(***************************************************************************)
EXTENDS Tree, Integers, FiniteSetsExt

CONSTANTS
    Walks,       \* the walks that may be asked for
    Batch,       \* defaultBatchSize
    DefaultPending, MaximumPending   \* bounds on the directories still to be opened

ASSUME WalkerAssumption ==
    /\ Batch \in Nat \ {0} /\ DefaultPending \in Nat \ {0} /\ MaximumPending \in Nat \ {0}

(* A walk of the root, which is <<>>, or of a directory                    *)
ASSUME WalksAssumption ==
    \A r \in Walks :
        /\ r.op \in {"list", "export"} /\ (r.src = <<>> \/ (r.src \in Paths /\ ~Own(r.src)))
        /\ r.recursive \in BOOLEAN /\ r.hidden \in BOOLEAN /\ r.pending \in Int

VARIABLES
    handle,   \* where the directory is that each walker has open
    there     \* history: the entries in place, unchanged, since the walk began

allVars == <<vars, handle, there>>

Gone == <<"gone">>   \* the open directory was removed

MaxPendingDirectories(limit) ==
    IF limit < 1 THEN DefaultPending
    ELSE IF limit > MaximumPending THEN MaximumPending ELSE limit

Exists(q)      == q \in Paths /\ tree[q] # None
IsDirectory(q) == q = <<>> \/ (q \in Paths /\ tree[q] = Dir)

(* A walk: raw is the batch, seen what the directory has given so far,     *)
(* stack the directories to open, got what Next returned, copied what was  *)
(* exported.  An export counts in a first walk.                            *)
Walk(r) ==
    [id |-> calls + 1, pc |-> "walkdir", op |-> r.op, src |-> r.src, opt |-> r,
     alone |-> FALSE, before |-> <<>>, ok |-> FALSE, counting |-> r.op = "export",
     dir |-> r.src, raw |-> <<>>, seen |-> {}, stack |-> <<>>, got |-> <<>>, copied |-> <<>>]

Walking(j) == j.pc # "idle" /\ j.op \in {"list", "export"}

AskWalk(t, r) ==
    /\ job[t].pc = "idle" /\ calls < MaxCalls
    /\ calls' = calls + 1
    /\ Goto(t, Walk(r))
    /\ UNCHANGED <<tree, renaming, faults, crashes, handle>>

(* A step of the walker, outside the lock                                  *)
Outside(t, pc) == job[t].pc = pc /\ UNCHANGED <<tree, calls, crashes>>

(* The directory at q is open: nothing has been read from it.              *)
Opens(t, q, d) ==
    /\ handle' = [handle EXCEPT ![t] = q]
    /\ Goto(t, With(d, [dir |-> q, raw |-> <<>>, seen |-> {}]))

(* WalkDir and init                                                        *)
WalkDir(t) == LET j == job[t] IN
    /\ At(t, "walkdir") /\ UNCHANGED tree
    /\ \/ IsDirectory(j.src) /\ Pass /\ Opens(t, j.src, [pc |-> "entry", stack |-> <<>>, got |-> <<>>])
       \/ ~IsDirectory(j.src) /\ Pass /\ End(t, FALSE) /\ UNCHANGED handle
       \/ Fault /\ End(t, FALSE) /\ UNCHANGED handle

(* What the open directory has not given yet, by name                      *)
Unread(t) == {Last(c) : c \in Children(tree, handle[t])} \ job[t].seen

(* The next names, in the order the file system has them, or the end of    *)
(* this directory                                                          *)
LoadNextBatch(t) == LET j == job[t] IN
    /\ Outside(t, "entry") /\ j.raw = <<>> /\ UNCHANGED handle
    /\ \/ /\ handle[t] # Gone /\ Unread(t) # {} /\ Pass
          /\ \E names \in kSubset(Min({Batch, Cardinality(Unread(t))}), Unread(t)) :
             \E order \in SetToSeqs(names) :
               Goto(t, [raw |-> [i \in 1..Len(order) |->
                                   [name |-> order[i], dir |-> tree[Append(handle[t], order[i])] = Dir]],
                        seen |-> j.seen \cup names])
       \/ handle[t] # Gone /\ Unread(t) = {} /\ Pass /\ Goto(t, [pc |-> "pop"])
       \/ handle[t] = Gone /\ Pass /\ End(t, FALSE)
       \/ Fault /\ End(t, FALSE)

(* The next directory of the stack is opened by its path.  At the end of   *)
(* the count the export walks again.                                       *)
LoadNextDirectory(t) == LET j == job[t] IN
    /\ Outside(t, "pop")
    /\ \/ /\ j.stack = <<>> /\ Pass /\ UNCHANGED handle
          /\ IF j.counting THEN Goto(t, [pc |-> "walkdir", counting |-> FALSE]) ELSE End(t, TRUE)
       \/ /\ j.stack # <<>> /\ IsDirectory(Last(j.stack)) /\ Pass
          /\ Opens(t, Last(j.stack), [pc |-> "entry", stack |-> Front(j.stack)])
       \/ j.stack # <<>> /\ ~IsDirectory(Last(j.stack)) /\ Pass /\ End(t, FALSE) /\ UNCHANGED handle
       \/ j.stack # <<>> /\ Fault /\ End(t, FALSE) /\ UNCHANGED handle

Entry(t) == Append(job[t].dir, Head(job[t].raw).name)

(* Hidden.  The names the ignore matcher filters (the configuration, the   *)
(* markers) are no entries of the tree here.                               *)
Skipped(t) == ~job[t].opt.hidden /\ Last(Entry(t)) \in Hidden \cup OwnNames

Descends(t) == Head(job[t].raw).dir /\ job[t].opt.recursive

Full(t) == Len(job[t].stack) >= MaxPendingDirectories(job[t].opt.pending)

(* What the caller of Next does with the entry                             *)
AfterEntry(t) ==
    IF job[t].op = "list" \/ job[t].counting THEN "entry"
    ELSE IF Head(job[t].raw).dir THEN "makedir" ELSE "export"

(* Mutant: a directory that does not fit is left out.                      *)
ProcessEntryQuietly(t) == LET j == job[t] IN
    /\ Outside(t, "entry") /\ j.raw # <<>> /\ UNCHANGED handle
    /\ \/ Skipped(t) /\ Pass /\ Goto(t, [raw |-> Tail(j.raw)])
       \/ /\ ~Skipped(t) /\ Exists(Entry(t)) /\ Pass
          /\ Goto(t, [raw |-> Tail(j.raw), got |-> Append(j.got, Entry(t)),
                      stack |-> IF Descends(t) /\ ~Full(t) THEN Append(j.stack, Entry(t)) ELSE j.stack,
                      pc |-> AfterEntry(t)])
       \/ ~Skipped(t) /\ ~Exists(Entry(t)) /\ Pass /\ End(t, FALSE)
       \/ ~Skipped(t) /\ Fault /\ End(t, FALSE)

(* One name of the batch: skipped, or returned after entry.Info has found  *)
(* it at its path.  A directory to be opened later must fit on the stack.  *)
(* A name that does not decrypt is a fault.                                *)
ProcessEntry(t) == LET j == job[t] IN
    /\ Outside(t, "entry") /\ j.raw # <<>> /\ UNCHANGED handle
    /\ \/ Skipped(t) /\ Pass /\ Goto(t, [raw |-> Tail(j.raw)])
       \/ ~Skipped(t) /\ Descends(t) /\ Full(t) /\ Pass /\ End(t, FALSE)
       \/ /\ ~Skipped(t) /\ ~(Descends(t) /\ Full(t)) /\ Exists(Entry(t)) /\ Pass
          /\ Goto(t, [raw |-> Tail(j.raw), got |-> Append(j.got, Entry(t)),
                      stack |-> IF Descends(t) THEN Append(j.stack, Entry(t)) ELSE j.stack,
                      pc |-> AfterEntry(t)])
       \/ ~Skipped(t) /\ ~(Descends(t) /\ Full(t)) /\ ~Exists(Entry(t)) /\ Pass /\ End(t, FALSE)
       \/ ~Skipped(t) /\ Fault /\ End(t, FALSE)

(* The visit of exportDirectory: a directory is made, a file exported by   *)
(* its path.  What the batch took for a file may be one no more.           *)
Visit(t) == LET j == job[t] q == Last(j.got) IN
    /\ j.pc \in {"makedir", "export"} /\ UNCHANGED <<tree, calls, crashes, handle>>
    /\ \/ j.pc = "makedir" /\ Pass /\ Goto(t, [pc |-> "entry"])
       \/ /\ j.pc = "export" /\ Locked(t) /\ IsFile(tree[q]) /\ Pass
          /\ Goto(t, [pc |-> "entry", copied |-> With([p \in {q} |-> tree[p]], j.copied)])
       \/ j.pc = "export" /\ Locked(t) /\ ~IsFile(tree[q]) /\ Pass /\ End(t, FALSE)
       \/ Fault /\ End(t, FALSE)

WalkStep(t) ==
    \/ \E r \in Walks : AskWalk(t, r)
    \/ WalkDir(t) \/ LoadNextBatch(t) \/ LoadNextDirectory(t) \/ ProcessEntry(t) \/ Visit(t)

(* An open directory goes along with a rename, and is gone when it or what *)
(* it was renamed over is removed.                                         *)
Follows(h) ==
    IF renaming # Nobody /\ renaming' = Nobody /\ tree' # tree
    THEN IF Under(h, RenameFrom(renaming)) THEN Moved(h, RenameFrom(renaming), RenameTo(renaming))
         ELSE IF Under(h, RenameTo(renaming)) THEN Gone ELSE h
    ELSE IF h # <<>> /\ h \in Paths /\ tree'[h] # Dir THEN Gone ELSE h

TreeStep ==
    /\ Next
    /\ handle' = [t \in Threads |-> IF Walking(job'[t]) THEN Follows(handle[t]) ELSE <<>>]

Observe ==
    there' = [t \in Threads |->
                IF ~Walking(job'[t]) THEN {}
                ELSE IF ~Walking(job[t]) THEN {q \in Paths : tree'[q] # None}
                ELSE {q \in there[t] : tree'[q] = tree[q]}]

WalkerInit ==
    /\ Init
    /\ handle = [t \in Threads |-> <<>>]
    /\ there = [t \in Threads |-> {}]

WalkerNext == (TreeStep \/ \E t \in Threads : WalkStep(t)) /\ Observe

WalkerSpec == WalkerInit /\ [][WalkerNext]_allVars

(***************************************************************************)
(* Properties                                                              *)
(***************************************************************************)
(* What a walk of j had to return: the entries that were in place all the  *)
(* time, with the directories on the way to them, but for the ones it was  *)
(* to skip.                                                                *)
Owed(t) == LET j == job[t] IN
    {q \in there[t] :
        /\ Within(q, j.src)
        /\ j.opt.recursive \/ Parent(q) = j.src
        /\ \A r \in Paths : Under(q, r) /\ Within(r, j.src) =>
              /\ r \in there[t]
              /\ j.opt.hidden \/ Last(r) \notin Hidden \cup OwnNames}

(* A listing or an export that ends without an error is complete, whatever *)
(* other threads did meanwhile: it returned every entry that was in place  *)
(* from beginning to end, none twice, and the export has the content of    *)
(* each such file.  An entry it can not follow, a directory that has gone, *)
(* or more directories than the walker may remember, is an error, never a  *)
(* shorter listing ("Next/EOF is the only valid completion boundary").     *)
WalksAreComplete ==
    \A t \in Threads : LET j == job[t] IN
        Walking(j) /\ j.pc = "done" /\ j.ok =>
            /\ Owed(t) \subseteq {j.got[i] : i \in DOMAIN j.got}
            /\ \A i, k \in DOMAIN j.got : j.got[i] = j.got[k] => i = k
            /\ j.op = "export" =>
                 \A q \in Owed(t) : IsFile(tree[q]) => q \in DOMAIN j.copied /\ j.copied[q] = tree[q]
=============================================================================
