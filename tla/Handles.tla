------------------------------ MODULE Handles ------------------------------
(***************************************************************************)
(* The native handles the application works with: secure roots             *)
(* (secRootImpl, its RWMutex and its keys), open files, directory cursors, *)
(* the id stores of the FFI layer that list them, the mutex that orders    *)
(* the lives of cursors and roots, the cancellable operations, and the     *)
(* lock file that lets one transfer at a time work on a root.              *)
(*                                                                         *)
(* A call looks its handle up, leaves the store and then works on the      *)
(* object, so every call is several steps; other calls run in between.     *)
(* Paths and contents are left out: what matters is which object is used,  *)
(* under which lock, while its keys live.                                  *)
(***************************************************************************)
EXTENDS Naturals, FiniteSets

CONSTANTS Procs,             \* the threads that call the library
          Roots, Opened,     \* root ids; those open when the run starts
          Files, Cursors,    \* file and cursor ids (bounds on how many)
          Held,              \* the files and cursors of Opened a caller holds at the start
          OpIds,             \* names of cancellable operations
          RootOps,           \* the calls made on a root, of AllRootOps
          NoProc,
          MaxCalls,          \* bound on calls
          MaxFaults          \* bound on files whose Close fails

\* stat stands for every method that holds the read lock to its end (DeleteFile,
\* DeleteDirectoryTree, FileExists, MkdirAll, RenameByStorePath, GetStorePath,
\* ReadDir, Stat).
AllRootOps == {"stat", "rename", "open", "openFile", "readDir", "quick"}

ASSUME HandlesAssumption == /\ Opened \subseteq Roots /\ Opened # {} /\ Held \subseteq Files \union Cursors
                            /\ RootOps \subseteq AllRootOps
                            /\ NoProc \notin Procs
                            /\ MaxCalls \in Nat /\ MaxFaults \in Nat

VARIABLES
    root,       \* per root: listed in RootStore; closed (its keys destroyed); its RWMutex
    lifecycle,  \* dirCursorLifecycleMu: its holder
    cursor,     \* per cursor: listed in DirCursorStore; its walker; its mutex
    file,       \* per file: listed in FileStore; closed; its root
    transfers,  \* per root: who holds the lock file of its transfers
    running,    \* runtimeOperationStore.cancels: who runs the operation
    call,       \* per thread: the call in progress
    calls, faults,
    asked       \* history: the calls some cancellation found running

vars == <<root, lifecycle, cursor, file, running, transfers, call, calls, faults, asked>>

-----------------------------------------------------------------------------
(* Calls *)

NoCall == [pc |-> "idle", op |-> "none", r |-> CHOOSE r \in Roots : TRUE,
           f |-> CHOOSE f \in Files : TRUE, c |-> CHOOSE c \in Cursors : TRUE,
           id |-> CHOOSE i \in OpIds : TRUE, todo |-> {}, ticket |-> 0, cancelled |-> FALSE]

At(p, pc) == call[p].pc = pc

\* A call starts; its number is its ticket.
Starts(p, c) ==
    /\ At(p, "idle") /\ calls < MaxCalls
    /\ calls' = calls + 1
    /\ call' = [call EXCEPT ![p] = [c EXCEPT !.ticket = calls']]

Goes(p, pc) == call' = [call EXCEPT ![p].pc = pc]

Returns(p) == call' = [call EXCEPT ![p] = NoCall]

-----------------------------------------------------------------------------
(* The RWMutex of a root: a writer that has announced itself keeps new readers
   out, and waits for the readers inside. *)

Free(r) == root[r].writer = NoProc

Readers(r) == {p \in Procs : root[r].reads[p] > 0}

Locked(r, p) == [root EXCEPT ![r].reads[p] = @ + 1]

RUnlocked(r, p) == [root EXCEPT ![r].reads[p] = 0]

Writes(p) == call[p].op \in {"rename", "closeRoot"}

RLock(p) ==
    LET r == call[p].r IN
    /\ At(p, "lock") /\ ~Writes(p)
    /\ Free(r)
    /\ root' = Locked(r, p)
    /\ Goes(p, "check")
    /\ UNCHANGED <<lifecycle, cursor, file, running, transfers, calls, faults, asked>>

\* Mutant: a section that must exclude the others takes the lock for reading.
AnnounceShared(p) ==
    /\ At(p, "lock") /\ Writes(p)
    /\ Goes(p, "check")
    /\ UNCHANGED <<root, lifecycle, cursor, file, running, transfers, calls, faults, asked>>

Announce(p) ==
    LET r == call[p].r IN
    /\ At(p, "lock") /\ Writes(p)
    /\ Free(r)
    /\ root' = [root EXCEPT ![r].writer = p]
    /\ Goes(p, "drain")
    /\ UNCHANGED <<lifecycle, cursor, file, running, transfers, calls, faults, asked>>

Drain(p) ==
    /\ At(p, "drain") /\ Readers(call[p].r) = {}
    /\ Goes(p, "check")
    /\ UNCHANGED <<root, lifecycle, cursor, file, running, transfers, calls, faults, asked>>

-----------------------------------------------------------------------------
(* Calls on a root *)

\* OpenRoot_FFI: a root with live keys is listed.
OpenRoot(p, r) ==
    /\ ~root[r].known
    /\ Starts(p, NoCall)
    /\ root' = [root EXCEPT ![r].known = TRUE, ![r].listed = TRUE]
    /\ UNCHANGED <<lifecycle, cursor, file, running, transfers, faults, asked>>

\* The FFI functions on a root: the store's lookup, then the root's method.
RootCall(p, r, op) ==
    /\ root[r].listed
    /\ Starts(p, [NoCall EXCEPT !.pc = "lock", !.op = op, !.r = r])
    /\ UNCHANGED <<root, lifecycle, cursor, file, running, transfers, faults, asked>>

\* What a method does first under the lock; a closed root is refused.
Check(p) ==
    LET c == call[p]
        refused == CASE c.op = "cursor" -> "unlatch" [] c.op = "transfer" -> "release" [] OTHER -> "idle"
    IN
    /\ At(p, "check") /\ c.op # "closeRoot"
    /\ IF root[c.r].closed
       THEN /\ root' = [RUnlocked(c.r, p) EXCEPT ![c.r].writer = IF @ = p THEN NoProc ELSE @]
            /\ call' = [call EXCEPT ![p] = IF refused = "idle" THEN NoCall ELSE [@ EXCEPT !.pc = refused]]
       ELSE /\ Goes(p, IF c.op = "open" THEN "again" ELSE "using")
            /\ UNCHANGED root
    /\ UNCHANGED <<lifecycle, cursor, file, running, transfers, calls, faults, asked>>

\* Open calls OpenFile with the read lock held, which locks once more.
RLockAgain(p) ==
    LET r == call[p].r IN
    /\ At(p, "again")
    /\ Free(r)
    /\ root' = Locked(r, p)
    /\ Goes(p, "using")
    /\ UNCHANGED <<lifecycle, cursor, file, running, transfers, calls, faults, asked>>

\* Where a method's result goes once its lock is released.
AfterRoot == [openFile |-> "addFile", readDir |-> "walk", quick |-> "quick",
              cursor |-> "addCursor", transfer |-> "release"]

\* The method's work with the root's keys, and its deferred unlock.
Use(p) ==
    LET c == call[p] IN
    /\ At(p, "using")
    /\ root' = [RUnlocked(c.r, p) EXCEPT ![c.r].writer = IF @ = p THEN NoProc ELSE @]
    /\ IF c.op \in DOMAIN AfterRoot THEN Goes(p, AfterRoot[c.op]) ELSE Returns(p)
    /\ UNCHANGED <<lifecycle, cursor, file, running, transfers, calls, faults, asked>>

\* ReadDir_FFI goes through its walker, QuickReadFile_FFI and QuickWriteFile_FFI
\* through their file, with no lock of the root.
Walk(p) ==
    /\ At(p, "walk") \/ At(p, "quick")
    /\ Returns(p)
    /\ UNCHANGED <<root, lifecycle, cursor, file, running, transfers, calls, faults, asked>>

-----------------------------------------------------------------------------
(* Files *)

\* OpenFile_FFI's last step: FileStore.Add, under an id never given before.
AddFile(p) ==
    /\ At(p, "addFile")
    /\ \E f \in Files :
          /\ ~file[f].known
          /\ file' = [file EXCEPT ![f] = [known |-> TRUE, listed |-> TRUE, closed |-> FALSE,
                                          root |-> call[p].r]]
    /\ Returns(p)
    /\ UNCHANGED <<root, lifecycle, cursor, running, transfers, calls, faults, asked>>

\* ReadFile_FFI, WriteFile_FFI, SeekFile_FFI, TruncateFile_FFI, ReadAllFile_FFI,
\* GetFileSize_FFI; and CloseFile_FFI: the lookup.
FileCall(p, f, op) ==
    /\ file[f].listed
    /\ Starts(p, [NoCall EXCEPT !.pc = op, !.op = op, !.f = f])
    /\ UNCHANGED <<root, lifecycle, cursor, file, running, transfers, faults, asked>>

\* The file's method under the file's read lock: refused once closed.
FileIo(p) ==
    /\ At(p, "io")
    /\ IF file[call[p].f].closed THEN Returns(p) ELSE Goes(p, "data")
    /\ UNCHANGED <<root, lifecycle, cursor, file, running, transfers, calls, faults, asked>>

FileData(p) ==
    /\ At(p, "data")
    /\ Returns(p)
    /\ UNCHANGED <<root, lifecycle, cursor, file, running, transfers, calls, faults, asked>>

\* secFileImpl.Close under the file's lock: the second Close is an error, and a
\* failing one closes the file all the same.  Either way the entry stays.
FileClose(p) ==
    LET f == call[p].f IN
    /\ At(p, "close")
    /\ \A q \in Procs : ~(At(q, "data") /\ call[q].f = f)
    /\ \/ file[f].closed /\ Returns(p) /\ UNCHANGED <<file, faults>>
       \/ /\ ~file[f].closed
          /\ \/ /\ file' = [file EXCEPT ![f].closed = TRUE]
                /\ Goes(p, "removeFile") /\ UNCHANGED faults
             \/ /\ faults < MaxFaults /\ faults' = faults + 1
                /\ file' = [file EXCEPT ![f].closed = TRUE]
                /\ Returns(p)
    /\ UNCHANGED <<root, lifecycle, cursor, running, transfers, calls, asked>>

RemoveFile(p) ==
    /\ At(p, "removeFile")
    /\ file' = [file EXCEPT ![call[p].f].listed = FALSE]
    /\ Returns(p)
    /\ UNCHANGED <<root, lifecycle, cursor, running, transfers, calls, faults, asked>>

-----------------------------------------------------------------------------
(* Cursors and the closing of roots *)

\* OpenDirCursor_FFI and CloseRoot_FFI wait for dirCursorLifecycleMu first.
LifecycleCall(p, r, op) ==
    /\ root[r].known
    /\ Starts(p, [NoCall EXCEPT !.pc = "latch", !.op = op, !.r = r])
    /\ UNCHANGED <<root, lifecycle, cursor, file, running, transfers, faults, asked>>

\* Mutant: a cursor is opened without the mutex.
LatchClosing(p) ==
    LET c == call[p] IN
    /\ At(p, "latch")
    /\ lifecycle = NoProc \/ c.op = "cursor"
    /\ lifecycle' = IF c.op = "cursor" THEN lifecycle ELSE p
    /\ Goes(p, IF root[c.r].listed THEN IF c.op = "cursor" THEN "lock" ELSE "take"
               ELSE "unlatch")
    /\ UNCHANGED <<root, cursor, file, running, transfers, calls, faults, asked>>

Latch(p) ==
    LET c == call[p] IN
    /\ At(p, "latch")
    /\ lifecycle = NoProc
    /\ lifecycle' = p
    /\ Goes(p, IF root[c.r].listed THEN IF c.op = "cursor" THEN "lock" ELSE "take"
               ELSE "unlatch")
    /\ UNCHANGED <<root, cursor, file, running, transfers, calls, faults, asked>>

Unlatch(p) ==
    /\ At(p, "unlatch")
    /\ lifecycle' = IF lifecycle = p THEN NoProc ELSE lifecycle
    /\ Returns(p)
    /\ UNCHANGED <<root, cursor, file, running, transfers, calls, faults, asked>>

\* OpenDirCursor_FFI: the walker WalkDir returned is listed.
AddCursor(p) ==
    /\ At(p, "addCursor")
    /\ \E c \in Cursors :
          /\ ~cursor[c].known
          /\ cursor' = [cursor EXCEPT ![c] = [known |-> TRUE, listed |-> TRUE, open |-> TRUE,
                                              root |-> call[p].r, by |-> NoProc]]
    /\ Goes(p, "unlatch")
    /\ UNCHANGED <<root, lifecycle, file, running, transfers, calls, faults, asked>>

\* ReadDirCursorPage_FFI ("page") and CloseDirCursor_FFI ("drop"): the lookup.
CursorCall(p, c, op) ==
    /\ cursor[c].listed
    /\ Starts(p, [NoCall EXCEPT !.pc = op, !.op = op, !.c = c])
    /\ UNCHANGED <<root, lifecycle, cursor, file, running, transfers, faults, asked>>

\* readDirCursorPage: under the cursor's mutex.
Page(p) ==
    LET c == call[p].c IN
    /\ At(p, "page") /\ cursor[c].by = NoProc
    /\ cursor' = [cursor EXCEPT ![c].by = p]
    /\ Goes(p, "next")
    /\ UNCHANGED <<root, lifecycle, file, running, transfers, calls, faults, asked>>

\* A full page leaves the cursor; the end or an error, a closed walker's too,
\* drops it.
NextPage(p) ==
    LET c == call[p].c IN
    /\ At(p, "next")
    /\ cursor' = [cursor EXCEPT ![c].by = NoProc]
    /\ \/ cursor[c].open /\ Returns(p)
       \/ Goes(p, "drop")
    /\ UNCHANGED <<root, lifecycle, file, running, transfers, calls, faults, asked>>

\* DirCursorStore.Remove comes before the walker's Close, which waits for a
\* page being read.
DropCursor(p) ==
    /\ At(p, "drop")
    /\ cursor' = [cursor EXCEPT ![call[p].c].listed = FALSE]
    /\ Goes(p, "closeCursor")
    /\ UNCHANGED <<root, lifecycle, file, running, transfers, calls, faults, asked>>

CloseCursor(p) ==
    LET c == call[p].c IN
    /\ At(p, "closeCursor") /\ cursor[c].by = NoProc
    /\ cursor' = [cursor EXCEPT ![c].open = FALSE]
    /\ Returns(p)
    /\ UNCHANGED <<root, lifecycle, file, running, transfers, calls, faults, asked>>

\* CloseRoot_FFI: RevokeRoot (module WebDav), then TakeWhere.
TakeCursors(p) ==
    LET mine == {c \in Cursors : cursor[c].listed /\ cursor[c].root = call[p].r} IN
    /\ At(p, "take")
    /\ cursor' = [c \in Cursors |-> IF c \in mine THEN [cursor[c] EXCEPT !.listed = FALSE]
                                    ELSE cursor[c]]
    /\ call' = [call EXCEPT ![p].pc = "closeTaken", ![p].todo = mine]
    /\ UNCHANGED <<root, lifecycle, file, running, transfers, calls, faults, asked>>

CloseTaken(p) ==
    /\ At(p, "closeTaken")
    /\ \/ \E c \in call[p].todo :
             /\ cursor[c].by = NoProc
             /\ cursor' = [cursor EXCEPT ![c].open = FALSE]
             /\ call' = [call EXCEPT ![p].todo = @ \ {c}]
       \/ call[p].todo = {} /\ Goes(p, "lock") /\ UNCHANGED cursor
    /\ UNCHANGED <<root, lifecycle, file, running, transfers, calls, faults, asked>>

\* secRootImpl.Close under the lock: the name cryptor and the key are destroyed.
\* Files of the root stay open.
CloseRoot(p) ==
    LET r == call[p].r IN
    /\ At(p, "check") /\ call[p].op = "closeRoot"
    /\ root' = [root EXCEPT ![r].closed = TRUE, ![r].writer = IF @ = p THEN NoProc ELSE @]
    /\ Goes(p, "unlist")
    /\ UNCHANGED <<lifecycle, cursor, file, running, transfers, calls, faults, asked>>

Unlist(p) ==
    /\ At(p, "unlist")
    /\ root' = [root EXCEPT ![call[p].r].listed = FALSE]
    /\ Goes(p, "unlatch")
    /\ UNCHANGED <<lifecycle, cursor, file, running, transfers, calls, faults, asked>>

-----------------------------------------------------------------------------
(* Cancellable operations *)

\* runtimeOperationStore.run around a transfer: an id in use is refused, so only
\* a free one starts.  Names are alike: any free one will do.
RunCall(p, r) ==
    LET free == {i \in OpIds : running[i] = NoProc}
        i == CHOOSE i \in free : TRUE
    IN
    /\ root[r].listed /\ free # {}
    /\ Starts(p, [NoCall EXCEPT !.pc = "run", !.op = "transfer", !.r = r, !.id = i])
    /\ running' = [running EXCEPT ![i] = p]
    /\ UNCHANGED <<root, lifecycle, cursor, file, transfers, faults, asked>>

\* acquireOperationLock: one transfer at a time on a root.  The lock is tried
\* first and the context asked only between two tries.
OperationLock(p) ==
    /\ At(p, "run") /\ transfers[call[p].r] = NoProc
    /\ transfers' = [transfers EXCEPT ![call[p].r] = p]
    /\ Goes(p, "held")
    /\ UNCHANGED <<root, lifecycle, cursor, file, running, calls, faults, asked>>

OperationGivesUp(p) ==
    /\ At(p, "run") /\ transfers[call[p].r] # NoProc /\ call[p].cancelled
    /\ Goes(p, "runEnd")
    /\ UNCHANGED <<root, lifecycle, cursor, file, running, transfers, calls, faults, asked>>

\* The transfer looks at its context between its steps.
Run(p) ==
    /\ At(p, "held")
    /\ Goes(p, IF call[p].cancelled THEN "release" ELSE "lock")
    /\ UNCHANGED <<root, lifecycle, cursor, file, running, transfers, calls, faults, asked>>

\* Mutant: a cancelled transfer returns with its lock.
ReleaseUnlessCancelled(p) ==
    /\ At(p, "release")
    /\ transfers' = IF call[p].cancelled THEN transfers
                     ELSE [transfers EXCEPT ![call[p].r] = NoProc]
    /\ Goes(p, "runEnd")
    /\ UNCHANGED <<root, lifecycle, cursor, file, running, calls, faults, asked>>

\* The deferred calls, in their order: the lock, then the operation's name.
Release(p) ==
    /\ At(p, "release")
    /\ transfers' = [transfers EXCEPT ![call[p].r] = NoProc]
    /\ Goes(p, "runEnd")
    /\ UNCHANGED <<root, lifecycle, cursor, file, running, calls, faults, asked>>

RunEnd(p) ==
    /\ At(p, "runEnd")
    /\ running' = [running EXCEPT ![call[p].id] = NoProc]
    /\ Returns(p)
    /\ UNCHANGED <<root, lifecycle, cursor, file, transfers, calls, faults, asked>>

\* runtimeOperationStore.cancel: the function found under the mutex is called
\* after it is released; it ends the context of the call it was made for.
CancelCall(p, i) ==
    /\ running[i] # NoProc
    /\ Starts(p, [NoCall EXCEPT !.pc = "cancel", !.id = i, !.todo = {<<running[i], call[running[i]].ticket>>}])
    /\ asked' = asked \union {call[running[i]].ticket}
    /\ UNCHANGED <<root, lifecycle, cursor, file, running, transfers, faults>>

\* Mutant: the operation is looked up again when it is cancelled.
CancelById(p) ==
    LET q == running[call[p].id] IN
    /\ At(p, "cancel")
    /\ call' = [x \in Procs |-> IF x = p THEN NoCall
                                ELSE IF x = q THEN [call[x] EXCEPT !.cancelled = TRUE] ELSE call[x]]
    /\ UNCHANGED <<root, lifecycle, cursor, file, running, transfers, calls, faults, asked>>

Cancel(p) ==
    /\ At(p, "cancel")
    /\ call' = [q \in Procs |-> IF q = p THEN NoCall
                                ELSE IF <<q, call[q].ticket>> \in call[p].todo
                                     THEN [call[q] EXCEPT !.cancelled = TRUE] ELSE call[q]]
    /\ UNCHANGED <<root, lifecycle, cursor, file, running, transfers, calls, faults, asked>>

-----------------------------------------------------------------------------
Init ==
    /\ root = [r \in Roots |-> [known |-> r \in Opened, listed |-> r \in Opened, closed |-> FALSE,
                                writer |-> NoProc, reads |-> [p \in Procs |-> 0]]]
    /\ lifecycle = NoProc
    /\ cursor = [c \in Cursors |-> [known |-> c \in Held, listed |-> c \in Held, open |-> c \in Held,
                                    root |-> CHOOSE r \in Opened : TRUE, by |-> NoProc]]
    /\ file = [f \in Files |-> [known |-> f \in Held, listed |-> f \in Held, closed |-> FALSE,
                                root |-> CHOOSE r \in Opened : TRUE]]
    /\ running = [i \in OpIds |-> NoProc]
    /\ transfers = [r \in Roots |-> NoProc]
    /\ call = [p \in Procs |-> NoCall]
    /\ calls = 0 /\ faults = 0 /\ asked = {}

\* Bounds: no more files or cursors are asked for than there are ids.
FilesLeft == Cardinality({f \in Files : file[f].known})
             + Cardinality({p \in Procs : call[p].op = "openFile"}) < Cardinality(Files)
CursorsLeft == Cardinality({c \in Cursors : cursor[c].known})
               + Cardinality({p \in Procs : call[p].op = "cursor"}) < Cardinality(Cursors)

NewCall(p) ==
    \/ \E r \in Roots :
          \/ OpenRoot(p, r)
          \/ \E op \in RootOps : (op = "openFile" => FilesLeft) /\ RootCall(p, r, op)
          \/ LifecycleCall(p, r, "closeRoot")
          \/ CursorsLeft /\ LifecycleCall(p, r, "cursor")
          \/ RunCall(p, r)
    \/ \E f \in Files, op \in {"io", "close"} : FileCall(p, f, op)
    \/ \E c \in Cursors, op \in {"page", "drop"} : CursorCall(p, c, op)
    \/ \E i \in OpIds : CancelCall(p, i)

Step(p) ==
    \/ RLock(p) \/ Announce(p) \/ Drain(p) \/ Check(p) \/ RLockAgain(p) \/ Use(p) \/ Walk(p)
    \/ AddFile(p) \/ FileIo(p) \/ FileData(p) \/ FileClose(p) \/ RemoveFile(p)
    \/ Latch(p) \/ Unlatch(p) \/ AddCursor(p)
    \/ Page(p) \/ NextPage(p) \/ DropCursor(p) \/ CloseCursor(p)
    \/ TakeCursors(p) \/ CloseTaken(p) \/ CloseRoot(p) \/ Unlist(p)
    \/ OperationLock(p) \/ OperationGivesUp(p) \/ Run(p) \/ Release(p) \/ RunEnd(p) \/ Cancel(p)

Idle == {p \in Procs : At(p, "idle")}

\* Threads are alike: which of the idle ones makes the next call does not matter.
Next ==
    \/ \E p \in Procs : Step(p)
    \/ Idle # {} /\ NewCall(CHOOSE p \in Idle : TRUE)

Spec == Init /\ [][Next]_vars

\* Every thread inside the library is scheduled.
FairSpec == Spec /\ \A p \in Procs : WF_vars(Step(p))

-----------------------------------------------------------------------------
(* Properties *)

\* A method that has found the root open (sec_root.go) works with living keys to
\* its end, and a writer works alone, however calls overlap with Close.
KeysLiveInSections ==
    \A p \in Procs : At(p, "using") \/ At(p, "again") =>
        /\ ~root[call[p].r].closed
        /\ call[p].op = "rename" => Readers(call[p].r) = {}

\* A cursor a caller can still find belongs to a root that is not closed, and its
\* walker is open: OpenDirCursor_FFI and CloseRoot_FFI exclude each other.
ListedCursorsLive ==
    \A c \in Cursors : cursor[c].listed =>
        cursor[c].open /\ ~root[cursor[c].root].closed

\* An operation is only cancelled by a request that found this very run of it
\* (runtime_operations.go), also when its name is used again.
CancelledWereAsked ==
    \A p \in Procs : call[p].cancelled => call[p].ticket \in asked

\* A caller of Open waits for its second read lock behind a writer that waits for
\* the first one to be released.
NestedLock == \E p \in Procs : At(p, "again") /\ ~Free(call[p].r)

\* Every call returns: no cycle between the stores' users, the locks of roots,
\* files and cursors, the lifecycle mutex and the lock file of the transfers,
\* except for the one secRootImpl.Open makes with any writer.
CallsReturn == \A p \in Procs : ~At(p, "idle") ~> At(p, "idle") \/ NestedLock
=============================================================================
