------------------------------ MODULE Convert ------------------------------
(***************************************************************************)
(* In-place conversion of a directory between plain and encrypted form     *)
(* (native/sec_fs/sec_transfer/v3/convert.go) and its crash recovery.      *)
(*                                                                         *)
(* A conversion copies the root into a sibling work directory, verifies    *)
(* the copy, renames the root to a sibling backup and the work to the      *)
(* root.  Marker files inside the directories record the phase, so a       *)
(* directory that is renamed takes its markers with it.  RecoverConvert    *)
(* reads the markers and finishes or undoes whatever a crash left behind.  *)
(*                                                                         *)
(* Abstractions:                                                           *)
(*  - a directory is its form (plain, or encrypted: it holds the file      *)
(*    _cryption.json), the user files in it and its convert markers;       *)
(*    a file is copied, hashed or written in one step (a torn copy is the  *)
(*    same to the verification as an edit between two files);              *)
(*  - the operation lock of the root makes convert, recover and clean      *)
(*    exclude one another, so one job at a time is enough; users and       *)
(*    "create" take no lock and interleave with every step of a job;       *)
(*  - a fault is an I/O error of any call, before or after its effect (a   *)
(*    rename whose directory sync fails has happened, yet returns an       *)
(*    error); a crash is the death of the process at any point.            *)
(***************************************************************************)
EXTENDS Naturals, FiniteSets

CONSTANTS
    Ops,           \* operation ids newOpID may draw
    Files,         \* user files of the tree
    Skipped,       \* files the tree walks leave out (reserved names, nested vaults)
    Values,        \* file contents
    Gone,          \* content of a file that is not there
    NoOp,          \* no operation id
    NoTree,        \* nothing verified yet
    Limit,         \* bounds on what the environment may do
    RecoverFirst   \* whether callers recover unfinished converts before a new one

Events == {"edit", "create", "clean", "fault", "crash"}

ASSUME ConvertAssumption ==
    /\ Skipped \subseteq Files
    /\ Gone \notin Values
    /\ NoOp \notin Ops
    /\ NoTree \notin [Files -> Values \cup {Gone}]
    /\ Limit \in [Events -> Nat]
    /\ RecoverFirst \in BOOLEAN

VARIABLES
    dir,        \* the directories on disk, by path
    job,        \* the running convert or recover call: its volatile state
    result,     \* what the last call returned
    used,       \* operation ids drawn so far
    verified,   \* history: the tree each operation verified
    lastWrite,  \* history: what the user last wrote to each file of the root
    spent       \* how often each environment event happened

vars == <<dir, job, result, used, verified, lastWrite, spent>>

-----------------------------------------------------------------------------
(* Directories and paths *)

Root == <<"root", NoOp>>
Work(o) == <<"work", o>>
Backup(o) == <<"backup", o>>
Path == {Root} \cup {Work(o) : o \in Ops} \cup {Backup(o) : o \in Ops}
Kept == {Root} \cup {Backup(o) : o \in Ops}

EarlyPhases == {"creating_work", "copying_to_work", "verifying_work"}
RenamePhases == {"renaming_root_to_backup", "renaming_work_to_root"}
Phases == EarlyPhases \cup RenamePhases \cup {"completed", "needs_attention"}

Trees == [Files -> Values \cup {Gone}]
EmptyTree == [f \in Files |-> Gone]
NoMarkers == [o \in Ops |-> "none"]
Dirs == [form: {"absent", "plain", "enc"}, tree: Trees, marker: [Ops -> Phases \cup {"none"}]]
Absent == [form |-> "absent", tree |-> EmptyTree, marker |-> NoMarkers]

Present(p) == dir[p].form # "absent"

\* A disk as the code can leave it: a directory that is not there holds nothing.
Disk(d) == d \in [Path -> Dirs] /\ \A p \in Path : d[p].form = "absent" => d[p] = Absent

\* The files a tree walk reports: everything there except reserved names.
Listed(t) == {f \in Files \ Skipped : t[f] # Gone}

\* The operations some marker names, in the root, a backup or a work directory.
Unfinished == {o \in Ops : \E p \in Path : dir[p].marker[o] # "none"}

(* The paths whose marker of o recovery acts on: the root comes first, then *)
(* the backups, then the works.  The order among backups is that of their   *)
(* names, which says nothing about time: any of them may be first.          *)
FirstMarkers(o) ==
    LET Holding(S) == {p \in S : dir[p].marker[o] # "none"}
        backups == Holding({Backup(b) : b \in Ops})
    IN  IF Holding({Root}) # {} THEN {Root}
        ELSE IF backups # {} THEN backups
        ELSE Holding({Work(w) : w \in Ops})

(* Disk after MkdirAll(p), after a marker is committed in p, removed from   *)
(* p, and after a rename.  Writing a marker creates the directory it is in. *)
Made(p) == [dir EXCEPT ![p].form = IF @ = "absent" THEN "plain" ELSE @]
Marked(p, o, phase) ==
    [dir EXCEPT ![p].form = IF @ = "absent" THEN "plain" ELSE @,
                ![p].marker[o] = phase]
Unmarked(p, o) == [dir EXCEPT ![p].marker[o] = "none"]
Moved(p, q) == [dir EXCEPT ![q] = dir[p], ![p] = Absent]

-----------------------------------------------------------------------------
(* The running call *)

Kinds == {"encrypt", "decrypt"}
SourceForm(k) == IF k = "encrypt" THEN "plain" ELSE "enc"
TargetForm(k) == IF k = "encrypt" THEN "enc" ELSE "plain"

CopyPcs == {"mark_creating", "make_work", "mark_copying", "open", "copy", "mark_verifying",
            "list_source", "verify_source", "verify_work", "mark_attention"}
CommitPcs == {"mark_commit", "rename_root", "mark_backup", "mark_rename_work", "rename_work",
              "mark_completed"}
RecoverPcs == {"discard", "unmark", "backup_root", "mark_backed_up", "install_work"}
CleanPcs == {"clean_root", "clean_backup"}
Pcs == {"idle"} \cup CopyPcs \cup CommitPcs \cup RecoverPcs \cup CleanPcs

Results == {"ok", "error", "crashed", "none", "rerun", "continue_rename", "completed",
            "needs_attention", "io_attention"}

Jobs == [pc: Pcs, op: Ops \cup {NoOp}, kind: Kinds \cup {"recover"}, todo: SUBSET Files,
         diff: BOOLEAN, outcome: Results]
Idle == [pc |-> "idle", op |-> NoOp, kind |-> "recover", todo |-> {}, diff |-> FALSE,
         outcome |-> "ok"]

At(l) == job.pc = l
Goto(l) == job' = [job EXCEPT !.pc = l] /\ UNCHANGED result
Return(r) == job' = Idle /\ result' = r
Spend(e) == spent[e] < Limit[e] /\ spent' = [spent EXCEPT ![e] = @ + 1]

(* writeMarker: a temporary file, a rename onto the marker, then directory  *)
(* syncs.  An error before the rename leaves the old marker (MkdirAll may   *)
(* have happened), one after it leaves the new marker.                      *)
WriteMarker(p, phase, next, err) ==
    \/ /\ dir' = Marked(p, job.op, phase)
       /\ Goto(next)
       /\ UNCHANGED spent
    \/ /\ dir' \in {dir, Made(p), Marked(p, job.op, phase)}
       /\ Return(err)
       /\ Spend("fault")

\* removeMarker where the caller ignores the error.
DropMarker(p) ==
    \/ dir' = Unmarked(p, job.op) /\ UNCHANGED spent
    \/ UNCHANGED dir /\ Spend("fault")

\* Mutant: the target is removed first, as a rename of files would.
RenameDirOver(p, q, next, err) ==
    \/ /\ Present(p)
       /\ dir' = Moved(p, q)
       /\ Goto(next)
       /\ UNCHANGED spent
    \/ ~Present(p) /\ Return(err) /\ UNCHANGED <<dir, spent>>

(* renamePath: os.Rename of a directory onto an existing one (every one     *)
(* that exists here holds something) fails; an error of the parent sync     *)
(* comes after the rename has happened.                                     *)
RenameDir(p, q, next, err) ==
    \/ /\ Present(p) /\ ~Present(q)
       /\ dir' = Moved(p, q)
       /\ Goto(next)
       /\ UNCHANGED spent
    \/ /\ Present(p) /\ ~Present(q)
       /\ dir' \in {dir, Moved(p, q)}
       /\ Return(err)
       /\ Spend("fault")
    \/ /\ ~Present(p) \/ Present(q)
       /\ Return(err)
       /\ UNCHANGED <<dir, spent>>

-----------------------------------------------------------------------------
(* ConvertRoot *)

(* The lock is free; a fresh operation id is drawn.  The code asks for      *)
(* nothing else; RecoverFirst restricts the callers, not the code.          *)
ConvertRoot(k) ==
    /\ At("idle")
    /\ RecoverFirst => Unfinished = {}
    /\ \E o \in Ops \ used :
          /\ used' = used \cup {o}
          /\ job' = [Idle EXCEPT !.pc = "mark_creating", !.op = o, !.kind = k]
    /\ UNCHANGED <<dir, result, verified, lastWrite, spent>>

MarkCreating ==
    /\ At("mark_creating")
    /\ WriteMarker(Root, "creating_work", "make_work", "error")
    /\ UNCHANGED <<used, verified, lastWrite>>

MakeWork ==
    /\ At("make_work")
    /\ \/ /\ dir' = Made(Work(job.op))
          /\ Goto("mark_copying")
          /\ UNCHANGED spent
       \/ /\ dir' \in {dir, Made(Work(job.op))}
          /\ Return("error")
          /\ Spend("fault")
    /\ UNCHANGED <<used, verified, lastWrite>>

MarkCopying ==
    /\ At("mark_copying")
    /\ WriteMarker(Root, "copying_to_work", "open", "error")
    /\ UNCHANGED <<used, verified, lastWrite>>

(* Encrypting creates the work's configuration, then refuses a source that  *)
(* is an encrypted root; decrypting opens the source, which fails unless it *)
(* is one.  Then the source is listed.                                      *)
OpenAndList ==
    /\ At("open")
    /\ LET opened == [dir EXCEPT ![Work(job.op)].form = TargetForm(job.kind)]
       IN  \/ /\ dir[Root].form = SourceForm(job.kind)
              /\ dir' = opened
              /\ job' = [job EXCEPT !.pc = "copy", !.todo = Listed(dir[Root].tree)]
              /\ UNCHANGED <<result, spent>>
           \/ /\ dir[Root].form # SourceForm(job.kind)
              /\ dir' = opened
              /\ Return("error")
              /\ UNCHANGED spent
           \/ /\ dir' \in {dir, opened}
              /\ Return("error")
              /\ Spend("fault")
    /\ UNCHANGED <<used, verified, lastWrite>>

\* One file of importDirectory or exportDirectory; a file gone since the listing is an error.
CopyFile(f) ==
    /\ At("copy")
    /\ f \in job.todo
    /\ \/ /\ dir[Root].tree[f] # Gone
          /\ dir' = [dir EXCEPT ![Work(job.op)].tree[f] = dir[Root].tree[f]]
          /\ job' = [job EXCEPT !.todo = @ \ {f}]
          /\ UNCHANGED <<result, spent>>
       \/ /\ dir[Root].tree[f] = Gone
          /\ Return("error")
          /\ UNCHANGED <<dir, spent>>
       \/ /\ UNCHANGED dir
          /\ Return("error")
          /\ Spend("fault")
    /\ UNCHANGED <<used, verified, lastWrite>>

CopyDone ==
    /\ At("copy")
    /\ job.todo = {}
    /\ Goto("mark_verifying")
    /\ UNCHANGED <<dir, used, verified, lastWrite, spent>>

\* Mutant: the phase after the verification is written before it.
MarkVerifyingEarly ==
    /\ At("mark_verifying")
    /\ WriteMarker(Root, "renaming_root_to_backup", "list_source", "error")
    /\ UNCHANGED <<used, verified, lastWrite>>

MarkVerifying ==
    /\ At("mark_verifying")
    /\ WriteMarker(Root, "verifying_work", "list_source", "error")
    /\ UNCHANGED <<used, verified, lastWrite>>

ListSource ==
    /\ At("list_source")
    /\ \/ /\ job' = [job EXCEPT !.pc = "verify_source", !.todo = Listed(dir[Root].tree)]
          /\ UNCHANGED <<result, spent>>
       \/ Return("error") /\ Spend("fault")
    /\ UNCHANGED <<dir, used, verified, lastWrite>>

(* First pass: every listed source file is in the work with the same digest. *)
(* A source file gone since the listing fails to open, which is an error     *)
(* and not a difference.                                                     *)
VerifyFile(f) ==
    /\ At("verify_source")
    /\ f \in job.todo
    /\ LET source == dir[Root].tree[f]
           copy == dir[Work(job.op)].tree[f]
       IN  \/ /\ copy = Gone \/ source # Gone
              /\ job' = [job EXCEPT !.todo = @ \ {f}, !.diff = @ \/ copy = Gone \/ copy # source]
              /\ UNCHANGED <<result, spent>>
           \/ /\ copy # Gone /\ source = Gone
              /\ Return("error")
              /\ UNCHANGED spent
           \/ Return("error") /\ Spend("fault")
    /\ UNCHANGED <<dir, used, verified, lastWrite>>

VerifySourceDone ==
    /\ At("verify_source")
    /\ job.todo = {}
    /\ job' = [job EXCEPT !.pc = "verify_work", !.todo = Listed(dir[Work(job.op)].tree)]
    /\ UNCHANGED <<dir, result, used, verified, lastWrite, spent>>

\* Second pass: no file of the work is missing from the source.
VerifyExtra(f) ==
    /\ At("verify_work")
    /\ f \in job.todo
    /\ \/ /\ job' = [job EXCEPT !.todo = @ \ {f}, !.diff = @ \/ dir[Root].tree[f] = Gone]
          /\ UNCHANGED <<result, spent>>
       \/ Return("error") /\ Spend("fault")
    /\ UNCHANGED <<dir, used, verified, lastWrite>>

VerifyDone ==
    /\ At("verify_work")
    /\ job.todo = {}
    /\ IF job.diff
          THEN Goto("mark_attention") /\ UNCHANGED verified
          ELSE /\ Goto("mark_commit")
               /\ verified' = [verified EXCEPT ![job.op] = dir[Work(job.op)].tree]
    /\ UNCHANGED <<dir, used, lastWrite, spent>>

\* recordVerificationFailure: the call fails whether or not the report is written.
MarkAttention ==
    /\ At("mark_attention")
    /\ \/ dir' = Marked(Root, job.op, "needs_attention") /\ UNCHANGED spent
       \/ UNCHANGED dir /\ Spend("fault")
    /\ Return("error")
    /\ UNCHANGED <<used, verified, lastWrite>>

-----------------------------------------------------------------------------
(* commitConvertRename *)

\* Mutant: the root is renamed with no marker of it.
MarkCommitNot ==
    /\ At("mark_commit")
    /\ Goto("rename_root")
    /\ UNCHANGED <<dir, used, verified, lastWrite, spent>>

MarkCommit ==
    /\ At("mark_commit")
    /\ WriteMarker(Root, "renaming_root_to_backup", "rename_root", "error")
    /\ UNCHANGED <<used, verified, lastWrite>>

RenameRoot ==
    /\ At("rename_root")
    /\ RenameDir(Root, Backup(job.op), "mark_backup", "error")
    /\ UNCHANGED <<used, verified, lastWrite>>

MarkBackup ==
    /\ At("mark_backup")
    /\ WriteMarker(Backup(job.op), "renaming_root_to_backup", "mark_rename_work", "error")
    /\ UNCHANGED <<used, verified, lastWrite>>

MarkRenameWork ==
    /\ At("mark_rename_work")
    /\ WriteMarker(Backup(job.op), "renaming_work_to_root", "rename_work", "error")
    /\ UNCHANGED <<used, verified, lastWrite>>

RenameWork ==
    /\ At("rename_work")
    /\ RenameDir(Work(job.op), Root, "mark_completed", "error")
    /\ UNCHANGED <<used, verified, lastWrite>>

MarkCompleted ==
    /\ At("mark_completed")
    /\ WriteMarker(Root, "completed", "clean_root", "error")
    /\ UNCHANGED <<used, verified, lastWrite>>

\* Both markers go, root first; the end of a conversion and of a recovery.
CleanRoot ==
    /\ At("clean_root")
    /\ DropMarker(Root)
    /\ Goto("clean_backup")
    /\ UNCHANGED <<used, verified, lastWrite>>

CleanBackupNot ==
    /\ At("clean_backup")
    /\ Return(job.outcome)
    /\ UNCHANGED <<dir, used, verified, lastWrite, spent>>

CleanBackup ==
    /\ At("clean_backup")
    /\ DropMarker(Backup(job.op))
    /\ Return(job.outcome)
    /\ UNCHANGED <<used, verified, lastWrite>>

-----------------------------------------------------------------------------
(* RecoverConvert *)

\* Mutant: the state of the directories must be the one the phase names.
RecoverPlanLiteral(o, phase) ==
    LET root == Present(Root)
        work == Present(Work(o))
        backup == Present(Backup(o))
    IN  CASE phase \in EarlyPhases /\ root /\ ~backup -> "discard"
          [] phase = "renaming_root_to_backup" /\ root /\ work /\ ~backup -> "backup_root"
          [] phase = "renaming_work_to_root" /\ ~root /\ work /\ backup -> "install_work"
          [] phase = "completed" -> "clean_root"
          [] OTHER -> "needs_attention"

(* What recovery does about a marker of operation o in a phase: where it    *)
(* continues, or "needs_attention".                                         *)
RecoverPlan(o, phase) ==
    LET root == Present(Root)
        work == Present(Work(o))
        backup == Present(Backup(o))
    IN  CASE phase \in EarlyPhases /\ root /\ ~backup -> "discard"
          [] phase = "renaming_root_to_backup" /\ root /\ work /\ ~backup -> "backup_root"
          [] phase \in RenamePhases /\ ~root /\ work /\ backup -> "install_work"
          [] phase \in RenamePhases /\ root /\ ~work /\ backup -> "clean_root"
          [] phase = "completed" -> "clean_root"
          [] OTHER -> "needs_attention"

RecoverOutcome(pc) ==
    CASE pc = "discard" -> "rerun"
      [] pc = "clean_root" -> "completed"
      [] OTHER -> "continue_rename"

RecoverNothing ==
    /\ At("idle")
    /\ Unfinished = {}
    /\ Return("none")
    /\ UNCHANGED <<dir, used, verified, lastWrite, spent>>

RecoverAmbiguous ==
    /\ At("idle")
    /\ Cardinality(Unfinished) > 1
    /\ Return("needs_attention")
    /\ UNCHANGED <<dir, used, verified, lastWrite, spent>>

RecoverConvert(o) ==
    /\ At("idle")
    /\ Unfinished = {o}
    /\ \E p \in FirstMarkers(o) :
          LET plan == RecoverPlan(o, dir[p].marker[o])
          IN  \/ plan = "needs_attention" /\ Return(plan)
              \/ /\ plan # "needs_attention"
                 /\ job' = [Idle EXCEPT !.pc = plan, !.op = o, !.outcome = RecoverOutcome(plan)]
                 /\ UNCHANGED result
    /\ UNCHANGED <<dir, used, verified, lastWrite, spent>>

\* Mutant: the work is forgotten, not removed.
DiscardNot ==
    /\ At("discard")
    /\ Goto("unmark")
    /\ UNCHANGED <<dir, used, verified, lastWrite, spent>>

(* removeAllPath of the work: entry by entry, then the directory.  With no  *)
(* work there is nothing to do.                                             *)
Discard ==
    /\ At("discard")
    /\ LET work == Work(job.op)
       IN  \/ \E f \in Files :
                 /\ dir[work].tree[f] # Gone
                 /\ dir' = [dir EXCEPT ![work].tree[f] = Gone]
                 /\ UNCHANGED <<job, result, spent>>
           \/ /\ dir[work].tree = EmptyTree
              /\ dir' = [dir EXCEPT ![work] = Absent]
              /\ Goto("unmark")
              /\ UNCHANGED spent
           \/ /\ Present(work)
              /\ \/ UNCHANGED dir
                 \/ dir[work].tree = EmptyTree /\ dir' = [dir EXCEPT ![work] = Absent]
              /\ Return("io_attention")
              /\ Spend("fault")
    /\ UNCHANGED <<used, verified, lastWrite>>

\* Mutant: the marker stays.
UnmarkNot ==
    /\ At("unmark")
    /\ Return(job.outcome)
    /\ UNCHANGED <<dir, used, verified, lastWrite, spent>>

Unmark ==
    /\ At("unmark")
    /\ \/ dir' = Unmarked(Root, job.op) /\ Return(job.outcome) /\ UNCHANGED spent
       \/ dir' \in {dir, Unmarked(Root, job.op)} /\ Return("io_attention") /\ Spend("fault")
    /\ UNCHANGED <<used, verified, lastWrite>>

BackupRoot ==
    /\ At("backup_root")
    /\ RenameDir(Root, Backup(job.op), "mark_backed_up", "io_attention")
    /\ UNCHANGED <<used, verified, lastWrite>>

MarkBackedUp ==
    /\ At("mark_backed_up")
    /\ WriteMarker(Backup(job.op), "renaming_work_to_root", "install_work", "io_attention")
    /\ UNCHANGED <<used, verified, lastWrite>>

InstallWork ==
    /\ At("install_work")
    /\ RenameDir(Work(job.op), Root, "clean_root", "io_attention")
    /\ UNCHANGED <<used, verified, lastWrite>>

-----------------------------------------------------------------------------
(* The environment *)

\* The process dies: the lock goes with it, the disk stays as it is.
Crash ==
    /\ ~At("idle")
    /\ Spend("crash")
    /\ Return("crashed")
    /\ UNCHANGED <<dir, used, verified, lastWrite>>

\* A user or another program writes or deletes a file of the root; no lock is involved.
Edit(f, v) ==
    /\ Present(Root)
    /\ dir[Root].tree[f] # v
    /\ Spend("edit")
    /\ dir' = [dir EXCEPT ![Root].tree[f] = v]
    /\ lastWrite' = [lastWrite EXCEPT ![f] = v]
    /\ UNCHANGED <<job, result, used, verified>>

\* The "create" command on a path that does not exist: no lock, no look at markers.
CreateEmptyRoot ==
    /\ ~Present(Root)
    /\ Spend("create")
    /\ dir' = [dir EXCEPT ![Root].form = "enc"]
    /\ UNCHANGED <<job, result, used, verified, lastWrite>>

(* cleanUnfinishedImportExport with an explicit operation id, which may be  *)
(* one of a conversion.  It needs an open, that is an encrypted, root.      *)
CleanUnfinished(o) ==
    /\ At("idle")
    /\ dir[Root].form = "enc"
    /\ dir[Root].marker[o] # "none"
    /\ Spend("clean")
    /\ dir' = Unmarked(Root, o)
    /\ UNCHANGED <<job, result, used, verified, lastWrite>>

-----------------------------------------------------------------------------
(* Specification *)

Init ==
    /\ \E form \in {"plain", "enc"}, tree \in Trees :
          /\ dir = [p \in Path |-> IF p = Root THEN [Absent EXCEPT !.form = form, !.tree = tree]
                                               ELSE Absent]
          /\ lastWrite = tree
    /\ job = Idle
    /\ result = "none"
    /\ used = {}
    /\ verified = [o \in Ops |-> NoTree]
    /\ spent = [e \in Events |-> 0]

Copying == MarkCreating \/ MakeWork \/ MarkCopying \/ OpenAndList \/ CopyDone \/ MarkVerifying
           \/ \E f \in Files : CopyFile(f)
Verifying == ListSource \/ VerifySourceDone \/ VerifyDone \/ MarkAttention
             \/ \E f \in Files : VerifyFile(f) \/ VerifyExtra(f)
Committing == MarkCommit \/ RenameRoot \/ MarkBackup \/ MarkRenameWork \/ RenameWork
              \/ MarkCompleted \/ CleanRoot \/ CleanBackup
Recovering == Discard \/ Unmark \/ BackupRoot \/ MarkBackedUp \/ InstallWork

JobStep == Copying \/ Verifying \/ Committing \/ Recovering
Recover == RecoverNothing \/ RecoverAmbiguous \/ \E o \in Ops : RecoverConvert(o)
User == \/ \E k \in Kinds : ConvertRoot(k)
        \/ \E f \in Files, v \in Values \cup {Gone} : Edit(f, v)
        \/ \E o \in Ops : CleanUnfinished(o)
        \/ CreateEmptyRoot

Next == JobStep \/ Recover \/ User \/ Crash

Spec == Init /\ [][Next]_vars

(* A call that runs keeps running unless it crashes; a directory with       *)
(* markers is opened again some day, and opening it recovers it first.      *)
FairSpec == Spec /\ WF_vars(JobStep) /\ WF_vars(Recover)

-----------------------------------------------------------------------------
(* Properties *)

(* Every variable keeps its type, a directory that is not there holds       *)
(* nothing, and a call that runs has an operation id.                       *)
TypeOK ==
    /\ Disk(dir)
    /\ job \in Jobs
    /\ result \in Results
    /\ used \subseteq Ops
    /\ verified \in [Ops -> Trees \cup {NoTree}]
    /\ lastWrite \in Trees
    /\ spent \in [Events -> Nat]
    /\ job.pc # "idle" => job.op \in Ops

(* Whatever the user last wrote to a file is in the root or in a backup,    *)
(* whichever call crashed or failed where, and whatever recovery undid:     *)
(* convert and recover only ever delete work directories.                   *)
LastWriteSurvives ==
    \A f \in Files : lastWrite[f] # Gone => \E p \in Kept : dir[p].tree[f] = lastWrite[f]

(* The work of o, if there is one, holds exactly what o verified. *)
Sealed(o) == verified[o] # NoTree /\ (Present(Work(o)) => dir[Work(o)].tree = verified[o])

SwitchPcs == {"rename_root", "mark_backup", "mark_rename_work", "rename_work",
              "backup_root", "mark_backed_up", "install_work"}

\* An id that was never drawn has left nothing on the disk.
FreshIds ==
    \A o \in Ops \ used : /\ \A p \in Path : dir[p].marker[o] = "none"
                          /\ ~Present(Work(o))

\* Until the commit, an operation's only marker is in the root, in an early phase.
EarlyJob ==
    job.pc \in CopyPcs \cup {"mark_commit"} =>
        /\ \A p \in Path \ {Root} : dir[p].marker[job.op] = "none"
        /\ dir[Root].marker[job.op] \notin RenamePhases

\* A job that renames has verified its work and left the early phases behind.
SwitchJob ==
    /\ job.pc = "mark_commit" => Sealed(job.op)
    /\ job.pc \in SwitchPcs =>
          Sealed(job.op) /\ \A p \in Path : dir[p].marker[job.op] \notin EarlyPhases

\* A job that discards its work has no marker that would install it.
DiscardJob ==
    job.pc \in {"discard", "unmark"} =>
        \A p \in Path : dir[p].marker[job.op] \notin RenamePhases

\* A marker in a rename phase vouches for the work; the markers of one operation agree.
RenameMarkers ==
    \A o \in Ops, p \in Path : dir[p].marker[o] \in RenamePhases =>
        /\ Sealed(o)
        /\ \A q \in Path : dir[q].marker[o] \notin EarlyPhases

(* The inductive invariant behind InstallsOnlyVerified: a crash may cut a   *)
(* call anywhere and a second conversion may carry the markers of a first   *)
(* one into its backup, yet a marker that lets recovery rename a work       *)
(* exists only for a work that was verified and has not changed since.      *)
SealInv ==
    /\ job.pc # "idle" => job.op \in used
    /\ FreshIds
    /\ EarlyJob
    /\ SwitchJob
    /\ DiscardJob
    /\ RenameMarkers

(* A work directory takes the place of the root only with the very tree its *)
(* own operation verified, whether the conversion renames it or a recovery. *)
InstallsOnlyVerified ==
    [][\A o \in Ops :
          (/\ Present(Work(o)) /\ ~Present(Root)
           /\ (~Present(Work(o)))' /\ Present(Root)')
          => dir'[Root].tree = verified[o]]_vars

(* No crash or error leaves a hole: while the root is away, a backup and a  *)
(* verified work of one operation are there, with a marker from which       *)
(* recovery goes on.                                                        *)
RootRecoverable ==
    ~Present(Root) => \E o \in Ops :
        /\ Present(Backup(o))
        /\ Present(Work(o))
        /\ dir[Work(o)].tree = verified[o]
        /\ \E p \in Kept : dir[p].marker[o] \in RenamePhases

(* A backup, once there, keeps its form and its files for good.             *)
BackupsStay ==
    [][\A o \in Ops : Present(Backup(o)) =>
          /\ dir'[Backup(o)].form = dir[Backup(o)].form
          /\ dir'[Backup(o)].tree = dir[Backup(o)].tree]_vars

(* No copy of the user's files is left behind that recovery cannot find: a  *)
(* work directory is named by a marker.                                     *)
WorkIsTracked == \A o \in Ops : Present(Work(o)) => o \in Unfinished

(* Recovery gives up on a state only when a verification failed: neither a  *)
(* crash of the conversion, at any step, nor one of recovery itself leads   *)
(* to a state it cannot decide.                                             *)
AttentionOnlyForMismatch ==
    result = "needs_attention" => \E p \in Path, o \in Ops : dir[p].marker[o] = "needs_attention"

(* A recovery that reports it cleaned up or finished leaves no marker       *)
(* (unless removing one failed: the code ignores that error).               *)
RecoveryCleansUp ==
    /\ result \in {"rerun", "continue_rename", "completed"}
    /\ At("idle")
    /\ spent["fault"] = 0
    => Unfinished = {}

(* An unfinished conversion is eventually finished or undone, or reported   *)
(* for attention.                                                           *)
UnfinishedIsResolved ==
    Unfinished # {} ~>
        (Unfinished = {} \/ \E p \in Path, o \in Ops : dir[p].marker[o] = "needs_attention")

=============================================================================
