--------------------------- MODULE ConvertProofs ---------------------------
(* Proofs about Convert, for any operations, files, contents and bounds. *)
EXTENDS Convert, FiniteSetTheorems, TLAPS

(* The three kinds of path are disjoint and injective in the operation. *)
LEMMA Paths ==
    /\ Root \in Path /\ Root \in Kept /\ Kept \subseteq Path
    /\ \A o \in Ops : /\ Work(o) \in Path /\ Work(o) \notin Kept
                      /\ Backup(o) \in Path /\ Backup(o) \in Kept
                      /\ Work(o) # Root /\ Backup(o) # Root
    /\ \A o, u \in Ops : /\ Work(o) # Backup(u)
                         /\ Work(o) = Work(u) => o = u
                         /\ Backup(o) = Backup(u) => o = u
BY DEF Root, Work, Backup, Path, Kept

(* An absent directory is a directory, empty and without markers. *)
LEMMA AbsentType == Absent \in Dirs /\ EmptyTree \in Trees /\ Absent.form = "absent"
                    /\ Absent.tree = EmptyTree /\ Absent.marker = NoMarkers
BY DEF Absent, Dirs, EmptyTree, Trees, NoMarkers

(* e is the disk with no more changed than the marker of o in p, which is    *)
(* then one of ms, and possibly p created.                                   *)
Remarks(e, p, o, ms) ==
    /\ Disk(e)
    /\ \A q \in Path : e[q].tree = dir[q].tree
    /\ \A q \in Path : dir[q].form # "absent" => e[q].form = dir[q].form
    /\ \A q \in Path : q # p => e[q] = dir[q]
    /\ \A u \in Ops : u # o => e[p].marker[u] = dir[p].marker[u]
    /\ e[p].marker[o] \in ms

(* An untouched disk. *)
LEMMA SameDisk ==
    ASSUME Disk(dir), NEW p \in Path, NEW o \in Ops
    PROVE  Remarks(dir, p, o, {dir[p].marker[o]})
BY DEF Remarks

(* MkdirAll changes no marker and no file. *)
LEMMA MadeDisk ==
    ASSUME Disk(dir), NEW p \in Path, NEW o \in Ops
    PROVE  Remarks(Made(p), p, o, {dir[p].marker[o]}) /\ Made(p)[p].form # "absent"
BY DEF Disk, Made, Dirs, Remarks

(* Writing a marker changes that marker only, and its directory exists then. *)
LEMMA MarkedDisk ==
    ASSUME Disk(dir), NEW p \in Path, NEW o \in Ops, NEW ph \in Phases
    PROVE  Remarks(Marked(p, o, ph), p, o, {ph}) /\ Marked(p, o, ph)[p].form # "absent"
BY DEF Disk, Marked, Dirs, Remarks

(* Removing a marker changes that marker only, and no form. *)
LEMMA UnmarkedDisk ==
    ASSUME Disk(dir), NEW p \in Path, NEW o \in Ops
    PROVE  /\ Remarks(Unmarked(p, o), p, o, {"none"})
           /\ \A q \in Path : Unmarked(p, o)[q].form = dir[q].form
BY AbsentType DEF Disk, Unmarked, Dirs, Absent, NoMarkers, Remarks

(* A rename moves one directory and touches no other. *)
LEMMA MovedDisk ==
    ASSUME Disk(dir), NEW p \in Path, NEW q \in Path, p # q
    PROVE  /\ Disk(Moved(p, q))
           /\ Moved(p, q)[q] = dir[p]
           /\ Moved(p, q)[p] = Absent
           /\ \A r \in Path : r # p /\ r # q => Moved(p, q)[r] = dir[r]
BY AbsentType DEF Disk, Moved

-----------------------------------------------------------------------------
(* What the building blocks of the actions do to the call and to the disk. *)

(* The idle call is a call. *)
LEMMA IdleType == Idle \in Jobs /\ Idle.pc = "idle"
BY DEF Idle, Jobs, Pcs, Kinds, Results

(* Going on changes the place in the call, and nothing else of it. *)
LEMMA GotoJob ==
    ASSUME job \in Jobs, NEW l \in Pcs, Goto(l)
    PROVE  /\ job' \in Jobs /\ job'.pc = l /\ job'.op = job.op /\ job'.outcome = job.outcome
           /\ job'.kind = job.kind /\ result' = result
BY DEF Goto, Jobs

(* Returning leaves the idle call. *)
LEMMA ReturnJob ==
    ASSUME NEW r \in Results, Return(r)
    PROVE  job' \in Jobs /\ job'.pc = "idle" /\ result' \in Results
BY IdleType DEF Return

(* Spending keeps the counters natural. *)
LEMMA SpendType ==
    ASSUME spent \in [Events -> Nat], NEW e \in Events, Spend(e)
    PROVE  spent' \in [Events -> Nat]
BY DEF Spend

\* What every step of a call must keep of the volatile state.
CallOK ==
    /\ job \in Jobs
    /\ result \in Results
    /\ spent \in [Events -> Nat]
    /\ job.pc # "idle" => job.op \in Ops

(* writeMarker, whether it fails or not, touches one marker of the operation. *)
LEMMA WriteMarkerStep ==
    ASSUME Disk(dir), CallOK, ~At("idle"), NEW p \in Path, NEW ph \in Phases,
           NEW l \in Pcs \ {"idle"}, NEW r \in Results, WriteMarker(p, ph, l, r)
    PROVE  /\ CallOK'
           /\ Remarks(dir', p, job.op, {dir[p].marker[job.op], ph})
           /\ \/ job'.pc = "idle"
              \/ /\ job'.pc = l /\ job'.op = job.op
                 /\ Remarks(dir', p, job.op, {ph}) /\ dir'[p].form # "absent"
<1> DEFINE m == Marked(p, job.op, ph)
<1>1. job.op \in Ops /\ job \in Jobs
  BY DEF CallOK, At
<1>2. Remarks(m, p, job.op, {ph}) /\ m[p].form # "absent"
  BY <1>1, MarkedDisk
<1>3. ASSUME NEW e \in {dir, Made(p), m}
      PROVE  Remarks(e, p, job.op, {dir[p].marker[job.op], ph})
  <2>1. Remarks(dir, p, job.op, {dir[p].marker[job.op]})
    BY <1>1, SameDisk
  <2>2. Remarks(Made(p), p, job.op, {dir[p].marker[job.op]})
    BY <1>1, MadeDisk
  <2> QED
    BY <1>2, <2>1, <2>2 DEF Remarks
<1>4. CASE dir' = m /\ Goto(l) /\ UNCHANGED spent
  <2>1. job' \in Jobs /\ job'.pc = l /\ job'.op = job.op /\ result' = result
    BY <1>1, <1>4, GotoJob
  <2>2. CallOK'
    BY <1>1, <1>4, <2>1 DEF CallOK
  <2> HIDE DEF m
  <2> QED
    BY <1>2, <1>3, <1>4, <2>1, <2>2
<1>5. CASE dir' \in {dir, Made(p), m} /\ Return(r) /\ Spend("fault")
  <2>1. job' \in Jobs /\ job'.pc = "idle" /\ result' \in Results
    BY <1>5, ReturnJob
  <2>2. spent' \in [Events -> Nat]
    BY <1>5, SpendType DEF CallOK, Events
  <2>3. CallOK'
    BY <2>1, <2>2 DEF CallOK
  <2> QED
    BY <1>3, <1>5, <2>1, <2>3
<1> QED
  BY <1>4, <1>5 DEF WriteMarker

(* renamePath moves the directory onto a free path or does nothing. *)
LEMMA RenameDirStep ==
    ASSUME Disk(dir), CallOK, ~At("idle"), NEW p \in Path, NEW q \in Path, p # q,
           NEW l \in Pcs \ {"idle"}, NEW r \in Results, RenameDir(p, q, l, r)
    PROVE  /\ Disk(dir)' /\ CallOK'
           /\ \/ job'.pc = "idle"
              \/ job'.pc = l /\ job'.op = job.op /\ dir' = Moved(p, q)
           /\ dir' = dir \/ (dir' = Moved(p, q) /\ Present(p) /\ ~Present(q))
<1>1. Disk(Moved(p, q))
  BY MovedDisk
<1>2. ASSUME Return(r)
      PROVE  job' \in Jobs /\ job'.pc = "idle" /\ result' \in Results
  BY <1>2, ReturnJob
<1>3. ASSUME Goto(l)
      PROVE  job' \in Jobs /\ job'.pc = l /\ job'.op = job.op /\ result' = result
  BY <1>3, GotoJob DEF CallOK
<1>4. ASSUME Spend("fault") PROVE spent' \in [Events -> Nat]
  BY <1>4, SpendType DEF CallOK, Events
<1> QED
  BY <1>1, <1>2, <1>3, <1>4 DEF RenameDir, CallOK, Disk, At

(* removeMarker, whether it fails or not, touches one marker of the operation. *)
LEMMA DropMarkerStep ==
    ASSUME Disk(dir), CallOK, ~At("idle"), NEW p \in Path, DropMarker(p)
    PROVE  /\ spent' \in [Events -> Nat]
           /\ Remarks(dir', p, job.op, {dir[p].marker[job.op], "none"})
           /\ \A q \in Path : dir'[q].form = dir[q].form
<1>1. job.op \in Ops
  BY DEF CallOK, At
<1>2. CASE dir' = Unmarked(p, job.op) /\ UNCHANGED spent
  BY <1>1, <1>2, UnmarkedDisk DEF CallOK, Remarks
<1>3. CASE UNCHANGED dir /\ Spend("fault")
  <2>1. spent' \in [Events -> Nat]
    BY <1>3, SpendType DEF CallOK, Events
  <2> QED
    BY <1>1, <1>3, <2>1, SameDisk DEF Remarks
<1> QED
  BY <1>2, <1>3 DEF DropMarker
-----------------------------------------------------------------------------
(* Type correctness *)

(* TypeOK alone is not inductive: copying a file into a work that is not     *)
(* there would put a file into nothing.                                      *)
CopyHasWork == At("copy") => Present(Work(job.op))
TypeInv == TypeOK /\ CopyHasWork

(* What is left of TypeOK once the call and the disk are settled. *)
LEMMA TypeFromParts ==
    ASSUME TypeOK, Disk(dir'), CallOK', UNCHANGED <<used, verified, lastWrite>>
    PROVE  TypeOK'
BY DEF TypeOK, CallOK, Disk

(* The eight steps that only write a marker of the running operation. *)
LEMMA MarkerSteps ==
    ASSUME TypeOK,
           MarkCreating \/ MarkCopying \/ MarkVerifying \/ MarkCommit \/ MarkBackup
           \/ MarkRenameWork \/ MarkCompleted \/ MarkBackedUp
    PROVE  /\ TypeInv' /\ UNCHANGED <<used, verified, lastWrite>>
           /\ \E p \in Kept, ph \in Phases : Remarks(dir', p, job.op, {dir[p].marker[job.op], ph})
<1> USE Paths DEF At
<1>1. CallOK /\ Disk(dir)
  BY DEF TypeOK, CallOK
<1>2. job.pc # "idle" => Backup(job.op) \in Kept \cap Path
  BY DEF TypeOK
<1>3. ASSUME ~At("idle"), NEW p \in Kept, NEW ph \in Phases, NEW l \in Pcs \ {"idle", "copy"},
             NEW r \in Results, WriteMarker(p, ph, l, r), UNCHANGED <<used, verified, lastWrite>>
      PROVE  /\ TypeInv' /\ UNCHANGED <<used, verified, lastWrite>>
             /\ \E q \in Kept, h \in Phases :
                   Remarks(dir', q, job.op, {dir[q].marker[job.op], h})
  <2>1. /\ CallOK' /\ Remarks(dir', p, job.op, {dir[p].marker[job.op], ph})
        /\ job'.pc # "copy"
    BY <1>1, <1>3, WriteMarkerStep
  <2>2. TypeOK'
    BY <1>3, <2>1, TypeFromParts DEF Remarks
  <2> QED
    BY <1>3, <2>1, <2>2 DEF TypeInv, CopyHasWork
<1> USE DEF Phases, EarlyPhases, RenamePhases, Pcs, CopyPcs, CommitPcs, RecoverPcs, CleanPcs, Results
<1>4. CASE MarkCreating
  BY <1>3, <1>4 DEF MarkCreating
<1>5. CASE MarkCopying
  BY <1>3, <1>5 DEF MarkCopying
<1>6. CASE MarkVerifying
  BY <1>3, <1>6 DEF MarkVerifying
<1>7. CASE MarkCommit
  BY <1>3, <1>7 DEF MarkCommit
<1>8. CASE MarkBackup
  BY <1>2, <1>3, <1>8 DEF MarkBackup
<1>9. CASE MarkRenameWork
  BY <1>2, <1>3, <1>9 DEF MarkRenameWork
<1>10. CASE MarkCompleted
  BY <1>3, <1>10 DEF MarkCompleted
<1>11. CASE MarkBackedUp
  BY <1>2, <1>3, <1>11 DEF MarkBackedUp
<1> QED
  BY <1>4, <1>5, <1>6, <1>7, <1>8, <1>9, <1>10, <1>11

(* The four renames of the commit and of recovery. *)
LEMMA RenameSteps ==
    ASSUME TypeOK, RenameRoot \/ BackupRoot \/ RenameWork \/ InstallWork
    PROVE  /\ TypeInv' /\ UNCHANGED <<used, verified, lastWrite>> /\ job.op \in Ops
           /\ \/ dir' = dir
              \/ dir' = Moved(Root, Backup(job.op)) /\ Present(Root) /\ ~Present(Backup(job.op))
                 /\ (RenameRoot \/ BackupRoot)
              \/ dir' = Moved(Work(job.op), Root) /\ Present(Work(job.op)) /\ ~Present(Root)
                 /\ (RenameWork \/ InstallWork)
           /\ \/ job'.pc = "idle"
              \/ job'.op = job.op /\ job'.pc \in {"mark_backup", "mark_backed_up",
                                                  "mark_completed", "clean_root"}
<1> USE Paths DEF At
<1>1. CallOK /\ Disk(dir) /\ (job.pc # "idle" => job.op \in Ops)
  BY DEF TypeOK, CallOK
<1>2. ASSUME ~At("idle"), NEW p \in Path, NEW q \in Path, p # q, NEW l \in Pcs \ {"idle", "copy"},
             NEW r \in Results, RenameDir(p, q, l, r), UNCHANGED <<used, verified, lastWrite>>
      PROVE  /\ TypeInv' /\ UNCHANGED <<used, verified, lastWrite>>
             /\ dir' = dir \/ (dir' = Moved(p, q) /\ Present(p) /\ ~Present(q))
             /\ job'.pc = "idle" \/ (job'.pc = l /\ job'.op = job.op)
  <2>1. /\ CallOK' /\ Disk(dir)'
        /\ dir' = dir \/ (dir' = Moved(p, q) /\ Present(p) /\ ~Present(q))
        /\ job'.pc = "idle" \/ (job'.pc = l /\ job'.op = job.op)
    BY <1>1, <1>2, RenameDirStep
  <2>2. TypeOK'
    BY <1>2, <2>1, TypeFromParts DEF Disk
  <2> QED
    BY <1>2, <2>1, <2>2 DEF TypeInv, CopyHasWork
<1> USE DEF Pcs, CopyPcs, CommitPcs, RecoverPcs, CleanPcs, Results
<1>3. CASE RenameRoot
  BY <1>1, <1>2, <1>3 DEF RenameRoot
<1>4. CASE BackupRoot
  BY <1>1, <1>2, <1>4 DEF BackupRoot
<1>5. CASE RenameWork
  BY <1>1, <1>2, <1>5 DEF RenameWork
<1>6. CASE InstallWork
  BY <1>1, <1>2, <1>6 DEF InstallWork
<1> QED
  BY <1>3, <1>4, <1>5, <1>6

(* The steps that remove markers of the running operation. *)
LEMMA CleanSteps ==
    ASSUME TypeOK, CleanRoot \/ CleanBackup \/ Unmark
    PROVE  /\ TypeInv' /\ UNCHANGED <<used, verified, lastWrite>>
           /\ \E p \in Kept : Remarks(dir', p, job.op, {dir[p].marker[job.op], "none"})
           /\ \A q \in Path : dir'[q].form = dir[q].form
<1> USE Paths DEF At
<1>1. CallOK /\ Disk(dir) /\ job.op \in Ops
  BY DEF TypeOK, CallOK, CleanRoot, CleanBackup, Unmark
<1>2. ASSUME CallOK', Disk(dir'), UNCHANGED <<used, verified, lastWrite>>, job'.pc # "copy"
      PROVE  TypeInv'
  BY <1>2, TypeFromParts DEF TypeInv, CopyHasWork
<1>3. CASE CleanRoot
  <2>1. /\ spent' \in [Events -> Nat]
        /\ Remarks(dir', Root, job.op, {dir[Root].marker[job.op], "none"})
        /\ \A q \in Path : dir'[q].form = dir[q].form
    BY <1>1, <1>3, DropMarkerStep DEF CleanRoot
  <2>2. job' \in Jobs /\ job'.pc = "clean_backup" /\ job'.op = job.op /\ result' = result
    BY <1>1, <1>3, GotoJob DEF CleanRoot, CallOK, Pcs, CleanPcs
  <2>3. CallOK'
    BY <1>1, <2>1, <2>2 DEF CallOK
  <2> QED
    BY <1>2, <1>3, <2>1, <2>2, <2>3 DEF CleanRoot, Remarks
<1>4. CASE CleanBackup
  <2>1. /\ spent' \in [Events -> Nat]
        /\ Remarks(dir', Backup(job.op), job.op, {dir[Backup(job.op)].marker[job.op], "none"})
        /\ \A q \in Path : dir'[q].form = dir[q].form
    BY <1>1, <1>4, DropMarkerStep DEF CleanBackup
  <2>2. job' \in Jobs /\ job'.pc = "idle" /\ result' \in Results
    BY <1>1, <1>4, ReturnJob DEF CleanBackup, CallOK, Jobs
  <2>3. CallOK'
    BY <1>1, <2>1, <2>2 DEF CallOK
  <2> QED
    BY <1>1, <1>2, <1>4, <2>1, <2>2, <2>3 DEF CleanBackup, Remarks
<1>5. CASE Unmark
  <2>1. /\ job' \in Jobs /\ job'.pc = "idle" /\ result' \in Results
    BY <1>1, <1>5, ReturnJob DEF Unmark, CallOK, Jobs, Results
  <2>2. spent' \in [Events -> Nat]
    BY <1>1, <1>5, SpendType DEF Unmark, CallOK, Events
  <2>3. /\ Remarks(dir', Root, job.op, {dir[Root].marker[job.op], "none"})
        /\ \A q \in Path : dir'[q].form = dir[q].form
    BY <1>1, <1>5, SameDisk, UnmarkedDisk DEF Unmark, Remarks
  <2>4. CallOK'
    BY <2>1, <2>2 DEF CallOK
  <2> QED
    BY <1>2, <1>5, <2>1, <2>3, <2>4 DEF Unmark, Remarks
<1> QED
  BY <1>3, <1>4, <1>5

(* The steps that fill or empty the work directory touch nothing else, and   *)
(* no marker.                                                                *)
LEMMA WorkSteps ==
    ASSUME TypeInv, MakeWork \/ OpenAndList \/ Discard \/ \E f \in Files : CopyFile(f)
    PROVE  /\ TypeInv' /\ UNCHANGED <<used, verified, lastWrite>> /\ job.op \in Ops
           /\ \A q \in Path \ {Work(job.op)} : dir'[q] = dir[q]
           /\ \/ dir'[Work(job.op)].marker = dir[Work(job.op)].marker
              \/ dir'[Work(job.op)] = Absent
<1> USE Paths DEF At
<1> DEFINE w == Work(job.op)
<1>1. /\ CallOK /\ Disk(dir) /\ job.op \in Ops /\ w \in Path /\ TypeOK /\ job \in Jobs
      /\ dir \in [Path -> Dirs] /\ dir[w] \in Dirs
  BY DEF TypeInv, TypeOK, CallOK, MakeWork, OpenAndList, CopyFile, Discard, Disk
<1>2. ASSUME CallOK', Disk(dir'), UNCHANGED <<used, verified, lastWrite>>,
             job'.pc = "copy" => dir'[Work(job'.op)].form # "absent"
      PROVE  TypeInv'
  BY <1>1, <1>2, TypeFromParts DEF TypeInv, CopyHasWork, Present
<1>3. ASSUME NEW r \in Results, Return(r), Spend("fault")
      PROVE  CallOK' /\ job'.pc = "idle"
  BY <1>1, <1>3, ReturnJob, SpendType DEF CallOK, Events
<1>4. ASSUME NEW r \in Results, Return(r), UNCHANGED spent
      PROVE  CallOK' /\ job'.pc = "idle"
  BY <1>1, <1>4, ReturnJob DEF CallOK
<1>5. ASSUME NEW l \in Pcs, Goto(l), UNCHANGED spent
      PROVE  CallOK' /\ job'.pc = l
  BY <1>1, <1>5, GotoJob DEF CallOK
<1>6. CASE MakeWork
  <2>1. Remarks(Made(w), w, job.op, {dir[w].marker[job.op]}) /\ Made(w)[w].marker = dir[w].marker
    BY <1>1, MadeDisk DEF Made, Dirs
  <2>2. CallOK' /\ job'.pc # "copy"
    BY <1>3, <1>5, <1>6 DEF MakeWork, Results, Pcs, CopyPcs
  <2>3. dir' \in {dir, Made(w)} /\ UNCHANGED <<used, verified, lastWrite>>
    BY <1>6 DEF MakeWork
  <2> QED
    BY <1>1, <1>2, <2>1, <2>2, <2>3 DEF Remarks
<1>7. CASE OpenAndList
  <2> DEFINE opened == [dir EXCEPT ![w].form = TargetForm(job.kind)]
  <2>1. /\ Disk(opened) /\ opened[w].form # "absent" /\ opened[w].marker = dir[w].marker
        /\ \A q \in Path \ {w} : opened[q] = dir[q]
    BY <1>1 DEF Disk, Dirs, TargetForm
  <2>2. dir' \in {dir, opened} /\ UNCHANGED <<used, verified, lastWrite>>
    BY <1>7 DEF OpenAndList
  <2>3. CASE /\ dir' = opened
             /\ job' = [job EXCEPT !.pc = "copy", !.todo = Listed(dir[Root].tree)]
             /\ UNCHANGED <<result, spent>>
    <3>1. job' \in Jobs /\ job'.pc = "copy" /\ job'.op = job.op
      BY <1>1, <2>3 DEF Jobs, Pcs, CopyPcs, Listed
    <3> QED
      BY <1>1, <1>2, <2>1, <2>2, <2>3, <3>1 DEF CallOK
  <2>4. CASE Return("error") /\ (UNCHANGED spent \/ Spend("fault"))
    <3>1. CallOK' /\ job'.pc = "idle"
      BY <1>3, <1>4, <2>4 DEF Results
    <3> QED
      BY <1>1, <1>2, <2>1, <2>2, <3>1
  <2> QED
    BY <1>7, <2>3, <2>4 DEF OpenAndList
<1>8. ASSUME NEW f \in Files, CopyFile(f) PROVE TypeInv' /\ \A q \in Path \ {w} : dir'[q] = dir[q]
             /\ dir'[w].marker = dir[w].marker /\ UNCHANGED <<used, verified, lastWrite>>
  <2>1. dir[w].form # "absent" /\ UNCHANGED <<used, verified, lastWrite>> /\ job.pc = "copy"
    BY <1>8 DEF TypeInv, CopyHasWork, Present, CopyFile
  <2>2. CASE /\ dir' = [dir EXCEPT ![w].tree[f] = dir[Root].tree[f]]
             /\ job' = [job EXCEPT !.todo = @ \ {f}]
             /\ UNCHANGED <<result, spent>>
    <3>1. job' \in Jobs /\ job'.pc = "copy" /\ job'.op = job.op
      BY <1>1, <2>1, <2>2 DEF Jobs
    <3>2. dir[Root].tree[f] \in Values \cup {Gone}
      BY <1>1 DEF Dirs, Trees
    <3>3. /\ Disk(dir') /\ dir'[w].form = dir[w].form /\ dir'[w].marker = dir[w].marker
          /\ \A q \in Path \ {w} : dir'[q] = dir[q]
      BY <1>1, <2>1, <2>2, <3>2 DEF Disk, Dirs, Trees
    <3> QED
      BY <1>1, <1>2, <2>1, <2>2, <3>1, <3>3 DEF CallOK
  <2>3. CASE UNCHANGED dir /\ Return("error") /\ (UNCHANGED spent \/ Spend("fault"))
    <3>1. CallOK' /\ job'.pc = "idle"
      BY <1>3, <1>4, <2>3 DEF Results
    <3> QED
      BY <1>1, <1>2, <2>1, <2>3, <3>1
  <2> QED
    BY <1>8, <2>2, <2>3 DEF CopyFile
<1>9. CASE Discard
  <2>1. UNCHANGED <<used, verified, lastWrite>> /\ job.pc = "discard"
    BY <1>9 DEF Discard
  <2>2. Disk([dir EXCEPT ![w] = Absent])
    BY <1>1, AbsentType DEF Disk
  <2>3. ASSUME NEW f \in Files, dir[w].tree[f] # Gone, dir' = [dir EXCEPT ![w].tree[f] = Gone],
               UNCHANGED <<job, result, spent>>
        PROVE  TypeInv' /\ \A q \in Path \ {w} : dir'[q] = dir[q]
               /\ dir'[w].marker = dir[w].marker
    <3>1. dir[w].form # "absent"
      BY <1>1, <2>3 DEF Disk, Absent, EmptyTree
    <3>2. Disk(dir') /\ dir'[w].marker = dir[w].marker /\ \A q \in Path \ {w} : dir'[q] = dir[q]
      BY <1>1, <2>3, <3>1 DEF Disk, Dirs, Trees
    <3> QED
      BY <1>1, <1>2, <2>1, <2>3, <3>2 DEF CallOK
  <2>4. CASE dir' = [dir EXCEPT ![w] = Absent] /\ Goto("unmark") /\ UNCHANGED spent
    <3>1. CallOK' /\ job'.pc = "unmark"
      BY <1>5, <2>4 DEF Pcs, RecoverPcs
    <3> QED
      BY <1>1, <1>2, <2>1, <2>2, <2>4, <3>1
  <2>5. CASE dir' \in {dir, [dir EXCEPT ![w] = Absent]} /\ Return("io_attention") /\ Spend("fault")
    <3>1. CallOK' /\ job'.pc = "idle"
      BY <1>3, <2>5 DEF Results
    <3> QED
      BY <1>1, <1>2, <2>1, <2>2, <2>5, <3>1
  <2> QED
    BY <1>1, <1>9, <2>1, <2>3, <2>4, <2>5 DEF Discard
<1> QED
  BY <1>1, <1>6, <1>7, <1>8, <1>9

(* The steps that leave the disk alone. *)
Quiet ==
    \/ CopyDone \/ ListSource \/ VerifySourceDone \/ VerifyDone \/ Recover \/ Crash
    \/ \E k \in Kinds : ConvertRoot(k)
    \/ \E f \in Files : VerifyFile(f) \/ VerifyExtra(f)

(* The steps of a call that leave the disk alone. *)
LEMMA QuietSteps ==
    ASSUME TypeInv, Quiet
    PROVE  TypeInv' /\ UNCHANGED <<dir, lastWrite>>
<1> USE DEF At
<1>1. CallOK /\ Disk(dir) /\ TypeOK /\ job \in Jobs /\ dir \in [Path -> Dirs]
  BY DEF TypeInv, TypeOK, CallOK, Disk
<1>2. ASSUME CallOK', UNCHANGED <<dir, used, verified, lastWrite>>, job'.pc # "copy"
      PROVE  TypeInv'
  BY <1>1, <1>2, TypeFromParts DEF TypeInv, CopyHasWork
<1>3. ASSUME NEW r \in Results, Return(r), UNCHANGED spent \/ Spend("fault") \/ Spend("crash")
      PROVE  CallOK' /\ job'.pc = "idle"
  <2>1. spent' \in [Events -> Nat]
    BY <1>1, <1>3, SpendType DEF CallOK, Events
  <2> QED
    BY <1>3, <2>1, ReturnJob DEF CallOK
<1>5. job.todo \in SUBSET Files /\ job.diff \in BOOLEAN
      /\ \A t : Listed(t) \in SUBSET Files
  BY <1>1 DEF Jobs, Listed
<1> USE DEF Pcs, CopyPcs, CommitPcs, RecoverPcs, CleanPcs, Results
<1>6. CASE CopyDone
  BY <1>1, <1>2, <1>6, GotoJob DEF CopyDone, CallOK
<1>7. CASE ListSource
  <2>1. /\ job.pc = "list_source" /\ job.op \in Ops
        /\ UNCHANGED <<dir, used, verified, lastWrite>>
    BY <1>1, <1>7 DEF ListSource, TypeOK
  <2>2. CASE /\ job' = [job EXCEPT !.pc = "verify_source", !.todo = Listed(dir[Root].tree)]
             /\ UNCHANGED <<result, spent>>
    BY <1>1, <1>2, <1>5, <2>1, <2>2 DEF CallOK, Jobs
  <2>3. CASE Return("error") /\ Spend("fault")
    BY <1>2, <1>3, <2>1, <2>3
  <2> QED
    BY <1>7, <2>1, <2>2, <2>3 DEF ListSource
<1>8. CASE VerifySourceDone
  BY <1>1, <1>2, <1>5, <1>8 DEF VerifySourceDone, CallOK, Jobs
<1>9. CASE VerifyDone
  <2>1. job.op \in Ops /\ CallOK' /\ job'.pc # "copy" /\ UNCHANGED <<dir, used, lastWrite>>
    BY <1>1, <1>9, GotoJob DEF VerifyDone, CallOK
  <2>2. dir[Work(job.op)].tree \in Trees
    BY <1>1, <2>1, Paths DEF Dirs
  <2>3. verified' \in [Ops -> Trees \cup {NoTree}]
    BY <1>1, <1>9, <2>1, <2>2 DEF VerifyDone, TypeOK
  <2> QED
    BY <1>1, <2>1, <2>3 DEF TypeInv, TypeOK, CopyHasWork, CallOK, Disk
<1>10. CASE Crash
  BY <1>2, <1>3, <1>10 DEF Crash
<1>11. CASE Recover
  <2>1. CASE RecoverNothing
    BY <1>2, <1>3, <2>1 DEF RecoverNothing
  <2>2. CASE RecoverAmbiguous
    BY <1>2, <1>3, <2>2 DEF RecoverAmbiguous
  <2>3. ASSUME NEW o \in Ops, RecoverConvert(o)
        PROVE  TypeInv' /\ UNCHANGED <<dir, lastWrite>>
    <3>1. UNCHANGED <<dir, used, verified, lastWrite, spent>>
      BY <2>3 DEF RecoverConvert
    <3>2. PICK p \in FirstMarkers(o) :
             LET plan == RecoverPlan(o, dir[p].marker[o])
             IN  \/ plan = "needs_attention" /\ Return(plan)
                 \/ /\ plan # "needs_attention"
                    /\ job' = [Idle EXCEPT !.pc = plan, !.op = o, !.outcome = RecoverOutcome(plan)]
                    /\ UNCHANGED result
      BY <2>3 DEF RecoverConvert
    <3> DEFINE plan == RecoverPlan(o, dir[p].marker[o])
    <3>3. plan \in {"discard", "backup_root", "install_work", "clean_root", "needs_attention"}
      BY DEF RecoverPlan
    <3>4. RecoverOutcome(plan) \in Results
      BY DEF RecoverOutcome
    <3> HIDE DEF plan
    <3>5. CASE plan = "needs_attention" /\ Return(plan)
      BY <1>2, <1>3, <3>1, <3>5
    <3>6. CASE /\ plan # "needs_attention" /\ UNCHANGED result
               /\ job' = [Idle EXCEPT !.pc = plan, !.op = o, !.outcome = RecoverOutcome(plan)]
      BY <1>1, <1>2, <3>1, <3>3, <3>4, <3>6 DEF CallOK, Jobs, Idle, Kinds
    <3> QED
      BY <3>1, <3>2, <3>5, <3>6 DEF plan
  <2> QED
    BY <1>11, <2>1, <2>2, <2>3 DEF Recover, RecoverNothing, RecoverAmbiguous
<1>12. ASSUME NEW k \in Kinds, ConvertRoot(k) PROVE TypeInv' /\ UNCHANGED <<dir, lastWrite>>
  <2>1. PICK o \in Ops \ used :
           /\ used' = used \cup {o}
           /\ job' = [Idle EXCEPT !.pc = "mark_creating", !.op = o, !.kind = k]
    BY <1>12 DEF ConvertRoot
  <2>2. job' \in Jobs /\ job'.pc = "mark_creating" /\ job'.op \in Ops
    BY <2>1 DEF Jobs, Idle, Kinds
  <2> QED
    BY <1>1, <1>12, <2>1, <2>2 DEF ConvertRoot, TypeInv, TypeOK, CopyHasWork, Disk
<1>13. ASSUME NEW f \in Files, VerifyFile(f) PROVE TypeInv' /\ UNCHANGED <<dir, lastWrite>>
  <2>1. /\ job.pc = "verify_source" /\ job.op \in Ops
        /\ UNCHANGED <<dir, used, verified, lastWrite>>
    BY <1>1, <1>13 DEF VerifyFile, TypeOK
  <2>2. CASE Return("error") /\ (UNCHANGED spent \/ Spend("fault"))
    BY <1>2, <1>3, <2>1, <2>2
  <2>3. ASSUME NEW d \in BOOLEAN, job' = [job EXCEPT !.todo = @ \ {f}, !.diff = d],
               UNCHANGED <<result, spent>>
        PROVE  TypeInv'
    BY <1>1, <1>2, <2>1, <2>3 DEF CallOK, Jobs
  <2> DEFINE source == dir[Root].tree[f]
             copy == dir[Work(job.op)].tree[f]
  <2>4. (job.diff \/ copy = Gone \/ copy # source) \in BOOLEAN
    BY <1>5
  <2> QED
    BY <1>13, <2>1, <2>2, <2>3, <2>4 DEF VerifyFile
<1>14. ASSUME NEW f \in Files, VerifyExtra(f) PROVE TypeInv' /\ UNCHANGED <<dir, lastWrite>>
  <2>1. /\ job.pc = "verify_work" /\ job.op \in Ops
        /\ UNCHANGED <<dir, used, verified, lastWrite>>
    BY <1>1, <1>14 DEF VerifyExtra, TypeOK
  <2>2. CASE Return("error") /\ Spend("fault")
    BY <1>2, <1>3, <2>1, <2>2
  <2>3. ASSUME NEW d \in BOOLEAN, job' = [job EXCEPT !.todo = @ \ {f}, !.diff = d],
               UNCHANGED <<result, spent>>
        PROVE  TypeInv'
    BY <1>1, <1>2, <2>1, <2>3 DEF CallOK, Jobs
  <2>4. (job.diff \/ dir[Root].tree[f] = Gone) \in BOOLEAN
    BY <1>5
  <2> QED
    BY <1>14, <2>1, <2>2, <2>3, <2>4 DEF VerifyExtra
<1> QED
  BY <1>6, <1>7, <1>8, <1>9, <1>10, <1>11, <1>12, <1>13, <1>14 DEF Quiet

(* The steps of users and other commands that change the disk. *)
LEMMA EditStep ==
    ASSUME TypeInv, NEW f \in Files, NEW v \in Values \cup {Gone}, Edit(f, v)
    PROVE  /\ TypeInv' /\ UNCHANGED <<job, used, verified>>
           /\ \A q \in Path \ {Root} : dir'[q] = dir[q]
           /\ dir'[Root].tree = [dir[Root].tree EXCEPT ![f] = v]
           /\ dir'[Root].marker = dir[Root].marker /\ dir'[Root].form = dir[Root].form
           /\ lastWrite' = [lastWrite EXCEPT ![f] = v]
<1>1. TypeOK /\ Disk(dir) /\ dir \in [Path -> Dirs] /\ dir[Root].form # "absent"
      /\ spent' \in [Events -> Nat]
  BY SpendType DEF TypeInv, TypeOK, Disk, Edit, Present, Events
<1>2. /\ Disk(dir') /\ \A q \in Path \ {Root} : dir'[q] = dir[q]
      /\ dir'[Root].tree = [dir[Root].tree EXCEPT ![f] = v]
      /\ dir'[Root].marker = dir[Root].marker /\ dir'[Root].form = dir[Root].form
  BY <1>1, Paths DEF Edit, Disk, Dirs, Trees
<1>3. UNCHANGED <<job, result, used, verified>> /\ lastWrite' = [lastWrite EXCEPT ![f] = v]
  BY DEF Edit
<1>4. lastWrite' \in Trees
  BY <1>1, <1>3 DEF TypeOK, Trees
<1>5. TypeOK'
  BY <1>1, <1>2, <1>3, <1>4 DEF TypeOK, Disk
<1>6. CopyHasWork'
  BY <1>1, <1>2, <1>3, Paths DEF TypeInv, TypeOK, CopyHasWork, At, Present
<1> QED
  BY <1>2, <1>3, <1>5, <1>6 DEF TypeInv

(* "create" on a missing path changes the root only. *)
LEMMA CreateStep ==
    ASSUME TypeInv, CreateEmptyRoot
    PROVE  /\ TypeInv' /\ UNCHANGED <<job, used, verified, lastWrite>>
           /\ \A q \in Path : dir'[q].tree = dir[q].tree /\ dir'[q].marker = dir[q].marker
           /\ \A q \in Path \ {Root} : dir'[q] = dir[q]
           /\ ~Present(Root)
<1>1. TypeOK /\ Disk(dir) /\ dir \in [Path -> Dirs] /\ ~Present(Root)
      /\ spent' \in [Events -> Nat] /\ UNCHANGED <<job, result, used, verified, lastWrite>>
  BY SpendType DEF TypeInv, TypeOK, Disk, CreateEmptyRoot, Present, Events
<1>2. /\ Disk(dir') /\ \A q \in Path \ {Root} : dir'[q] = dir[q]
      /\ \A q \in Path : dir'[q].tree = dir[q].tree /\ dir'[q].marker = dir[q].marker
  BY <1>1, Paths DEF CreateEmptyRoot, Disk, Dirs
<1>3. TypeOK'
  BY <1>1, <1>2 DEF TypeOK, Disk
<1>4. CopyHasWork'
  BY <1>1, <1>2, Paths DEF TypeInv, TypeOK, CopyHasWork, At, Present
<1> QED
  BY <1>1, <1>2, <1>3, <1>4 DEF TypeInv

(* Cleaning a marker from the root changes that marker only. *)
LEMMA CleanUnfinishedStep ==
    ASSUME TypeInv, NEW o \in Ops, CleanUnfinished(o)
    PROVE  /\ TypeInv' /\ UNCHANGED <<job, used, verified, lastWrite>> /\ At("idle")
           /\ Remarks(dir', Root, o, {"none"})
           /\ \A q \in Path : dir'[q].form = dir[q].form
<1>1. TypeOK /\ Disk(dir) /\ dir \in [Path -> Dirs] /\ spent' \in [Events -> Nat]
      /\ UNCHANGED <<job, result, used, verified, lastWrite>> /\ At("idle")
      /\ dir' = Unmarked(Root, o)
  BY SpendType DEF TypeInv, TypeOK, Disk, CleanUnfinished, Events
<1>2. Remarks(dir', Root, o, {"none"}) /\ \A q \in Path : dir'[q].form = dir[q].form
  BY <1>1, UnmarkedDisk, Paths
<1>3. TypeOK'
  BY <1>1, <1>2 DEF TypeOK, Disk, Remarks
<1>4. CopyHasWork'
  BY <1>1 DEF CopyHasWork, At
<1> QED
  BY <1>1, <1>2, <1>3, <1>4 DEF TypeInv

(* Recording a failed verification changes one marker of the root. *)
LEMMA AttentionStep ==
    ASSUME TypeInv, MarkAttention
    PROVE  /\ TypeInv' /\ UNCHANGED <<used, verified, lastWrite>> /\ job'.pc = "idle"
           /\ job.op \in Ops
           /\ Remarks(dir', Root, job.op, {dir[Root].marker[job.op], "needs_attention"})
<1>1. TypeOK /\ Disk(dir) /\ job.op \in Ops /\ UNCHANGED <<used, verified, lastWrite>>
      /\ Root \in Path
  BY Paths DEF TypeInv, TypeOK, MarkAttention, At
<1>2. spent' \in [Events -> Nat]
  BY <1>1, SpendType DEF TypeOK, MarkAttention, Events
<1>3. job' \in Jobs /\ job'.pc = "idle" /\ result' \in Results
  BY ReturnJob DEF MarkAttention, Results
<1>4. Remarks(dir', Root, job.op, {dir[Root].marker[job.op], "needs_attention"})
  <2>1. Remarks(dir, Root, job.op, {dir[Root].marker[job.op]})
    BY <1>1, SameDisk
  <2>2. Remarks(Marked(Root, job.op, "needs_attention"), Root, job.op, {"needs_attention"})
    BY <1>1, MarkedDisk DEF Phases
  <2>3. dir' = dir \/ dir' = Marked(Root, job.op, "needs_attention")
    BY DEF MarkAttention
  <2> QED
    BY <2>1, <2>2, <2>3 DEF Remarks
<1>5. TypeOK'
  BY <1>1, <1>2, <1>3, <1>4, TypeFromParts DEF CallOK, Remarks
<1> QED
  BY <1>1, <1>3, <1>4, <1>5 DEF TypeInv, CopyHasWork, At

\* The steps of Next, sorted by what they do to the disk.
MarkerStep == MarkCreating \/ MarkCopying \/ MarkVerifying \/ MarkCommit \/ MarkBackup
              \/ MarkRenameWork \/ MarkCompleted \/ MarkBackedUp
RenameStep == RenameRoot \/ BackupRoot \/ RenameWork \/ InstallWork
CleanStep == CleanRoot \/ CleanBackup \/ Unmark
WorkStep == MakeWork \/ OpenAndList \/ Discard \/ \E f \in Files : CopyFile(f)

(* The disjuncts of Next, grouped as the lemmas above treat them. *)
LEMMA NextSteps ==
    ASSUME Next
    PROVE  \/ MarkerStep \/ RenameStep \/ CleanStep \/ WorkStep \/ Quiet \/ MarkAttention
           \/ CreateEmptyRoot \/ (\E o \in Ops : CleanUnfinished(o))
           \/ \E f \in Files, v \in Values \cup {Gone} : Edit(f, v)
<1>1. CASE JobStep
  BY <1>1 DEF JobStep, Copying, Verifying, Committing, Recovering, MarkerStep, RenameStep,
              CleanStep, WorkStep, Quiet
<1>2. CASE Recover \/ User \/ Crash
  BY <1>2 DEF User, Quiet
<1> QED
  BY <1>1, <1>2 DEF Next

(* The type invariant holds initially. *)
LEMMA InitType == Init => TypeInv
<1> SUFFICES ASSUME Init PROVE TypeInv
  OBVIOUS
<1>1. PICK form \in {"plain", "enc"}, tree \in Trees :
         /\ dir = [p \in Path |-> IF p = Root THEN [Absent EXCEPT !.form = form, !.tree = tree]
                                              ELSE Absent]
         /\ lastWrite = tree
  BY DEF Init
<1>2. [Absent EXCEPT !.form = form, !.tree = tree] \in Dirs
  BY AbsentType DEF Dirs
<1>3. [Absent EXCEPT !.form = form, !.tree = tree].form # "absent"
  BY DEF Absent
<1>4. Disk(dir)
  BY <1>1, <1>2, <1>3, AbsentType DEF Disk
<1>5. job \in Jobs /\ job.pc = "idle" /\ result \in Results
  BY IdleType DEF Init, Results
<1>6. used \subseteq Ops /\ verified \in [Ops -> Trees \cup {NoTree}] /\ spent \in [Events -> Nat]
  BY DEF Init
<1> QED
  BY <1>1, <1>4, <1>5, <1>6 DEF TypeInv, TypeOK, CopyHasWork, At

(* Every step keeps the type invariant. *)
LEMMA NextType == TypeInv /\ [Next]_vars => TypeInv'
<1> SUFFICES ASSUME TypeInv, [Next]_vars PROVE TypeInv'
  OBVIOUS
<1>1. CASE UNCHANGED vars
  BY <1>1 DEF vars, TypeInv, TypeOK, CopyHasWork, At, Present, Disk
<1>2. CASE Next
  <2>1. TypeOK
    BY DEF TypeInv
  <2>2. CASE MarkerStep
    BY <2>1, <2>2, MarkerSteps DEF MarkerStep
  <2>3. CASE RenameStep
    BY <2>1, <2>3, RenameSteps DEF RenameStep
  <2>4. CASE CleanStep
    BY <2>1, <2>4, CleanSteps DEF CleanStep
  <2>5. CASE WorkStep
    BY <2>5, WorkSteps DEF WorkStep
  <2>6. CASE Quiet
    BY <2>6, QuietSteps
  <2>7. CASE MarkAttention
    BY <2>7, AttentionStep
  <2>8. CASE CreateEmptyRoot
    BY <2>8, CreateStep
  <2>9. ASSUME NEW o \in Ops, CleanUnfinished(o) PROVE TypeInv'
    BY <2>9, CleanUnfinishedStep
  <2>10. ASSUME NEW f \in Files, NEW v \in Values \cup {Gone}, Edit(f, v) PROVE TypeInv'
    BY <2>10, EditStep
  <2> QED
    BY <1>2, <2>2, <2>3, <2>4, <2>5, <2>6, <2>7, <2>8, <2>9, <2>10, NextSteps
<1> QED
  BY <1>1, <1>2

(* The type invariant holds in every reachable state. *)
LEMMA TypeInvariant == Spec => []TypeInv
BY InitType, NextType, PTL DEF Spec

(* Every variable keeps its type, a directory that is not there holds        *)
(* nothing and a running call has an operation id, for any number of         *)
(* operations and files and any environment.                                 *)
THEOREM TypeCorrect == Spec => []TypeOK
<1>1. TypeInv => TypeOK
  BY DEF TypeInv
<1> QED
  BY <1>1, TypeInvariant, PTL

-----------------------------------------------------------------------------
(* The user's files survive *)

(* Every step but an edit keeps, for each file in the root or in a backup,   *)
(* a copy in one of them, and leaves a backup that is there alone.           *)
LEMMA KeptTrees ==
    ASSUME TypeInv, Next
    PROVE  \/ \E f \in Files, v \in Values \cup {Gone} : Edit(f, v)
           \/ /\ lastWrite' = lastWrite
              /\ \A p \in Kept, f \in Files :
                    dir[p].tree[f] # Gone => \E q \in Kept : dir'[q].tree[f] = dir[p].tree[f]
              /\ \A o \in Ops : Present(Backup(o)) =>
                    /\ dir'[Backup(o)].form = dir[Backup(o)].form
                    /\ dir'[Backup(o)].tree = dir[Backup(o)].tree
<1> USE Paths
<1>1. TypeOK /\ Disk(dir)
  BY DEF TypeInv, TypeOK
<1>2. ASSUME NEW p \in Kept, NEW o, NEW ms, Remarks(dir', p, o, ms), lastWrite' = lastWrite
      PROVE  /\ \A q \in Path : dir'[q].tree = dir[q].tree
             /\ \A q \in Path : Present(q) => dir'[q].form = dir[q].form
  BY <1>2 DEF Remarks, Present
<1>3. CASE MarkerStep
  <2>1. PICK p \in Kept, ph \in Phases : Remarks(dir', p, job.op, {dir[p].marker[job.op], ph})
    BY <1>1, <1>3, MarkerSteps DEF MarkerStep
  <2>2. lastWrite' = lastWrite
    BY <1>1, <1>3, MarkerSteps DEF MarkerStep
  <2> QED
    BY <1>2, <2>1, <2>2
<1>4. CASE RenameStep
  <2>1. /\ lastWrite' = lastWrite /\ job.op \in Ops
        /\ \/ dir' = dir
           \/ dir' = Moved(Root, Backup(job.op)) /\ Present(Root) /\ ~Present(Backup(job.op))
           \/ dir' = Moved(Work(job.op), Root) /\ Present(Work(job.op)) /\ ~Present(Root)
    BY <1>1, <1>4, RenameSteps DEF RenameStep
  <2>2. \A p \in Path, f \in Files : ~Present(p) => dir[p].tree[f] = Gone
    BY <1>1, AbsentType DEF Disk, Present, EmptyTree
  <2>3. CASE dir' = dir
    BY <2>1, <2>3
  <2>4. CASE dir' = Moved(Root, Backup(job.op)) /\ ~Present(Backup(job.op))
    <3>1. dir'[Backup(job.op)] = dir[Root]
          /\ \A r \in Path : r # Root /\ r # Backup(job.op) => dir'[r] = dir[r]
      BY <1>1, <2>1, <2>4, MovedDisk
    <3> QED
      BY <2>1, <2>2, <2>4, <3>1
  <2>5. CASE dir' = Moved(Work(job.op), Root) /\ ~Present(Root)
    <3>1. \A r \in Path : r # Root /\ r # Work(job.op) => dir'[r] = dir[r]
      BY <1>1, <2>1, <2>5, MovedDisk
    <3>2. \A p \in Kept \ {Root} : p # Work(job.op) /\ dir'[p] = dir[p]
      BY <2>1, <3>1
    <3> QED
      BY <2>1, <2>2, <2>5, <3>2
  <2> QED
    BY <2>1, <2>3, <2>4, <2>5
<1>5. CASE CleanStep
  <2>1. PICK p \in Kept : Remarks(dir', p, job.op, {dir[p].marker[job.op], "none"})
    BY <1>1, <1>5, CleanSteps DEF CleanStep
  <2>2. lastWrite' = lastWrite
    BY <1>1, <1>5, CleanSteps DEF CleanStep
  <2> QED
    BY <1>2, <2>1, <2>2
<1>6. CASE WorkStep
  <2>1. /\ lastWrite' = lastWrite /\ job.op \in Ops
        /\ \A q \in Path \ {Work(job.op)} : dir'[q] = dir[q]
    BY <1>6, WorkSteps DEF WorkStep
  <2>2. \A q \in Kept : dir'[q] = dir[q]
    BY <2>1
  <2> QED
    BY <2>1, <2>2
<1>7. CASE Quiet
  BY <1>7, QuietSteps
<1>8. CASE MarkAttention
  BY <1>2, <1>8, AttentionStep
<1>9. CASE CreateEmptyRoot
  BY <1>9, CreateStep
<1>10. ASSUME NEW o \in Ops, CleanUnfinished(o)
       PROVE  /\ lastWrite' = lastWrite
              /\ \A q \in Path : dir'[q].tree = dir[q].tree
              /\ \A q \in Path : Present(q) => dir'[q].form = dir[q].form
  BY <1>2, <1>10, CleanUnfinishedStep
<1>11. (\E o \in Ops : CleanUnfinished(o)) =>
         /\ lastWrite' = lastWrite
         /\ \A q \in Path : dir'[q].tree = dir[q].tree
         /\ \A q \in Path : Present(q) => dir'[q].form = dir[q].form
  BY <1>10
<1> QED
  BY <1>3, <1>4, <1>5, <1>6, <1>7, <1>8, <1>9, <1>11, NextSteps

(* Whatever a user last wrote to a file is in the root or in a backup: no    *)
(* interleaving of conversions, recoveries, crashes and I/O errors with      *)
(* edits, "create" and "clean" loses it.                                     *)
THEOREM NothingLost == Spec => []LastWriteSurvives
<1>1. Init => LastWriteSurvives
  BY Paths DEF Init, LastWriteSurvives, Absent
<1>2. TypeInv /\ LastWriteSurvives /\ [Next]_vars => LastWriteSurvives'
  <2> SUFFICES ASSUME TypeInv, LastWriteSurvives, [Next]_vars, NEW f \in Files,
                      lastWrite'[f] # Gone
               PROVE  \E p \in Kept : dir'[p].tree[f] = lastWrite'[f]
    BY DEF LastWriteSurvives
  <2>1. CASE UNCHANGED vars
    BY <2>1 DEF vars, LastWriteSurvives
  <2>2. ASSUME NEW g \in Files, NEW v \in Values \cup {Gone}, Edit(g, v)
        PROVE  \E p \in Kept : dir'[p].tree[f] = lastWrite'[f]
    <3>1. /\ \A q \in Path \ {Root} : dir'[q] = dir[q]
          /\ dir'[Root].tree = [dir[Root].tree EXCEPT ![g] = v]
          /\ lastWrite' = [lastWrite EXCEPT ![g] = v]
      BY <2>2, EditStep
    <3>2. lastWrite \in Trees /\ dir[Root].tree \in Trees
      BY Paths DEF TypeInv, TypeOK, Disk, Dirs
    <3>3. CASE f = g
      BY <3>1, <3>2, <3>3, Paths DEF Trees
    <3>4. CASE f # g
      <4>1. lastWrite'[f] = lastWrite[f]
        BY <3>1, <3>2, <3>4 DEF Trees
      <4>2. PICK p \in Kept : dir[p].tree[f] = lastWrite[f]
        BY <4>1 DEF LastWriteSurvives
      <4>3. dir'[p].tree[f] = dir[p].tree[f]
        BY <3>1, <3>2, <3>4, Paths DEF Trees
      <4> QED
        BY <4>1, <4>2, <4>3
    <3> QED
      BY <3>3, <3>4
  <2>3. CASE /\ lastWrite' = lastWrite
             /\ \A p \in Kept, g \in Files :
                   dir[p].tree[g] # Gone => \E q \in Kept : dir'[q].tree[g] = dir[p].tree[g]
    <3>1. PICK p \in Kept : dir[p].tree[f] = lastWrite[f]
      BY <2>3 DEF LastWriteSurvives
    <3> QED
      BY <2>3, <3>1
  <2> QED
    BY <2>1, <2>2, <2>3, KeptTrees
<1> QED
  BY <1>1, <1>2, TypeInvariant, PTL DEF Spec

(* A backup, once made, keeps its form and its files: no later conversion,   *)
(* recovery or command reuses, fills or removes it.                          *)
THEOREM BackupsKept == Spec => BackupsStay
<1>1. TypeInv /\ [Next]_vars =>
        [\A o \in Ops : Present(Backup(o)) =>
            /\ dir'[Backup(o)].form = dir[Backup(o)].form
            /\ dir'[Backup(o)].tree = dir[Backup(o)].tree]_vars
  <2> SUFFICES ASSUME TypeInv, Next, NEW o \in Ops, Present(Backup(o))
               PROVE  /\ dir'[Backup(o)].form = dir[Backup(o)].form
                      /\ dir'[Backup(o)].tree = dir[Backup(o)].tree
    OBVIOUS
  <2>1. ASSUME NEW f \in Files, NEW v \in Values \cup {Gone}, Edit(f, v)
        PROVE  dir'[Backup(o)] = dir[Backup(o)]
    BY <2>1, EditStep, Paths
  <2> QED
    BY <2>1, KeptTrees
<1> QED
  BY <1>1, TypeInvariant, PTL DEF Spec, BackupsStay

-----------------------------------------------------------------------------
(* Only verified works are installed *)

(* A change of markers in the root or in a backup, pointwise; the works are  *)
(* as they were.                                                             *)
LEMMA RemarksPointwise ==
    ASSUME TypeInv, NEW p \in Kept, NEW o \in Ops, NEW ms, Remarks(dir', p, o, ms),
           verified' = verified
    PROVE  /\ \A q \in Path, u \in Ops : dir'[q].marker[u] # dir[q].marker[u] =>
                 q = p /\ u = o /\ dir'[q].marker[u] \in ms
           /\ \A u \in Ops : Sealed(u)' = Sealed(u) /\ Present(Work(u))' = Present(Work(u))
<1>1. \A u \in Ops : dir'[Work(u)] = dir[Work(u)]
  BY Paths DEF Remarks
<1>2. \A u \in Ops : Sealed(u)' = Sealed(u) /\ Present(Work(u))' = Present(Work(u))
  BY <1>1 DEF Sealed, Present
<1> QED
  BY <1>2, Paths DEF Remarks

(* Writing a marker of the running operation keeps SealInv: an early phase   *)
(* is written in the root by a call that is still copying, a rename phase    *)
(* when the work is sealed and no early marker is left elsewhere.            *)
LEMMA MarkSeal ==
    ASSUME TypeInv, SealInv, ~At("idle"), UNCHANGED <<used, verified>>,
           NEW p \in Kept, NEW ph \in Phases, NEW l \in Pcs \ {"idle"}, NEW r \in Results,
           WriteMarker(p, ph, l, r),
           ph \in EarlyPhases => p = Root /\ job.pc \in CopyPcs,
           ph \in RenamePhases =>
              Sealed(job.op) /\ \A q \in Path \ {p} : dir[q].marker[job.op] \notin EarlyPhases,
           l \in CopyPcs => job.pc \in CopyPcs /\ p = Root /\ ph \notin RenamePhases,
           l \in SwitchPcs => ph \in RenamePhases,
           l \notin {"mark_commit", "discard", "unmark"}
    PROVE  SealInv'
<1>1. /\ CallOK /\ Disk(dir) /\ job.op \in Ops /\ p \in Path /\ job.op \in used /\ Root \in Path
      /\ FreshIds /\ EarlyJob /\ RenameMarkers
  BY Paths DEF TypeInv, TypeOK, CallOK, At, SealInv
<1>2. /\ Remarks(dir', p, job.op, {dir[p].marker[job.op], ph})
      /\ \/ job'.pc = "idle"
         \/ job'.pc = l /\ job'.op = job.op /\ Remarks(dir', p, job.op, {ph})
  BY <1>1, WriteMarkerStep
<1>3. /\ \A q \in Path, u \in Ops : dir'[q].marker[u] # dir[q].marker[u] =>
           q = p /\ u = job.op /\ dir'[q].marker[u] = ph
      /\ \A u \in Ops : Sealed(u)' = Sealed(u) /\ Present(Work(u))' = Present(Work(u))
  BY <1>1, <1>2, RemarksPointwise
<1>4. job'.pc # "idle" => job'.pc = l /\ job'.op = job.op /\ dir'[p].marker[job.op] = ph
  BY <1>2 DEF Remarks
<1>5. FreshIds'
  BY <1>1, <1>3 DEF FreshIds
<1>6. EarlyJob'
  BY <1>1, <1>3, <1>4, Paths DEF EarlyJob, CopyPcs
<1>7. EarlyPhases \cap RenamePhases = {}
  BY DEF EarlyPhases, RenamePhases
<1>8. RenameMarkers'
  <2> SUFFICES ASSUME NEW o \in Ops, NEW q \in Path, dir'[q].marker[o] \in RenamePhases
               PROVE  Sealed(o)' /\ \A s \in Path : dir'[s].marker[o] \notin EarlyPhases
    BY DEF RenameMarkers
  <2>1. CASE \A s \in Path : dir'[s].marker[o] = dir[s].marker[o]
    BY <1>1, <1>3, <2>1 DEF RenameMarkers
  <2>2. CASE o = job.op /\ dir'[p].marker[o] = ph /\ \A s \in Path \ {p} : dir'[s].marker[o] = dir[s].marker[o]
    <3>1. CASE ph \in EarlyPhases
      <4>1. q # p
        BY <1>7, <2>2, <3>1
      <4>2. dir[q].marker[o] = "none"
        BY <1>1, <2>2, <3>1, <4>1 DEF EarlyJob
      <4> QED
        BY <2>2, <4>1, <4>2 DEF RenamePhases
    <3>2. CASE ph \in RenamePhases
      BY <1>1, <1>3, <1>7, <2>2, <3>2
    <3>3. CASE ph \notin EarlyPhases /\ ph \notin RenamePhases
      BY <1>1, <1>3, <2>2, <3>3 DEF RenameMarkers
    <3> QED
      BY <3>1, <3>2, <3>3
  <2> QED
    BY <1>3, <2>1, <2>2
<1>9. SwitchJob'
  BY <1>1, <1>3, <1>4, <1>7 DEF SwitchJob, SwitchPcs
<1>10. DiscardJob' /\ (job'.pc # "idle" => job'.op \in used')
  BY <1>1, <1>4 DEF DiscardJob
<1> QED
  BY <1>5, <1>6, <1>8, <1>9, <1>10 DEF SealInv

(* Writing a marker keeps SealInv. *)
LEMMA MarkersSeal == TypeInv /\ SealInv /\ MarkerStep => SealInv'
<1> SUFFICES ASSUME TypeInv, SealInv, MarkerStep PROVE SealInv'
  OBVIOUS
<1>1. Root \in Kept /\ (~At("idle") => job.op \in Ops /\ Backup(job.op) \in Kept)
  BY Paths DEF TypeInv, TypeOK, At
<1>2. SwitchJob /\ EarlyJob
  BY DEF SealInv
<1>3. job.pc \in SwitchPcs =>
         Sealed(job.op) /\ \A q \in Path : dir[q].marker[job.op] \notin EarlyPhases
  BY <1>2 DEF SwitchJob
<1> USE DEF Phases, EarlyPhases, RenamePhases, Pcs, CopyPcs, CommitPcs, RecoverPcs, CleanPcs,
            SwitchPcs, Results, At
<1>4. CASE MarkCreating
  BY <1>1, <1>4, MarkSeal DEF MarkCreating
<1>5. CASE MarkCopying
  BY <1>1, <1>5, MarkSeal DEF MarkCopying
<1>6. CASE MarkVerifying
  BY <1>1, <1>6, MarkSeal DEF MarkVerifying
<1>7. CASE MarkCommit
  <2>1. Sealed(job.op) /\ \A q \in Path \ {Root} : dir[q].marker[job.op] \notin EarlyPhases
    BY <1>2, <1>7 DEF MarkCommit, SwitchJob, EarlyJob
  <2> QED
    BY <1>1, <1>7, <2>1, MarkSeal DEF MarkCommit
<1>8. CASE MarkBackup
  BY <1>1, <1>3, <1>8, MarkSeal DEF MarkBackup
<1>9. CASE MarkRenameWork
  BY <1>1, <1>3, <1>9, MarkSeal DEF MarkRenameWork
<1>10. CASE MarkCompleted
  BY <1>1, <1>10, MarkSeal DEF MarkCompleted
<1>11. CASE MarkBackedUp
  BY <1>1, <1>3, <1>11, MarkSeal DEF MarkBackedUp
<1> QED
  BY <1>4, <1>5, <1>6, <1>7, <1>8, <1>9, <1>10, <1>11 DEF MarkerStep

(* A step that leaves the markers and the works as they are, or removes      *)
(* markers, and ends the call or goes on to a phase with nothing to keep.    *)
LEMMA FewerMarkersSeal ==
    ASSUME TypeInv, SealInv, UNCHANGED <<used, verified>>,
           \A q \in Path, o \in Ops :
              dir'[q].marker[o] \in {dir[q].marker[o], "none", "completed", "needs_attention"},
           \A q \in Path, o \in Ops \ used : dir'[q].marker[o] = dir[q].marker[o],
           \A o \in Ops : \/ dir'[Work(o)] = dir[Work(o)]
                          \/ dir'[Work(o)] = Absent,
           job'.pc # "idle" => /\ job'.pc \in CleanPcs \cup {"mark_completed"}
                               /\ job'.op = job.op /\ job.pc # "idle"
    PROVE  SealInv'
<1>1. \A o \in Ops : Sealed(o) => Sealed(o)'
  BY AbsentType DEF Sealed, Present
<1>2. FreshIds'
  BY AbsentType DEF SealInv, FreshIds, Present
<1>3. RenameMarkers'
  BY <1>1 DEF SealInv, RenameMarkers, RenamePhases, EarlyPhases
<1>4. EarlyJob' /\ SwitchJob' /\ DiscardJob'
  BY DEF EarlyJob, SwitchJob, DiscardJob, CopyPcs, SwitchPcs, CleanPcs
<1>5. job'.pc # "idle" => job'.op \in used'
  BY DEF SealInv
<1> QED
  BY <1>2, <1>3, <1>4, <1>5 DEF SealInv

(* Removing a marker keeps SealInv. *)
LEMMA CleanSeal == TypeInv /\ SealInv /\ (CleanStep \/ MarkAttention) => SealInv'
<1> SUFFICES ASSUME TypeInv, SealInv, CleanStep \/ MarkAttention PROVE SealInv'
  OBVIOUS
<1>1. TypeOK /\ job.op \in Ops /\ job.op \in used /\ job.pc # "idle" /\ job \in Jobs
  BY DEF TypeInv, TypeOK, SealInv, CleanStep, CleanRoot, CleanBackup, Unmark, MarkAttention, At
<1>2. PICK p \in Kept, m \in {"none", "needs_attention"} :
         Remarks(dir', p, job.op, {dir[p].marker[job.op], m})
  <2>1. CASE CleanStep
    BY <1>1, <2>1, CleanSteps DEF CleanStep
  <2>2. CASE MarkAttention
    BY <2>2, AttentionStep, Paths
  <2> QED
    BY <2>1, <2>2
<1>3. UNCHANGED <<used, verified>>
  BY <1>1, CleanSteps, AttentionStep DEF CleanStep
<1>4. /\ \A q \in Path, u \in Ops : dir'[q].marker[u] # dir[q].marker[u] =>
            u = job.op /\ dir'[q].marker[u] = m
      /\ \A u \in Ops : dir'[Work(u)] = dir[Work(u)]
  <2>1. \A u \in Ops : dir'[Work(u)] = dir[Work(u)]
    BY <1>2, Paths DEF Remarks
  <2> QED
    BY <1>1, <1>2, <1>3, <2>1, RemarksPointwise
<1>5. job'.pc # "idle" => job'.pc = "clean_backup" /\ job'.op = job.op
  <2>1. CASE CleanRoot
    BY <1>1, <2>1, GotoJob DEF CleanRoot, Pcs, CleanPcs
  <2>2. CASE CleanBackup \/ Unmark \/ MarkAttention
    BY <2>2, IdleType DEF CleanBackup, Unmark, MarkAttention, Return
  <2> QED
    BY <2>1, <2>2 DEF CleanStep
<1> QED
  BY <1>1, <1>3, <1>4, <1>5, FewerMarkersSeal DEF CleanPcs

(* The renames keep SealInv. *)
LEMMA RenameSeal == TypeInv /\ SealInv /\ RenameStep => SealInv'
<1> SUFFICES ASSUME TypeInv, SealInv, RenameStep PROVE SealInv'
  OBVIOUS
<1>1. /\ TypeOK /\ Disk(dir) /\ job.pc \in SwitchPcs /\ FreshIds /\ SwitchJob /\ RenameMarkers
      /\ job.op \in used
  BY DEF TypeInv, TypeOK, SealInv, RenameStep, RenameRoot, BackupRoot, RenameWork, InstallWork,
         At, SwitchPcs
<1>2. /\ UNCHANGED <<used, verified>> /\ job.op \in Ops
      /\ \/ dir' = dir
         \/ dir' = Moved(Root, Backup(job.op))
         \/ dir' = Moved(Work(job.op), Root)
      /\ \/ job'.pc = "idle"
         \/ job'.op = job.op /\ job'.pc \in {"mark_backup", "mark_backed_up",
                                             "mark_completed", "clean_root"}
  BY <1>1, RenameSteps DEF RenameStep
<1>3. /\ \A q \in Path, u \in Ops :
            dir'[q].marker[u] = "none" \/ \E s \in Path : dir'[q].marker[u] = dir[s].marker[u]
      /\ \A u \in Ops : dir'[Work(u)] = dir[Work(u)] \/ dir'[Work(u)] = Absent
  <2>1. CASE dir' = dir
    BY <2>1
  <2>2. ASSUME NEW p \in Path, NEW q \in Kept, p # q, dir' = Moved(p, q)
        PROVE  /\ \A s \in Path, u \in Ops :
                     dir'[s].marker[u] = "none" \/ \E t \in Path : dir'[s].marker[u] = dir[t].marker[u]
               /\ \A u \in Ops : dir'[Work(u)] = dir[Work(u)] \/ dir'[Work(u)] = Absent
    <3>1. /\ dir'[q] = dir[p] /\ dir'[p] = Absent
          /\ \A s \in Path : s # p /\ s # q => dir'[s] = dir[s]
      BY <1>1, <2>2, MovedDisk, Paths
    <3>2. \A u \in Ops : Absent.marker[u] = "none"
      BY DEF Absent, NoMarkers
    <3> QED
      BY <2>2, <3>1, <3>2, Paths
  <2> QED
    BY <1>2, <2>1, <2>2, Paths
<1>4. \A o \in Ops : Sealed(o) => Sealed(o)'
  BY <1>2, <1>3, AbsentType DEF Sealed, Present
<1>5. FreshIds'
  BY <1>1, <1>2, <1>3, AbsentType DEF FreshIds, Present
<1>6. RenameMarkers'
  BY <1>1, <1>3, <1>4 DEF RenameMarkers, RenamePhases, EarlyPhases
<1>7. SwitchJob'
  <2>1. Sealed(job.op) /\ \A q \in Path : dir[q].marker[job.op] \notin EarlyPhases
    BY <1>1 DEF SwitchJob
  <2>2. \A q \in Path : dir'[q].marker[job.op] \notin EarlyPhases
    BY <1>2, <1>3, <2>1 DEF EarlyPhases
  <2> QED
    BY <1>2, <1>4, <2>1, <2>2 DEF SwitchJob, SwitchPcs
<1>8. EarlyJob' /\ DiscardJob' /\ (job'.pc # "idle" => job'.op \in used')
  BY <1>1, <1>2 DEF EarlyJob, DiscardJob, CopyPcs
<1> QED
  BY <1>5, <1>6, <1>7, <1>8 DEF SealInv

(* Filling or emptying a work directory keeps SealInv. *)
LEMMA WorkSeal == TypeInv /\ SealInv /\ WorkStep => SealInv'
<1> SUFFICES ASSUME TypeInv, SealInv, WorkStep PROVE SealInv'
  OBVIOUS
<1>1. /\ UNCHANGED <<used, verified>> /\ job.op \in Ops /\ Work(job.op) \in Path
      /\ \A q \in Path \ {Work(job.op)} : dir'[q] = dir[q]
      /\ \/ dir'[Work(job.op)].marker = dir[Work(job.op)].marker
         \/ dir'[Work(job.op)] = Absent
  BY WorkSteps, Paths DEF WorkStep
<1>2. /\ job.pc \in CopyPcs \cup {"discard"} /\ job.op \in used
      /\ FreshIds /\ EarlyJob /\ DiscardJob /\ RenameMarkers /\ job \in Jobs
  BY DEF TypeInv, TypeOK, SealInv, WorkStep, MakeWork, OpenAndList, Discard, CopyFile, At, CopyPcs
<1>3. \/ job'.pc = "idle"
      \/ job'.op = job.op /\ job.pc \in CopyPcs /\ job'.pc \in CopyPcs
      \/ job'.op = job.op /\ job.pc = "discard" /\ job'.pc \in {"discard", "unmark"}
  <2> USE IdleType DEF Return, At, Pcs, CopyPcs, RecoverPcs
  <2>1. CASE MakeWork
    BY <1>2, <2>1, GotoJob DEF MakeWork
  <2>2. CASE OpenAndList
    BY <1>2, <2>2 DEF OpenAndList, Jobs
  <2>3. CASE Discard
    BY <1>2, <2>3, GotoJob DEF Discard
  <2>4. ASSUME NEW f \in Files, CopyFile(f)
        PROVE  job'.pc = "idle" \/ (job'.op = job.op /\ job.pc \in CopyPcs /\ job'.pc \in CopyPcs)
    BY <1>2, <2>4 DEF CopyFile, Jobs
  <2> QED
    BY <2>1, <2>2, <2>3, <2>4 DEF WorkStep
<1>4. \A q \in Path, u \in Ops :
         dir'[q].marker[u] = "none" \/ dir'[q].marker[u] = dir[q].marker[u]
  BY <1>1, AbsentType DEF NoMarkers
<1>5. \A q \in Path : dir[q].marker[job.op] \notin RenamePhases
  BY <1>1, <1>2 DEF EarlyJob, DiscardJob, RenamePhases
<1>6. \A u \in Ops \ {job.op} : /\ Present(Work(u))' = Present(Work(u))
                                /\ Sealed(u)' = Sealed(u)
  <2>1. \A u \in Ops \ {job.op} : dir'[Work(u)] = dir[Work(u)]
    BY <1>1, Paths
  <2> QED
    BY <1>1, <2>1 DEF Present, Sealed
<1>7. FreshIds'
  BY <1>1, <1>2, <1>4, <1>6 DEF FreshIds
<1>8. RenameMarkers'
  BY <1>2, <1>4, <1>5, <1>6 DEF RenameMarkers, RenamePhases, EarlyPhases
<1>9. EarlyJob'
  <2>1. job.pc \in CopyPcs => /\ \A p \in Path \ {Root} : dir'[p].marker[job.op] = "none"
                              /\ dir'[Root].marker[job.op] \notin RenamePhases
    BY <1>1, <1>2, <1>4, Paths DEF EarlyJob, RenamePhases
  <2> QED
    BY <1>3, <2>1 DEF EarlyJob, CopyPcs
<1>10. SwitchJob' /\ (job'.pc # "idle" => job'.op \in used')
  BY <1>1, <1>2, <1>3 DEF SwitchJob, SwitchPcs, CopyPcs
<1>11. DiscardJob'
  BY <1>1, <1>3, <1>4, <1>5 DEF DiscardJob, CopyPcs, RenamePhases
<1> QED
  BY <1>7, <1>8, <1>9, <1>10, <1>11 DEF SealInv

(* A step that touches neither disk nor ids, and a call that goes on from    *)
(* one copying step to the next.                                             *)
LEMMA SameDiskSeal ==
    ASSUME TypeInv, SealInv, UNCHANGED <<dir, used, verified>>,
           \/ job'.pc = "idle"
           \/ job'.op = job.op /\ job.pc \in CopyPcs /\ job'.pc \in CopyPcs
    PROVE  SealInv'
<1>1. \A o \in Ops : Sealed(o)' = Sealed(o) /\ Present(Work(o))' = Present(Work(o))
  BY DEF Sealed, Present
<1>2. FreshIds' /\ RenameMarkers'
  BY <1>1 DEF SealInv, FreshIds, RenameMarkers
<1>3. EarlyJob' /\ SwitchJob' /\ DiscardJob' /\ (job'.pc # "idle" => job'.op \in used')
  BY DEF SealInv, EarlyJob, SwitchJob, DiscardJob, CopyPcs, SwitchPcs
<1> QED
  BY <1>2, <1>3 DEF SealInv

(* The verification held: the work is sealed for good. *)
LEMMA VerifiedSeal ==
    ASSUME TypeInv, SealInv, VerifyDone, ~job.diff
    PROVE  SealInv'
<1>1. /\ job.pc = "verify_work" /\ job.op \in Ops /\ job.op \in used /\ job \in Jobs
      /\ UNCHANGED <<dir, used>> /\ verified' = [verified EXCEPT ![job.op] = dir[Work(job.op)].tree]
      /\ job'.pc = "mark_commit" /\ job'.op = job.op
      /\ FreshIds /\ EarlyJob /\ RenameMarkers /\ verified \in [Ops -> Trees \cup {NoTree}]
  BY GotoJob DEF VerifyDone, At, TypeInv, TypeOK, SealInv, Pcs, CommitPcs
<1>2. dir[Work(job.op)].tree \in Trees
  BY <1>1, Paths DEF TypeInv, TypeOK, Disk, Dirs
<1>3. NoTree \notin Trees
  BY ConvertAssumption DEF Trees
<1>4. \A u \in Ops \ {job.op} : Sealed(u)' = Sealed(u)
  BY <1>1 DEF Sealed, Present
<1>5. Sealed(job.op)'
  BY <1>1, <1>2, <1>3 DEF Sealed
<1>6. \A q \in Path : dir[q].marker[job.op] \notin RenamePhases
  BY <1>1 DEF EarlyJob, RenamePhases, CopyPcs
<1>7. FreshIds'
  BY <1>1 DEF FreshIds, Present
<1>8. RenameMarkers'
  BY <1>1, <1>4, <1>6 DEF RenameMarkers
<1>9. EarlyJob'
  BY <1>1 DEF EarlyJob, CopyPcs
<1>10. SwitchJob' /\ DiscardJob' /\ (job'.pc # "idle" => job'.op \in used')
  BY <1>1, <1>5 DEF SwitchJob, DiscardJob, SwitchPcs
<1> QED
  BY <1>7, <1>8, <1>9, <1>10 DEF SealInv

(* Recovery goes on with a work only if a marker vouches for it, and         *)
(* discards one only if none does.                                           *)
LEMMA RecoverSeal ==
    ASSUME TypeInv, SealInv, NEW o \in Ops, RecoverConvert(o)
    PROVE  SealInv'
<1>1. UNCHANGED <<dir, used, verified>> /\ FreshIds /\ RenameMarkers /\ Unfinished = {o}
  BY DEF RecoverConvert, SealInv
<1>2. PICK p \in FirstMarkers(o) :
         LET plan == RecoverPlan(o, dir[p].marker[o])
         IN  \/ plan = "needs_attention" /\ Return(plan)
             \/ /\ plan # "needs_attention"
                /\ job' = [Idle EXCEPT !.pc = plan, !.op = o, !.outcome = RecoverOutcome(plan)]
                /\ UNCHANGED result
  BY DEF RecoverConvert
<1> DEFINE plan == RecoverPlan(o, dir[p].marker[o])
<1>3. p \in Path
  BY DEF FirstMarkers, Path
<1>4. /\ plan = "discard" => dir[p].marker[o] \in EarlyPhases
      /\ plan \in {"backup_root", "install_work"} => dir[p].marker[o] \in RenamePhases
      /\ plan \in {"discard", "backup_root", "install_work", "clean_root", "needs_attention"}
  BY DEF RecoverPlan, EarlyPhases, RenamePhases
<1> HIDE DEF plan
<1>5. o \in used
  BY <1>1 DEF FreshIds, Unfinished
<1>6. \A u \in Ops : Sealed(u)' = Sealed(u) /\ Present(Work(u))' = Present(Work(u))
  BY <1>1 DEF Sealed, Present
<1>7. FreshIds' /\ RenameMarkers'
  BY <1>1, <1>6 DEF FreshIds, RenameMarkers
<1>8. CASE plan = "needs_attention" /\ Return(plan)
  <2>1. job'.pc = "idle"
    BY <1>8, IdleType DEF Return
  <2> QED
    BY <1>1, <2>1, SameDiskSeal
<1>9. CASE job' = [Idle EXCEPT !.pc = plan, !.op = o, !.outcome = RecoverOutcome(plan)]
           /\ plan # "needs_attention"
  <2>1. job'.pc = plan /\ job'.op = o
    BY <1>9 DEF Idle
  <2>2. plan = "discard" => \A q \in Path : dir[q].marker[o] \notin RenamePhases
    BY <1>1, <1>3, <1>4 DEF RenameMarkers
  <2>3. plan \in {"backup_root", "install_work"} =>
           Sealed(o) /\ \A q \in Path : dir[q].marker[o] \notin EarlyPhases
    BY <1>1, <1>3, <1>4 DEF RenameMarkers
  <2>4. DiscardJob' /\ EarlyJob'
    BY <1>1, <1>4, <1>9, <2>1, <2>2 DEF DiscardJob, EarlyJob, CopyPcs
  <2>5. SwitchJob'
    BY <1>1, <1>4, <1>6, <1>9, <2>1, <2>3 DEF SwitchJob, SwitchPcs
  <2> QED
    BY <1>1, <1>5, <1>7, <2>1, <2>4, <2>5 DEF SealInv
<1> QED
  BY <1>2, <1>8, <1>9 DEF plan

(* The steps that leave the disk alone keep SealInv. *)
LEMMA QuietSeal == TypeInv /\ SealInv /\ Quiet => SealInv'
<1> SUFFICES ASSUME TypeInv, SealInv, Quiet PROVE SealInv'
  OBVIOUS
<1>1. job \in Jobs
  BY DEF TypeInv, TypeOK
<1> USE IdleType DEF At, Return, CopyPcs
<1>2. CASE CopyDone \/ ListSource \/ VerifySourceDone
  <2>1. /\ UNCHANGED <<dir, used, verified>>
        /\ \/ job'.pc = "idle"
           \/ job'.op = job.op /\ job.pc \in CopyPcs /\ job'.pc \in CopyPcs
    BY <1>1, <1>2 DEF CopyDone, ListSource, VerifySourceDone, Goto, Jobs
  <2> QED
    BY <2>1, SameDiskSeal
<1>3. ASSUME NEW f \in Files, VerifyFile(f) \/ VerifyExtra(f) PROVE SealInv'
  <2>1. /\ UNCHANGED <<dir, used, verified>>
        /\ \/ job'.pc = "idle"
           \/ job'.op = job.op /\ job.pc \in CopyPcs /\ job'.pc \in CopyPcs
    BY <1>1, <1>3 DEF VerifyFile, VerifyExtra, Jobs
  <2> QED
    BY <2>1, SameDiskSeal
<1>4. CASE VerifyDone
  <2>1. CASE job.diff
    <3>1. /\ UNCHANGED <<dir, used, verified>>
          /\ job'.op = job.op /\ job.pc \in CopyPcs /\ job'.pc \in CopyPcs
      BY <1>1, <1>4, <2>1 DEF VerifyDone, Goto, Jobs
    <3> QED
      BY <3>1, SameDiskSeal
  <2> QED
    BY <1>4, <2>1, VerifiedSeal
<1>5. CASE RecoverNothing \/ RecoverAmbiguous \/ Crash
  <2>1. UNCHANGED <<dir, used, verified>> /\ job'.pc = "idle"
    BY <1>5 DEF RecoverNothing, RecoverAmbiguous, Crash
  <2> QED
    BY <2>1, SameDiskSeal
<1>6. ASSUME NEW k \in Kinds, ConvertRoot(k) PROVE SealInv'
  <2>1. PICK o \in Ops \ used :
           /\ used' = used \cup {o}
           /\ job' = [Idle EXCEPT !.pc = "mark_creating", !.op = o, !.kind = k]
    BY <1>6 DEF ConvertRoot
  <2>2. job'.pc = "mark_creating" /\ job'.op = o /\ UNCHANGED <<dir, verified>>
    BY <1>6, <2>1 DEF ConvertRoot, Idle
  <2>3. FreshIds' /\ RenameMarkers'
    BY <2>1, <2>2 DEF SealInv, FreshIds, RenameMarkers, Sealed, Present
  <2>4. EarlyJob'
    BY <2>1, <2>2, Paths DEF SealInv, FreshIds, EarlyJob, RenamePhases
  <2>5. SwitchJob' /\ DiscardJob' /\ job'.op \in used'
    BY <2>1, <2>2 DEF SwitchJob, DiscardJob, SwitchPcs
  <2> QED
    BY <2>3, <2>4, <2>5 DEF SealInv
<1> QED
  BY <1>2, <1>3, <1>4, <1>5, <1>6, RecoverSeal DEF Quiet, Recover

(* What users and other commands do keeps SealInv. *)
LEMMA UserSeal ==
    ASSUME TypeInv, SealInv, UNCHANGED <<job, used, verified>>,
           \A q \in Path, o \in Ops :
              dir'[q].marker[o] = dir[q].marker[o] \/ (dir'[q].marker[o] = "none" /\ At("idle")),
           \A o \in Ops : dir'[Work(o)] = dir[Work(o)]
    PROVE  SealInv'
<1>1. \A u \in Ops : Sealed(u)' = Sealed(u) /\ Present(Work(u))' = Present(Work(u))
  BY DEF Sealed, Present
<1>2. FreshIds' /\ RenameMarkers'
  BY <1>1 DEF SealInv, FreshIds, RenameMarkers, RenamePhases, EarlyPhases
<1>3. EarlyJob' /\ SwitchJob' /\ DiscardJob'
  <2>1. CASE At("idle")
    BY <2>1 DEF At, EarlyJob, SwitchJob, DiscardJob, CopyPcs, SwitchPcs
  <2>2. CASE ~At("idle")
    <3>1. job.op \in Ops /\ Root \in Path
      BY <2>2, Paths DEF TypeInv, TypeOK, At
    <3>2. Sealed(job.op)' = Sealed(job.op)
      BY <1>1, <3>1
    <3> QED
      BY <2>2, <3>1, <3>2 DEF SealInv, EarlyJob, SwitchJob, DiscardJob
  <2> QED
    BY <2>1, <2>2
<1>4. job'.pc # "idle" => job'.op \in used'
  BY DEF SealInv
<1> QED
  BY <1>2, <1>3, <1>4 DEF SealInv

(* Every step keeps SealInv. *)
LEMMA NextSeal == TypeInv /\ SealInv /\ [Next]_vars => SealInv'
<1> SUFFICES ASSUME TypeInv, SealInv, [Next]_vars PROVE SealInv'
  OBVIOUS
<1>1. CASE UNCHANGED vars
  BY <1>1, UserSeal DEF vars
<1>2. CASE CreateEmptyRoot
  <2>1. /\ UNCHANGED <<job, used, verified>>
        /\ \A q \in Path : dir'[q].marker = dir[q].marker
        /\ \A o \in Ops : dir'[Work(o)] = dir[Work(o)]
    BY <1>2, CreateStep, Paths
  <2> QED
    BY <2>1, UserSeal
<1>3. ASSUME NEW o \in Ops, CleanUnfinished(o) PROVE SealInv'
  <2>1. UNCHANGED <<job, used, verified>> /\ At("idle") /\ Remarks(dir', Root, o, {"none"})
    BY <1>3, CleanUnfinishedStep
  <2>2. /\ \A q \in Path, u \in Ops : dir'[q].marker[u] = dir[q].marker[u] \/ dir'[q].marker[u] = "none"
        /\ \A u \in Ops : dir'[Work(u)] = dir[Work(u)]
    <3>1. \A u \in Ops : dir'[Work(u)] = dir[Work(u)]
      BY <2>1, Paths DEF Remarks
    <3> QED
      BY <2>1, <3>1, RemarksPointwise, Paths
  <2> QED
    BY <2>1, <2>2, UserSeal
<1>4. ASSUME NEW f \in Files, NEW v \in Values \cup {Gone}, Edit(f, v) PROVE SealInv'
  <2>1. /\ UNCHANGED <<job, used, verified>>
        /\ \A q \in Path : dir'[q].marker = dir[q].marker
        /\ \A o \in Ops : dir'[Work(o)] = dir[Work(o)]
    BY <1>4, EditStep, Paths
  <2> QED
    BY <2>1, UserSeal
<1> QED
  BY <1>1, <1>2, <1>3, <1>4, NextSteps, MarkersSeal, RenameSeal, CleanSeal, WorkSeal, QuietSeal

(* SealInv holds initially. *)
LEMMA InitSeal == Init => SealInv
<1> SUFFICES ASSUME Init PROVE SealInv
  OBVIOUS
<1>1. job.pc = "idle"
  BY IdleType DEF Init
<1>2. /\ \A p \in Path, o \in Ops : dir[p].marker[o] = "none"
      /\ \A o \in Ops : ~Present(Work(o))
  BY Paths DEF Init, Absent, NoMarkers, Present
<1>3. EarlyJob /\ SwitchJob /\ DiscardJob
  BY <1>1 DEF EarlyJob, SwitchJob, DiscardJob, CopyPcs, SwitchPcs
<1>4. FreshIds /\ RenameMarkers
  BY <1>2 DEF FreshIds, RenameMarkers, RenamePhases
<1> QED
  BY <1>1, <1>3, <1>4 DEF SealInv

(* A marker from which a call may rename a work into the root exists only    *)
(* for a work that was verified and has not changed since, across crashes,   *)
(* recoveries and conversions started over an unfinished one.                *)
THEOREM MarkersVouch == Spec => []SealInv
BY InitSeal, NextSeal, TypeInvariant, PTL DEF Spec

(* A work directory replaces the root only with the tree its own operation   *)
(* verified, whether commitConvertRename renames it or a recovery does.      *)
THEOREM OnlyVerifiedInstalled == Spec => InstallsOnlyVerified
<1>1. TypeInv /\ SealInv /\ [Next]_vars =>
        [\A o \in Ops :
            (/\ Present(Work(o)) /\ ~Present(Root)
             /\ (~Present(Work(o)))' /\ Present(Root)')
            => dir'[Root].tree = verified[o]]_vars
  <2> SUFFICES ASSUME TypeInv, SealInv, Next, NEW o \in Ops, Present(Work(o)), ~Present(Root),
                      ~Present(Work(o))', Present(Root)'
               PROVE  dir'[Root].tree = verified[o]
    OBVIOUS
  <2>1. TypeOK /\ Disk(dir) /\ dir'[Work(o)] # dir[Work(o)] /\ dir'[Root] # dir[Root]
        /\ Work(o) \notin Kept /\ Work(o) \in Path /\ Root \in Path
    BY Paths DEF TypeInv, TypeOK, Present
  <2>2. \A p \in Kept : \A u, ms : ~Remarks(dir', p, u, ms)
    BY <2>1 DEF Remarks
  <2>3. ~MarkerStep
    BY <2>1, <2>2, MarkerSteps DEF MarkerStep
  <2>4. ~CleanStep
    BY <2>1, <2>2, CleanSteps DEF CleanStep
  <2>5. ~MarkAttention /\ \A u \in Ops : ~CleanUnfinished(u)
    BY <2>2, AttentionStep, CleanUnfinishedStep, Paths
  <2>6. ~WorkStep
    BY <2>1, WorkSteps, Paths DEF WorkStep
  <2>7. ~Quiet
    BY <2>1, QuietSteps
  <2>8. ~CreateEmptyRoot /\ \A f \in Files, v \in Values \cup {Gone} : ~Edit(f, v)
    BY <2>1, CreateStep, EditStep, Paths
  <2>9. RenameStep
    BY <2>3, <2>4, <2>5, <2>6, <2>7, <2>8, NextSteps
  <2>10. /\ job.op \in Ops
         /\ \/ dir' = Moved(Root, Backup(job.op))
            \/ dir' = Moved(Work(job.op), Root)
    BY <2>1, <2>9, RenameSteps DEF RenameStep
  <2>11. dir' = Moved(Work(job.op), Root)
    <3>1. dir' = Moved(Root, Backup(job.op)) => dir'[Root] = Absent
      BY <2>1, <2>10, MovedDisk, Paths
    <3> QED
      BY <2>10, <3>1, AbsentType DEF Present
  <2>12. /\ dir'[Root] = dir[Work(job.op)]
         /\ \A r \in Path : r # Work(job.op) /\ r # Root => dir'[r] = dir[r]
    BY <2>1, <2>10, <2>11, MovedDisk, Paths
  <2>13. o = job.op
    BY <2>1, <2>10, <2>12, Paths
  <2>14. Sealed(job.op)
    BY <2>9 DEF SealInv, SwitchJob, SwitchPcs, RenameStep, RenameRoot, BackupRoot, RenameWork,
                InstallWork, At
  <2> QED
    BY <2>12, <2>13, <2>14 DEF Sealed
<1> QED
  BY <1>1, TypeInvariant, MarkersVouch, PTL DEF Spec, InstallsOnlyVerified

-----------------------------------------------------------------------------
(* The steps, one by one: where the call goes on and what it does to the     *)
(* markers and to the presence of directories.                               *)

\* What a call that fails returns.
Errors == {"error", "crashed", "none", "io_attention"}
Fails == job' = Idle /\ result' \in Errors
\* Directory p is there after the step.
There(p) == dir'[p].form # "absent"
Goes(l) == job'.pc = l /\ job'.op = job.op /\ job'.outcome = job.outcome /\ result' = result

\* No marker changes but that of o in p, to one of ms; no directory goes, none comes but p.
Remarked(p, o, ms) ==
    /\ \A q \in Path, u \in Ops : dir'[q].marker[u] # dir[q].marker[u] =>
          q = p /\ u = o /\ dir'[q].marker[u] \in ms /\ There(p)
    /\ \A q \in Path : Present(q) => There(q)
    /\ \A q \in Path : q # p => There(q) = Present(q)

(* Remarks, in those terms. *)
LEMMA RemarkedView ==
    ASSUME Disk(dir), NEW p \in Path, NEW o \in Ops, NEW ms, "none" \notin ms,
           Remarks(dir', p, o, {dir[p].marker[o]} \cup ms)
    PROVE  Remarked(p, o, ms)
<1>1. \A q \in Path, u \in Ops : ~There(q) => dir'[q].marker[u] = "none"
  BY AbsentType DEF Remarks, Disk, There, NoMarkers
<1>2. \A q \in Path : (Present(q) => There(q)) /\ (q # p => There(q) = Present(q))
  BY DEF Remarks, Present, There
<1>3. \A q \in Path, u \in Ops : dir'[q].marker[u] # dir[q].marker[u] =>
         q = p /\ u = o /\ dir'[q].marker[u] \in ms
  BY DEF Remarks
<1> QED
  BY <1>1, <1>2, <1>3 DEF Remarked

\* The steps that write a marker: their place, the marker and the next place.
MarkerRow(p, ph, l) ==
    \/ job.pc = "mark_creating" /\ p = Root /\ ph = "creating_work" /\ l = "make_work"
    \/ job.pc = "mark_copying" /\ p = Root /\ ph = "copying_to_work" /\ l = "open"
    \/ job.pc = "mark_verifying" /\ p = Root /\ ph = "verifying_work" /\ l = "list_source"
    \/ job.pc = "mark_commit" /\ p = Root /\ ph = "renaming_root_to_backup" /\ l = "rename_root"
    \/ /\ job.pc = "mark_backup" /\ p = Backup(job.op)
       /\ ph = "renaming_root_to_backup" /\ l = "mark_rename_work"
    \/ /\ job.pc = "mark_rename_work" /\ p = Backup(job.op)
       /\ ph = "renaming_work_to_root" /\ l = "rename_work"
    \/ job.pc = "mark_completed" /\ p = Root /\ ph = "completed" /\ l = "clean_root"
    \/ /\ job.pc = "mark_backed_up" /\ p = Backup(job.op)
       /\ ph = "renaming_work_to_root" /\ l = "install_work"

(* The steps that write a marker. *)
LEMMA MarkerTable ==
    ASSUME TypeInv, MarkerStep
    PROVE  /\ job.op \in Ops /\ UNCHANGED <<used, verified>>
           /\ \E p \in Kept, ph \in Phases, l \in Pcs \ {"idle"} :
                 /\ MarkerRow(p, ph, l)
                 /\ Remarked(p, job.op, {ph})
                 /\ Fails \/ (Goes(l) /\ dir'[p].marker[job.op] = ph /\ There(p))
<1> USE Paths DEF At
<1>1. CallOK /\ Disk(dir) /\ TypeOK /\ job \in Jobs /\ (job.pc # "idle" => job.op \in Ops)
  BY DEF TypeInv, TypeOK, CallOK
<1>2. ASSUME job.pc # "idle", NEW p \in Kept, NEW ph \in Phases, NEW l \in Pcs \ {"idle"},
             NEW r \in {"error", "io_attention"}, WriteMarker(p, ph, l, r), MarkerRow(p, ph, l)
      PROVE  \E q \in Kept, h \in Phases, k \in Pcs \ {"idle"} :
                 /\ MarkerRow(q, h, k)
                 /\ Remarked(q, job.op, {h})
                 /\ Fails \/ (Goes(k) /\ dir'[q].marker[job.op] = h /\ There(q))
  <2>1. /\ Remarks(dir', p, job.op, {dir[p].marker[job.op], ph})
        /\ \/ job'.pc = "idle"
           \/ /\ job'.pc = l /\ job'.op = job.op
              /\ Remarks(dir', p, job.op, {ph}) /\ dir'[p].form # "absent"
    <3>1. p \in Path /\ r \in Results
      BY <1>2 DEF Results
    <3> QED
      BY <1>1, <1>2, <3>1, WriteMarkerStep
  <2>2. Remarked(p, job.op, {ph})
    <3>1. "none" \notin {ph} /\ p \in Path
      BY DEF Phases, EarlyPhases, RenamePhases
    <3>2. Remarks(dir', p, job.op, {dir[p].marker[job.op]} \cup {ph})
      BY <2>1 DEF Remarks
    <3> QED
      BY <1>1, <1>2, <3>1, <3>2, RemarkedView
  <2>3. CASE Goto(l)
    <3>1. Goes(l)
      BY <1>1, <2>3, GotoJob DEF Goes
    <3> QED
      BY <1>2, <2>1, <2>2, <3>1 DEF Goes, Remarks, There
  <2>4. CASE Return(r)
    <3>1. Fails
      BY <1>2, <2>4 DEF Return, Fails, Errors
    <3> QED
      BY <1>2, <2>2, <3>1
  <2> QED
    BY <1>2, <2>3, <2>4 DEF WriteMarker
<1>3. job.pc # "idle" => Backup(job.op) \in Kept
  BY <1>1
<1> USE DEF Phases, EarlyPhases, RenamePhases, Pcs, CopyPcs, CommitPcs, RecoverPcs, CleanPcs,
            MarkerRow
<1>4. CASE MarkCreating
  BY <1>1, <1>2, <1>4 DEF MarkCreating
<1>5. CASE MarkCopying
  BY <1>1, <1>2, <1>5 DEF MarkCopying
<1>6. CASE MarkVerifying
  BY <1>1, <1>2, <1>6 DEF MarkVerifying
<1>7. CASE MarkCommit
  BY <1>1, <1>2, <1>7 DEF MarkCommit
<1>8. CASE MarkBackup
  BY <1>1, <1>2, <1>3, <1>8 DEF MarkBackup
<1>9. CASE MarkRenameWork
  BY <1>1, <1>2, <1>3, <1>9 DEF MarkRenameWork
<1>10. CASE MarkCompleted
  BY <1>1, <1>2, <1>10 DEF MarkCompleted
<1>11. CASE MarkBackedUp
  BY <1>1, <1>2, <1>3, <1>11 DEF MarkBackedUp
<1> QED
  BY <1>4, <1>5, <1>6, <1>7, <1>8, <1>9, <1>10, <1>11 DEF MarkerStep

\* The renames: their place, what they move where, and the next place.
RenameRow(p, q, l) ==
    \/ job.pc = "rename_root" /\ p = Root /\ q = Backup(job.op) /\ l = "mark_backup"
    \/ job.pc = "backup_root" /\ p = Root /\ q = Backup(job.op) /\ l = "mark_backed_up"
    \/ job.pc = "rename_work" /\ p = Work(job.op) /\ q = Root /\ l = "mark_completed"
    \/ job.pc = "install_work" /\ p = Work(job.op) /\ q = Root /\ l = "clean_root"

\* Directory p is at q now, and nothing else has changed.
Renamed(p, q) ==
    /\ Present(p) /\ ~Present(q)
    /\ dir'[q] = dir[p] /\ dir'[p] = Absent
    /\ \A s \in Path : s # p /\ s # q => dir'[s] = dir[s]

(* The renames. *)
LEMMA RenameTable ==
    ASSUME TypeInv, RenameStep
    PROVE  /\ job.op \in Ops /\ UNCHANGED <<used, verified>>
           /\ \E p \in Path, q \in Path, l \in Pcs \ {"idle"} :
                 /\ RenameRow(p, q, l)
                 /\ \/ dir' = dir /\ Fails
                    \/ Renamed(p, q) /\ (Fails \/ Goes(l))
<1> USE Paths DEF At
<1>1. CallOK /\ Disk(dir) /\ TypeOK /\ job \in Jobs /\ (job.pc # "idle" => job.op \in Ops)
  BY DEF TypeInv, TypeOK, CallOK
<1>2. ASSUME job.pc # "idle", NEW p \in Path, NEW q \in Path, p # q, NEW l \in Pcs \ {"idle"},
             NEW r \in {"error", "io_attention"}, RenameDir(p, q, l, r)
      PROVE  \/ dir' = dir /\ Fails
             \/ Renamed(p, q) /\ (Fails \/ Goes(l))
  <2>1. Return(r) => Fails
    BY DEF Return, Fails, Errors
  <2>2. Goto(l) => Goes(l)
    BY <1>1, GotoJob DEF Goes
  <2>3. dir' = Moved(p, q) /\ Present(p) /\ ~Present(q) => Renamed(p, q)
    BY <1>1, <1>2, MovedDisk DEF Renamed
  <2> QED
    BY <1>2, <2>1, <2>2, <2>3 DEF RenameDir
<1> USE DEF Pcs, CommitPcs, RecoverPcs, CleanPcs, RenameRow
<1>3. CASE RenameRoot
  BY <1>1, <1>2, <1>3 DEF RenameRoot
<1>4. CASE BackupRoot
  BY <1>1, <1>2, <1>4 DEF BackupRoot
<1>5. CASE RenameWork
  BY <1>1, <1>2, <1>5 DEF RenameWork
<1>6. CASE InstallWork
  BY <1>1, <1>2, <1>6 DEF InstallWork
<1> QED
  BY <1>3, <1>4, <1>5, <1>6 DEF RenameStep

(* The steps that remove a marker: which one, and whether it is gone. *)
LEMMA CleanTable ==
    ASSUME TypeInv, CleanStep
    PROVE  /\ job.op \in Ops /\ UNCHANGED <<used, verified>>
           /\ \A q \in Path : There(q) = Present(q)
           /\ \E p \in Kept :
                 /\ \/ job.pc = "clean_root" /\ p = Root /\ Goes("clean_backup")
                    \/ /\ job.pc = "clean_backup" /\ p = Backup(job.op)
                       /\ job' = Idle /\ result' = job.outcome
                    \/ /\ job.pc = "unmark" /\ p = Root
                       /\ job' = Idle /\ result' \in {job.outcome, "io_attention"}
                 /\ \A q \in Path, u \in Ops : dir'[q].marker[u] # dir[q].marker[u] =>
                       q = p /\ u = job.op /\ dir'[q].marker[u] = "none"
                 /\ spent'["fault"] = 0 =>
                       spent["fault"] = 0 /\ dir'[p].marker[job.op] = "none"
<1> USE Paths DEF At
<1>1. CallOK /\ Disk(dir) /\ TypeOK /\ job \in Jobs /\ job.op \in Ops /\ job.pc # "idle"
      /\ spent \in [Events -> Nat]
  BY DEF TypeInv, TypeOK, CallOK, CleanStep, CleanRoot, CleanBackup, Unmark
<1>2. Spend("fault") => spent'["fault"] # 0
  BY <1>1 DEF Spend, Events
<1>3. ASSUME NEW p \in Kept, (dir' = Unmarked(p, job.op) /\ UNCHANGED spent)
             \/ (dir' \in {dir, Unmarked(p, job.op)} /\ Spend("fault"))
      PROVE  /\ \A q \in Path : There(q) = Present(q)
             /\ \A q \in Path, u \in Ops : dir'[q].marker[u] # dir[q].marker[u] =>
                   q = p /\ u = job.op /\ dir'[q].marker[u] = "none"
             /\ spent'["fault"] = 0 => spent["fault"] = 0 /\ dir'[p].marker[job.op] = "none"
  <2>1. /\ Remarks(Unmarked(p, job.op), p, job.op, {"none"})
        /\ \A q \in Path : Unmarked(p, job.op)[q].form = dir[q].form
    BY <1>1, <1>3, UnmarkedDisk
  <2>2. CASE dir' = Unmarked(p, job.op)
    BY <1>2, <1>3, <2>1, <2>2 DEF Remarks, Present, There
  <2>3. CASE dir' = dir /\ Spend("fault")
    BY <1>2, <2>3 DEF Present, There
  <2> QED
    BY <1>3, <2>2, <2>3
<1>4. CASE CleanRoot
  <2>1. Goes("clean_backup") /\ job.pc = "clean_root" /\ UNCHANGED <<used, verified>>
    BY <1>1, <1>4, GotoJob DEF CleanRoot, Goes, Pcs, CleanPcs
  <2>2. (dir' = Unmarked(Root, job.op) /\ UNCHANGED spent)
        \/ (dir' \in {dir, Unmarked(Root, job.op)} /\ Spend("fault"))
    BY <1>4 DEF CleanRoot, DropMarker
  <2> QED
    BY <1>1, <1>3, <2>1, <2>2
<1>5. CASE CleanBackup
  <2>1. /\ job' = Idle /\ result' = job.outcome /\ job.pc = "clean_backup"
        /\ UNCHANGED <<used, verified>> /\ Backup(job.op) \in Kept
    BY <1>1, <1>5 DEF CleanBackup, Return
  <2>2. (dir' = Unmarked(Backup(job.op), job.op) /\ UNCHANGED spent)
        \/ (dir' \in {dir, Unmarked(Backup(job.op), job.op)} /\ Spend("fault"))
    BY <1>5 DEF CleanBackup, DropMarker
  <2> QED
    BY <1>1, <1>3, <2>1, <2>2
<1>6. CASE Unmark
  <2>1. /\ job' = Idle /\ result' \in {job.outcome, "io_attention"} /\ job.pc = "unmark"
        /\ UNCHANGED <<used, verified>>
    BY <1>6 DEF Unmark, Return
  <2>2. (dir' = Unmarked(Root, job.op) /\ UNCHANGED spent)
        \/ (dir' \in {dir, Unmarked(Root, job.op)} /\ Spend("fault"))
    BY <1>6 DEF Unmark
  <2> QED
    BY <1>1, <1>3, <2>1, <2>2
<1> QED
  BY <1>4, <1>5, <1>6 DEF CleanStep

(* The steps that fill or empty the work directory. *)
LEMMA WorkTable ==
    ASSUME TypeInv, WorkStep
    PROVE  /\ job.op \in Ops /\ UNCHANGED <<used, verified>>
           /\ \A q \in Path \ {Work(job.op)} : dir'[q] = dir[q]
           /\ \/ dir'[Work(job.op)].marker = dir[Work(job.op)].marker
              \/ dir'[Work(job.op)] = Absent
           /\ \/ /\ job.pc = "make_work"
                 /\ Fails \/ (Goes("mark_copying") /\ There(Work(job.op)))
              \/ /\ job.pc \in {"open", "copy"} /\ (Fails \/ Goes("copy"))
                 /\ Present(Work(job.op)) => There(Work(job.op))
                 /\ job.pc = "copy" => Present(Work(job.op))
              \/ /\ job.pc = "discard"
                 /\ There(Work(job.op)) => Present(Work(job.op))
                 /\ Fails \/ Goes("discard") \/ (Goes("unmark") /\ ~There(Work(job.op)))
<1> DEFINE w == Work(job.op)
<1>1. /\ TypeOK /\ Disk(dir) /\ job.op \in Ops /\ w \in Path /\ job \in Jobs
      /\ UNCHANGED <<used, verified>>
      /\ \A q \in Path \ {w} : dir'[q] = dir[q]
      /\ dir'[w].marker = dir[w].marker \/ dir'[w] = Absent
      /\ dir \in [Path -> Dirs] /\ Root \in Path /\ Root # w
  BY WorkSteps, Paths DEF TypeInv, TypeOK, WorkStep, Disk
<1>2. \A r \in Errors : Return(r) => Fails
  BY DEF Return, Fails
<1>3. \A l \in Pcs : Goto(l) => Goes(l)
  BY <1>1, GotoJob DEF Goes
<1> USE DEF At, Errors, Pcs, CopyPcs, RecoverPcs
<1>4. CASE MakeWork
  <2>1. Made(w)[w].form # "absent" /\ job.pc = "make_work"
    BY <1>1, <1>4, MadeDisk DEF MakeWork
  <2>2. Fails \/ (Goes("mark_copying") /\ There(w))
    BY <1>2, <1>3, <1>4, <2>1 DEF MakeWork, There
  <2> QED
    BY <1>1, <2>1, <2>2
<1>5. CASE OpenAndList
  <2>1. [dir EXCEPT ![w].form = TargetForm(job.kind)][w].form # "absent" /\ job.pc = "open"
    BY <1>1, <1>5 DEF OpenAndList, TargetForm, Dirs
  <2>2. Present(w) => There(w)
    BY <1>5, <2>1 DEF OpenAndList, Present, There
  <2>3. Fails \/ Goes("copy")
    BY <1>1, <1>2, <1>5 DEF OpenAndList, Goes, Jobs
  <2> QED
    BY <1>1, <2>1, <2>2, <2>3
<1>6. ASSUME NEW f \in Files, CopyFile(f)
      PROVE  /\ job.pc = "copy" /\ (Fails \/ Goes("copy")) /\ Present(w)
             /\ Present(w) => There(w)
  <2>1. job.pc = "copy" /\ Present(w)
    BY <1>6 DEF CopyFile, TypeInv, CopyHasWork
  <2>2. dir'[w].form = dir[w].form
    BY <1>1, <1>6 DEF CopyFile, Dirs
  <2>3. Fails \/ Goes("copy")
    BY <1>1, <1>2, <1>6 DEF CopyFile, Goes, Jobs
  <2> QED
    BY <2>1, <2>2, <2>3 DEF Present, There
<1>7. CASE Discard
  <2>1. job.pc = "discard" /\ ~([dir EXCEPT ![w] = Absent][w].form # "absent")
    BY <1>1, <1>7, AbsentType DEF Discard
  <2>2. ASSUME NEW f \in Files, dir' = [dir EXCEPT ![w].tree[f] = Gone],
               UNCHANGED <<job, result, spent>>
        PROVE  Goes("discard") /\ (There(w) => Present(w))
    BY <1>1, <2>1, <2>2 DEF Goes, Present, There, Dirs
  <2>3. dir' = [dir EXCEPT ![w] = Absent] => ~There(w)
    BY <2>1 DEF There
  <2>4. (Goto("unmark") => Goes("unmark")) /\ (Return("io_attention") => Fails)
        /\ (dir' = dir => There(w) = Present(w))
    BY <1>2, <1>3 DEF Present, There
  <2>5. /\ Fails \/ Goes("discard") \/ (Goes("unmark") /\ ~There(w))
        /\ There(w) => Present(w)
    BY <1>7, <2>2, <2>3, <2>4 DEF Discard
  <2> QED
    BY <1>1, <2>1, <2>5
<1> QED
  BY <1>1, <1>4, <1>5, <1>6, <1>7 DEF WorkStep

\* The steps of a running call that only read: their place and the next place.
ReadRow(l) ==
    \/ job.pc = "copy" /\ l = "mark_verifying"
    \/ job.pc = "list_source" /\ l = "verify_source"
    \/ job.pc = "verify_source" /\ l \in {"verify_source", "verify_work"}
    \/ job.pc = "verify_work" /\ l \in {"verify_work", "mark_attention", "mark_commit"}

\* A call to ConvertRoot begins, under a new operation id.
Begins ==
    /\ At("idle") /\ result' = result
    /\ RecoverFirst => Unfinished = {}
    /\ job'.op \in Ops \ used /\ used' = used \cup {job'.op}
    /\ job'.pc = "mark_creating" /\ job'.outcome = "ok"

\* A recovery decides on operation o by its marker in p.
Decides(o, p) ==
    /\ At("idle") /\ Unfinished = {o} /\ p \in FirstMarkers(o) /\ p \in Path
    /\ dir[p].marker[o] # "none"
    /\ \/ /\ RecoverPlan(o, dir[p].marker[o]) = "needs_attention"
          /\ job' = Idle /\ result' = "needs_attention"
       \/ /\ RecoverPlan(o, dir[p].marker[o]) # "needs_attention"
          /\ job'.pc = RecoverPlan(o, dir[p].marker[o]) /\ job'.op = o
          /\ job'.outcome \in {"rerun", "completed", "continue_rename"} /\ result' = result

(* The steps that leave the disk alone. *)
LEMMA QuietTable ==
    ASSUME TypeInv, Quiet
    PROVE  /\ dir' = dir
           /\ \/ Fails /\ used' = used
              \/ /\ ~At("idle") /\ used' = used
                 /\ \E l \in Pcs \ {"idle"} : ReadRow(l) /\ Goes(l)
              \/ Begins
              \/ \E o \in Ops, p \in Path : Decides(o, p) /\ used' = used
              \/ /\ At("idle") /\ Cardinality(Unfinished) > 1
                 /\ used' = used /\ job' = Idle /\ result' = "needs_attention"
<1>1. dir' = dir /\ job \in Jobs /\ job.diff \in BOOLEAN
  BY QuietSteps DEF TypeInv, TypeOK, Jobs
<1>2. \A r \in Errors : Return(r) => Fails
  BY DEF Return, Fails
<1>3. \A l \in Pcs : Goto(l) => Goes(l)
  BY <1>1, GotoJob DEF Goes
<1> USE DEF At, Errors, Pcs, CopyPcs, CommitPcs, ReadRow
<1>4. CASE CopyDone \/ VerifyDone
  BY <1>1, <1>3, <1>4 DEF CopyDone, VerifyDone
<1>5. CASE ListSource \/ VerifySourceDone
  <2>1. job' = [job EXCEPT !.pc = "verify_source", !.todo = Listed(dir[Root].tree)]
        /\ UNCHANGED result => Goes("verify_source")
    BY <1>1 DEF Jobs, Goes
  <2>2. job' = [job EXCEPT !.pc = "verify_work", !.todo = Listed(dir[Work(job.op)].tree)]
        /\ UNCHANGED result => Goes("verify_work")
    BY <1>1 DEF Jobs, Goes
  <2> QED
    BY <1>1, <1>2, <1>5, <2>1, <2>2 DEF ListSource, VerifySourceDone
<1>6. ASSUME NEW f \in Files, VerifyFile(f) \/ VerifyExtra(f)
      PROVE  /\ (Fails /\ used' = used) \/
                (~At("idle") /\ used' = used /\ \E l \in Pcs \ {"idle"} : ReadRow(l) /\ Goes(l))
  <2>1. \A d : job' = [job EXCEPT !.todo = @ \ {f}, !.diff = d] /\ UNCHANGED result =>
           Goes(job.pc)
    BY <1>1 DEF Jobs, Goes
  <2>2. CASE VerifyFile(f)
    BY <1>2, <2>1, <2>2 DEF VerifyFile
  <2>3. CASE VerifyExtra(f)
    BY <1>2, <2>1, <2>3 DEF VerifyExtra
  <2> QED
    BY <1>6, <2>2, <2>3
<1>7. CASE Crash \/ RecoverNothing
  BY <1>1, <1>2, <1>7 DEF Crash, RecoverNothing
<1>8. CASE RecoverAmbiguous
  BY <1>1, <1>8 DEF RecoverAmbiguous, Return
<1>9. ASSUME NEW o \in Ops, RecoverConvert(o)
      PROVE  \E p \in Path : Decides(o, p) /\ used' = used
  <2>1. PICK p \in FirstMarkers(o) :
           LET plan == RecoverPlan(o, dir[p].marker[o])
           IN  \/ plan = "needs_attention" /\ Return(plan)
               \/ /\ plan # "needs_attention"
                  /\ job' = [Idle EXCEPT !.pc = plan, !.op = o, !.outcome = RecoverOutcome(plan)]
                  /\ UNCHANGED result
    BY <1>9 DEF RecoverConvert
  <2>2. p \in Path /\ dir[p].marker[o] # "none"
    BY Paths DEF FirstMarkers, Path
  <2> DEFINE plan == RecoverPlan(o, dir[p].marker[o])
  <2>3. RecoverOutcome(plan) \in {"rerun", "completed", "continue_rename"}
    BY DEF RecoverOutcome
  <2>4. At("idle") /\ Unfinished = {o} /\ used' = used
    BY <1>9 DEF RecoverConvert
  <2>5. \/ plan = "needs_attention" /\ job' = Idle /\ result' = "needs_attention"
        \/ /\ plan # "needs_attention"
           /\ job' = [Idle EXCEPT !.pc = plan, !.op = o, !.outcome = RecoverOutcome(plan)]
           /\ result' = result
    BY <2>1 DEF Return
  <2> HIDE DEF plan
  <2>6. \/ plan = "needs_attention" /\ job' = Idle /\ result' = "needs_attention"
        \/ /\ plan # "needs_attention"
           /\ job'.pc = plan /\ job'.op = o
           /\ job'.outcome \in {"rerun", "completed", "continue_rename"} /\ result' = result
    BY <2>3, <2>5 DEF Idle
  <2> QED
    BY <2>2, <2>4, <2>6 DEF Decides, plan
<1>10. ASSUME NEW k \in Kinds, ConvertRoot(k) PROVE Begins
  <2>1. PICK o \in Ops \ used :
           /\ used' = used \cup {o}
           /\ job' = [Idle EXCEPT !.pc = "mark_creating", !.op = o, !.kind = k]
    BY <1>10 DEF ConvertRoot
  <2> QED
    BY <1>10, <2>1 DEF ConvertRoot, Begins, Idle
<1> QED
  BY <1>1, <1>4, <1>5, <1>6, <1>7, <1>8, <1>9, <1>10 DEF Quiet, Recover

(* What each plan of RecoverConvert presupposes. *)
LEMMA PlanFacts ==
    ASSUME NEW o \in Ops, NEW ph
    PROVE  LET plan == RecoverPlan(o, ph) IN
           /\ plan \in {"discard", "backup_root", "install_work", "clean_root", "needs_attention"}
           /\ plan = "discard" => ph \in EarlyPhases /\ Present(Root) /\ ~Present(Backup(o))
           /\ plan = "backup_root" => /\ ph = "renaming_root_to_backup" /\ Present(Root)
                                      /\ Present(Work(o)) /\ ~Present(Backup(o))
           /\ plan = "install_work" => /\ ph \in RenamePhases /\ ~Present(Root)
                                       /\ Present(Work(o)) /\ Present(Backup(o))
           /\ plan = "clean_root" => \/ ph = "completed"
                                     \/ ph \in RenamePhases /\ Present(Root) /\ ~Present(Work(o))
           /\ plan = "needs_attention" =>
                 /\ ph # "completed"
                 /\ ph \in EarlyPhases => ~(Present(Root) /\ ~Present(Backup(o)))
                 /\ ph = "renaming_root_to_backup" =>
                       ~(Present(Root) /\ Present(Work(o)) /\ ~Present(Backup(o)))
                 /\ ph \in RenamePhases =>
                       ~(Present(Backup(o)) /\ (Present(Root) <=> ~Present(Work(o))))
<1>1. EarlyPhases \cap RenamePhases = {} /\ "completed" \notin EarlyPhases \cup RenamePhases
      /\ "renaming_root_to_backup" \in RenamePhases
  BY DEF EarlyPhases, RenamePhases
<1> QED
  BY <1>1 DEF RecoverPlan

(* What users and other commands do, and a step that does nothing. *)
LEMMA UserTable ==
    ASSUME TypeInv,
           \/ UNCHANGED vars
           \/ CreateEmptyRoot
           \/ \E o \in Ops : CleanUnfinished(o)
           \/ \E f \in Files, v \in Values \cup {Gone} : Edit(f, v)
    PROVE  /\ UNCHANGED <<job, result, used, verified>> /\ spent'["fault"] = spent["fault"]
           /\ \A q \in Path : Present(q) => There(q)
           /\ \A q \in Path : There(q) # Present(q) =>
                 q = Root /\ Limit["create"] # 0
           /\ \A q \in Path, u \in Ops : dir'[q].marker[u] # dir[q].marker[u] =>
                 /\ q = Root /\ dir'[q].marker[u] = "none"
                 /\ At("idle") /\ There(Root) /\ Limit["clean"] # 0
<1> USE DEF Present, There
<1>1. spent \in [Events -> Nat] /\ Limit \in [Events -> Nat] /\ Root \in Path
  BY ConvertAssumption, Paths DEF TypeInv, TypeOK
<1>2. CASE UNCHANGED vars
  BY <1>2 DEF vars
<1>3. CASE CreateEmptyRoot
  <2>1. /\ UNCHANGED <<job, result, used, verified>> /\ spent'["fault"] = spent["fault"]
        /\ Limit["create"] # 0
    BY <1>1, <1>3 DEF CreateEmptyRoot, Spend, Events
  <2>2. /\ \A q \in Path : dir'[q].marker = dir[q].marker
        /\ \A q \in Path \ {Root} : dir'[q] = dir[q]
        /\ ~Present(Root)
    BY <1>3, CreateStep
  <2> QED
    BY <2>1, <2>2
<1>4. ASSUME NEW o \in Ops, CleanUnfinished(o)
      PROVE  /\ UNCHANGED <<job, result, used, verified>> /\ spent'["fault"] = spent["fault"]
             /\ Limit["clean"] # 0 /\ At("idle") /\ There(Root)
             /\ \A q \in Path : dir'[q].form = dir[q].form
             /\ \A q \in Path, u \in Ops : dir'[q].marker[u] # dir[q].marker[u] =>
                   q = Root /\ dir'[q].marker[u] = "none"
  <2>1. /\ UNCHANGED <<job, result, used, verified>> /\ spent'["fault"] = spent["fault"]
        /\ Limit["clean"] # 0 /\ dir[Root].form = "enc"
    BY <1>1, <1>4 DEF CleanUnfinished, Spend, Events
  <2>2. /\ At("idle") /\ Remarks(dir', Root, o, {"none"})
        /\ \A q \in Path : dir'[q].form = dir[q].form
    BY <1>4, CleanUnfinishedStep
  <2> QED
    BY <1>1, <2>1, <2>2 DEF Remarks
<1>5. ASSUME NEW f \in Files, NEW v \in Values \cup {Gone}, Edit(f, v)
      PROVE  /\ UNCHANGED <<job, result, used, verified>> /\ spent'["fault"] = spent["fault"]
             /\ \A q \in Path : dir'[q].form = dir[q].form /\ dir'[q].marker = dir[q].marker
  <2>1. UNCHANGED <<job, result, used, verified>> /\ spent'["fault"] = spent["fault"]
    BY <1>1, <1>5 DEF Edit, Spend, Events
  <2> QED
    BY <1>5, <2>1, EditStep
<1> QED
  BY <1>2, <1>3, <1>4, <1>5

(* Recording a failed verification. *)
LEMMA AttentionTable ==
    ASSUME TypeInv, MarkAttention
    PROVE  /\ job.pc = "mark_attention" /\ job.op \in Ops /\ UNCHANGED <<used, verified>>
           /\ Fails /\ Remarked(Root, job.op, {"needs_attention"})
<1>1. /\ job.op \in Ops /\ UNCHANGED <<used, verified>> /\ Disk(dir) /\ Root \in Path
      /\ Remarks(dir', Root, job.op, {dir[Root].marker[job.op], "needs_attention"})
  BY AttentionStep, Paths DEF TypeInv, TypeOK
<1>2. Remarks(dir', Root, job.op, {dir[Root].marker[job.op]} \cup {"needs_attention"})
  BY <1>1 DEF Remarks
<1>3. Remarked(Root, job.op, {"needs_attention"})
  BY <1>1, <1>2, RemarkedView
<1> QED
  BY <1>1, <1>3 DEF MarkAttention, At, Return, Fails, Errors

-----------------------------------------------------------------------------
(* The root is never lost *)

\* Where a call needs the root, and where it needs its work.
RootPcs == (CopyPcs \ {"mark_creating"}) \cup
           {"mark_commit", "rename_root", "mark_completed", "discard", "unmark", "backup_root"}
WorkPcs == (CopyPcs \ {"mark_creating", "make_work", "mark_attention"}) \cup
           {"mark_commit", "rename_root", "backup_root"}

\* Markers are kept in the root and in backups; a finished operation has no work.
MarkerPlaces ==
    /\ \A w, o \in Ops : dir[Work(w)].marker[o] = "none"
    /\ \A p \in Path, o \in Ops : dir[p].marker[o] = "completed" => ~Present(Work(o))

\* What the running call finds on the disk.
JobPlaces ==
    /\ job.pc \in RootPcs => Present(Root)
    /\ job.pc \in WorkPcs => Present(Work(job.op))
    /\ job.pc \in {"mark_completed", "clean_root", "clean_backup", "unmark"} =>
          ~Present(Work(job.op))
    /\ job.pc \in CopyPcs \cup {"mark_commit"} => dir[Root].marker[job.op] # "completed"
    /\ job.pc \in {"rename_root", "backup_root"} =>
          \E p \in Kept : dir[p].marker[job.op] \in RenamePhases

\* While the root is away, some operation can put its work in place.
RootHeld ==
    ~Present(Root) => \E o \in Ops :
        /\ Present(Backup(o)) /\ Present(Work(o))
        /\ \E p \in Kept : dir[p].marker[o] \in RenamePhases

(* The inductive invariant behind RootRecoverable: a call renames the root   *)
(* away only with its work in place and a rename marker that goes along, and *)
(* removes markers only of an operation whose work is gone.                  *)
PlaceInv == MarkerPlaces /\ JobPlaces /\ RootHeld

(* A directory that is not there has no markers. *)
LEMMA NoMarkersAway ==
    ASSUME TypeInv
    PROVE  /\ \A p \in Path, o \in Ops : ~Present(p) => dir[p].marker[o] = "none"
           /\ \A o \in Ops : Absent.marker[o] = "none"
BY AbsentType DEF TypeInv, TypeOK, Disk, Present, NoMarkers

(* A call that ends finds nothing: all that is said of running calls holds. *)
LEMMA IdlePlaces == job' = Idle => JobPlaces'
BY IdleType DEF JobPlaces, RootPcs, WorkPcs, CopyPcs

(* Writing a marker keeps PlaceInv. *)
LEMMA MarkerPlace == TypeInv /\ PlaceInv /\ MarkerStep => PlaceInv'
<1> SUFFICES ASSUME TypeInv, PlaceInv, MarkerStep PROVE PlaceInv'
  OBVIOUS
<1>1. PICK p \in Kept, ph \in Phases, l \in Pcs \ {"idle"} :
         /\ MarkerRow(p, ph, l)
         /\ Remarked(p, job.op, {ph})
         /\ Fails \/ (Goes(l) /\ dir'[p].marker[job.op] = ph /\ There(p))
  BY MarkerTable
<1>2. job.op \in Ops /\ MarkerPlaces /\ JobPlaces /\ RootHeld
  BY MarkerTable DEF PlaceInv
<1> USE Paths DEF Present, There
<1>3. \A u \in Ops : /\ There(Work(u)) = Present(Work(u))
                     /\ \A o \in Ops : dir'[Work(u)].marker[o] = dir[Work(u)].marker[o]
  BY <1>1 DEF Remarked
<1>4. MarkerPlaces'
  <2>1. ph = "completed" => ~Present(Work(job.op))
    BY <1>1, <1>2 DEF MarkerRow, JobPlaces
  <2> QED
    BY <1>1, <1>2, <1>3, <2>1 DEF MarkerPlaces, Remarked
<1>5. JobPlaces'
  <2>1. CASE Fails
    BY <2>1, IdlePlaces DEF Fails
  <2>2. CASE Goes(l) /\ dir'[p].marker[job.op] = ph /\ There(p)
    <3>1. l \in RootPcs => There(Root)
      BY <1>1, <1>2, <2>2 DEF MarkerRow, Remarked, JobPlaces, RootPcs, CopyPcs
    <3>2. l \in WorkPcs => There(Work(job.op))
      BY <1>1, <1>2, <1>3 DEF MarkerRow, JobPlaces, WorkPcs, CopyPcs
    <3>3. l \in {"mark_completed", "clean_root", "clean_backup", "unmark"} => ~There(Work(job.op))
      BY <1>1, <1>2, <1>3 DEF MarkerRow, JobPlaces
    <3>4. l \in CopyPcs \cup {"mark_commit"} => dir'[Root].marker[job.op] # "completed"
      BY <1>1, <2>2 DEF MarkerRow, CopyPcs
    <3>5. l \in {"rename_root", "backup_root"} => dir'[p].marker[job.op] \in RenamePhases
      BY <1>1, <2>2 DEF MarkerRow, RenamePhases
    <3> QED
      BY <2>2, <3>1, <3>2, <3>3, <3>4, <3>5 DEF Goes, JobPlaces
  <2> QED
    BY <1>1, <2>1, <2>2
<1>6. RootHeld'
  <2> SUFFICES ASSUME ~There(Root)
               PROVE  \E o \in Ops : /\ There(Backup(o)) /\ There(Work(o))
                                     /\ \E k \in Kept : dir'[k].marker[o] \in RenamePhases
    BY DEF RootHeld
  <2>1. ~Present(Root)
    BY <1>1 DEF Remarked
  <2>2. PICK o \in Ops, k \in Kept :
           /\ Present(Backup(o)) /\ Present(Work(o)) /\ dir[k].marker[o] \in RenamePhases
    BY <1>2, <2>1 DEF RootHeld
  <2>3. There(Backup(o)) /\ There(Work(o))
    BY <1>1, <2>2 DEF Remarked
  <2>4. dir'[k].marker[o] \in RenamePhases
    <3>1. CASE dir'[k].marker[o] = dir[k].marker[o]
      BY <2>2, <3>1
    <3>2. CASE dir'[k].marker[o] # dir[k].marker[o]
      <4>1. dir'[k].marker[o] = ph /\ p # Root
        BY <1>1, <3>2 DEF Remarked
      <4> QED
        BY <1>1, <4>1 DEF MarkerRow, RenamePhases
    <3> QED
      BY <3>1, <3>2
  <2> QED
    BY <2>3, <2>4
<1> QED
  BY <1>4, <1>5, <1>6 DEF PlaceInv

(* The renames keep PlaceInv. *)
LEMMA RenamePlace == TypeInv /\ PlaceInv /\ RenameStep => PlaceInv'
<1> SUFFICES ASSUME TypeInv, PlaceInv, RenameStep PROVE PlaceInv'
  OBVIOUS
<1>1. PICK p \in Path, q \in Path, l \in Pcs \ {"idle"} :
         /\ RenameRow(p, q, l)
         /\ \/ dir' = dir /\ Fails
            \/ Renamed(p, q) /\ (Fails \/ Goes(l))
  BY RenameTable
<1>2. job.op \in Ops /\ MarkerPlaces /\ JobPlaces /\ RootHeld
  BY RenameTable DEF PlaceInv
<1> USE Paths DEF Present
<1>3. CASE dir' = dir /\ Fails
  BY <1>2, <1>3, IdlePlaces DEF Fails, PlaceInv, MarkerPlaces, RootHeld
<1>4. CASE Renamed(Root, Backup(job.op)) /\ p = Root /\ q = Backup(job.op)
  <2>1. /\ dir'[Backup(job.op)] = dir[Root] /\ dir'[Root] = Absent
        /\ \A s \in Path : s # Root /\ s # Backup(job.op) => dir'[s] = dir[s]
        /\ \A o \in Ops : dir[Backup(job.op)].marker[o] = "none" /\ Absent.marker[o] = "none"
    BY <1>2, <1>4, NoMarkersAway DEF Renamed
  <2>2. \A o \in Ops : dir'[Work(o)] = dir[Work(o)]
    BY <1>2, <2>1
  <2>3. MarkerPlaces'
    BY <1>2, <2>1, <2>2 DEF MarkerPlaces
  <2>4. JobPlaces'
    BY <1>1, <1>4, AbsentType, IdlePlaces DEF RenameRow, Fails, Goes, JobPlaces, RootPcs, WorkPcs,
                                              CopyPcs, Renamed
  <2>5. RootHeld'
    <3>1. Present(Work(job.op)) /\ Present(Root)
      BY <1>1, <1>2, <1>4 DEF RenameRow, Renamed, JobPlaces, WorkPcs
    <3>2. PICK k \in Kept : dir[k].marker[job.op] \in RenamePhases
      BY <1>1, <1>2, <1>4 DEF RenameRow, JobPlaces
    <3>3. k # Backup(job.op)
      BY <1>2, <2>1, <3>2 DEF RenamePhases
    <3>4. \E j \in Kept : dir'[j].marker[job.op] \in RenamePhases
      BY <1>2, <2>1, <3>2, <3>3
    <3> QED
      BY <1>2, <2>1, <2>2, <3>1, <3>4 DEF RootHeld
  <2> QED
    BY <2>3, <2>4, <2>5 DEF PlaceInv
<1>5. CASE Renamed(Work(job.op), Root) /\ p = Work(job.op) /\ q = Root
  <2>1. /\ dir'[Root] = dir[Work(job.op)] /\ dir'[Work(job.op)] = Absent
        /\ \A s \in Path : s # Root /\ s # Work(job.op) => dir'[s] = dir[s]
        /\ \A o \in Ops : Absent.marker[o] = "none"
        /\ dir[Work(job.op)].form # "absent" /\ Absent.form = "absent"
    BY <1>2, <1>5, NoMarkersAway, AbsentType DEF Renamed
  <2>2. MarkerPlaces'
    BY <1>2, <2>1 DEF MarkerPlaces
  <2>3. JobPlaces'
    <3>1. CASE Fails
      BY <3>1, IdlePlaces DEF Fails
    <3>2. CASE Goes(l)
      BY <1>1, <1>5, <2>1, <3>2 DEF RenameRow, Goes, JobPlaces, RootPcs, WorkPcs, CopyPcs
    <3> QED
      BY <1>1, <1>2, <2>1, <3>1, <3>2
  <2>4. RootHeld'
    BY <2>1 DEF RootHeld
  <2> QED
    BY <2>2, <2>3, <2>4 DEF PlaceInv
<1> QED
  BY <1>1, <1>3, <1>4, <1>5 DEF RenameRow

(* Removing a marker keeps PlaceInv: the operation it is of has no work. *)
LEMMA CleanPlace == TypeInv /\ PlaceInv /\ CleanStep => PlaceInv'
<1> SUFFICES ASSUME TypeInv, PlaceInv, CleanStep PROVE PlaceInv'
  OBVIOUS
<1> USE Paths DEF Present, There
<1>1. /\ job.op \in Ops /\ MarkerPlaces /\ JobPlaces /\ RootHeld
      /\ \A q \in Path : Present(q)' = Present(q)
      /\ \A q \in Path, u \in Ops : dir'[q].marker[u] # dir[q].marker[u] =>
            u = job.op /\ dir'[q].marker[u] = "none"
      /\ job.pc \in {"clean_root", "clean_backup", "unmark"}
      /\ job' = Idle \/ (job.pc = "clean_root" /\ Goes("clean_backup"))
  BY CleanTable DEF PlaceInv
<1>2. MarkerPlaces'
  BY <1>1 DEF MarkerPlaces
<1>3. JobPlaces'
  <2>1. CASE job' = Idle
    BY <2>1, IdlePlaces
  <2>2. CASE job.pc = "clean_root" /\ Goes("clean_backup")
    BY <1>1, <2>2 DEF Goes, JobPlaces, RootPcs, WorkPcs, CopyPcs
  <2> QED
    BY <1>1, <2>1, <2>2
<1>4. RootHeld'
  <2>1. ~Present(Work(job.op))
    BY <1>1 DEF JobPlaces
  <2>2. \A o \in Ops : Present(Work(o)) => \A q \in Path : dir'[q].marker[o] = dir[q].marker[o]
    BY <1>1, <2>1
  <2> QED
    BY <1>1, <2>2 DEF RootHeld
<1> QED
  BY <1>2, <1>3, <1>4 DEF PlaceInv

(* Filling and emptying a work keeps PlaceInv: the root is there meanwhile. *)
LEMMA WorkPlace == TypeInv /\ SealInv /\ PlaceInv /\ WorkStep => PlaceInv'
<1> SUFFICES ASSUME TypeInv, SealInv, PlaceInv, WorkStep PROVE PlaceInv'
  OBVIOUS
<1> USE Paths DEF Present, There
<1>1. /\ job.op \in Ops /\ MarkerPlaces /\ JobPlaces /\ RootHeld /\ EarlyJob
      /\ \A q \in Path \ {Work(job.op)} : dir'[q] = dir[q]
      /\ \A q \in Path, o \in Ops : dir'[q].marker[o] \in {dir[q].marker[o], "none"}
  BY WorkTable, NoMarkersAway DEF PlaceInv, SealInv
<1>2. /\ job.pc \in {"make_work", "open", "copy", "discard"}
      /\ \/ Fails
         \/ job.pc = "make_work" /\ Goes("mark_copying") /\ There(Work(job.op))
         \/ job.pc \in {"open", "copy"} /\ Goes("copy")
         \/ job.pc = "discard" /\ Goes("discard")
         \/ job.pc = "discard" /\ Goes("unmark") /\ ~There(Work(job.op))
      /\ job.pc \in {"open", "copy"} => There(Work(job.op))
      /\ job.pc = "discard" => (There(Work(job.op)) => Present(Work(job.op)))
  BY WorkTable DEF PlaceInv, JobPlaces, WorkPcs, CopyPcs
<1>3. Present(Root) /\ There(Root) /\ dir'[Root] = dir[Root]
  BY <1>1, <1>2 DEF JobPlaces, RootPcs, CopyPcs
<1>4. MarkerPlaces'
  <2>1. \A o \in Ops : (There(Work(o)) /\ ~Present(Work(o))) => o = job.op /\ job.pc = "make_work"
    BY <1>1, <1>2 DEF JobPlaces, WorkPcs, CopyPcs
  <2>2. job.pc = "make_work" => \A q \in Path : dir[q].marker[job.op] # "completed"
    BY <1>1 DEF EarlyJob, JobPlaces, CopyPcs
  <2> QED
    BY <1>1, <2>1, <2>2 DEF MarkerPlaces
<1>5. JobPlaces'
  <2>1. CASE Fails
    BY <2>1, IdlePlaces DEF Fails
  <2>2. CASE ~Fails
    BY <1>1, <1>2, <1>3, <2>2 DEF Goes, JobPlaces, RootPcs, WorkPcs, CopyPcs
  <2> QED
    BY <2>1, <2>2
<1>6. RootHeld'
  BY <1>3 DEF RootHeld
<1> QED
  BY <1>4, <1>5, <1>6 DEF PlaceInv

(* The steps that leave the disk alone keep PlaceInv. *)
LEMMA QuietPlace == TypeInv /\ SealInv /\ PlaceInv /\ Quiet => PlaceInv'
<1> SUFFICES ASSUME TypeInv, SealInv, PlaceInv, Quiet PROVE PlaceInv'
  OBVIOUS
<1> USE Paths DEF Present
<1>1. dir' = dir /\ MarkerPlaces /\ JobPlaces /\ RootHeld /\ FreshIds
  BY QuietTable DEF PlaceInv, SealInv
<1>2. MarkerPlaces' /\ RootHeld'
  BY <1>1 DEF MarkerPlaces, RootHeld
<1>3. job' = Idle => JobPlaces'
  BY IdlePlaces
<1>4. ASSUME NEW l \in Pcs, ReadRow(l), Goes(l) PROVE JobPlaces'
  BY <1>1, <1>4 DEF ReadRow, Goes, JobPlaces, RootPcs, WorkPcs, CopyPcs
<1>5. ASSUME Begins PROVE JobPlaces'
  BY <1>1, <1>5 DEF Begins, FreshIds, JobPlaces, RootPcs, WorkPcs, CopyPcs
<1>6. ASSUME NEW o \in Ops, NEW p \in Path, Decides(o, p) PROVE JobPlaces'
  <2> DEFINE plan == RecoverPlan(o, dir[p].marker[o])
  <2>1. \/ job' = Idle
        \/ job'.pc = plan /\ job'.op = o /\ plan # "needs_attention"
    BY <1>6 DEF Decides
  <2>2. /\ plan \in {"discard", "backup_root", "install_work", "clean_root", "needs_attention"}
        /\ plan = "discard" => Present(Root)
        /\ plan = "backup_root" => /\ dir[p].marker[o] = "renaming_root_to_backup"
                                   /\ Present(Root) /\ Present(Work(o))
        /\ plan = "clean_root" => ~Present(Work(o))
    BY <1>1, PlanFacts DEF MarkerPlaces
  <2> HIDE DEF plan
  <2>3. p \in Kept
    BY <1>1, <1>6 DEF Decides, MarkerPlaces, Path, Kept
  <2>4. plan = "backup_root" => \E k \in Kept : dir[k].marker[o] \in RenamePhases
    BY <2>2, <2>3 DEF RenamePhases
  <2>5. CASE job'.pc = plan /\ job'.op = o /\ plan # "needs_attention"
    BY <1>1, <2>2, <2>4, <2>5 DEF JobPlaces, RootPcs, WorkPcs, CopyPcs
  <2> QED
    BY <1>3, <2>1, <2>5
<1> QED
  BY <1>2, <1>3, <1>4, <1>5, <1>6, QuietTable DEF PlaceInv, Fails

(* What users and other commands do keeps PlaceInv. *)
LEMMA UserPlace ==
    ASSUME TypeInv, PlaceInv,
           \/ UNCHANGED vars
           \/ CreateEmptyRoot
           \/ \E o \in Ops : CleanUnfinished(o)
           \/ \E f \in Files, v \in Values \cup {Gone} : Edit(f, v)
    PROVE  PlaceInv'
<1> USE Paths DEF Present, There
<1>1. /\ job' = job /\ (job.pc # "idle" => job.op \in Ops)
      /\ MarkerPlaces /\ JobPlaces /\ RootHeld
      /\ \A q \in Path : Present(q) => There(q)
      /\ \A q \in Path : There(q) # Present(q) => q = Root
      /\ \A q \in Path, u \in Ops : dir'[q].marker[u] # dir[q].marker[u] =>
            q = Root /\ dir'[q].marker[u] = "none" /\ At("idle") /\ There(Root)
  BY UserTable DEF PlaceInv, TypeInv, TypeOK
<1>2. MarkerPlaces'
  BY <1>1 DEF MarkerPlaces
<1>3. JobPlaces'
  <2>1. CASE job.pc = "idle"
    BY <1>1, <2>1 DEF JobPlaces, RootPcs, WorkPcs, CopyPcs
  <2>2. CASE job.pc # "idle"
    BY <1>1, <2>2 DEF At, JobPlaces
  <2> QED
    BY <2>1, <2>2
<1>4. RootHeld'
  BY <1>1 DEF RootHeld
<1> QED
  BY <1>2, <1>3, <1>4 DEF PlaceInv

(* Recording a failed verification keeps PlaceInv. *)
LEMMA AttentionPlace == TypeInv /\ PlaceInv /\ MarkAttention => PlaceInv'
<1> SUFFICES ASSUME TypeInv, PlaceInv, MarkAttention PROVE PlaceInv'
  OBVIOUS
<1> USE Paths DEF Present, There
<1>1. /\ Fails /\ Remarked(Root, job.op, {"needs_attention"}) /\ Present(Root)
      /\ MarkerPlaces
  BY AttentionTable DEF PlaceInv, JobPlaces, RootPcs, CopyPcs
<1>2. MarkerPlaces'
  BY <1>1 DEF MarkerPlaces, Remarked
<1>3. RootHeld'
  BY <1>1 DEF RootHeld, Remarked
<1> QED
  BY <1>1, <1>2, <1>3, IdlePlaces DEF PlaceInv, Fails

(* PlaceInv holds in every reachable state. *)
LEMMA PlaceInvariant == Spec => []PlaceInv
<1>1. Init => PlaceInv
  <2> SUFFICES ASSUME Init PROVE PlaceInv
    OBVIOUS
  <2>1. job.pc = "idle" /\ Present(Root)
    BY IdleType, Paths DEF Init, Present, Absent
  <2>2. /\ \A p \in Path, o \in Ops : dir[p].marker[o] = "none"
        /\ \A o \in Ops : ~Present(Work(o))
    BY Paths DEF Init, Absent, NoMarkers, Present
  <2> QED
    BY <2>1, <2>2, Paths DEF PlaceInv, MarkerPlaces, JobPlaces, RootHeld, RootPcs, WorkPcs, CopyPcs
<1>2. TypeInv /\ SealInv /\ PlaceInv /\ [Next]_vars => PlaceInv'
  BY NextSteps, MarkerPlace, RenamePlace, CleanPlace, WorkPlace, QuietPlace, UserPlace,
     AttentionPlace
<1> QED
  BY <1>1, <1>2, TypeInvariant, MarkersVouch, PTL DEF Spec

(* No crash, error or command leaves a hole: while the root is away, one     *)
(* operation has a backup, its verified work and a marker from which         *)
(* RecoverConvert goes on.                                                   *)
THEOREM NeverAHole == Spec => []RootRecoverable
<1>1. SealInv /\ PlaceInv => RootRecoverable
  BY Paths DEF SealInv, RenameMarkers, Sealed, PlaceInv, RootHeld, RootRecoverable
<1> QED
  BY <1>1, PlaceInvariant, MarkersVouch, PTL

-----------------------------------------------------------------------------
(* Every work is tracked *)

\* A work is made under a marker of its operation.
TrackInv ==
    /\ WorkIsTracked
    /\ job.pc = "make_work" => dir[Root].marker[job.op] # "none"

\* A work that is there has a marker; as the prover needs it after a step.
Tracked == \A o \in Ops : There(Work(o)) => \E p \in Path : dir'[p].marker[o] # "none"

(* Without a "clean" that names a conversion, every step keeps TrackInv. *)
LEMMA NextTrack ==
    ASSUME Limit["clean"] = 0, TypeInv, SealInv, PlaceInv, TrackInv, [Next]_vars
    PROVE  TrackInv'
<1> USE Paths DEF Present, There
<1>1. /\ MarkerPlaces /\ JobPlaces /\ (job' = Idle => job'.pc = "idle")
      /\ \A o \in Ops : Present(Work(o)) => \E p \in Path : dir[p].marker[o] # "none"
  BY IdleType DEF PlaceInv, TrackInv, WorkIsTracked, Unfinished
<1>2. ASSUME Tracked, job'.pc = "make_work" => dir'[Root].marker[job'.op] # "none"
      PROVE  TrackInv'
  BY <1>2 DEF TrackInv, WorkIsTracked, Unfinished, Tracked
<1>3. ASSUME NEW p \in Kept, NEW ph \in Phases, Remarked(p, job.op, {ph}) PROVE Tracked
  <2>1. ph # "none"
    BY DEF Phases, EarlyPhases, RenamePhases
  <2>2. \A o \in Ops : There(Work(o)) = Present(Work(o))
    BY <1>3 DEF Remarked
  <2>3. \A q \in Path, o \in Ops : dir[q].marker[o] # "none" => dir'[q].marker[o] # "none"
    BY <1>3, <2>1 DEF Remarked
  <2> QED
    BY <1>1, <2>2, <2>3 DEF Tracked
<1>4. CASE MarkerStep
  <2>1. PICK p \in Kept, ph \in Phases, l \in Pcs \ {"idle"} :
           /\ MarkerRow(p, ph, l)
           /\ Remarked(p, job.op, {ph})
           /\ Fails \/ (Goes(l) /\ dir'[p].marker[job.op] = ph /\ There(p))
    BY <1>4, MarkerTable
  <2>2. job'.pc = "make_work" => dir'[Root].marker[job'.op] # "none"
    BY <1>1, <2>1 DEF MarkerRow, Fails, Goes
  <2> QED
    BY <1>2, <1>3, <2>1, <2>2
<1>5. CASE MarkAttention
  <2>1. job' = Idle /\ Remarked(Root, job.op, {"needs_attention"})
    BY <1>5, AttentionTable DEF Fails
  <2> QED
    BY <1>1, <1>2, <1>3, <2>1 DEF Phases
<1>6. CASE RenameStep
  <2>1. PICK p \in Path, q \in Path, l \in Pcs \ {"idle"} :
           /\ RenameRow(p, q, l)
           /\ \/ dir' = dir /\ Fails
              \/ Renamed(p, q) /\ (Fails \/ Goes(l))
    BY <1>6, RenameTable
  <2>2. job.op \in Ops
    BY <1>6, RenameTable
  <2>3. job'.pc # "make_work"
    BY <1>1, <2>1 DEF RenameRow, Fails, Goes
  <2>4. CASE dir' = dir
    BY <1>1, <1>2, <2>3, <2>4 DEF Tracked
  <2>5. CASE Renamed(p, q)
    <3>1. /\ p = Root \/ p = Work(job.op)
          /\ q = Backup(job.op) \/ q = Root
      BY <2>1 DEF RenameRow
    <3>2. \A s \in Path, o \in Ops : dir[s].marker[o] # "none" =>
             \E t \in Path : dir'[t].marker[o] # "none"
      BY <2>5, NoMarkersAway DEF Renamed
    <3>3. \A o \in Ops : There(Work(o)) => Present(Work(o))
      BY <2>2, <2>5, <3>1, AbsentType DEF Renamed
    <3>4. Tracked
      BY <1>1, <3>2, <3>3 DEF Tracked
    <3> QED
      BY <1>2, <2>3, <3>4
  <2> QED
    BY <2>1, <2>4, <2>5
<1>7. CASE CleanStep
  <2>1. /\ \A q \in Path : There(q) = Present(q)
        /\ \A q \in Path, u \in Ops : dir'[q].marker[u] # dir[q].marker[u] => u = job.op
        /\ job.pc \in {"clean_root", "clean_backup", "unmark"} /\ job'.pc # "make_work"
    BY <1>1, <1>7, CleanTable DEF Goes
  <2>2. ~Present(Work(job.op))
    BY <1>1, <2>1 DEF JobPlaces
  <2>3. Tracked
    BY <1>1, <2>1, <2>2 DEF Tracked
  <2> QED
    BY <1>2, <2>1, <2>3
<1>8. CASE WorkStep
  <2>1. /\ job.op \in Ops
        /\ \A q \in Path \ {Work(job.op)} : dir'[q] = dir[q]
        /\ job.pc = "make_work" \/ (There(Work(job.op)) => Present(Work(job.op)))
        /\ job'.pc # "make_work"
    BY <1>1, <1>8, WorkTable DEF JobPlaces, WorkPcs, CopyPcs, Fails, Goes
  <2>2. \A q \in Path, o \in Ops : dir[q].marker[o] # "none" => dir'[q].marker[o] = dir[q].marker[o]
    BY <1>1, <2>1 DEF MarkerPlaces
  <2>3. job.pc = "make_work" => dir'[Root].marker[job.op] # "none"
    BY <2>1 DEF TrackInv
  <2>4. \A o \in Ops \ {job.op} : There(Work(o)) = Present(Work(o))
    BY <2>1
  <2>5. Tracked
    <3> SUFFICES ASSUME NEW o \in Ops, There(Work(o))
                 PROVE  \E q \in Path : dir'[q].marker[o] # "none"
      BY DEF Tracked
    <3>1. CASE o = job.op /\ job.pc = "make_work"
      BY <2>3, <3>1
    <3>2. CASE Present(Work(o))
      BY <1>1, <2>2, <3>2
    <3> QED
      BY <2>1, <2>4, <3>1, <3>2
  <2> QED
    BY <1>2, <2>1, <2>5
<1>9. CASE Quiet
  <2>1. dir' = dir /\ job'.pc # "make_work"
    BY <1>1, <1>9, QuietTable, PlanFacts DEF ReadRow, Goes, Fails, Begins, Decides
  <2> QED
    BY <1>1, <1>2, <2>1 DEF Tracked
<1>10. CASE \/ UNCHANGED vars
            \/ CreateEmptyRoot
            \/ \E o \in Ops : CleanUnfinished(o)
            \/ \E f \in Files, v \in Values \cup {Gone} : Edit(f, v)
  <2>1. /\ job' = job /\ \A q \in Path, u \in Ops : dir'[q].marker[u] = dir[q].marker[u]
        /\ \A q \in Path : There(q) # Present(q) => q = Root
    BY <1>10, UserTable
  <2>2. \A o \in Ops : There(Work(o)) = Present(Work(o))
    BY <2>1
  <2>3. job.pc = "make_work" => job.op \in Ops
    BY DEF TypeInv, TypeOK
  <2>4. Tracked
    BY <1>1, <2>1, <2>2 DEF Tracked
  <2> QED
    BY <1>2, <2>1, <2>3, <2>4 DEF TrackInv
<1> QED
  BY <1>4, <1>5, <1>6, <1>7, <1>8, <1>9, <1>10, NextSteps

(* No copy of the user's files is left where recovery cannot find it: a work *)
(* directory is named by a marker at every moment of every call, unless      *)
(* "clean" is told to remove a conversion's marker.                          *)
THEOREM WorksTracked == Limit["clean"] = 0 => (Spec => []WorkIsTracked)
<1> SUFFICES ASSUME Limit["clean"] = 0 PROVE Spec => []WorkIsTracked
  OBVIOUS
<1>1. Init => TrackInv
  BY IdleType, Paths DEF Init, TrackInv, WorkIsTracked, Present, Absent
<1>2. TypeInv /\ SealInv /\ PlaceInv /\ TrackInv /\ [Next]_vars => TrackInv'
  BY NextTrack
<1>3. TrackInv => WorkIsTracked
  BY DEF TrackInv
<1> QED
  BY <1>1, <1>2, <1>3, TypeInvariant, MarkersVouch, PlaceInvariant, PTL DEF Spec

-----------------------------------------------------------------------------
(* A recovery that reports success leaves no marker *)

\* Every marker is of operation o.
MarkersOnlyOf(o) == \A p \in Path, u \in Ops : dir[p].marker[u] # "none" => u = o

(* With callers that recover first, at most one operation is unfinished, the *)
(* running one if there is one, and its markers are in the root or in its    *)
(* own backup.                                                               *)
SerialInv ==
    /\ \E o \in Ops \cup {NoOp} : MarkersOnlyOf(o)
    /\ job.pc # "idle" => MarkersOnlyOf(job.op)
    /\ \A p \in Path, o \in Ops : dir[p].marker[o] # "none" => p \in {Root, Backup(o)}
    /\ job.pc \in {"discard", "unmark"} => ~Present(Backup(job.op))
    /\ job.pc = "clean_backup" /\ spent["fault"] = 0 => dir[Root].marker[job.op] = "none"
    /\ RecoveryCleansUp

(* A step of the running call keeps SerialInv if its markers stay where they *)
(* belong, and if it does not end with a success.                            *)
LEMMA CallSerial ==
    ASSUME job.op \in Ops,
           \A q \in Path, u \in Ops : dir'[q].marker[u] # "none" =>
              u = job.op /\ q \in {Root, Backup(job.op)},
           \/ job' = Idle /\ result' \notin {"rerun", "continue_rename", "completed"}
           \/ job'.pc \notin {"idle", "discard", "unmark", "clean_backup"} /\ job'.op = job.op
    PROVE  SerialInv'
<1>1. job' = Idle => job'.pc = "idle"
  BY IdleType
<1>3. \A p \in Path, u \in Ops : dir'[p].marker[u] # "none" => u = job.op
  OBVIOUS
<1>4. \E o \in Ops \cup {NoOp} : MarkersOnlyOf(o)'
  BY <1>3 DEF MarkersOnlyOf
<1>5. (job.pc # "idle" => MarkersOnlyOf(job.op))'
  BY <1>1, <1>3 DEF MarkersOnlyOf
<1>6. RecoveryCleansUp'
  BY <1>1 DEF RecoveryCleansUp, At
<1> QED
  BY <1>1, <1>4, <1>5, <1>6 DEF SerialInv

(* With callers that recover first, every step keeps SerialInv. *)
LEMMA NextSerial ==
    ASSUME RecoverFirst, TypeInv, PlaceInv, SerialInv, [Next]_vars
    PROVE  SerialInv'
<1> USE Paths DEF Present, There
<1>1. /\ MarkerPlaces /\ (job' = Idle => job'.pc = "idle")
      /\ \A p \in Path, o \in Ops : dir[p].marker[o] # "none" => p \in {Root, Backup(o)}
  BY IdleType DEF PlaceInv, SerialInv
<1>2. ASSUME job.pc # "idle", NEW q \in Path, NEW u \in Ops, dir[q].marker[u] # "none"
      PROVE  u = job.op /\ q \in {Root, Backup(job.op)}
  BY <1>1, <1>2 DEF SerialInv, MarkersOnlyOf
<1>3. Fails => job' = Idle /\ result' \notin {"rerun", "continue_rename", "completed"}
  BY DEF Fails, Errors
<1>4. CASE MarkerStep
  <2>1. PICK p \in Kept, ph \in Phases, l \in Pcs \ {"idle"} :
           /\ MarkerRow(p, ph, l)
           /\ Remarked(p, job.op, {ph})
           /\ Fails \/ (Goes(l) /\ dir'[p].marker[job.op] = ph /\ There(p))
    BY <1>4, MarkerTable
  <2>2. /\ job.op \in Ops /\ job.pc # "idle" /\ p \in {Root, Backup(job.op)}
        /\ l \notin {"idle", "discard", "unmark", "clean_backup"}
    BY <1>4, <2>1, MarkerTable DEF MarkerRow
  <2>3. \A q \in Path, u \in Ops : dir'[q].marker[u] # "none" =>
           u = job.op /\ q \in {Root, Backup(job.op)}
    BY <1>2, <2>1, <2>2 DEF Remarked
  <2> QED
    BY <1>3, <2>1, <2>2, <2>3, CallSerial DEF Goes
<1>5. CASE MarkAttention
  <2>1. /\ job.pc = "mark_attention" /\ job.op \in Ops /\ Fails
        /\ Remarked(Root, job.op, {"needs_attention"})
    BY <1>5, AttentionTable
  <2>2. \A q \in Path, u \in Ops : dir'[q].marker[u] # "none" =>
           u = job.op /\ q \in {Root, Backup(job.op)}
    BY <1>2, <2>1 DEF Remarked
  <2> QED
    BY <1>3, <2>1, <2>2, CallSerial
<1>6. CASE RenameStep
  <2>1. PICK p \in Path, q \in Path, l \in Pcs \ {"idle"} :
           /\ RenameRow(p, q, l)
           /\ \/ dir' = dir /\ Fails
              \/ Renamed(p, q) /\ (Fails \/ Goes(l))
    BY <1>6, RenameTable
  <2>2. /\ job.op \in Ops /\ job.pc # "idle"
        /\ l \notin {"idle", "discard", "unmark", "clean_backup"}
        /\ q \in {Root, Backup(job.op)}
    BY <1>6, <2>1, RenameTable DEF RenameRow
  <2>3. \A s \in Path, u \in Ops : dir'[s].marker[u] # "none" =>
           u = job.op /\ s \in {Root, Backup(job.op)}
    <3>1. CASE dir' = dir
      BY <1>2, <2>2, <3>1
    <3>2. CASE Renamed(p, q)
      <4>1. \A s \in Path, u \in Ops : dir'[s].marker[u] # "none" =>
               \/ s = q /\ dir[p].marker[u] # "none"
               \/ s # q /\ dir[s].marker[u] # "none"
        BY <3>2, NoMarkersAway DEF Renamed
      <4> QED
        BY <1>2, <2>2, <4>1
    <3> QED
      BY <2>1, <3>1, <3>2
  <2> QED
    BY <1>3, <2>1, <2>2, <2>3, CallSerial DEF Goes
<1>7. CASE CleanStep
  <2>1. PICK p \in Kept :
           /\ \/ job.pc = "clean_root" /\ p = Root /\ Goes("clean_backup")
              \/ job.pc = "clean_backup" /\ p = Backup(job.op) /\ job' = Idle
              \/ job.pc = "unmark" /\ p = Root /\ job' = Idle
           /\ \A q \in Path, u \in Ops : dir'[q].marker[u] # dir[q].marker[u] =>
                 q = p /\ u = job.op /\ dir'[q].marker[u] = "none"
           /\ spent'["fault"] = 0 => spent["fault"] = 0 /\ dir'[p].marker[job.op] = "none"
    BY <1>7, CleanTable
  <2>2. job.op \in Ops /\ job.pc # "idle" /\ \A q \in Path : There(q) = Present(q)
    BY <1>7, <2>1, CleanTable
  <2>3. \A q \in Path, u \in Ops : dir'[q].marker[u] # "none" =>
           /\ u = job.op /\ q \in {Root, Backup(job.op)}
           /\ dir[q].marker[u] # "none"
    BY <1>2, <2>1, <2>2
  <2>4. \E o \in Ops \cup {NoOp} : MarkersOnlyOf(o)'
    BY <2>2, <2>3 DEF MarkersOnlyOf
  <2>5. CASE job' = Idle
    <3>1. spent'["fault"] = 0 => Unfinished' = {}
      <4> SUFFICES ASSUME spent'["fault"] = 0, NEW q \in {Root, Backup(job.op)},
                          dir'[q].marker[job.op] # "none"
                   PROVE  FALSE
        BY <2>3 DEF Unfinished
      <4>1. q # p /\ spent["fault"] = 0 /\ q \in Path /\ dir[q].marker[job.op] # "none"
        BY <2>1, <2>2, <2>3
      <4>2. CASE job.pc = "clean_backup"
        BY <2>1, <4>1, <4>2 DEF SerialInv
      <4>3. CASE job.pc = "unmark"
        <5>1. ~Present(Backup(job.op)) /\ q = Backup(job.op)
          BY <2>1, <4>1, <4>3 DEF SerialInv
        <5> QED
          BY <2>2, <4>1, <5>1, NoMarkersAway
      <4> QED
        BY <1>1, <2>1, <2>5, <4>2, <4>3 DEF Goes
    <3> QED
      BY <1>1, <2>3, <2>4, <2>5, <3>1 DEF SerialInv, RecoveryCleansUp
  <2>6. CASE job.pc = "clean_root" /\ p = Root /\ Goes("clean_backup")
    <3>1. (job.pc # "idle" => MarkersOnlyOf(job.op))'
      BY <2>3, <2>6 DEF MarkersOnlyOf, Goes
    <3>2. RecoveryCleansUp'
      BY <2>6 DEF RecoveryCleansUp, At, Goes
    <3> QED
      BY <2>1, <2>3, <2>4, <2>6, <3>1, <3>2 DEF SerialInv, Goes
  <2> QED
    BY <2>1, <2>5, <2>6
<1>8. CASE WorkStep
  <2>1. /\ job.op \in Ops /\ job.pc # "idle"
        /\ \A q \in Path \ {Work(job.op)} : dir'[q] = dir[q]
        /\ \A q \in Path, u \in Ops : dir'[q].marker[u] # "none" => dir[q].marker[u] # "none"
        /\ \/ Fails
           \/ job.pc # "discard" /\ (Goes("mark_copying") \/ Goes("copy"))
           \/ job.pc = "discard" /\ (Goes("discard") \/ Goes("unmark"))
    BY <1>8, WorkTable, NoMarkersAway
  <2>2. \A q \in Path, u \in Ops : dir'[q].marker[u] # "none" =>
           u = job.op /\ q \in {Root, Backup(job.op)}
    BY <1>2, <2>1
  <2>3. CASE job.pc = "discard" /\ (Goes("discard") \/ Goes("unmark"))
    <3>1. dir'[Backup(job.op)] = dir[Backup(job.op)] /\ ~Present(Backup(job.op))
      BY <2>1, <2>3 DEF SerialInv
    <3>2. \E o \in Ops \cup {NoOp} : MarkersOnlyOf(o)'
      BY <2>1, <2>2 DEF MarkersOnlyOf
    <3>3. (job.pc # "idle" => MarkersOnlyOf(job.op))'
      BY <2>2, <2>3 DEF MarkersOnlyOf, Goes
    <3>4. RecoveryCleansUp'
      BY <2>3 DEF RecoveryCleansUp, At, Goes
    <3> QED
      BY <2>2, <2>3, <3>1, <3>2, <3>3, <3>4 DEF SerialInv, Goes
  <2> QED
    BY <1>3, <2>1, <2>2, <2>3, CallSerial DEF Goes
<1>9. CASE Quiet
  <2>1. dir' = dir
    BY <1>9, QuietTable
  <2>2. ASSUME NEW o \in Ops \cup {NoOp}, MarkersOnlyOf(o),
               \/ job' = Idle /\ result' \notin {"rerun", "continue_rename", "completed"}
               \/ /\ job'.pc \notin {"idle", "unmark", "clean_backup"} /\ job'.op = o
                  /\ job'.pc = "discard" => ~Present(Backup(o))
        PROVE  SerialInv'
    <3>1. \E u \in Ops \cup {NoOp} : MarkersOnlyOf(u)'
      BY <2>1, <2>2 DEF MarkersOnlyOf
    <3>2. (job.pc # "idle" => MarkersOnlyOf(job.op))'
      BY <1>1, <2>1, <2>2 DEF MarkersOnlyOf
    <3>3. RecoveryCleansUp'
      BY <1>1, <2>2 DEF RecoveryCleansUp, At
    <3> QED
      BY <1>1, <2>1, <2>2, <3>1, <3>2, <3>3 DEF SerialInv
  <2>3. ASSUME Fails \/ (job' = Idle /\ result' = "needs_attention") PROVE SerialInv'
    <3>1. PICK o \in Ops \cup {NoOp} : MarkersOnlyOf(o)
      BY DEF SerialInv
    <3> QED
      BY <1>3, <2>2, <2>3, <3>1
  <2>4. ASSUME ~At("idle"), NEW l \in Pcs \ {"idle"}, ReadRow(l), Goes(l) PROVE SerialInv'
    <3>1. MarkersOnlyOf(job.op) /\ job.op \in Ops
      BY <2>4 DEF SerialInv, At, TypeInv, TypeOK
    <3> QED
      BY <2>2, <2>4, <3>1 DEF ReadRow, Goes
  <2>5. ASSUME Begins PROVE SerialInv'
    <3>1. MarkersOnlyOf(job'.op)
      BY <2>5 DEF Begins, Unfinished, MarkersOnlyOf
    <3> QED
      BY <2>2, <2>5, <3>1 DEF Begins
  <2>6. ASSUME NEW o \in Ops, NEW p \in Path, Decides(o, p) PROVE SerialInv'
    <3>1. MarkersOnlyOf(o)
      BY <2>6 DEF Decides, Unfinished, MarkersOnlyOf
    <3> DEFINE plan == RecoverPlan(o, dir[p].marker[o])
    <3>2. /\ plan \in {"discard", "backup_root", "install_work", "clean_root", "needs_attention"}
          /\ plan = "discard" => ~Present(Backup(o))
      BY PlanFacts
    <3>3. \/ job' = Idle /\ result' = "needs_attention"
          \/ job'.pc = plan /\ job'.op = o /\ plan # "needs_attention"
      BY <2>6 DEF Decides
    <3> HIDE DEF plan
    <3> QED
      BY <2>2, <2>3, <3>1, <3>2, <3>3
  <2> QED
    BY <1>9, <2>3, <2>4, <2>5, <2>6, QuietTable
<1>10. CASE \/ UNCHANGED vars
            \/ CreateEmptyRoot
            \/ \E o \in Ops : CleanUnfinished(o)
            \/ \E f \in Files, v \in Values \cup {Gone} : Edit(f, v)
  <2>1. /\ job' = job /\ result' = result /\ spent'["fault"] = spent["fault"]
        /\ \A q \in Path, u \in Ops : dir'[q].marker[u] # "none" => dir[q].marker[u] # "none"
        /\ \A q \in Path : There(q) # Present(q) => q = Root
    BY <1>10, UserTable
  <2>2. job.pc # "idle" => job.op \in Ops
    BY DEF TypeInv, TypeOK
  <2>3. \E o \in Ops \cup {NoOp} : MarkersOnlyOf(o)'
    <3>1. PICK o \in Ops \cup {NoOp} : MarkersOnlyOf(o)
      BY DEF SerialInv
    <3> QED
      BY <2>1, <3>1 DEF MarkersOnlyOf
  <2>4. (job.pc # "idle" => MarkersOnlyOf(job.op))'
    BY <2>1 DEF SerialInv, MarkersOnlyOf
  <2>5. RecoveryCleansUp'
    BY <2>1 DEF SerialInv, RecoveryCleansUp, At, Unfinished
  <2>6. job.pc \in {"discard", "unmark"} => ~There(Backup(job.op))
    BY <2>1, <2>2 DEF SerialInv
  <2> QED
    BY <1>1, <2>1, <2>2, <2>3, <2>4, <2>5, <2>6 DEF SerialInv
<1> QED
  BY <1>4, <1>5, <1>6, <1>7, <1>8, <1>9, <1>10, NextSteps

(* SerialInv holds in every reachable state. *)
LEMMA SerialInvariant == ASSUME RecoverFirst PROVE Spec => []SerialInv
<1>1. Init => SerialInv
  <2> SUFFICES ASSUME Init PROVE SerialInv
    OBVIOUS
  <2>1. job.pc = "idle" /\ \A p \in Path, o \in Ops : dir[p].marker[o] = "none"
    BY IdleType DEF Init, Absent, NoMarkers
  <2>2. \E o \in Ops \cup {NoOp} : MarkersOnlyOf(o)
    BY <2>1 DEF MarkersOnlyOf
  <2>3. RecoveryCleansUp
    BY DEF Init, RecoveryCleansUp
  <2> QED
    BY <2>1, <2>2, <2>3 DEF SerialInv
<1>2. TypeInv /\ PlaceInv /\ SerialInv /\ [Next]_vars => SerialInv'
  BY NextSerial
<1> QED
  BY <1>1, <1>2, TypeInvariant, PlaceInvariant, PTL DEF Spec

(* With callers that recover before they convert, a recovery that reports    *)
(* that it undid or finished a conversion leaves no marker behind, unless    *)
(* removing one failed, an error the code ignores.                           *)
THEOREM CleansUp == RecoverFirst => (Spec => []RecoveryCleansUp)
<1> SUFFICES ASSUME RecoverFirst PROVE Spec => []RecoveryCleansUp
  OBVIOUS
<1>1. SerialInv => RecoveryCleansUp
  BY DEF SerialInv
<1> QED
  BY <1>1, SerialInvariant, PTL

-----------------------------------------------------------------------------
(* Recovery decides every state a crash or an error leaves behind *)

(* What the phase of a marker in the root, or in the own backup, says of the *)
(* directories of o: each case is one that RecoverConvert decides.           *)
PhaseOf(o) ==
    /\ dir[Root].marker[o] \in EarlyPhases => ~Present(Backup(o))
    /\ dir[Root].marker[o] = "renaming_root_to_backup" => Present(Work(o)) /\ ~Present(Backup(o))
    /\ dir[Root].marker[o] # "renaming_work_to_root"
    /\ dir[Backup(o)].marker[o] \in RenamePhases \cup {"none"}
    /\ dir[Backup(o)].marker[o] # "none" => (Present(Root) <=> ~Present(Work(o)))

\* Between the two renames.
BetweenPcs == {"mark_backup", "mark_rename_work", "rename_work", "mark_backed_up", "install_work"}

\* What the running call has done to the directories.
PhaseJob ==
    /\ job.pc = "mark_creating" => Present(Root)
    /\ job.pc \in CopyPcs \cup {"mark_commit", "rename_root", "backup_root"} =>
          ~Present(Backup(job.op))
    /\ job.pc \in {"rename_root", "backup_root"} =>
          dir[Root].marker[job.op] = "renaming_root_to_backup"
    /\ job.pc \in BetweenPcs =>
          Present(Backup(job.op)) /\ ~Present(Root) /\ Present(Work(job.op))
    /\ job.outcome # "needs_attention"

\* The last recovery gave up: on a marker of a failed verification.
GaveUp ==
    result = "needs_attention" =>
        At("idle") /\ \E o \in Ops : dir[Root].marker[o] = "needs_attention"

(* The inductive invariant behind AttentionOnlyForMismatch. *)
PhaseInv ==
    /\ \A o \in Ops : PhaseOf(o)
    /\ PhaseJob
    /\ \A o \in Ops \ used : ~Present(Backup(o))
    /\ GaveUp

(* A call that ends leaves nothing to be said of it. *)
LEMMA IdlePhase == job' = Idle => PhaseJob'
BY DEF Idle, PhaseJob, CopyPcs, BetweenPcs

(* A call that ends with another result, or goes on, has not given up. *)
LEMMA NotGivenUp ==
    ASSUME PhaseInv, ~At("idle"),
           result' = result \/ (job' = Idle /\ result' # "needs_attention")
    PROVE  GaveUp'
BY DEF PhaseInv, GaveUp

(* A phase says the same when neither the markers nor the presence of the    *)
(* directories of o change.                                                  *)
LEMMA SamePhase ==
    ASSUME NEW o \in Ops, PhaseOf(o),
           dir'[Root].marker[o] \in {dir[Root].marker[o], "none", "completed", "needs_attention"},
           dir'[Backup(o)].marker[o] \in {dir[Backup(o)].marker[o], "none"},
           There(Root) = Present(Root), There(Work(o)) = Present(Work(o)),
           There(Backup(o)) = Present(Backup(o))
    PROVE  PhaseOf(o)'
BY DEF PhaseOf, Present, There, EarlyPhases, RenamePhases

(* Writing a marker keeps PhaseInv. *)
LEMMA MarkerPhase == TypeInv /\ PlaceInv /\ PhaseInv /\ MarkerStep => PhaseInv'
<1> SUFFICES ASSUME TypeInv, PlaceInv, PhaseInv, MarkerStep PROVE PhaseInv'
  OBVIOUS
<1>1. PICK p \in Kept, ph \in Phases, l \in Pcs \ {"idle"} :
         /\ MarkerRow(p, ph, l)
         /\ Remarked(p, job.op, {ph})
         /\ Fails \/ (Goes(l) /\ dir'[p].marker[job.op] = ph /\ There(p))
  BY MarkerTable
<1>2. /\ job.op \in Ops /\ used' = used /\ JobPlaces /\ PhaseJob
      /\ (\A o \in Ops : PhaseOf(o)) /\ (\A o \in Ops \ used : ~Present(Backup(o)))
  BY MarkerTable DEF PlaceInv, PhaseInv
<1> USE Paths
<1>3. Present(p) /\ \A q \in Path : There(q) = Present(q)
  <2>1. Present(p)
    BY <1>1, <1>2 DEF MarkerRow, JobPlaces, RootPcs, CopyPcs, PhaseJob, BetweenPcs
  <2> QED
    BY <1>1, <2>1 DEF Remarked, Present, There
<1>4. \A q \in Path, u \in Ops : dir'[q].marker[u] # dir[q].marker[u] =>
         q = p /\ u = job.op /\ dir'[q].marker[u] = ph
  BY <1>1 DEF Remarked
<1>5. ASSUME NEW o \in Ops PROVE PhaseOf(o)'
  <2>1. CASE dir'[Root].marker[o] = dir[Root].marker[o]
             /\ dir'[Backup(o)].marker[o] = dir[Backup(o)].marker[o]
    BY <1>2, <1>3, <2>1, SamePhase
  <2>2. CASE o = job.op /\ p = Root /\ dir'[Root].marker[o] = ph
             /\ dir'[Backup(o)].marker[o] = dir[Backup(o)].marker[o]
    <3>1. \/ ph \in EarlyPhases /\ ~Present(Backup(o))
          \/ ph = "renaming_root_to_backup" /\ Present(Work(o)) /\ ~Present(Backup(o))
          \/ ph = "completed"
      BY <1>1, <1>2, <2>2 DEF MarkerRow, EarlyPhases, JobPlaces, WorkPcs, PhaseJob, CopyPcs
    <3> QED
      BY <1>2, <1>3, <2>2, <3>1 DEF PhaseOf, Present, There, EarlyPhases, RenamePhases
  <2>3. CASE o = job.op /\ p = Backup(o) /\ dir'[Backup(o)].marker[o] = ph
             /\ dir'[Root].marker[o] = dir[Root].marker[o]
    <3>1. /\ ph \in RenamePhases /\ ~Present(Root) /\ Present(Work(o))
      BY <1>1, <1>2, <2>3 DEF MarkerRow, RenamePhases, PhaseJob, BetweenPcs
    <3> QED
      BY <1>2, <1>3, <2>3, <3>1 DEF PhaseOf, Present, There
  <2>4. p = Root \/ p = Backup(job.op)
    BY <1>1 DEF MarkerRow
  <2> QED
    BY <1>2, <1>4, <2>1, <2>2, <2>3, <2>4
<1>6. PhaseJob'
  <2>1. CASE Fails
    BY <2>1, IdlePhase DEF Fails
  <2>2. CASE Goes(l) /\ dir'[p].marker[job.op] = ph
    <3>1. There(Root) = Present(Root) /\ There(Work(job.op)) = Present(Work(job.op))
          /\ There(Backup(job.op)) = Present(Backup(job.op))
      BY <1>2, <1>3
    <3> QED
      BY <1>1, <1>2, <2>2, <3>1 DEF MarkerRow, Goes, PhaseJob, CopyPcs, BetweenPcs, Present, There
  <2> QED
    BY <1>1, <2>1, <2>2
<1>7. GaveUp'
  <2>1. ~At("idle")
    BY <1>1 DEF MarkerRow, At
  <2> QED
    BY <1>1, <2>1, NotGivenUp DEF Fails, Errors, Goes
<1>8. \A o \in Ops \ used' : ~There(Backup(o))
  BY <1>2, <1>3
<1> QED
  BY <1>5, <1>6, <1>7, <1>8 DEF PhaseInv, Present, There

(* Recording a failed verification keeps PhaseInv. *)
LEMMA AttentionPhase == TypeInv /\ PlaceInv /\ PhaseInv /\ MarkAttention => PhaseInv'
<1> SUFFICES ASSUME TypeInv, PlaceInv, PhaseInv, MarkAttention PROVE PhaseInv'
  OBVIOUS
<1> USE Paths
<1>1. /\ job.pc = "mark_attention" /\ job.op \in Ops /\ used' = used /\ Fails
      /\ Remarked(Root, job.op, {"needs_attention"}) /\ Present(Root)
  BY AttentionTable DEF PlaceInv, JobPlaces, RootPcs, CopyPcs
<1>2. /\ \A q \in Path : There(q) = Present(q)
      /\ \A q \in Path, u \in Ops :
            \/ dir'[q].marker[u] = dir[q].marker[u]
            \/ q = Root /\ dir'[q].marker[u] = "needs_attention"
  BY <1>1 DEF Remarked, Present, There
<1>3. ASSUME NEW o \in Ops PROVE PhaseOf(o)'
  BY <1>2, SamePhase DEF PhaseInv
<1>4. GaveUp' /\ PhaseJob'
  BY <1>1, NotGivenUp, IdlePhase DEF Fails, Errors, At
<1>5. \A o \in Ops \ used' : ~There(Backup(o))
  BY <1>1, <1>2 DEF PhaseInv
<1> QED
  BY <1>3, <1>4, <1>5 DEF PhaseInv, Present, There

(* The renames keep PhaseInv. *)
LEMMA RenamePhase ==
    TypeInv /\ SealInv /\ PlaceInv /\ SerialInv /\ PhaseInv /\ RenameStep => PhaseInv'
<1> SUFFICES ASSUME TypeInv, SealInv, PlaceInv, SerialInv, PhaseInv, RenameStep PROVE PhaseInv'
  OBVIOUS
<1>1. PICK p \in Path, q \in Path, l \in Pcs \ {"idle"} :
         /\ RenameRow(p, q, l)
         /\ \/ dir' = dir /\ Fails
            \/ Renamed(p, q) /\ (Fails \/ Goes(l))
  BY RenameTable
<1> USE Paths
<1>2. /\ job.op \in Ops /\ used' = used /\ job.pc # "idle" /\ job.op \in used
      /\ MarkerPlaces /\ JobPlaces /\ PhaseJob
      /\ (\A o \in Ops : PhaseOf(o)) /\ (\A o \in Ops \ used : ~Present(Backup(o)))
      /\ \A s \in Path, u \in Ops : dir[s].marker[u] # "none" => u = job.op
  <2>1. job.op \in Ops /\ used' = used /\ job.pc # "idle"
    BY <1>1, RenameTable DEF RenameRow
  <2> QED
    BY <2>1 DEF PlaceInv, PhaseInv, SealInv, SerialInv, MarkersOnlyOf
<1>3. GaveUp'
  BY <1>1, <1>2, NotGivenUp DEF Fails, Errors, Goes, At
<1>4. CASE dir' = dir /\ Fails
  <2>1. \A o \in Ops : PhaseOf(o)'
    BY <1>2, <1>4 DEF PhaseOf, Present
  <2> QED
    BY <1>2, <1>3, <1>4, <2>1, IdlePhase DEF PhaseInv, Fails, Present
<1>5. CASE Renamed(Root, Backup(job.op)) /\ p = Root /\ q = Backup(job.op)
  <2>1. /\ dir'[Backup(job.op)] = dir[Root] /\ dir'[Root] = Absent
        /\ \A s \in Path : s # Root /\ s # Backup(job.op) => dir'[s] = dir[s]
        /\ \A o \in Ops : Absent.marker[o] = "none"
        /\ Present(Root) /\ ~There(Root) /\ There(Backup(job.op))
    BY <1>2, <1>5, NoMarkersAway, AbsentType DEF Renamed, Present, There
  <2>2. dir[Root].marker[job.op] = "renaming_root_to_backup" /\ Present(Work(job.op))
    BY <1>1, <1>2, <1>5 DEF RenameRow, PhaseJob, JobPlaces, WorkPcs
  <2>3. \A o \in Ops : dir'[Work(o)] = dir[Work(o)]
    BY <1>2, <2>1
  <2>4. \A o \in Ops : /\ dir'[Root].marker[o] = "none"
                       /\ o # job.op => dir'[Backup(o)].marker[o] = "none"
    BY <1>2, <2>1
  <2>5. ASSUME NEW o \in Ops PROVE PhaseOf(o)'
    BY <2>1, <2>2, <2>3, <2>4 DEF PhaseOf, Present, There, EarlyPhases, RenamePhases
  <2>6. PhaseJob'
    <3>1. CASE Fails
      BY <3>1, IdlePhase DEF Fails
    <3>2. CASE Goes(l)
      <4>1. l \in {"mark_backup", "mark_backed_up"}
        BY <1>1, <1>2, <1>5 DEF RenameRow
      <4> QED
        BY <1>2, <2>1, <2>2, <2>3, <3>2, <4>1 DEF Goes, PhaseJob, CopyPcs, BetweenPcs, Present, There
    <3> QED
      BY <1>1, <1>4, <3>1, <3>2
  <2>7. \A o \in Ops \ used' : ~There(Backup(o))
    BY <1>2, <2>1 DEF Present, There
  <2> QED
    BY <1>3, <2>5, <2>6, <2>7 DEF PhaseInv, Present, There
<1>6. CASE Renamed(Work(job.op), Root) /\ p = Work(job.op) /\ q = Root
  <2>1. /\ dir'[Root] = dir[Work(job.op)] /\ dir'[Work(job.op)] = Absent
        /\ \A s \in Path : s # Root /\ s # Work(job.op) => dir'[s] = dir[s]
        /\ There(Root) /\ ~There(Work(job.op))
    BY <1>2, <1>6, AbsentType DEF Renamed, Present, There
  <2>2. \A o \in Ops : /\ dir'[Root].marker[o] = "none" /\ dir'[Backup(o)] = dir[Backup(o)]
                       /\ o # job.op => dir'[Backup(o)].marker[o] = "none"
    BY <1>2, <2>1 DEF MarkerPlaces
  <2>3. ASSUME NEW o \in Ops PROVE PhaseOf(o)'
    BY <1>2, <2>1, <2>2 DEF PhaseOf, Present, There, EarlyPhases
  <2>4. PhaseJob'
    <3>1. CASE Fails
      BY <3>1, IdlePhase DEF Fails
    <3>2. CASE Goes(l)
      <4>1. l \in {"mark_completed", "clean_root"}
        BY <1>1, <1>2, <1>6 DEF RenameRow
      <4> QED
        BY <1>2, <3>2, <4>1 DEF Goes, PhaseJob, CopyPcs, BetweenPcs
    <3> QED
      BY <1>1, <3>1, <3>2
  <2>5. \A o \in Ops \ used' : ~There(Backup(o))
    BY <1>2, <2>2 DEF Present, There
  <2> QED
    BY <1>3, <2>3, <2>4, <2>5 DEF PhaseInv, Present, There
<1> QED
  BY <1>1, <1>4, <1>5, <1>6 DEF RenameRow

(* Removing a marker keeps PhaseInv. *)
LEMMA CleanPhase == TypeInv /\ PhaseInv /\ CleanStep => PhaseInv'
<1> SUFFICES ASSUME TypeInv, PhaseInv, CleanStep PROVE PhaseInv'
  OBVIOUS
<1> USE Paths
<1>1. /\ used' = used /\ \A q \in Path : There(q) = Present(q)
      /\ \A q \in Path, u \in Ops : dir'[q].marker[u] \in {dir[q].marker[u], "none"}
      /\ job.pc # "idle"
      /\ job' = Idle \/ Goes("clean_backup")
      /\ result' \in {result, job.outcome, "io_attention"}
      /\ job' = Idle => result' \in {job.outcome, "io_attention"}
  BY CleanTable DEF Goes, Idle
<1>2. \A o \in Ops : PhaseOf(o)'
  BY <1>1, SamePhase DEF PhaseInv
<1>3. PhaseJob'
  BY <1>1, IdlePhase DEF PhaseInv, PhaseJob, Goes, CopyPcs, BetweenPcs
<1>4. GaveUp'
  BY <1>1, NotGivenUp DEF PhaseInv, PhaseJob, Goes, At
<1>5. \A o \in Ops \ used' : ~There(Backup(o))
  BY <1>1 DEF PhaseInv
<1> QED
  BY <1>2, <1>3, <1>4, <1>5 DEF PhaseInv, Present, There

(* Filling and emptying a work keeps PhaseInv: no marker of its operation    *)
(* speaks of the work.                                                       *)
LEMMA WorkPhase == TypeInv /\ SealInv /\ PhaseInv /\ WorkStep => PhaseInv'
<1> SUFFICES ASSUME TypeInv, SealInv, PhaseInv, WorkStep PROVE PhaseInv'
  OBVIOUS
<1> USE Paths
<1>1. /\ job.op \in Ops /\ used' = used /\ EarlyJob /\ DiscardJob /\ PhaseJob
      /\ \A q \in Path \ {Work(job.op)} : dir'[q] = dir[q]
      /\ \/ Fails
         \/ job.pc = "make_work" /\ Goes("mark_copying")
         \/ job.pc \in {"open", "copy"} /\ Goes("copy")
         \/ job.pc = "discard" /\ (Goes("discard") \/ Goes("unmark"))
      /\ job.pc \in {"make_work", "open", "copy", "discard"}
  BY WorkTable DEF SealInv, PhaseInv
<1>2. /\ dir'[Root] = dir[Root] /\ \A o \in Ops : dir'[Backup(o)] = dir[Backup(o)]
      /\ \A o \in Ops \ {job.op} : dir'[Work(o)] = dir[Work(o)]
  BY <1>1
<1>3. ASSUME NEW o \in Ops PROVE PhaseOf(o)'
  <2>1. PhaseOf(o)
    BY DEF PhaseInv
  <2>2. CASE o # job.op
    BY <1>2, <2>1, <2>2 DEF PhaseOf, Present
  <2>3. CASE o = job.op
    <3>1. dir[Root].marker[o] \notin RenamePhases /\ dir[Backup(o)].marker[o] \notin RenamePhases
      BY <1>1, <2>3 DEF EarlyJob, DiscardJob, CopyPcs, RenamePhases
    <3> QED
      BY <1>2, <2>1, <3>1 DEF PhaseOf, Present, RenamePhases
  <2> QED
    BY <2>2, <2>3
<1>4. PhaseJob'
  <2>1. CASE Fails
    BY <2>1, IdlePhase DEF Fails
  <2>2. CASE ~Fails
    BY <1>1, <1>2, <2>2 DEF Goes, PhaseJob, CopyPcs, BetweenPcs, Present
  <2> QED
    BY <2>1, <2>2
<1>5. GaveUp'
  BY <1>1, NotGivenUp DEF Fails, Errors, Goes, At
<1>6. \A o \in Ops \ used' : ~There(Backup(o))
  BY <1>1, <1>2 DEF PhaseInv, Present, There
<1> QED
  BY <1>3, <1>4, <1>5, <1>6 DEF PhaseInv, Present, There

(* A recovery decides every marker of its operation but that of a failed     *)
(* verification, which it meets only in the root.                            *)
LEMMA DecidesPhase ==
    ASSUME TypeInv, SerialInv, PhaseInv, NEW o \in Ops, NEW p \in Path, Decides(o, p), dir' = dir
    PROVE  /\ PhaseJob' /\ GaveUp'
<1> USE Paths
<1> DEFINE ph == dir[p].marker[o]
           plan == RecoverPlan(o, ph)
<1>1. /\ p \in {Root, Backup(o)} /\ ph # "none" /\ Present(p) /\ PhaseOf(o) /\ ph \in Phases
      /\ dir[Root].marker[o] # "none" => p = Root
  <2>1. p \in {Root, Backup(o)} /\ ph # "none"
    BY DEF Decides, SerialInv
  <2>2. Present(p) /\ PhaseOf(o)
    BY <2>1, NoMarkersAway DEF PhaseInv
  <2>3. ph \in Phases
    BY <2>1 DEF TypeInv, TypeOK, Disk, Dirs
  <2>4. dir[Root].marker[o] # "none" => p = Root
    BY DEF Decides, FirstMarkers
  <2> QED
    BY <2>1, <2>2, <2>3, <2>4
<1>2. /\ plan \in {"discard", "backup_root", "install_work", "clean_root", "needs_attention"}
      /\ plan = "discard" => ph \in EarlyPhases
      /\ plan = "backup_root" => /\ ph = "renaming_root_to_backup" /\ ~Present(Backup(o))
      /\ plan = "install_work" => /\ ph \in RenamePhases /\ ~Present(Root)
                                  /\ Present(Work(o)) /\ Present(Backup(o))
      /\ plan = "clean_root" => ph = "completed" \/ ph \in RenamePhases
      /\ plan = "needs_attention" =>
            /\ ph # "completed"
            /\ ph \in EarlyPhases => ~(Present(Root) /\ ~Present(Backup(o)))
            /\ ph = "renaming_root_to_backup" =>
                  ~(Present(Root) /\ Present(Work(o)) /\ ~Present(Backup(o)))
            /\ ph \in RenamePhases =>
                  ~(Present(Backup(o)) /\ (Present(Root) <=> ~Present(Work(o))))
  BY PlanFacts
<1>3. \/ plan = "needs_attention" /\ job' = Idle /\ result' = "needs_attention"
      \/ /\ plan # "needs_attention" /\ job'.pc = plan /\ job'.op = o
         /\ job'.outcome \in {"rerun", "completed", "continue_rename"} /\ result' = result
  BY DEF Decides
<1>4. \A u \in Ops : dir[Root].marker[u] # "none" => u = o
  BY DEF Decides, Unfinished
<1> HIDE DEF plan
<1>5. CASE plan = "needs_attention" /\ job' = Idle /\ result' = "needs_attention"
  <2>1. CASE p = Backup(o)
    <3>1. ph \in RenamePhases /\ (Present(Root) <=> ~Present(Work(o)))
      BY <1>1, <2>1 DEF PhaseOf
    <3> QED
      BY <1>1, <1>2, <1>5, <2>1, <3>1
  <2>2. CASE p = Root
    <3>1. /\ ph \in EarlyPhases => ~Present(Backup(o))
          /\ ph = "renaming_root_to_backup" => Present(Work(o)) /\ ~Present(Backup(o))
          /\ ph # "renaming_work_to_root"
      BY <1>1, <2>2 DEF PhaseOf
    <3>2. ph = "needs_attention"
      BY <1>1, <1>2, <1>5, <2>2, <3>1 DEF Phases, EarlyPhases, RenamePhases
    <3>3. GaveUp'
      BY <1>5, <2>2, <3>2, IdleType DEF GaveUp, At
    <3> QED
      BY <1>5, <3>3, IdlePhase
  <2> QED
    BY <1>1, <2>1, <2>2
<1>6. CASE /\ plan # "needs_attention" /\ job'.pc = plan /\ job'.op = o
           /\ job'.outcome \in {"rerun", "completed", "continue_rename"} /\ result' = result
  <2>1. plan = "backup_root" => p = Root
    BY <1>1, <1>2
  <2>2. PhaseJob'
    BY <1>2, <1>6, <2>1 DEF PhaseJob, CopyPcs, BetweenPcs, Present
  <2>3. result # "needs_attention"
    <3> SUFFICES ASSUME NEW u \in Ops, dir[Root].marker[u] = "needs_attention" PROVE FALSE
      BY DEF PhaseInv, GaveUp
    <3>1. u = o /\ p = Root /\ ph = "needs_attention"
      BY <1>1, <1>4
    <3> QED
      BY <1>2, <1>6, <3>1 DEF EarlyPhases, RenamePhases
  <2> QED
    BY <1>6, <2>2, <2>3 DEF GaveUp
<1> QED
  BY <1>3, <1>5, <1>6

(* The steps that leave the disk alone keep PhaseInv. *)
LEMMA QuietPhase ==
    ASSUME RecoverFirst, TypeInv, PlaceInv, SerialInv, PhaseInv, Quiet
    PROVE  PhaseInv'
<1> USE Paths
<1>1. dir' = dir /\ used \subseteq used'
  BY QuietTable DEF Begins
<1>2. /\ \A o \in Ops : PhaseOf(o)'
      /\ \A o \in Ops \ used' : ~Present(Backup(o))'
  <2>1. \A o \in Ops : PhaseOf(o)'
    BY <1>1 DEF PhaseInv, PhaseOf, Present
  <2> QED
    BY <1>1, <2>1 DEF PhaseInv, Present
<1>3. ASSUME Fails PROVE PhaseJob' /\ GaveUp'
  BY <1>3, IdlePhase DEF Fails, Errors, GaveUp
<1>4. ASSUME ~At("idle"), NEW l \in Pcs, ReadRow(l), Goes(l) PROVE PhaseJob' /\ GaveUp'
  <2>1. PhaseJob'
    BY <1>1, <1>4 DEF ReadRow, Goes, PhaseInv, PhaseJob, CopyPcs, BetweenPcs, Present
  <2> QED
    BY <1>4, <2>1, NotGivenUp DEF Goes
<1>5. ASSUME Begins PROVE PhaseJob' /\ GaveUp'
  <2>1. /\ \A p \in Path, o \in Ops : dir[p].marker[o] = "none"
        /\ job'.op \in Ops \ used /\ job'.pc = "mark_creating" /\ job'.outcome = "ok"
        /\ result' = result
    BY <1>5 DEF Begins, Unfinished
  <2>2. Present(Root)
    BY <2>1 DEF PlaceInv, RootHeld, RenamePhases
  <2>3. PhaseJob'
    BY <1>1, <2>1, <2>2 DEF PhaseInv, PhaseJob, CopyPcs, BetweenPcs, Present
  <2>4. result # "needs_attention"
    BY <2>1 DEF PhaseInv, GaveUp
  <2> QED
    BY <2>1, <2>3, <2>4 DEF GaveUp
<1>6. ~(Cardinality(Unfinished) > 1)
  <2>1. PICK o \in Ops \cup {NoOp} : MarkersOnlyOf(o)
    BY DEF SerialInv
  <2>2. Unfinished = {} \/ Unfinished = {o}
    BY <2>1 DEF Unfinished, MarkersOnlyOf
  <2>3. Cardinality({}) = 0 /\ Cardinality({o}) = 1
    BY FS_EmptySet, FS_Singleton
  <2> QED
    BY <2>2, <2>3
<1> QED
  BY <1>1, <1>2, <1>3, <1>4, <1>5, <1>6, QuietTable, DecidesPhase DEF PhaseInv

(* Without "create" and "clean", users change nothing PhaseInv speaks of. *)
LEMMA UserPhase ==
    ASSUME TypeInv, PhaseInv, Limit["create"] = 0, Limit["clean"] = 0,
           \/ UNCHANGED vars
           \/ CreateEmptyRoot
           \/ \E o \in Ops : CleanUnfinished(o)
           \/ \E f \in Files, v \in Values \cup {Gone} : Edit(f, v)
    PROVE  PhaseInv'
<1> USE Paths DEF Present, There
<1>1. /\ job' = job /\ result' = result /\ used' = used /\ (job.pc # "idle" => job.op \in Ops)
      /\ \A q \in Path : There(q) = Present(q)
      /\ \A q \in Path, u \in Ops : dir'[q].marker[u] = dir[q].marker[u]
  BY UserTable DEF TypeInv, TypeOK
<1>2. \A o \in Ops : PhaseOf(o)'
  BY <1>1, SamePhase DEF PhaseInv
<1>3. PhaseJob'
  <2>1. CASE job.pc = "idle"
    BY <1>1, <2>1 DEF PhaseInv, PhaseJob, CopyPcs, BetweenPcs
  <2>2. CASE job.pc # "idle"
    BY <1>1, <2>2 DEF PhaseInv, PhaseJob
  <2> QED
    BY <2>1, <2>2
<1>4. GaveUp'
  BY <1>1 DEF PhaseInv, GaveUp, At
<1>5. \A o \in Ops \ used' : ~There(Backup(o))
  BY <1>1 DEF PhaseInv
<1> QED
  BY <1>2, <1>3, <1>4, <1>5 DEF PhaseInv

(* With callers that recover first, and neither "create" nor "clean" taking  *)
(* part, a recovery gives up only on a failed verification: whatever state a *)
(* crash or an I/O error leaves behind, at any step of a conversion or of a  *)
(* recovery, RecoverConvert decides it.                                      *)
THEOREM RecoveryDecides ==
    RecoverFirst /\ Limit["create"] = 0 /\ Limit["clean"] = 0 =>
        (Spec => []AttentionOnlyForMismatch)
<1> SUFFICES ASSUME RecoverFirst, Limit["create"] = 0, Limit["clean"] = 0
             PROVE  Spec => []AttentionOnlyForMismatch
  OBVIOUS
<1>1. Init => PhaseInv
  <2> SUFFICES ASSUME Init PROVE PhaseInv
    OBVIOUS
  <2>1. job = Idle /\ result = "none" /\ \A p \in Path, o \in Ops : dir[p].marker[o] = "none"
    BY DEF Init, Absent, NoMarkers
  <2>2. \A o \in Ops : ~Present(Backup(o))
    BY Paths DEF Init, Present, Absent
  <2>3. PhaseJob
    BY <2>1 DEF Idle, PhaseJob, CopyPcs, BetweenPcs
  <2>4. \A o \in Ops : PhaseOf(o)
    BY <2>1, Paths DEF PhaseOf, EarlyPhases
  <2> QED
    BY <2>1, <2>2, <2>3, <2>4 DEF PhaseInv, GaveUp
<1>2. TypeInv /\ SealInv /\ PlaceInv /\ SerialInv /\ PhaseInv /\ [Next]_vars => PhaseInv'
  BY NextSteps, MarkerPhase, RenamePhase, CleanPhase, WorkPhase, QuietPhase, UserPhase,
     AttentionPhase
<1>3. PhaseInv => AttentionOnlyForMismatch
  BY Paths DEF PhaseInv, GaveUp, AttentionOnlyForMismatch
<1> QED
  BY <1>1, <1>2, <1>3, TypeInvariant, MarkersVouch, PlaceInvariant, SerialInvariant, PTL DEF Spec
=============================================================================
