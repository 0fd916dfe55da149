---------------------------- MODULE FileReplace ----------------------------
(***************************************************************************)
(* Import of a plain file into a vault and export of a vault file          *)
(* (native/sec_fs/sec_transfer/v3/manager.go), for one destination.        *)
(*                                                                         *)
(* The content goes to <dest>.tmp.safe_disk; an existing destination is    *)
(* renamed to <dest>.raw.safe_disk, the temporary file to the destination, *)
(* and the backup is deleted.  A marker written first and removed last     *)
(* tells the next session that the operation did not finish; it may then   *)
(* be run again from the start, or the marker cleaned.                     *)
(*                                                                         *)
(* Import and export differ in what stands in their way: inside a vault a  *)
(* rename onto an existing entry is refused (secRootImpl.Rename), on the   *)
(* plain side os.Rename replaces it; a temporary file that is already      *)
(* there is truncated inside a vault, and refused on the plain side.       *)
(*                                                                         *)
(* Abstractions: contents are values; the operation lock of the root lets  *)
(* one call run at a time; other writers of the destination (an editor on  *)
(* the open vault, any program on the plain side) take no lock; a fault is *)
(* an I/O error or a cancellation, before or after the effect of the call. *)
(***************************************************************************)
EXTENDS Naturals, FiniteSets

CONSTANTS
    Ops,        \* operation ids
    Payloads,   \* file contents
    Gone,       \* no file
    Torn,       \* a file that is not completely written
    NoMarker,   \* no marker
    Directions, \* the directions to explore
    Policies,   \* who reruns: "cli" (unfinished.go) or "app" (directory_service.dart)
    Limit       \* bounds on what the environment may do

Events == {"write", "fault", "crash", "clean", "start"}

ASSUME ReplaceAssumption ==
    /\ Gone \notin Payloads /\ Torn \notin Payloads /\ Gone # Torn
    /\ NoMarker \notin [overwrite: BOOLEAN, existed: BOOLEAN, src: Payloads]
    /\ Directions \subseteq {"import", "export"}
    /\ Policies \subseteq {"cli", "app"}
    /\ Limit \in [Events -> Nat]

VARIABLES
    direction,  \* import or export
    dest,     \* the destination
    temp,     \* its temporary file
    backup,   \* its backup
    marker,   \* the markers in the root, by operation
    call,     \* the running call
    result,   \* what the last call returned
    kept,     \* history: the content last put at the destination
    spent     \* how often each environment event happened

files == <<dest, temp, backup>>
replaceVars == <<direction, dest, temp, backup, marker, call, result, kept, spent>>

-----------------------------------------------------------------------------
Contents == Payloads \cup {Gone}
\* What a marker records of a request.
Markers == [overwrite: BOOLEAN, existed: BOOLEAN, src: Payloads]
Pcs == {"begin", "mark", "open", "copy", "move_old", "install", "drop_backup", "unmark"}
Results == {"none", "ok", "error", "exists", "refused", "crashed"}

Idle == [pc |-> "idle"]
Calls == {Idle} \cup [pc: Pcs, op: Ops, request: Markers]

At(l) == call.pc = l
Goto(l) == call' = [call EXCEPT !.pc = l] /\ UNCHANGED result
Return(r) == call' = Idle /\ result' = r
Spend(e) == spent[e] < Limit[e] /\ spent' = [spent EXCEPT ![e] = @ + 1]

\* Mutants: both renames refuse; neither does.
RefusedAlways(c) == c # Gone
RefusedNever(c) == FALSE

\* Whether a rename onto a path that holds c is refused.
Refused(c) == direction = "import" /\ c # Gone

\* A call begins once it has the lock, with an id of its own.
Begin(request) ==
    \E o \in Ops : /\ marker[o] = NoMarker
                   /\ call' = [pc |-> "begin", op |-> o, request |-> request]

-----------------------------------------------------------------------------
(* importFile, exportFile *)

(* A request.  Only imports of the app may refuse to overwrite; what an     *)
(* export marker does not record reads as false, or as not recorded.        *)
Start(v, overwrite) ==
    /\ At("idle")
    /\ direction = "export" => overwrite
    /\ Spend("start")
    /\ Begin([overwrite |-> direction = "import" /\ overwrite, existed |-> TRUE, src |-> v])
    /\ UNCHANGED <<direction, files, marker, result, kept>>

\* destinationInitiallyExisted is read before the marker is written.
LookAtDest ==
    /\ At("begin")
    /\ call' = [call EXCEPT !.pc = "mark",
                            !.request.existed = (direction = "import" => dest # Gone)]
    /\ UNCHANGED <<direction, files, marker, result, kept, spent>>

WriteMarker ==
    /\ At("mark")
    /\ LET written == [marker EXCEPT ![call.op] = call.request]
       IN  \/ marker' = written /\ Goto("open") /\ UNCHANGED spent
           \/ marker' \in {marker, written} /\ Return("error") /\ Spend("fault")
    /\ UNCHANGED <<direction, files, kept>>

\* Every export replaces (the callers all say so).
Overwrites == direction = "export" \/ call.request.overwrite

\* Exports create the temporary file exclusively, imports truncate what is there.
TempRefused == direction = "export" /\ temp # Gone

\* The source is opened, the destination looked at, the temporary file created.
OpenTemp ==
    /\ At("open")
    /\ \/ /\ Overwrites \/ dest = Gone
          /\ ~TempRefused
          /\ temp' = Torn
          /\ Goto("copy")
          /\ UNCHANGED spent
       \/ /\ ~Overwrites /\ dest # Gone
          /\ Return("exists")
          /\ UNCHANGED <<temp, spent>>
       \/ /\ TempRefused
          /\ Return("refused")
          /\ UNCHANGED <<temp, spent>>
       \/ /\ temp' = temp \/ (~TempRefused /\ temp' \in {Torn, Gone})
          /\ Return("error")
          /\ Spend("fault")
    /\ UNCHANGED <<direction, dest, backup, marker, kept>>

\* Copy, sync, close and a last look at the context; on an error the temporary file goes.
Copy ==
    /\ At("copy")
    /\ \/ temp' = call.request.src /\ Goto("move_old") /\ UNCHANGED spent
       \/ temp' \in {Gone, Torn} /\ Return("error") /\ Spend("fault")
    /\ UNCHANGED <<direction, dest, backup, marker, kept>>

\* Mutant: the destination is removed instead.
MoveOldAway ==
    /\ At("move_old")
    /\ dest' = Gone
    /\ Goto("install")
    /\ UNCHANGED <<direction, temp, backup, marker, kept, spent>>

(* dest -> backup.  An error, of the rename or of the sync after it, ends   *)
(* the call without moving anything back; the temporary file is deleted,    *)
(* or stays if that fails as well.                                          *)
MoveOld ==
    /\ At("move_old")
    /\ \/ /\ dest = Gone
          /\ Goto("install")
          /\ UNCHANGED <<files, spent>>
       \/ /\ dest # Gone /\ ~Refused(backup)
          /\ backup' = dest /\ dest' = Gone
          /\ Goto("install")
          /\ UNCHANGED <<temp, spent>>
       \/ /\ dest # Gone /\ Refused(backup)
          /\ temp' = Gone
          /\ Return("refused")
          /\ UNCHANGED <<dest, backup, spent>>
       \/ /\ dest # Gone
          /\ temp' \in {temp, Gone}
          /\ \/ UNCHANGED <<dest, backup>>
             \/ ~Refused(backup) /\ backup' = dest /\ dest' = Gone
          /\ Return("error")
          /\ Spend("fault")
    /\ UNCHANGED <<direction, marker, kept>>

(* The error path of temp -> dest, which left d at the destination: the     *)
(* backup is renamed back, unless there is none, or the rename is refused   *)
(* or fails as well.                                                        *)
PutBack(d) ==
    \/ /\ backup # Gone /\ ~Refused(d)
       /\ dest' = backup /\ backup' = Gone /\ kept' = backup
    \/ /\ dest' = d /\ UNCHANGED backup
       /\ kept' = IF d = dest THEN kept ELSE d

\* temp -> dest
Install ==
    /\ At("install")
    /\ \/ /\ ~Refused(dest)
          /\ dest' = temp /\ temp' = Gone /\ kept' = temp
          /\ Goto("drop_backup")
          /\ UNCHANGED <<backup, spent>>
       \/ /\ Refused(dest)
          /\ PutBack(dest)
          /\ temp' = Gone
          /\ Return("refused")
          /\ UNCHANGED spent
       \/ /\ \/ PutBack(dest) /\ temp' \in {temp, Gone}
             \/ ~Refused(dest) /\ PutBack(temp) /\ temp' = Gone
          /\ Return("error")
          /\ Spend("fault")
    /\ UNCHANGED <<direction, marker>>

\* Mutant: the backup stays, the call goes on.
DropBackupNot ==
    /\ At("drop_backup")
    /\ Goto("unmark")
    /\ UNCHANGED <<direction, files, marker, kept, spent>>

DropBackup ==
    /\ At("drop_backup")
    /\ \/ backup' = Gone /\ Goto("unmark") /\ UNCHANGED spent
       \/ backup' \in {backup, Gone} /\ Return("error") /\ Spend("fault")
    /\ UNCHANGED <<direction, dest, temp, marker, kept>>

RemoveMarker ==
    /\ At("unmark")
    /\ LET removed == [marker EXCEPT ![call.op] = NoMarker]
       IN  \/ marker' = removed /\ Return("ok") /\ UNCHANGED spent
           \/ marker' \in {marker, removed} /\ Return("error") /\ Spend("fault")
    /\ UNCHANGED <<direction, files, kept>>

-----------------------------------------------------------------------------
(* Unfinished operations *)

\* Clean, from a later session: the marker goes, and nothing else.
CleanUnfinished(o) ==
    /\ At("idle")
    /\ marker[o] # NoMarker
    /\ Spend("clean")
    /\ marker' = [marker EXCEPT ![o] = NoMarker]
    /\ UNCHANGED <<direction, files, call, result, kept>>

\* The decision a rerun passes on: the command line always overwrites.
RerunOverwrites(m, policy) == policy = "cli" \/ m.overwrite \/ ~m.existed

(* Rerun: the old marker is cleaned, then the operation starts from the     *)
(* beginning, in a call of its own.                                         *)
Rerun(o, policy) ==
    /\ At("idle")
    /\ marker[o] # NoMarker
    /\ marker' = [marker EXCEPT ![o] = NoMarker]
    /\ LET overwrite == direction = "import" /\ RerunOverwrites(marker[o], policy)
       IN  call' = [pc |-> "begin", op |-> o, request |-> [marker[o] EXCEPT !.overwrite = overwrite]]
    /\ UNCHANGED <<direction, files, result, kept, spent>>

-----------------------------------------------------------------------------
(* The environment *)

\* The process dies between two steps.
Crash ==
    /\ ~At("idle")
    /\ Spend("crash")
    /\ Return("crashed")
    /\ UNCHANGED <<direction, files, marker, kept>>

\* Someone else writes or deletes the destination.
WriteByOthers(v) ==
    /\ dest # v
    /\ Spend("write")
    /\ dest' = v
    /\ kept' = v
    /\ UNCHANGED <<direction, temp, backup, marker, call, result>>

-----------------------------------------------------------------------------
ReplaceInit ==
    /\ direction \in Directions
    /\ dest \in Contents
    /\ temp = Gone
    /\ backup = Gone
    /\ marker = [o \in Ops |-> NoMarker]
    /\ call = Idle
    /\ result = "none"
    /\ kept = dest
    /\ spent = [e \in Events |-> 0]

CallStep == LookAtDest \/ WriteMarker \/ OpenTemp \/ Copy \/ MoveOld \/ Install \/ DropBackup
            \/ RemoveMarker
RerunStep == \E o \in Ops, p \in Policies : Rerun(o, p)

ReplaceNext ==
    \/ CallStep
    \/ RerunStep
    \/ \E v \in Payloads, overwrite \in BOOLEAN : Start(v, overwrite)
    \/ \E o \in Ops : CleanUnfinished(o)
    \/ \E v \in Contents : WriteByOthers(v)
    \/ Crash

ReplaceSpec == ReplaceInit /\ [][ReplaceNext]_replaceVars

(* A call that runs goes on unless it crashes, and a user who is told of an *)
(* unfinished operation runs it again some day.                             *)
FairSpec == ReplaceSpec /\ WF_replaceVars(CallStep) /\ WF_replaceVars(RerunStep)

-----------------------------------------------------------------------------
(* Properties *)

\* Every variable keeps its type.
TypeOK ==
    /\ direction \in Directions
    /\ dest \in Contents /\ temp \in Contents \cup {Torn} /\ backup \in Contents
    /\ marker \in [Ops -> Markers \cup {NoMarker}]
    /\ call \in Calls
    /\ result \in Results
    /\ kept \in Contents
    /\ spent \in [Events -> Nat]

(* What is renamed onto the destination is the whole source, never what an  *)
(* interrupted copy of this or of an earlier call left behind.              *)
TempIsWhole == At("move_old") \/ At("install") => temp = call.request.src

\* From the marker on, the operation is recorded until the call removes the marker.
CallIsMarked == call.pc \in Pcs \ {"begin", "mark"} => marker[call.op] # NoMarker

(* What a call may rely on after the commit: the temporary file is gone,    *)
(* the destination holds what was last put there, and nobody else filled    *)
(* the gap between the two renames unless someone wrote at all.             *)
CommitIsClean ==
    /\ At("install") /\ spent["write"] = 0 => dest = Gone
    /\ At("drop_backup") => temp = Gone /\ dest = kept
    /\ At("unmark") => temp = Gone /\ backup = Gone

(* The invariant of the running call, behind the properties below: crashes, *)
(* errors and other writers included, it never takes a torn file for a      *)
(* whole one, never runs unrecorded, never drops a backup that is needed.   *)
CallInv == CallIsMarked /\ TempIsWhole /\ CommitIsClean

(* At every moment, also after a crash or an error, the content last put at *)
(* the destination, by a transfer or by anyone else, is there or in the     *)
(* backup, and nothing older is at the destination.                         *)
OldOrNew ==
    /\ dest # Gone => dest = kept
    /\ dest = Gone /\ kept # Gone => backup = kept

(* No content of the destination is destroyed by a transfer in passing: one *)
(* that leaves the destination is in the backup after the step.  Exports    *)
(* promise this only while no other program writes to the plain side: one   *)
(* that creates the destination between the two renames is overwritten.     *)
NothingClobbered ==
    [][dest # Gone /\ dest' # dest /\ spent'["write"] = spent["write"]
       /\ (direction = "import" \/ spent["write"] = 0)
       => backup' = dest]_replaceVars

(* Whenever a call ends after it wrote its marker, however it ends, the     *)
(* marker is still there if a temporary file or a backup is: only a         *)
(* complete replacement goes unrecorded.                                    *)
ResidueIsMarked ==
    [][At("idle")' /\ call.pc \in Pcs \ {"begin", "mark"} /\ (temp' # Gone \/ backup' # Gone)
       => marker'[call.op] # NoMarker]_replaceVars

Unfinished == \E o \in Ops : marker[o] # NoMarker
\* A rerun takes the marker away at first: an operation is done when its call is over.
ReplaceDone == At("idle") /\ ~Unfinished

(* Running an unfinished operation again finishes it, whatever crashes and  *)
(* errors left behind, unless one of two things is in the way: an exported  *)
(* temporary file, or a backup next to a file in the vault.  (A user who    *)
(* said not to overwrite is told that the destination exists.)              *)
InTheWay == IF direction = "export" THEN temp # Gone ELSE dest # Gone /\ backup # Gone
RerunsComplete == Unfinished ~> ReplaceDone \/ (At("idle") /\ (InTheWay \/ result = "exists"))

=============================================================================
