# Safe Disk: a TLA+ verification development

Safe Disk keeps encrypted directories ("roots", or vaults).  A Go core
(`src/native`) does the encryption, the transfer of files in and out, the
in-place conversion of whole directories and a local WebDAV server; it is used
by a command line (`src/native/cli`) and, over an FFI, by a Flutter application
(`src/lib`).  This directory models the parts of it in which a crash, an error
or another actor at the wrong moment could cost the user data, checks the
models with TLC and proves the most important properties with TLAPS.

Every definition that models code names its lines in `PROJECT.json` ("map").

## 1. Inventory

| Component | State | Operations | Who else touches it | What makes it correct |
|---|---|---|---|---|
| In-place conversion (`sec_transfer/v3/convert.go`, `verify.go`) | root, work and backup directories, a marker with a phase in each | ConvertRoot (encrypt, decrypt), RecoverConvert | users editing the root, `create`, `clean`, a crashed predecessor | nothing the user wrote is lost; only a verified copy takes the place of the root; recovery decides every state a crash leaves |
| Import and export (`sec_transfer/v3/manager.go`) | destination, `.tmp.safe_disk`, `.raw.safe_disk`, marker | ImportFile, ExportFile, ImportDirectory, ExportDirectory, clean, rerun | editors on the open vault, other programs on the plain side | old or new content at every moment; what is left behind is recorded; a rerun finishes |
| Operation lock (`operation_lock.go`) | an flock per root, polled | acquire with cancellation, release | processes and threads | one operation per root; a cancelled waiter leaves nothing |
| Root configuration (`password_changeable.go`, `password_hint.go`, `config/file_config.go`) | `_cryption.json`, staged copies, an flock | create, change password, change hint | creation takes no lock; truncating writes | one of the passwords opens the root after any crash; no update is lost |
| Root handle (`sec_root.go`, `file.go`, `copy.go`) | reader/writer lock, closed flag, key material | Open, OpenFile, Rename, Close, CopyEntry | threads of one process | no deadlock; no use after close |
| FFI stores (`ffi_sec_fs/idstore.go`, `ffi.go`) | roots, files, cursors by id | add, get, remove, close | isolates calling concurrently | a handle is closed once; children go with their root |
| WebDAV (`sec_webdav/server.go`) | sessions, mounts, listeners, persistent records | open, revoke, mount, unmount, restore, requests | HTTP clients, the operating system's mounts | a revoked session serves nothing and leaves no mount; counts and listeners match the sessions |
| Runtime operations (`runtime_operations.go`) | cancel functions by id | run, cancel | the UI thread | a cancel reaches the operation it names |
| Documents (`document_session_broker.dart`, `secure_notepad_controller.dart`) | leases, revisions, save queues, drafts | open, read, save, draft, close, freeze, revoke | several windows, auto-lock | no silent overwrite; accepted saves finish before the root closes |
| Unlocking and locking (`home_page.dart`, `home_page_auto_lock_mixin.dart`, `content_window_host_bridge.dart`) | the session shown, a gate per session, the preparation of the windows | unlock, auto-lock, end by hand, change password | the user's clicks, timers, native windows that answer late or never | locking drops no text and closes the native root; a cancelled lock gives everything back |
| Data encryption (`crypto_data`) | file position, size and cipher state of a context over a file | Read, ReadAt, Write, WriteAt, Seek, Truncate, reopening | short and failing writes | an encrypted file acts as a plain one; every byte is encrypted for its own position |
| Key derivation (`crypto_hkdf`) | salt, cost and length in the configuration | NewKey, LoadKey, reuse of stored parameters | a password change | the stored parameters give the key back |
| Entries of a root (`copy.go`, `create_entry.go`, `directory_delete.go`, `sec_root.go`, `secure_entry_move_service.dart`) | the tree, temporary and backup names | copy, move, rename, create, delete | threads on one root, a crash | copies are exact; nothing goes that nobody asked to remove |
| Walker (`sec_dir_walker.go`) | an open directory, a batch of names, directories to open | WalkDir, Next | changes of the tree during the walk | a walk that ends well has seen everything that stayed |
| Path strings, name encryption, plain storage | | pure functions and I/O | | |
| Pages, widgets, settings, clipboard | presentation | | | |

What is hard, with the line where it bites and the properties that watch it, is
the list "hazards" in `PROJECT.json`: a process dying between two renames;
recovery dying in the middle of recovering; a rename that happens while the call
reports an error; users and other programs that take no lock; a marker that
outlives the state it describes; a retry of what was already done; in the
application, state read before an `await` and used after it, and operations on
one vault that overtake each other.

## 2. Plan

Done:
1. `Convert` + proofs: the operation with the most to lose.
2. `FileReplace` + proofs: the replacement of one file, import and export.
3. `Documents`, and `RootLock` over it, + proofs: saves, drafts, closing, locking.
4. `RootConfig` over `KeyDerivation` + proofs: creation, password change and hint
   on one configuration file; `RootSecret`, the register it implements.
5. `WebDav` + proofs: sessions, listeners, mounts, requests, restore.
6. `Handles` + proofs: root lock, FFI stores, cursors, runtime operations and the
   operation lock.
7. `DataContext` + proofs: the four data contexts, which implement `PlainFile`.
8. `Tree`, and `Walker` over it, + proofs: the entries of a root under several
   threads.
9. `DirectoryImport` + proofs: one marker over many destinations, using what `FileReplace`
   shows of one.

Left: what section 7 lists as not modelled.

## 3. Modules

| Module | Models |
|---|---|
| `Convert` | conversion, recovery, and what interferes with them |
| `MCConvert` | bounds for TLC |
| `ConvertProofs` | theorems about `Convert` |
| `FileReplace` | import or export of one destination, clean and rerun |
| `MCFileReplace` | bounds for TLC |
| `DirectoryImport` | import of a directory, clean and rerun, over the outcomes `FileReplace` shows |
| `MCDirectoryImport` | bounds for TLC |
| `DirectoryImportProofs` | theorems about `DirectoryImport` |
| `Documents` | leases, save queues, drafts and editors of an unlocked vault |
| `RootLock` | extends `Documents`: unlock, automatic lock, end of a session |
| `MCRootLock` | bounds for TLC |
| `RootLockProofs` | theorems about `Documents` and `RootLock` |
| `KeyDerivation` | the four key derivers: parameters chosen, stored and loaded |
| `RootConfig` | extends `KeyDerivation`: the configuration file, its lock and its writers |
| `RootSecret` | abstract: a register that holds a password, a content key and a hint |
| `MCRootConfig` | bounds for TLC |
| `RootConfigProofs` | theorems about `RootConfig`, the refinement of `RootSecret` among them |
| `WebDav` | the session manager as the FFI drives it |
| `MCWebDav` | bounds for TLC |
| `WebDavProofs` | theorems about `WebDav` |
| `Handles` | roots, files, cursors and operations by id, and their locks |
| `MCHandles` | bounds for TLC |
| `HandlesProofs` | theorems about `Handles` |
| `DataContext` | an encrypted file and the data context over it |
| `PlainFile` | abstract: a file of plain values with a position |
| `MCDataContext` | bounds for TLC |
| `FileProofs` | theorems about `FileReplace` and `DataContext`, the refinement of `PlainFile` among them |
| `Tree` | the entries of one root and the operations on them |
| `Walker` | extends `Tree`: walks and directory exports while the tree changes |
| `MCTree` | bounds, start trees and requests for TLC |
| `TreeProofs` | theorems about `Tree` and `Walker` |

### Convert

State.  `dir` is the disk: for the root and for the work and the backup of each
operation, whether it is there and encrypted (it holds `_cryption.json`), the
contents of its files and the phase in its marker of each operation.  A marker
lives inside the directory it describes, as in the code
(`<dir>/.safe_disk/...`), so a rename takes it along: that is what makes the
protocol delicate.  `job` is the running call, `result` what the last one
returned; `used` the operation ids drawn.  `verified` and `lastWrite` are
history: what an operation verified, what the user wrote last.

Actions.  Between two actions the process may die, a user may edit the root and
other commands may run, so an action is at most one change of the disk:
`MarkCreating`, `MakeWork`, `MarkCopying`, `OpenAndList`, `CopyFile` (per
file), `MarkVerifying`, `ListSource`, `VerifyFile` and `VerifyExtra` (per
file), `VerifyDone`, `MarkAttention`; `MarkCommit`, `RenameRoot`, `MarkBackup`,
`MarkRenameWork`, `RenameWork`, `MarkCompleted`, `CleanRoot`, `CleanBackup`
(commitConvertRename); `RecoverNothing`, `RecoverAmbiguous`, `RecoverConvert`
with `RecoverPlan` (recoverFromMarker), then `Discard` (file by file), `Unmark`,
`BackupRoot`, `MarkBackedUp`, `InstallWork`.  Every call to the disk may fail
before or after its effect (`Spend("fault")`); where the code ignores an error
(removeMarker at the end) the model goes on as well.  The environment is `Crash`,
`Edit`, `CreateEmptyRoot` and `CleanUnfinished`.

Encrypting and decrypting are one set of actions with the two forms swapped;
the verification passes of `verifyPlainAndRoot` and `verifyRootAndPlain` have
the same shape.  The imports and exports a conversion does internally write
their own markers into the work or the source, of a type that
`listConvertMarkers` filters out, so they are not represented; neither are
subdirectories, whose comparison is that of files without content.

`RecoverFirst` restricts the callers, not the code: with TRUE a conversion only
starts when no marker is left.  Opening a root (`open_root.go`) recovers it
first, but `create --in-place` and the FFI start conversions without looking.

### FileReplace

State.  `dest`, `temp` and `backup` are contents, `Gone` or (for `temp`)
`Torn`; `marker` the markers in the root by operation; `call` the running call;
`kept` the content last put at the destination, by anyone.  `direction` is fixed: within a vault a rename onto an existing entry is refused and a stale
temporary file is truncated; on the plain side a rename replaces, and a stale
temporary file makes the exclusive creation fail.

Actions follow importFile/importFileAtomic and exportFile/exportFileAtomic:
`Start`, `LookAtDest`, `WriteMarker`, `OpenTemp`, `Copy`, `MoveOld`, `Install`
(with `PutBack` on its error path), `DropBackup`, `RemoveMarker`; then
`CleanUnfinished`, `Rerun` by the command line (which always overwrites) or by
the app (which keeps the decision unless the destination was not there before),
`Crash` and `WriteByOthers`.  Existence tests are taken to be exact: the
code reads a `Stat` that fails for another reason as absence, which is not
modelled.

### DirectoryImport

State.  `source` and `dest` are trees of paths; `temp` and `backup` what is left
beside a path; `marker` the one marker of an operation, with the two flags a rerun
decides by; `call` the running import with the paths listed and not yet visited, of
which the walk takes the first in its `Order`.  `asked` and the fields `stayed` and
`touched` of a call are history.

Actions follow importDirectory: `Start`, `LookAtDest`, `WriteMarker`, `Count`
(the first walk, whose errors end the call before it writes anything),
`CheckDest`, `MakeDest`, `ListSource`, then per entry `SkipVault`, `VisitDir` or
`VisitFile`, and `RemoveMarker`; `CleanUnfinished` and `Rerun` by either caller;
`Crash`, `EditSource`, `MoveSource` and `EditDest`.  The replacement of a file
(importFileAtomic) is one step: `Replace`, `Refused`, or `Interrupted` with the
states in which the steps of `FileReplace` can be cut off.  An import into the root of the vault
is the case of a directory that is there, with overwriting.  A name is a directory
on both sides or on neither: a file that takes the place of a directory is left
out.

### Documents

State.  `lease`, `ids` and `queue` are the broker's `_sessions`, `_documentIDs`
and `_saveQueues`; `shown` the bridge's `_nativeTokens`; `file` and `draft` the
documents and their recovery drafts on disk; `root` the native root sessions and
`dir` the one the directory list shows.  `win` holds the editors, by lease token:
the text and what counts as saved, the texts undo can reach (`seen`), the last
draft written, the draft offered in the recovery dialog (`offer`), the revision
it knows, the save it waits for and how far it is prepared for a lock.  `by` of a
file (the document id that wrote it) and `acked` of an editor (the text it
vouched for) are history.

Actions.  Opening: `OpenPage` (in the main window) or `Ask`, `OpenWindow`,
`WindowStarted`/`WindowFailed`, `Load`/`LoadFails` (a native window, which is a
process of its own).  Editing: `Edit`, `Undo`, `Restore`, `Discard`, `Draft` (the
timer).  Saving: `Save` queues it, `SaveStarts` or `SaveRefused` is `_saveNow` up
to its `await`, `SaveWrites` the rest; `SaveAnswered` is what the controller does
after its own `await`, `SaveTimesOut` a native window giving up.  Closing:
`UserCloses` and `Reconcile` (native), `LeavePage`.

Every `await` is a place where anything else may run.  A request of a native
window is handled when it is sent and answered later.  The revision is counted
per lease; the code draws it from one counter, but compares it within a lease
only.  Replacing text from the find bar is typing; the switch to read-only, the
length of the history, the size limits and image windows are left out.

### RootLock

State.  `op` are the two operations that close a session, the automatic lock
(one at a time, `_isAutoLocking`) and the one the user starts; `gate` the queue of
operations per session (`runRootCloseOperation`).

Actions.  Unlock: `OpenRoot`, `Attach`/`AttachRefused`, `Listed` are the parts of
`_verifyPassword` between its awaits.  `StartAuto` and `StartEnd` queue at the
gate (a password change is the `strict` form, which stops if a document is open);
`Skip` is every early return behind the gate.  The automatic lock goes `Hide`,
`AskWindows`, then each window `Prepare`, `Prepared` or `PrepareFails`, or
`NoAnswer`, then `Evaluate`.  Both operations go on with `Freeze`, `Freezes`,
`CloseWindow`/`CloseWindowFails`, `Revoke`, `Revoked`, then `Close`, `CloseFails`
or `GiveUp`; `Abort` is every path that cancels.

An unlock waits for an automatic lock for 30 seconds at most; the model does not
make it wait.  A cancellation reaches the windows at once (the code catches its
failures and goes on).  What `Hide` pops is the topmost route: the notepad, or
the recovery dialog over it.

### RootConfig, KeyDerivation, RootSecret

State.  `file` is `_cryption.json` as a reader sees it: `Absent`, `Torn` or a map
from the keys the code writes to what is stored; `durable` the contents it may
have after a power failure; `staged` and `leftovers` the staged copies; `lock` the
holder of the lock file.  `pc`, `job` and `mem` are the processes: where they
are, what they were asked, the configuration in their memory.  Three variables are
history: `claim`, the passwords and hints that may be current, given what was
acknowledged; `secured`, the same for what is on disk; `lost`, whether a power
failure has taken back something that was acknowledged (`"update"`, until the next
acknowledgement) or a root that had files (`"root"`).

Actions.  Creation (`sec_root_factory.go`) is `CreateCheck`, `CreateLoad`,
`CreateSet` (one key at a time; each `Set` of `file_config.go` writes the whole
map over a truncated file) and `CreateSave`; it takes no lock.  A change of the
password or of the hint is `ChangeStart` or `HintStart`, `Lock` or `LockTimeout`,
`Verify`, `Stage`, `Update`, `Commit` (the sync of the staged copy and the rename)
and `Finish`: the directory is opened and synced, or not, and the operation reports
success either way, as `commitStagedRootConfig` does.  Creation syncs nothing.  So
`durable` shrinks to the file in use when a change has synced the directory, or when
a power failure has picked one.
`Open` is the opening of the root in one reading.  `Kill` ends a process,
`PowerFailure` all of them, and picks one of the `durable` contents.

What was acknowledged is promised by `Promised`: `claim`, or `secured` as long as a
power failure has taken an update back.  A creation never enters `secured`, a change
does when its directory was synced, and nothing is forgotten otherwise.

A random draw is the serial number of the operation that made it; a key, an
authentication tag or a ciphertext is the tuple of what went into it.  So a wrong
password opens nothing, and a verifier left over from another operation fits
nothing else.  `KeyDerivation` has no state: for each deriver, the parameters
`NewKey` chooses and stores for a target time, and the key `LoadKey` derives from
what is stored, with the defaults for what is not.

`RootSecret` is what the file promises whoever knows a password.  The refinement
maps the register to `Reading(file)`, the password that opens the file, the
content key it yields and the hint, and `kept` to the readings of `durable`: what
was current since the last sync may come back after a power failure, and nothing
else.  (A first form of `RootSecret`, without `kept`, said that a power failure
undoes one change.  It passed the run, and its proof did not go through: a change
killed between the rename and the sync of the directory, then another change, then
a power failure undo two.  That takes two crashes, one more than the run has; with
two, the present form was checked once, over 386 569 states.)  `Overlap` restricts
the callers, not the code: with FALSE no other writer runs while a root is being
created.

### WebDav

State.  `sessions`, `listener` (HTTP and HTTPS) and `mount` are the manager's;
`records` the persistent sessions stored in the root, as a set: the code keeps a
list without two entries of one id, and the model restores it in any order;
`torn` says that their file cannot be parsed any more; `handle` the root handles
of the FFI; `script` the mount point `davfs_mount.sh` mounts; `call` the calls and asynchronous operations in progress, `req` the
requests.  Of a mount, `up` is what the operating system shows, `dir` whether its directory
is there, `stray` whether the command of another call has mounted it, and `once` the
`sync.Once` of its unmount.

Actions.  Every section under the manager's mutex is one action, and what it does
with the mutex released is another: `OpenRoot`, `RestoreLoad`, `RestoreOne`;
`OpenSession`, `Register`; `Revoke`; `MountStart`, `MountPrepare`, `RunCommand`,
`MountReady`, `MountRecord`, `MountCheck`; `UnmountStart`, `Detach`, `UnmountBegin`,
`UnmountEnd`, `Unmounted`, `ClearMount`; `CloseRoot`, `CloseManager`,
`CloseRootAnnounce`, `CloseRootEnd`; `Cancel`, `Finish`; `Acquire`, `Serve`,
`OpenInner`, `Release` for a request, with the three ways to authenticate and the
counter of a digest nonce.  `Fault` is a store that cannot be written, an `umount`
that fails, or a mount that does not get ready.

With `Elevated` (there is `pkexec` or `sudo`) a mount goes through the script that all
mounts share: `MountPrepare` writes it over whatever is there, `RunCommand` mounts
what it says by then, and whoever comes to its end removes it.  The script is read
whole and the mount made in one step.  A directory on which nothing was mounted can
be read as well, so such a call goes on as if it had mounted (`MountReady`).

A failing save (`SaveFails`) leaves the records as they were, or the file truncated,
or a part of it that cannot be parsed, after which every later load fails and with
it every change of the records, or the new records with an error all the same
(`Sync` or `Close`).  So a failed opening may leave the record of a session nobody was
told of, which the next opening of the root restores.

Closing a root is `CloseRoot`, the unmounts, then `root.Close`: `CloseRootAnnounce`
asks for the root's lock, after which nobody gets it for reading, and `CloseRootEnd`
waits for those who have it.  A request that opens a file for reading has it from
`Serve` on (`"outer"`) and asks again in `OpenInner`, as `secRootImpl.Open` does.
Every other use of the root by a request is one section of the lock and one step.  An
access of the manager to the store of a root being closed waits for the closing and
then fails; it is taken to fail at once.

What is drawn at random for a session is one identifier; who presents it presents
the credentials.  The mount code is the Linux one; `umount` is assumed to return.

### Handles

State.  Per root, file and cursor: whether a store lists it, whether it is
closed, and its lock (for a root the `sync.RWMutex`, with the writer that waits);
`lifecycle` is `dirCursorLifecycleMu`; the names of the operations in progress
with their cancel functions; the lock file of each root.

Actions.  A call looks its handle up, leaves the store and works on the object,
so it is several steps: `RootCall`, `RLock` or `Announce` and `Drain`, `Check`,
`Use`, and what follows for the method (`RLockAgain`, `Walk`, `AddFile`);
`FileCall`, `FileIo`, `FileData`, `FileClose`, `RemoveFile`; `LifecycleCall`,
`Latch`, `AddCursor`, `TakeCursors`, `CloseTaken`, `CloseRoot`, `Unlist`,
`Unlatch`; `CursorCall`, `Page`, `NextPage`, `CloseCursor`, `DropCursor`;
`RunCall`, `OperationLock` or `OperationGivesUp`, `Run`, `Release`, `RunEnd`;
`CancelCall`, `Cancel`.  As with Go's mutex, a writer that waits keeps new readers
out.  `root.Close` is taken to succeed: its only error is that of the name cipher's
`Close`, which returns nil in all three implementations (`crypto_name`).  Paths and
contents are left out.  Threads are alike, so the next call is made
by one chosen idle thread.

### DataContext and PlainFile

State.  `store` is the file on disk, cell by cell: a value and the piece of
keystream that hides it.  `filePos` is the position of the operating system's
file, `pos` and `size` are the context's, `reader` and `writer` the two ciphers
the RC4 context keeps.  The cipher is chosen at the start.

Actions: `Read`, `ReadAt`, `Write`, `WriteAt`, `Seek`, `Truncate`, `Reopen`, for
each way a cipher finds its keystream (counter and offset in the block for AES-CTR
and ChaCha20, the tweak for AES-XTS, discarding a prefix or going on with a kept
cipher for RC4).  A write goes chunk by chunk and may stop after any number of
cells; a gap is filled with encrypted zeros first.

`PlainFile` is the promise.  The refinement maps `content` to the decryption of
`store`, each cell under the keystream of its own position.  `settled` is the one
reservation: after a gap was filled for `WriteAt` or `Truncate`, `Read` of all but
AES-XTS promises no values until the position is set again (see the remarks).

### Tree and Walker

State.  `tree` maps each path of `Paths` (a sequence of names) to nothing, a
directory or a content; a copy or rename that would put an entry outside `Paths`
fails, as one does whose path is too long for the file system; `job` is what each thread does; `renaming` the thread
inside `Rename`, which is two system calls under the root's lock.  Temporary and
backup names are drawn per operation.  For a walk, `handle` is where its open
directory is now (it follows renames), and `there`, history, the entries that
have stayed in place since it began.

Actions, one system call each: `CopyEntry`, `CopyDirectory`, `CopyMkdir`,
`CopyList`, `CopyNext`, `CopyFile`, `CopyOpen`, `CopyTemp`, `CopyData`, then
`RenameCheck` and `RenameDo` (to the backup, into place, or back), `CopyDrop`,
`CopyUnback`; `DeleteFile`, `DeleteDirectoryTree`, `RemoveAll`;
`CreateEmptyFile`, `CloseEmptyFile` (which deletes by path when `Close` fails),
`CreateDirectory`, `Mkdir`.  A move is a copy
and a deletion, as the application does between roots.  Any call may fail; `Crash`
ends all threads.  `Walker` adds `WalkDir`, `LoadNextBatch`, `LoadNextDirectory`,
`ProcessEntry` and `Visit`: a listing walks once, an export of a directory twice
(to count, then to copy); the limit on pending directories ends a walk with an
error.

## 4. Runs

| Run | Question | Bounds | Result |
|---|---|---|---|
| `convert_safety` | can any order of events lose data or install an unverified tree? | 2 operations, 2 files of which the walks skip one, 2 contents; 1 edit, 1 create, 1 clean, 1 fault, 2 crashes | holds |
| `convert_recovery` | does recovery, run before anything new starts, decide every state, clean up and terminate? | 1 file; 1 edit, 1 fault, 2 crashes | holds |
| `file_replace` | content, records and reruns of one destination | 2 operations, 2 contents, both directions and both callers; 2 requests, 1 write by others, 1 fault, 2 crashes, 1 clean | holds |
| `directory_import` | does success mean everything, and does a rerun finish without replacing what it must not? | a file, and a directory with one that may be a vault; no destination or one to merge with; 1 request, 1 change on either side, 1 fault, 1 crash, 1 clean, any reruns | holds |
| `root_lock` | locks, ends and unlocks crossing: does anything stay frozen, thaw too early or hit the wrong session? | 2 sessions, 1 editor; 1 edit, 1 save, 1 time-out, 2 automatic locks, 1 end by hand | holds |
| `root_lock_saves` | two editors of one document, with a lock: is a save lost or overwritten unseen? | 1 session, 2 editors, 3 texts; 2 edits, 2 saves, 1 automatic lock | holds |
| `root_config` | does an acknowledged change hold, and does the file change in one step? | 2 processes, 2 passwords, 2 hints, 4 ways to create a root; 3 operations, 1 kill or power failure | holds |
| `webdav` | do mounts, listeners and revocations stay in step when calls overlap? | 2 handles of one root, 2 sessions, 2 mounts, 2 ports, 2 threads, 1 request, mounts through `pkexec` or `sudo`; 4 calls, 1 fault | holds |
| `handles` | is a destroyed key, a cursor of a closed root or the wrong operation ever used, and does every call return? | 3 threads, 2 roots, 2 files, 2 cursors, 2 operation names; 3 calls, 1 fault | holds |
| `data_context` | does an encrypted file act as a plain one? | 4 ciphers, length 4, chunks of 2, blocks of 2 or 3; 4 operations, 1 failing write | holds |
| `tree` | copies, moves, renames, deletions and walks at once: exact, complete, nothing lost? | 2 threads, 3 names and 1 in a directory; 2 calls, 1 fault, 1 crash | holds |
| `tree_move` | is a directory moved completely, with a hidden entry, onto one above it? | 1 thread, 1 call, three directories of one name in each other | violated (findings 1 and 2) |

What the properties say:
- Convert: `LastWriteSurvives` (what the user wrote last is somewhere),
  `InstallsOnlyVerified`, `SealInv` (a marker in a rename phase vouches for its
  work), `RootRecoverable` (a missing root can be brought back), `WorkIsTracked`,
  `AttentionOnlyForMismatch`, `RecoveryCleansUp`, `UnfinishedIsResolved`.
- FileReplace: `OldOrNew`, `NothingClobbered`, `ResidueIsMarked`, `RerunsComplete`
  (a rerun finishes unless one of two named obstacles is there).
- DirectoryImport: `AckIsComplete`, `PartialIsRecorded`, `RefusedIsKept` (what the
  user did not allow to replace stays, through all reruns of the app),
  `RerunsFinish`.
- RootLock: `FrozenWhileClosing`, `AckedTextKept`, `OnlyOwnSessionHidden`,
  `Thaws`, `DrainedBeforeClose`, `NoSilentOverwrite`.
- RootConfig: `AckedChangesHold` (what was acknowledged is in force; after a power
  failure, what was acknowledged and synced) and `ContentKeyStable` (files are written
  under one content key for ever, unless a power failure took back a creation nobody
  synced), `ImplementsSecret` (the refinement), `OperationsEnd`
  (every operation ends, and the lock is free again).
- WebDav: `MountsAreOwned` (a mount that is up is listed or in someone's hands;
  the exceptions are in the property and the remarks), `SessionsAreServed`,
  `RevokedStaysRevoked`, `CallsReturn` (but for the nested read lock of the remarks).
- Handles: `KeysLiveInSections`, `ListedCursorsLive`, `CancelledWereAsked` (a
  cancel reaches the run it was meant for), `CallsReturn` (but for the nested read
  lock of the remarks).
- DataContext: `StoredUnderOwnKey`, `ActsAsPlainFile` (the refinement).
- Tree: `CopiesAreExact` (an operation alone in the tree leaves exactly what was asked
  for, or, after one failing call, every visible file as it was or as it was to be; it
  leaves out merges into a directory above the source, see finding 2),
  `WalksAreComplete`, `NothingUnasked` (a file keeps its
  place and content unless someone asked), `NothingLost` (no order, error or crash
  makes a content disappear but by the last step of a deletion or a replacement); both
  except by name what is put over a new empty file whose `Close` then fails
  (`ClosesOver`, see the remarks).
  `CopiesAreExact` speaks of failing calls; after a crash `NothingLost` is what
  remains.  That a walk returns no name twice rests on `seen`, the names an open
  directory has given: for a name removed and created again during the read,
  `readdir` does not promise it.

Why the bounds are enough for the cases that matter: two operations are what it
takes for one to carry the other's markers away; two crashes let recovery die in
the middle of recovering from a crash; one fault together with them covers an
error whose effect took place; a skipped file and a copied one are the two
fates of a file; two contents tell old from new.  For a directory import, a
fault and a crash interrupt the import and its rerun, at the same or at different
files.  For the documents, two editors
and two saves are the smallest case of one save overtaking another, and three
texts tell the original from each editor's; two sessions and two automatic locks
let an operation outlive its session.  For the configuration, three operations are
a creation and two changes that compete, over roots with three of the derivers
(the theorems cover the fourth); for WebDAV, two handles of one path are
what a close can confuse, and four calls open, mount, close and
restore, or open two sessions and mount both, which is when two mounts share the
script (with `Elevated` FALSE, checked once, no mount is made by another call); for the
handles, three threads are a reader, a writer that waits, and another reader; for
the contexts, a length of two chunks and blocks that do not divide each other make
every split of a write happen; for the tree, two threads and two calls are every
pair of operations, with the entries of one directory.  `SYMMETRY` is used over
operation ids, or over windows and texts, in runs without liveness properties
only.  The theorems of section 6 do not depend on any of these bounds.

Deadlock checking is on in the `Convert` runs, in which `RecoverNothing` is always
possible at rest, and off in the others, in which everything the bounds allow may
have been done; `CallsReturn` and `OperationsEnd` say there that nobody is stuck.

### Findings

1. A directory moved to another root, or with overwriting, is copied by a listing that
   leaves hidden entries out, and then deleted with everything in it (`copy.go:69`).
2. `CopyEntry` refuses a target below its source, but not one above it
   (`copy.go:38`).  Moving `x/x` into the directory that holds `x`, with overwriting,
   has the target `x`: when there is an `x/x/x`, its entries are merged into `x/x`, the
   source, which is then deleted.  The move reports success; the files are nowhere.

One move in the run `tree_move` shows both: of `x/x` with the hidden file `x/x/.h` and
the file `x/x/x/a`, to `x`.  Neither content is in the tree at the end.

### Remarks

What the models show or had to allow for, and no run is kept for.

Conversion and transfers
- Recovery of an early phase removes the marker from the root only.  If a second
  conversion, started over an unfinished one (`RecoverFirst` FALSE), has carried it
  into its backup, recovery reports it removed, and it stays.
- An import that dies after its commit and before its backup is deleted can never
  be rerun (the rename onto the backup is refused); an export that dies while
  copying neither (its temporary file is created exclusively and nothing removes
  the old one).  `RerunsComplete` shows that these obstacles are the only ones.
- The command line reruns with overwrite, whatever the marker says, and a rerun
  takes in the subdirectories that the first import was told to leave out
  (`--skip-recursive`), which the marker does not record.
- A rerun cleans the old marker before it writes its own; if it ends in between,
  what the first attempt left is no longer known (the exception of
  `PartialIsRecorded`).
- A vault inside an imported directory is left out without a word.

Application
- The automatic lock shows the directory as locked first and then asks whether its
  session is still shown; so it never closes the native root.
- The notepad stays editable during a save and takes the text at the end of it for
  the saved one; no draft is written for what was typed in between.
- With the recovery dialog open in the main window the automatic lock pops the
  dialog instead of the page, which counts as "discard".

Configuration
- With `Overlap`, `AckedChangesHold` and `ContentKeyStable` fail: creation
  (`sec_root_factory.go:464`) takes no lock, though `password_changeable.go:60-61`
  speaks of serializing the writes of the configuration across processes.
- A creation is acknowledged without a sync (`file_config.go:94-104` writes and
  changes the mode, nothing else): a power failure may take it away, and with it the
  key of what was written into the root since.  A change of the password or the hint
  whose directory cannot be opened or synced is acknowledged as well
  (`password_changeable.go:366-369`), and a power failure may bring the old one back.
  `lost` in `AckedChangesHold` and `ContentKeyStable` stands for these two, and
  `Create` of `RootSecret` keeps `Nothing` among what may come back.  What the
  properties still say is that nothing else is lost: no update to another process, a
  kill or a failing write, and none to a power failure once the directory was synced.  A crash between the verifier and the version of the
  key envelope leaves a root that opens as one of the old format.  A staged copy
  left by a crash makes listings with encrypted names fail.
- For scrypt, a target of 1 to 100 ms chooses a weaker cost than 0 does.

WebDAV
- Mounts that may be up without an owner: the command was killed when it had mounted
  already, or the wait for readiness was cancelled (`mount_linux.go:62-66`); the
  unmount failed once (its `sync.Once` never tries again).  They are exceptions of
  `MountsAreOwned`, and so is `MountedByAnother`:
- All mounts through `pkexec` or `sudo` write the same `davfs_mount.sh`, run it once
  the user has confirmed and remove it, without a lock (`mount_linux.go:135-141`).  When
  two overlap, the first may run the script of the second and mount the second's
  directory; the second's own command then fails, its call returns an error, and the
  mount stays with no session that owns it.  Without the exception the run ends with
  this trace.  The first call finds its own directory readable, though nothing is
  mounted there, and lists it as mounted.
- A GET that opens a file takes the root's lock twice (`sec_root.go:117,128`); when
  `CloseRoot_FFI` asks for it in between, neither returns, and
  `dirCursorLifecycleMu`, which the closing holds, stays taken for all others.
  `NestedLock` is the exception of `CallsReturn`.
- The file of the persistent records is truncated and written in place
  (`webdav_persistence.go:78-93`).  A write that stops in the middle leaves what no
  later load can parse: no session of the root is restored or persisted again.
- An `Open` that overlaps `CloseRoot` registers a session for a closed root
  (`server.go:184`); a restore that has loaded a record before it was revoked
  brings the session back (`BeingRestored`, the exception of
  `RevokedStaysRevoked`); closing one of two handles of a path revokes the
  sessions of both; a listener stays when the draw of a session fails
  (`server.go:196-207`); restoring starts the nonce counter afresh.
- `OpenWithOptions` does not copy the write policy into the session
  (`server.go:208-223`), so a session opened read-only accepts writes.

Handles
- `Open` of a root holds the read lock and takes it again in `OpenFile`.  A
  `Close` or `Rename` that asks for the write lock in between waits for the first,
  and makes the second wait for it: neither returns (`sec_root.go:117,128`).
  `NestedLock`, the exception of `CallsReturn`, is exactly this state; the run
  shows that there is no other way for a call to hang.
- Closing a root leaves its files open; a file whose `Close` failed stays in the
  store (`ffi.go:677`); `ReadDir_FFI` walks without the root's lock.
- A transfer tries the lock file before it asks its context, so a cancelled waiter
  may still get the lock; it then lets go of it.

Data contexts
- Filling a gap for `WriteAt` or `Truncate` moves the position of the operating
  system's file; the next `Read` of AES-CTR, ChaCha20 and RC4 reads there and
  decrypts for its own position.  `settled` in `PlainFile` stands for it.
- After a failed gap the file is longer than the size reported, by zeros.

Tree and walker
- `CreateEmptyFile` deletes by path when its `Close` fails (`create_entry.go:23-25`).  If
  another call has moved or copied a file there in the meantime (over the new file,
  or after deleting it), that file goes, although its call was told of a success.
  Without the exception `ClosesOver` the run `tree` ends with this trace for both
  `NothingUnasked` and `NothingLost`.  The exception is limited to this step and to a
  file that is not empty: two empty files are not told apart.
- `NothingLost` counts the deletion at the end of a move as a deletion: what another
  call has put in the place of the source since it was copied goes with it.
- Replacing by copy is two renames, not one (`copy.go:13-16`): a crash between
  them leaves the old content under its hidden backup name only.
- The lock of `Rename` is one per handle: two handles, or two processes, on one
  root are not kept apart.  The model has one handle.
- After the error at the limit of pending directories, another `Next` would go on
  without the directory; every caller stops.

## 5. Fairness

`FairSpec` of `Convert`: weak fairness of the steps of a running call (a Go
function that does not block keeps running) and of recovery (a root with markers
is opened some day, and opening it recovers it first).  Nothing is assumed of
users, crashes and faults, which are bounded.  `FairSpec` of `FileReplace`: weak
fairness of the running call and of rerunning an unfinished operation; it is used
for the liveness properties only.  `DirectoryImport` assumes the same.  `FairSpec` of `RootLock`: weak fairness of the
broker's writes, of the steps of an operation (a platform call returns or
throws), of the answer to a save and of a window's answer to the preparation, or
of the 10 second time-out in its place; users, unlocks and the drafts' timer owe
nothing.

`FairSpec` of `RootConfig`, `WebDav` and `Handles`: weak fairness of the steps of
each process or thread, one by one.  The operating system schedules it; the polls
of the two lock files repeat every 20 ms and end with their context; the
platform's mount commands run under a context, and `umount` is assumed to return (a
revocation or a closing runs it without a deadline).  In `WebDav` a request that
holds the root's lock goes on when it can.
Nothing is assumed about which of two waiters gets a lock first: the properties
hold because every holder lets go.  New calls, requests, kills and faults owe
nothing.  The runs of `DataContext` and `Tree` have no liveness properties: each
operation is a bounded loop over its input.

## 6. Proofs

All theorems hold for any sets of operations, processes, threads, files and
contents and any bounds that satisfy the assumptions the modules state
(`ConvertAssumption` and the like: the special values are distinct, the bounds are
numbers).

`ConvertProofs`
- `TypeCorrect`: `Spec => []TypeOK`.  `TypeOK` says more than types: a directory
  that is not there holds nothing.  It is not inductive as it stands, since
  copying into a missing work would create files in nothing; `CopyHasWork` is
  the strengthening.
- `NothingLost`: `Spec => []LastWriteSurvives`, and `BackupsKept`:
  `Spec => BackupsStay`.  The argument: files of the root change by an edit or by
  a rename to a free backup path; files of a backup never change.
- `MarkersVouch`: `Spec => []SealInv`, and `OnlyVerifiedInstalled`:
  `Spec => InstallsOnlyVerified`.  `SealInv` is inductive together with the type
  invariant.  It has to relate markers wherever they are (a second conversion may
  have moved them): a marker in a rename phase exists only if its operation
  verified the work, the work has not changed since, and no marker of the same
  operation is left in an early phase, because that one would let recovery empty
  the work under the other's feet.
- `NeverAHole`: `Spec => []RootRecoverable`, under no hypothesis on the callers.
  The strengthening `PlaceInv` says where markers can be (never in a work), what the
  running call finds at each of its steps (`JobPlaces`: the root, its work, or no work),
  and that an operation with a `completed` marker has no work.  A marker is removed
  only when the work of its operation is gone, so no removal can take away the
  marker that a missing root depends on; that the work is the verified one comes
  from `SealInv`.
- `WorksTracked`: `Limit["clean"] = 0 => (Spec => []WorkIsTracked)`.  The hypothesis is
  needed: `clean` with the id of a conversion removes the marker and leaves the work.
  Nothing is asked of the callers of convert and recover.
- `CleansUp`: `RecoverFirst => (Spec => []RecoveryCleansUp)`.  `SerialInv` adds that all
  markers are of one operation, the running one if there is one, and lie in the root or
  in its own backup; without `RecoverFirst` a second conversion carries the markers of
  the first into its backup, and recovery reports an ambiguity.
- `RecoveryDecides`: `RecoverFirst`, no `create` and no `clean` imply
  `Spec => []AttentionOnlyForMismatch`.  `PhaseInv` gives each phase of a marker its
  meaning: an early marker in the root means there is no backup yet;
  `renaming_root_to_backup` in the root means that the work is there and the backup is
  not; a marker in the own backup means that exactly one of root and work is there.
  These are the cases `RecoverConvert` decides, so what is left to give up on is a
  failed verification.  The hypotheses are those of the run `convert_recovery`: a root
  created between the two renames is a state recovery rightly refuses.

The steps are grouped by what they do to the disk (write one marker, remove one,
rename, fill or empty a work, nothing), so each part of an invariant is proved
once per group.  The lemmas `MarkerTable` to `AttentionTable` list, for every step, where the call
stands, which marker or directory it touches and where it goes on: the last four
theorems use nothing else of the actions.  TLC confirms the four invariants on
instances with two operations, with and without `RecoverFirst`, `create` and `clean`.

`FileProofs`, about `FileReplace`
- `ReplaceTypes`, `CallIsSound`, `NothingLostInReplace`: `TypeOK`, `CallInv` and
  `OldOrNew` are inductive together.  `OldOrNew` needs to know that the
  destination holds what was last put there when the backup is deleted, and that
  only a whole temporary file is installed: `CallInv`.
- `ResidueRecorded` (`ResidueIsMarked`) and `NothingClobberedInReplace`
  (`NothingClobbered`) are action properties from the same invariant.

`FileProofs`, about `DataContext`
- `OwnKeys`: `Spec => []StoredUnderOwnKey`, and `PlainFileImplemented`:
  `Spec => ActsAsPlainFile`, the refinement.  The invariant (`Sound`, `Aligned`)
  says that every cell is encrypted for its own position, that the cipher state of
  an open reader or writer stands at the position of the file, and that whatever
  lies behind the size the context reports is zeros.  The last part is what the
  refinement needs: a failed gap leaves the file longer than it is said to be, and
  a later write that reads these bytes back has to find what a plain file would
  have there.  The lemmas about writing a range chunk by chunk are stated for any
  chunk and block size.

`DirectoryImportProofs`
- `AckComplete`: `Spec => AckIsComplete`; `PartialRecorded`:
  `Spec => []PartialIsRecorded`; `Refusals`: `Spec => RefusedIsKept`; `Invariant` states
  what they follow from.  They hold for trees of any depth.
- `WalkOK`: during the walk every file of the source that it was to meet and nobody
  touched is imported, or it or a directory above it is still to be visited.  The second
  half is what makes it inductive: visiting a directory replaces it by its entries, one
  of which leads on to the file, since neither an edit nor a vault can come between
  (a file that is moved away with the source is no longer owed).
- `MarkedOK` adds to `PartialIsRecorded` that a call past `writeMarker` has a marker;
  `RefusedOK` says that a request which may replace nothing never gets past the check of
  the destination, in the call or in any rerun by the app, because the marker says that
  the directory was there, and directories of the vault do not go away.
- Among the assumptions: the paths are sequences of names closed under going up, and a
  tree with an entry has its top directory.

`HandlesProofs`
- `KeysLive`: `Spec => []KeysLiveInSections`; `CursorsLive`:
  `Spec => []ListedCursorsLive`; `CancelsAreAsked`: `Spec => []CancelledWereAsked`.
  One invariant serves the three.  `LockInv` ties the counters of the root's
  `RWMutex` to the places the threads are at, so that a writer's section is alone;
  with it, `OpenInv` says that a root or file used inside a section has not been
  destroyed, since `Close` destroys keys inside the write section only.  `LatchInv`
  says that `dirCursorLifecycleMu` has one holder, and `CursorInv` what its holder
  knows: between the look at the root and the entry into the store nobody closes
  the root's cursors.  `AskInv` remembers which run a cancel function belongs to:
  `runtimeOperations` refuses a name in use and forgets one only as its run ends, so the
  entry under a name is that of the run that put it there.

`RootConfigProofs`
- `AckedChanges`: `Overlap = FALSE => (Spec => []AckedChangesHold)`; `KeyStable`,
  the same for `ContentKeyStable`; `SecretImplemented`, the same for
  `ImplementsSecret`, the refinement.  The hypothesis is the restriction of the
  callers under which the properties are claimed and checked; without it they fail
  (see the remarks).
- The first half is about the operators: what `Store` leaves alone, that `LoadKey`
  gives back the key `NewKey` was stored for, for each deriver (`LoadKeyIs`,
  `NewDerivationIs`, `CreationDerivation`); that at most one password opens a file
  (`OnePassword`); that rewrapping keeps the content key and the hint, and a hint
  update everything else (`RewrapEffect`, `HintEffect`); that a creation which stored
  every key opens with its password, with a long enough key (`CreatedEffect`).
- The invariant: `Local` says of each process that what it computed from the file
  is still computed from the file, which is true because `LockInv` and `AloneInv`
  keep others from replacing it, and that a creator's memory holds the first keys of
  its record.  `Kept` says that every content a power failure may bring back is one
  that was to be expected (it fits `secured`, as the file fits `Promised`) and has the
  same content key, but for nothing at all while a creation is not synced;
  `Young`, that while a root is created nothing has been promised yet.  Neither
  `AckedChangesHold` nor `ContentKeyStable` is inductive: they speak of the file, and
  a power failure takes what `durable` holds.

`WebDavProofs`
- `MountsOwned`: `Spec => []MountsAreOwned`; `SessionsServed`:
  `Spec => []SessionsAreServed`; `RevokedForGood`: `Spec => []RevokedStaysRevoked`;
  `Invariant` states what they follow from.
- A mount is handed on between the sessions and the calls, so `Coherent` says
  where a call can have one: only a call that takes mounts down has some, and one
  that unmounts for a session has that session's alone.  `ClearedAreDown` is what
  the second section of `Manager.Unmount` relies on: who comes to clear the mount
  of a session without an error has seen its unmount succeed (`DownWhenOk`, which
  says also that the directory has gone, so no script mounts there again).  For
  mounts without `pkexec` or `sudo` the exception `MountedByAnother` is empty.
- `RevokedStaysRevoked` is not inductive: it does not say where a session could come
  back from.  `AppearsOnce` does: whatever identifier is in a stored record, in the
  records a restore has read, or in a session has been drawn, was not revoked for
  good, and is at one root only.  A new session must not draw an old identifier:
  `FreshLeft` keeps one for each session being opened, which is where the finiteness
  of the identifiers and the calls is used.
- Among the assumptions, `Procs` and `Ids` are finite, and a session is never equal to
  `NoSession`; the other sets are any.

`RootLockProofs`
- `Frozenness`: `Spec => []FrozenWhileClosing`; `SavesDrained`:
  `Spec => []DrainedBeforeClose`; `AckedText`: `Spec => []AckedTextKept`;
  `Overwrites`: `Spec => NoSilentOverwrite`; `OwnSession`:
  `Spec => OnlyOwnSessionHidden`.  `Invariant` states what they follow from, in parts
  that each speak of few variables.
- `GateOK`: an operation past the gate of its root is the first there, so two
  operations of one root never freeze and revoke at once.  `WaitOK` builds on it: a
  lease an operation waits for is gone, or is of its root and frozen or closing, and
  once the operation revokes, closing.  It says also that these windows have been
  opened, since a window that asks again would get a lease nobody froze.
- `CountOK`: the `pendingWrites` of a lease is the number of its saves in the queue of
  its document, and a lease that was closed is kept by at least one of them.  Neither
  half is inductive alone: the broker drops a closing lease when the count reaches
  zero, which must be the moment its last save has left the queue.  `SavesAppended` and
  `SavesWithoutFirst` relate the count to the queue as a save enters and leaves it.
- `RunOK`: only the first save of a queue runs, and the text its editor was based on is
  the one on disk unless another document id has written there since.  This
  is where `NoSilentOverwrite` comes from; it needs `CountOK` to know that the lease
  of a queued save is still there.
- `TextOK`: an editor that is alone on its document knows what the draft holds.
  `AckedTextKept` is not inductive without it: a prepared window skips the write of a
  draft that it takes to be stored already.
- The windows, roots, documents and texts are any sets; `None` is none of them and no
  lease.  TLC confirms the invariant as a whole on the instances of `MCRootLock`.

`TreeProofs`
- `NothingUnaskedHolds`: `WalkerSpec => NothingUnasked`; `NothingLostHolds`:
  `WalkerSpec => NothingLost`; `WalksComplete`: `WalkerSpec => []WalksAreComplete`;
  `CopiesExact`: `WalkerSpec => []CopiesAreExact`.
  They hold for any number of threads, operations, faults and crashes, for trees of
  any depth, and for copies, moves, renames, deletions and walks that overlap;
  `CopiesAreExact` speaks of the operations no other has overlapped.
- `TreeIsSound` is the invariant of the operations.  `Rooted`: an entry lies in a
  directory.  `PartialsInPlace`: a copy that is not complete yet lies under the
  temporary name of its operation.  `TempsAreFiles`: no directory has a temporary
  name.  `Finished`: from its renames on, what an operation copies is complete.
  `RenameHeld`: while a rename has the lock its target stays free of files, whatever
  is made past the lock.  A step of an operation is one
  of a few kinds (`OpStep`: it leaves the tree alone, makes one entry, writes a
  temporary file, moves or removes one, removes a subtree) and each part is proved
  once per kind; the two action properties read the answer off the kind.
- `WalksAreSound` adds the invariant of the walks.  What a walk that ends well
  returned covers all that stayed in place (`Covered`, `AtEnd`), which is inductive
  only with what is still to come: an entry that stayed is returned, or is in the
  batch or still to be listed in the open directory, or lies below a directory that
  is pending.  The open directory is a handle, which follows renames, so `Reading`
  and `InPlace` say that it is still at the path the walk takes it for whenever an
  entry below it has stayed.  `Exported` is the same for the second walk of an
  export.  That nothing is left when nothing is pending is shown with a shortest
  path that would have been missed (`NothingLeft`).
- `CopiesAreSound` adds `CopyInv`, the invariant of an operation that is alone.  It
  compares the tree with the one the operation found (`before`).  `AloneOK`: nobody
  else is at work, and nothing found bears a name of this operation, which
  needs `Fresh`: nothing in the tree bears a name of an operation that has not begun.
  `OldOrNewEntries`: every entry is the one that was there or the one the copy gives it
  (`Due`), but for the few the copy of a file is at (`Aside`).  `CopiedOrPending`:
  what is not copied yet is at or below an entry still waited for, so that all is copied
  when none is left.  `ItemsTaken` ties the list of entries to what the copy takes
  along, and `AtPlace` each step to what the earlier steps of the same file left: the
  complete copy under the temporary name, the old file under the backup's, and a
  failing call behind every `undo`.  `DeletingOK` is the deletion a move ends with,
  `FilesKept` what a failure owes, and `AboveOK` says that nothing is done to a target
  above the source unless it may be overwritten.  The invariant does not depend on
  the order of the listing and so needs no induction over the list.
- `faults <= 1` in the last part of `CopiesAreExact` is needed: when the rename into
  place fails and the one back does too, the target is gone and its content is under
  the backup's name, where `NothingLost` has it.
- Among the assumptions: the paths are sequences of names and contain the path above
  each of them; the start tree has directories above its entries and no
  temporary names; requests name paths without such names; names
  drawn by different operations differ (`NamesAssumption`, `PathsAssumption`,
  `StartAssumption`, `RequestsAssumption`, `WalksAssumption`).  TLC confirms the
  invariants on the instance of `MCTree`, and `CopyInv` also on a tree of three levels.

`TypeCorrect`, `ReplaceTypes`, the `Invariant`s, `BackupsKept`, `CallIsSound`,
`TreeIsSound`, `WalksAreSound` and `CopiesAreSound` state formulas no
run repeats: the type invariants, `CallInv` and `IInv` are the strengthenings the other
theorems need, and `BackupsStay` follows from the same lemmas as
`LastWriteSurvives`.

Only model-checked: the liveness properties (`UnfinishedIsResolved`,
`RerunsComplete`, `RerunsFinish`, `Thaws`, `OperationsEnd` and the two
`CallsReturn`), which are outside the reach of the prover.  Every invariant and every
action property of a passing run is a theorem.

## 7. Not modelled

Within the modelled parts:
- Conversion and transfers: loss of power with durability `none` or `data` (what a
  system call did counts as durable); the content of verification reports;
  symbolic links and permissions; a `Stat` that fails for another reason than
  absence; a directory import that meets a file where it has a directory, or the
  reverse.  Edits of the source after its verification, which `docs/TRANSFER_DESIGN.md` leaves open,
  end up in the backup, as `LastWriteSurvives` shows.
- Application: more than one vault, the clock of the idle timer, deleting a
  directory after its session ended, the end of the main window.  A document's
  draft is one file: two windows with unsaved text overwrite each other's, so
  `AckedTextKept` speaks of a document open in one window.
- Configuration: the wrap of Argon2id's memory parameter, at target times from
  2^26 ms on; the encoding of the file; the wording of errors.
- WebDAV: certificates, the macOS and Windows mount commands, the bodies of
  requests, a mount script replaced while the shell reads it.
- Handles: progress callbacks, the C export layer, reads of one file from two
  threads (they share a position).
- Data contexts: the ciphers themselves; ChaCha20's 32-bit counter is a constant
  of the model, larger than the files the run reaches.
- Tree: an `OpenFile` that creates a file and then fails to make its context
  (`sec_root.go:168-172`) leaves the empty file behind, a temporary file of a copy as
  well; in the model an open that fails leaves nothing.
- Walker: options no caller sets and calls none makes.

Left out altogether:
- the parsing of path strings (`path_utils_easy.go`): character by character work
  on schemes, hosts and drive letters, whose cases unit tests enumerate;
- the encryption of names, a pure function per name;
- `PlainFS` and the memory configuration, which tests use, and the random access
  adapter, which nothing uses;
- build scripts, settings, clipboard, pages and widgets.

`PROJECT.json` lists these with the components they belong to.
