----------------------------- MODULE RootConfig -----------------------------
(***************************************************************************)
(* The configuration file of an encrypted root (_cryption.json): creation  *)
(* of a root, password change, hint update and opening, by processes that  *)
(* run at the same time, may be killed between any two steps, and may lose *)
(* power.  Creation writes the file in place, one key at a time, without a *)
(* lock; password and hint changes hold a lock file and replace the        *)
(* configuration by a staged copy.                                         *)
(*                                                                         *)
(* A random draw (salt, challenge, nonce, content key) is the serial       *)
(* number of the operation that made it.  A key, an authentication tag or  *)
(* a ciphertext is the tuple of what went into it: equal exactly when the  *)
(* inputs are.                                                             *)
(***************************************************************************)
EXTENDS KeyDerivation, FiniteSets

CONSTANTS Procs, Passwords, Hints, NoHint,
          CreateOptions, \* the options roots are created with
          Absent,        \* no such file
          Torn,          \* a file that is no JSON document
          NoProc,
          Overlap,       \* whether another operation may run while a root is created
          MaxOps,        \* bound on the operations that write
          MaxCrashes     \* bound on kills and power failures

\* A configuration maps each key to what is stored there, or to <<>>.
Keys == {"factories", "salt", "cost", "length", "challenge", "tag", "verifier", "hint",
         "nonce", "ciphertext", "envelope"}

NewConfig == [k \in Keys |-> <<>>]

\* What can be stored there: versions, lengths, salts and the like are numbers.
Numbers     == Seq(Nat)
DerivedKeys == Derivers \X Passwords \X Numbers \X Numbers \X Numbers
ContentKeys == DerivedKeys \cup {"random"} \X Nat \X Numbers
Configs == [factories : {<<>>} \cup Derivers \X Nat,
            salt : Numbers, cost : Numbers, length : Numbers,
            challenge : Numbers, tag : {<<>>} \cup DerivedKeys \X Numbers, verifier : Numbers,
            hint : {<<>>} \cup {<<h>> : h \in Hints},
            nonce : Numbers, ciphertext : {<<>>} \cup DerivedKeys \X Numbers \X ContentKeys,
            envelope : Numbers]

ASSUME RootConfigAssumption == /\ NoHint \in Hints
                               /\ CreateOptions \subseteq
                                    [alg : {""} \cup Derivers,
                                     ms : Nat, need : 1..64, changeable : BOOLEAN, hint : Hints]
                               /\ Overlap \in BOOLEAN
                               /\ MaxOps \in Nat /\ MaxCrashes \in Nat

\* The model values are none of the things they stand beside.
ASSUME RootConfigValues == /\ NoProc \notin Procs /\ Absent # Torn
                           /\ {Absent, Torn} \cap Configs = {}
                           /\ Absent \notin [pw : Passwords, key : ContentKeys, hint : Hints]

NoClaim == [pw |-> {}, hint |-> {}]

VARIABLES
    file,       \* what a reader of _cryption.json sees
    durable,    \* the contents the file may have after a power failure
    staged,     \* per process: its staged copy, or Absent
    leftovers,  \* staged copies whose process died
    lock,       \* the process that holds the lock file, or NoProc
    pc, job,    \* per process: where it is and what it was asked to do
    mem,        \* per process: the configuration object it loaded
    serial,     \* operations that drew random values so far
    crashes,
    \* history:
    dataKeys,   \* the content keys files were written under
    claim,      \* the passwords and hints that may be current, given what was
                \* acknowledged and what was replaced into the file since
    secured,    \* the same for what is on disk: an acknowledged change counts once
                \* the directory was synced after it, a creation never does
    lost        \* what power failures took back: "update", something replaced or
                \* acknowledged since the last acknowledgement that counts in
                \* secured; "root", a root that had files

promises == <<claim, secured, lost>>

vars == <<file, durable, staged, leftovers, lock, pc, job, mem, serial,
          crashes, dataKeys, promises>>

-----------------------------------------------------------------------------
(* The configuration and what it unlocks *)

\* load: a missing or empty file is an empty configuration, a torn one an error.
Load(f) == IF f = Absent THEN NewConfig ELSE f

Readable(f) == f # Torn

\* What WriteFile leaves for others to see between truncating and writing.
Truncated == {NewConfig, Torn}

VerifierTag(key, challenge) == <<key, challenge>>

\* verifyPassword: the version must be there; the tag must match.
VerifyPassword(c, key) ==
    /\ c["verifier"] = <<1>> /\ c["challenge"] # <<>>
    /\ c["tag"] = VerifierTag(key, c["challenge"])

\* getOpenFactories: the algorithm names must be stored.
OpenFactories(c) == c["factories"] # <<>>

Enveloped(c) == c["envelope"] = <<1>>

\* unwrapRootKey: a complete record sealed with this very key.
Unwrap(c, key) ==
    IF c["nonce"] # <<>> /\ c["ciphertext"] # <<>>
       /\ c["ciphertext"][1] = key /\ c["ciphertext"][2] = c["nonce"]
    THEN c["ciphertext"][3] ELSE NoKey

\* loadPasswordWrappingKey: by the stored deriver.
WrappingKey(c, pw) == LoadKey(c["factories"][1], c, pw)

\* loadRootKeyForOpen: without an envelope the derived key is the content key.
RootKeyForOpen(c, pw) ==
    LET k == WrappingKey(c, pw)
    IN  IF k = NoKey \/ ~VerifyPassword(c, k) THEN NoKey
        ELSE IF Enveloped(c) THEN Unwrap(c, k) ELSE k

\* OpenRootQuick: the content key the password opens the root with, or NoKey.
OpenKey(f, pw) ==
    IF Readable(f) /\ OpenFactories(Load(f)) THEN RootKeyForOpen(Load(f), pw) ELSE NoKey

\* What the configuration holds for whoever knows a password.
Reading(f) ==
    LET opens == {k \in {[pw |-> pw, key |-> OpenKey(f, pw)] : pw \in Passwords} : k.key # NoKey}
    IN  IF opens = {} THEN Absent
        ELSE LET k == CHOOSE k \in opens : TRUE
             IN  [pw |-> k.pw, key |-> k.key,
                  hint |-> IF f["hint"] = <<>> THEN NoHint ELSE f["hint"][1]]

-----------------------------------------------------------------------------
(* The records the operations write *)

\* parseCreateRootOptions and applyCreateOptions: 100 ms unless the caller says more.
Applied(o) == [o EXCEPT !.ms = IF @ = 0 THEN 100 ELSE @]

\* getCreateFactories: Argon2id when the options name no deriver.
CreateFactories(o) == [o EXCEPT !.alg = IF @ = "" THEN "Argon2id" ELSE @]

\* The wrapping key has 32 bytes, the content key what the ciphers need.
ContentLength(o) == Max({o.need, 32})

DerivationLength(o) == IF o.changeable THEN 32 ELSE ContentLength(o)

\* The verifier, and the envelope of a content key, for a wrapping key.
Verifier(key, n) == [challenge |-> <<n>>, tag |-> VerifierTag(key, <<n>>), verifier |-> <<1>>]

Envelope(key, content, n) ==
    [nonce |-> <<n>>, ciphertext |-> <<key, <<n>>, content>>, envelope |-> <<1>>]

\* The configuration c after what the record r holds was stored in it.
Store(r, c) == [k \in DOMAIN c |-> IF k \in DOMAIN r THEN r[k] ELSE c[k]]

\* Every key creation stores, with the values operation j.n draws.
CreatedRecord(j) ==
    LET d == NewKey(j.opts.alg, NewConfig, [salt |-> <<j.n>>, ms |-> j.opts.ms, reuse |-> FALSE,
                                            length |-> <<DerivationLength(j.opts)>>])
        key == Key(j.opts.alg, j.pw, d)
        content == <<"random", j.n, <<ContentLength(j.opts)>>>>
    IN  Store(d, Store(Verifier(key, j.n), Store(Envelope(key, content, j.n),
            [NewConfig EXCEPT !["factories"] = <<j.opts.alg, j.opts.need>>, !["hint"] = <<j.opts.hint>>])))

\* The order creation stores them in: a version follows what it vouches for.
CreateOrder(j) ==
    <<"factories", "salt">>
      \o (IF j.opts.alg = "HKDF-SHA-256" THEN <<>> ELSE <<"cost">>)
      \o <<"length", "challenge", "tag", "verifier">>
      \o (IF j.opts.hint = NoHint THEN <<>> ELSE <<"hint">>)
      \o (IF j.opts.changeable THEN <<"nonce", "ciphertext", "envelope">> ELSE <<>>)

\* Storing the factory names and the derivation parameters ignores errors.
Unchecked == {"factories", "salt", "cost", "length"}

\* The derivation of a password change: the stored parameters, a new salt.
NewDerivation(c, j) ==
    NewKey(c["factories"][1], c, [salt |-> <<j.n>>, ms |-> 0, reuse |-> TRUE, length |-> <<32>>])

\* Mutant: the verifier follows the new password, the envelope does not.
RewrappedVerifierOnly(c, j) ==
    LET d == NewDerivation(c, j)
    IN  Store(d, Store(Verifier(Key(c["factories"][1], j.new, d), j.n), c))

\* The staged copy after a password change: a new salt, a verifier for the new
\* password, and the same content key under a new envelope.
Rewrapped(c, j) ==
    LET d == NewDerivation(c, j)
        key == Key(c["factories"][1], j.new, d)
    IN  Store(d, Store(Verifier(key, j.n), Store(Envelope(key, j.content, j.n), c)))

\* Mutant: the staged copy starts from an empty configuration.
WithHintAlone(c, j) == [NewConfig EXCEPT !["factories"] = c["factories"], !["hint"] = <<j.hint>>]

WithHint(c, j) == [c EXCEPT !["hint"] = <<j.hint>>]

-----------------------------------------------------------------------------
(* Steps *)

Idle == [kind |-> "none"]

Creators == {p \in Procs : job[p].kind = "create"}

Goto(p, l) == pc' = [pc EXCEPT ![p] = l]

\* Mutant: the lock is kept.
ReturnKeepsLock(p) == /\ pc' = [pc EXCEPT ![p] = "idle"]
                      /\ job' = [job EXCEPT ![p] = Idle]
                      /\ mem' = [mem EXCEPT ![p] = NewConfig]
                      /\ staged' = [staged EXCEPT ![p] = Absent]
                      /\ UNCHANGED lock

\* An operation ends; the lock is released and its staged copy removed by the
\* deferred calls.
Return(p) == /\ pc' = [pc EXCEPT ![p] = "idle"]
             /\ job' = [job EXCEPT ![p] = Idle]
             /\ mem' = [mem EXCEPT ![p] = NewConfig]
             /\ staged' = [staged EXCEPT ![p] = Absent]
             /\ lock' = IF lock = p THEN NoProc ELSE lock

Start(p, j) == /\ pc[p] = "idle" /\ serial < MaxOps
               /\ \/ Overlap
                  \/ Creators = {} /\ (j.kind = "create" => \A q \in Procs : pc[q] = "idle")
               /\ serial' = serial + 1
               /\ job' = [job EXCEPT ![p] = j]
               /\ UNCHANGED <<file, durable, staged, leftovers, lock, mem, crashes, dataKeys,
                              promises>>

\* createCmd and the application's createRootConfig: only where there is no root.
CreateCheck(p) ==
    /\ file = Absent /\ leftovers = 0
    /\ \E pw \in Passwords, o \in CreateOptions :
          Start(p, [kind |-> "create", pw |-> pw, opts |-> CreateFactories(Applied(o)),
                    n |-> serial + 1, at |-> 1])
    /\ Goto(p, "load")

\* NewFileConfig and getCreateFactories.
CreateLoad(p) ==
    /\ pc[p] = "load"
    /\ \/ /\ Readable(file)
          /\ mem' = [mem EXCEPT ![p] = Load(file)]
          /\ Goto(p, "set")
          /\ UNCHANGED <<job, staged, lock>>
       \/ /\ ~Readable(file)
          /\ Return(p)
    /\ UNCHANGED <<file, durable, leftovers, serial, crashes, dataKeys, promises>>

\* FileConfig.SetStr: the map changes first, then save truncates the file.
CreateSet(p) ==
    /\ pc[p] = "set"
    /\ LET k == CreateOrder(job[p])[job[p].at]
       IN  mem' = [mem EXCEPT ![p][k] = CreatedRecord(job[p])[k]]
    /\ file' \in Truncated
    /\ durable' = (durable \cap {Absent}) \cup Truncated
    /\ Goto(p, "save")
    /\ UNCHANGED <<staged, leftovers, lock, job, serial, crashes, dataKeys, promises>>

\* The rest of save.  A write may fail, and some of the callers ignore that.
CreateSave(p) ==
    LET j    == job[p]
        k    == CreateOrder(j)[j.at]
        last == j.at = Len(CreateOrder(j))
        next == /\ job' = [job EXCEPT ![p].at = j.at + 1]
                /\ Goto(p, "set")
                /\ UNCHANGED <<staged, lock, mem, promises>>
    IN  /\ pc[p] = "save"
        /\ \/ /\ file' = mem[p]
              /\ durable' = (durable \cap {Absent}) \cup Truncated \cup {mem[p]}
              /\ \/ ~last /\ next
                 \/ /\ last
                    /\ Return(p)
                    /\ claim' = [pw |-> {j.pw}, hint |-> {j.opts.hint}]
                    /\ secured' = NoClaim
                    /\ lost' = lost \ {"update"}
           \/ /\ k \in Unchecked /\ next
              /\ UNCHANGED <<file, durable>>
           \/ /\ k \notin Unchecked /\ Return(p)
              /\ UNCHANGED <<file, durable, promises>>
        /\ UNCHANGED <<leftovers, serial, crashes, dataKeys>>

\* ChangeRootPasswordContext and UpdateRootPasswordHintContext, up to the lock.
ChangeStart(p) ==
    /\ \E pw \in Passwords, new \in Passwords :
          Start(p, [kind |-> "passwd", pw |-> pw, new |-> new, n |-> serial + 1, content |-> NoKey])
    /\ Goto(p, "lock")

HintStart(p) ==
    /\ \E pw \in Passwords, h \in Hints :
          Start(p, [kind |-> "hint", pw |-> pw, hint |-> h, n |-> serial + 1, content |-> NoKey])
    /\ Goto(p, "lock")

\* tryLockRootConfigFile.
Lock(p) ==
    /\ pc[p] = "lock" /\ lock = NoProc
    /\ lock' = p
    /\ Goto(p, "verify")
    /\ UNCHANGED <<file, durable, staged, leftovers, job, mem, serial, crashes,
                   dataKeys, promises>>

\* The context's 30 seconds pass while another process holds the lock.
LockTimeout(p) ==
    /\ pc[p] = "lock" /\ lock # NoProc
    /\ Return(p)
    /\ UNCHANGED <<file, durable, leftovers, serial, crashes, dataKeys, promises>>

\* What a change reads from the configuration before it stages: the content key,
\* or NoKey when it has to give up.
Authorised(f, j) ==
    IF ~Readable(f) \/ ~OpenFactories(Load(f)) THEN NoKey
    ELSE LET c == Load(f)
             k == WrappingKey(c, j.pw)
         IN  IF k = NoKey \/ ~VerifyPassword(c, k) THEN NoKey
             ELSE IF j.kind = "hint" THEN k
             ELSE IF Enveloped(c) THEN Unwrap(c, k) ELSE NoKey

\* Load, getOpenFactories, envelope version, verifyPassword, unwrapRootKey.
Verify(p) ==
    /\ pc[p] = "verify"
    /\ LET k == Authorised(file, job[p])
       IN  \/ /\ k # NoKey
              /\ job' = [job EXCEPT ![p].content = k]
              /\ Goto(p, "stage")
              /\ UNCHANGED <<staged, lock, mem>>
           \/ /\ k = NoKey
              /\ Return(p)
    /\ UNCHANGED <<file, durable, leftovers, serial, crashes, dataKeys, promises>>

\* stageRootConfig: a synced copy of the file, read again.  It may fail.
Stage(p) ==
    /\ pc[p] = "stage"
    /\ \/ /\ file \notin {Absent, Torn}
          /\ staged' = [staged EXCEPT ![p] = file]
          /\ mem' = [mem EXCEPT ![p] = file]
          /\ Goto(p, "update")
          /\ UNCHANGED <<job, lock>>
       \/ Return(p)
    /\ UNCHANGED <<file, durable, leftovers, serial, crashes, dataKeys, promises>>

\* The keys stored in the staged copy.  Any of the writes may fail.
Update(p) ==
    /\ pc[p] = "update"
    /\ \/ LET c == IF job[p].kind = "hint" THEN WithHint(mem[p], job[p])
                   ELSE Rewrapped(mem[p], job[p])
          IN  /\ job[p].kind = "hint" \/ NewDerivation(mem[p], job[p]) # NoDerivation
              /\ mem' = [mem EXCEPT ![p] = c]
              /\ staged' = [staged EXCEPT ![p] = c]
              /\ Goto(p, "commit")
              /\ UNCHANGED <<job, lock>>
       \/ Return(p)
    /\ UNCHANGED <<file, durable, leftovers, serial, crashes, dataKeys, promises>>

\* What a claim becomes once an operation has replaced the file, and once it has
\* reported success.
Perhaps(c, j) == IF c = NoClaim THEN NoClaim
                 ELSE IF j.kind = "hint" THEN [c EXCEPT !.hint = @ \cup {j.hint}]
                 ELSE [c EXCEPT !.pw = @ \cup {j.new}]

Certain(c, j) == IF c = NoClaim THEN NoClaim
                 ELSE IF j.kind = "hint" THEN [c EXCEPT !.hint = {j.hint}]
                 ELSE [c EXCEPT !.pw = {j.new}]

\* What a reader may rely on: what was acknowledged, or, when a power failure took
\* some of it back, what was on disk.
Promised == IF "update" \in lost THEN secured ELSE claim

\* Mutant: the copy is renamed without having been synced.
CommitUnsynced(p) ==
    /\ pc[p] = "commit"
    /\ file' = staged[p]
    /\ durable' = durable \cup {staged[p], Torn}
    /\ staged' = [staged EXCEPT ![p] = Absent]
    /\ claim' = Perhaps(claim, job[p]) /\ secured' = Perhaps(secured, job[p])
    /\ Goto(p, "sync")
    /\ UNCHANGED <<lock, job, mem, leftovers, serial, crashes, dataKeys, lost>>

\* commitStagedRootConfig up to the rename: sync the copy, rename it over the file.
Commit(p) ==
    /\ pc[p] = "commit"
    /\ \/ /\ file' = staged[p]
          /\ durable' = durable \cup {staged[p]}
          /\ staged' = [staged EXCEPT ![p] = Absent]
          /\ claim' = Perhaps(claim, job[p]) /\ secured' = Perhaps(secured, job[p])
          /\ Goto(p, "sync")
          /\ UNCHANGED <<lock, job, mem, lost>>
       \/ /\ Return(p)
          /\ UNCHANGED <<file, durable, promises>>
    /\ UNCHANGED <<leftovers, serial, crashes, dataKeys>>

\* The rest of commitStagedRootConfig: the operation reports success whether or not
\* the directory could be opened and synced.
Finish(p) ==
    /\ pc[p] = "sync"
    /\ claim' = Certain(Promised, job[p])
    /\ lost' = lost \ {"update"}
    /\ \/ durable' = {file} /\ secured' = claim'
       \/ UNCHANGED <<durable, secured>>
    /\ Return(p)
    /\ UNCHANGED <<file, leftovers, serial, crashes, dataKeys>>

\* OpenRootQuick with a password that opens the root, and a file written under
\* the content key.
Open(pw) ==
    /\ OpenKey(file, pw) # NoKey /\ Creators = {}
    /\ dataKeys' = dataKeys \cup {OpenKey(file, pw)}
    /\ UNCHANGED <<file, durable, staged, leftovers, lock, pc, job, mem, serial, crashes, promises>>

\* A process is killed.  The operating system drops its lock; a staged copy stays.
Kill(p) ==
    /\ pc[p] # "idle" /\ crashes < MaxCrashes
    /\ crashes' = crashes + 1
    /\ leftovers' = leftovers + (IF staged[p] = Absent THEN 0 ELSE 1)
    /\ Return(p)
    /\ UNCHANGED <<file, durable, serial, dataKeys, promises>>

\* The creation of the root was never synced.
Unsynced == Absent \in durable

\* A power failure ends every process.  What was never synced may be lost, though
\* acknowledged: a creation, until a later change syncs the directory (nothing in
\* file_config.go does), and a change on a platform that cannot sync directories.
PowerFailure ==
    /\ crashes < MaxCrashes
    /\ crashes' = crashes + 1
    /\ file' \in durable
    /\ durable' = {file'}
    /\ leftovers' = leftovers + Cardinality({p \in Procs : staged[p] # Absent})
    /\ pc' = [p \in Procs |-> "idle"]
    /\ job' = [p \in Procs |-> Idle]
    /\ mem' = [p \in Procs |-> NewConfig]
    /\ staged' = [p \in Procs |-> Absent]
    /\ lock' = NoProc
    /\ lost' = lost \cup (IF file' # file THEN {"update"} ELSE {})
                   \cup (IF Unsynced /\ dataKeys # {} /\ Reading(file') = Absent THEN {"root"} ELSE {})
    /\ secured' = IF file' = file THEN Promised ELSE secured
    /\ UNCHANGED <<serial, dataKeys, claim>>

Init == /\ file = Absent /\ durable = {Absent} /\ leftovers = 0 /\ lock = NoProc
        /\ staged = [p \in Procs |-> Absent]
        /\ pc = [p \in Procs |-> "idle"]
        /\ job = [p \in Procs |-> Idle]
        /\ mem = [p \in Procs |-> NewConfig]
        /\ serial = 0 /\ crashes = 0 /\ dataKeys = {}
        /\ claim = NoClaim /\ secured = NoClaim /\ lost = {}

\* What a running process does next.
Step(p) == \/ CreateLoad(p) \/ CreateSet(p) \/ CreateSave(p)
           \/ Lock(p) \/ LockTimeout(p) \/ Verify(p) \/ Stage(p) \/ Update(p)
           \/ Commit(p) \/ Finish(p)

Next == \/ \E p \in Procs : CreateCheck(p) \/ ChangeStart(p) \/ HintStart(p) \/ Step(p) \/ Kill(p)
        \/ \E pw \in Passwords : Open(pw)
        \/ PowerFailure

Spec == Init /\ [][Next]_vars

\* A process that runs keeps running: the operating system schedules it, the lock
\* poll repeats every 20 ms and ends with its context.
FairSpec == Spec /\ \A p \in Procs : WF_vars(Step(p))

-----------------------------------------------------------------------------
(* Properties *)

\* The configuration f holds what the claim c says, and the key it yields is as
\* long as the ciphers of the root need it, whichever deriver the root has.
InForce(f, c) ==
    LET r == Reading(f)
    IN  /\ c.pw # {} => /\ r # Absent /\ r.pw \in c.pw
                        /\ KeyLength(r.key) >= f["factories"][2]
        /\ c.hint # {} => r # Absent /\ r.hint \in c.hint

\* A password or a hint whose change was acknowledged (ChangeRootPasswordContext,
\* UpdateRootPasswordHintContext or a creation returned nil) is the one in the
\* file, unless a later change replaced the file: no update is lost to another
\* process or a kill.  A power failure takes back at most what was acknowledged
\* without the directory having been synced: a creation, and changes since the last
\* sync; what was synced is never lost.
AckedChangesHold == Creators = {} => InForce(file, Promised)

\* Files were only ever written under one content key, and the configuration still
\* yields it: no sequence of password changes, kills, failed writes and power
\* failures leaves encrypted files behind without their key.  The exception is a
\* root whose creation no later change has synced, taken back by a power failure
\* after files were written into it.
ContentKeyStable ==
    dataKeys # {} /\ Creators = {} /\ "root" \notin lost =>
        LET r == Reading(file) IN r # Absent /\ dataKeys = {r.key}

\* The configuration is a register that changes in one step (RootSecret), seen by
\* everyone who reads the file while no creation is under way.
Secret == INSTANCE RootSecret WITH
              Nothing <- Absent,
              secret  <- IF Creators = {} THEN Reading(file) ELSE Absent,
              kept    <- IF Creators = {} THEN {Reading(f) : f \in durable} ELSE {Absent}

ImplementsSecret == Secret!Spec

\* Every operation ends, by its own steps or by the lock's timeout, and the lock
\* file is free again, whatever was killed.
OperationsEnd == /\ \A p \in Procs : []<>(pc[p] = "idle")
                 /\ []<>(lock = NoProc)
=============================================================================
