------------------------------- MODULE WebDav -------------------------------
(***************************************************************************)
(* The WebDAV session manager of the native library (sec_webdav.Manager)   *)
(* as the FFI drives it: sessions on two listeners (HTTP and HTTPS),       *)
(* persistent records kept inside the encrypted root, operating-system     *)
(* mounts, asynchronous mount and unmount operations that can be           *)
(* cancelled, requests, and the opening and closing of roots.              *)
(*                                                                         *)
(* Every section the manager runs under its mutex is one action; whatever  *)
(* it does with the mutex released (Stat, the platform's mount and         *)
(* unmount, reading the records) is a step of its own.  The random values  *)
(* drawn for a session (its id, its token, or its user, password, realm    *)
(* and key) are one identifier: who presents it presents the credentials.  *)
(*                                                                         *)
(* The mounts are those of Linux.  A store access while the root is being  *)
(* closed waits for the closing and then fails: it is taken to fail.       *)
(***************************************************************************)
EXTENDS Naturals, FiniteSets

CONSTANTS Handles, Roots, RootOf,   \* open root handles and the path each is for
          Unlocked,                 \* the handles open when the run starts
          Ids, Mounts, Ports,       \* random identifiers, mount points, TCP ports
          Procs, Reqs,              \* FFI calls and operations; HTTP requests
          Elevated,                 \* whether pkexec or sudo is there to mount with
          Options,                  \* the OpenOptions sessions are opened with
          NoSession, NoMount, NoPort,
          MaxCalls,                 \* bound on calls
          MaxNC,                    \* bound on the nonce count of a request
          MaxFaults                 \* bound on failures of the environment

Lives == {"ephemeral", "persistent"}
Modes == {"bearer", "digest", "basic"}

\* A session, and what is stored of a persistent one.
Sessions == [h : Handles, life : Lives, tls : BOOLEAN, port : Ports,
             auth : [mode : Modes, secret : Ids, maxNC : Nat],
             policy : {"unset"}, mounted : Mounts \union {NoMount}, active : Nat]
Records  == [id : Ids, life : Lives, tls : BOOLEAN, port : Ports, mode : Modes, secret : Ids]

ASSUME WebDavAssumption == /\ RootOf \in [Handles -> Roots] /\ Unlocked \subseteq Handles
                           /\ Options \subseteq [life : Lives, tls : BOOLEAN,
                                                 port : Ports \union {NoPort}, mode : {""} \union Modes]
                           /\ Handles # {} /\ Ids # {} /\ Options # {} /\ Procs # {}
                           /\ IsFiniteSet(Ids) /\ IsFiniteSet(Procs) /\ Elevated \in BOOLEAN
                           /\ NoPort \notin Ports /\ NoMount \notin Mounts /\ NoSession \notin Sessions
                           /\ MaxCalls \in Nat /\ MaxNC \in Nat /\ MaxFaults \in Nat

VARIABLES
    handle,    \* per handle: "new", "open" (in RootStore), "closing" or "closed"
    records,   \* per root: the persistent sessions stored inside it
    torn,      \* the roots whose file of records cannot be parsed any more
    sessions,  \* Manager.sessions
    listener,  \* per scheme (TRUE for TLS): the port listened on, or NoPort
    mount,     \* per mount point: where it stands
    script,    \* the mount point that davfs_mount.sh mounts; NoMount without one
    call,      \* per process: the call in progress
    req,       \* per request: what it is doing
    calls, faults,
    used,      \* identifiers drawn so far
    revoked    \* history: revoked for good, their record gone

vars == <<handle, records, torn, sessions, listener, mount, script, call, req,
          calls, faults, used, revoked>>

-----------------------------------------------------------------------------
(* Sessions, records, listeners *)

\* normalizeOpenOptions: no mode is the bearer's.
Normalized(o) == IF o.mode = "" THEN [o EXCEPT !.mode = "bearer"] ELSE o

\* newAuthLocked: the secret of the mode; digest also counts its requests.
NewAuth(i, mode) == [mode |-> mode, secret |-> i, maxNC |-> 0]

\* A stored session.  The policy is never copied into it, nor into the session
\* OpenWithOptions builds: both keep the zero value.
Record(i, o, port) == [id |-> i, life |-> o.life, tls |-> o.tls, port |-> port,
                       mode |-> o.mode, secret |-> i]

\* authFromPersistent: the stored secret; the count of a digest starts again.
AuthFromPersistent(r) == [mode |-> r.mode, secret |-> r.secret, maxNC |-> 0]

\* newActiveSession, for a session opened or restored through handle h.
ActiveSession(h, r, auth) ==
    [h |-> h, life |-> r.life, tls |-> r.tls, port |-> r.port, auth |-> auth,
     policy |-> "unset", mounted |-> NoMount, active |-> 0]

Live == {i \in Ids : sessions[i] # NoSession}

OfRoot(r) == {i \in Live : RootOf[sessions[i].h] = r}

SchemesIn(ss) == {ss[i].tls : i \in {j \in Ids : ss[j] # NoSession}}

\* Mutant: when one scheme has no session left, both stop.
StopIfIdleTogether(ls, ss) ==
    IF SchemesIn(ss) = BOOLEAN THEN ls ELSE [t \in BOOLEAN |-> NoPort]

\* stopIfIdleLocked: a scheme without sessions stops listening.
StopIfIdle(ls, ss) == [t \in BOOLEAN |-> IF t \in SchemesIn(ss) THEN ls[t] ELSE NoPort]

\* ensureSchemeListenerLocked: the ports the scheme may end up on; none when it
\* listens on another port than the one asked for.
Ensured(tls, port) ==
    IF listener[tls] # NoPort
    THEN {listener[tls]} \cap (IF port = NoPort THEN Ports ELSE {port})
    ELSE (IF port = NoPort THEN Ports ELSE {port}) \ {listener[~tls]}

\* The environment refuses once: out of a bounded supply.
Fault == faults < MaxFaults /\ faults' = faults + 1

\* The store finds the root by its path: any open handle of it will do.
StoreReachable(r) == \E h \in Handles : RootOf[h] = r /\ handle[h] = "open"

\* The records can be loaded, which every change of them begins with.
Loadable(r) == StoreReachable(r) /\ r \notin torn

\* What loading or saving the records new may leave when it fails: they are as
\* before; truncated and not written, or in part; or written, and Sync or Close fails.
SaveFails(r, new) ==
    /\ IF Loadable(r) THEN Fault ELSE UNCHANGED faults
    /\ \/ UNCHANGED <<records, torn>>
       \/ /\ Loadable(r) /\ new # {}
          /\ \/ records' = [records EXCEPT ![r] = {}] /\ torn' \in {torn, torn \union {r}}
             \/ records' = [records EXCEPT ![r] = new] /\ UNCHANGED torn

\* deletePersistentLocked
Without(rs, i) == {r \in rs : r.id # i}

-----------------------------------------------------------------------------
(* Calls *)

NoCall == [pc |-> "idle", op |-> "none", h |-> CHOOSE h \in Handles : TRUE,
           id |-> CHOOSE i \in Ids : TRUE, m |-> NoMount,
           options |-> CHOOSE o \in Options : TRUE, todo |-> {}, mounts |-> {}, cancelled |-> FALSE, failed |-> FALSE]

At(p, pc) == call[p].pc = pc

\* A call starts; the count bounds the run.
Starts(p, c) ==
    /\ At(p, "idle") /\ calls < MaxCalls
    /\ calls' = calls + 1
    /\ call' = [call EXCEPT ![p] = c]

Goes(p, pc) == call' = [call EXCEPT ![p].pc = pc]

Returns(p) == call' = [call EXCEPT ![p] = NoCall]

\* Where a call goes on when its mounts are dealt with.
AfterUnmount == [closeRoot |-> "close", revoke |-> "idle", mount |-> "checked",
                 unmount |-> "clear", cleanup |-> "clear"]

\* The call c with its mounts still to take down, or past them.
Unmounting(c) ==
    IF c.mounts # {} THEN [c EXCEPT !.pc = "unmount"]
    ELSE IF c.op = "revoke" THEN NoCall ELSE [c EXCEPT !.pc = AfterUnmount[c.op]]

-----------------------------------------------------------------------------
(* Opening and closing roots *)

\* OpenRoot_FFI up to RootStore.Add; RestorePersistent follows.
OpenRoot(p, h) ==
    /\ handle[h] = "new"
    /\ Starts(p, [NoCall EXCEPT !.pc = "load", !.op = "openRoot", !.h = h])
    /\ handle' = [handle EXCEPT ![h] = "open"]
    /\ UNCHANGED <<records, torn, sessions, listener, mount, script, req, faults, used, revoked>>

\* The call c with the records rs still to restore, or its return.
Restoring(c, rs) ==
    IF rs = {} THEN NoCall ELSE [c EXCEPT !.pc = "restore", !.todo = rs]

\* RestorePersistent reads the records without the manager's mutex.
RestoreLoad(p) ==
    /\ At(p, "load")
    /\ \/ /\ Loadable(RootOf[call[p].h])
          /\ call' = [call EXCEPT ![p] = Restoring(@, records[RootOf[@.h]])]
          /\ UNCHANGED faults
       \/ ~Loadable(RootOf[call[p].h]) /\ Returns(p) /\ UNCHANGED faults
       \/ Fault /\ Returns(p)
    /\ UNCHANGED <<handle, records, torn, sessions, listener, mount, script, req, calls, used, revoked>>

\* restorePersistent, one record, in whatever order they are stored: refused when
\* the root was closed meanwhile, the session exists, or its port cannot be had.
RestoreOne(p) ==
    LET c == call[p] IN
    /\ At(p, "restore")
    /\ \E r \in c.todo :
           /\ \/ /\ handle[c.h] = "open" /\ sessions[r.id] = NoSession
                 /\ \E port \in Ensured(r.tls, r.port) :
                       /\ listener' = [listener EXCEPT ![r.tls] = port]
                       /\ sessions' = [sessions EXCEPT ![r.id] = ActiveSession(c.h, r, AuthFromPersistent(r))]
                       /\ UNCHANGED faults
              \/ /\ \/ handle[c.h] # "open" \/ sessions[r.id] # NoSession
                    \/ Ensured(r.tls, r.port) = {}
                 /\ UNCHANGED <<listener, sessions, faults>>
              \/ Fault /\ UNCHANGED <<listener, sessions>>
           /\ call' = [call EXCEPT ![p] = Restoring(@, c.todo \ {r})]
    /\ UNCHANGED <<handle, records, torn, mount, script, req, calls, used, revoked>>

Dropped(S) == [i \in Ids |-> IF i \in S THEN NoSession ELSE sessions[i]]

MountsOf(S) == {sessions[i].mounted : i \in S} \ {NoMount}

\* CloseRoot_FFI, first part: under the cursors' mutex, so one at a time, the
\* sessions of the path go (RevokeRoot); their records stay.
CloseRoot(p, h) ==
    LET gone == OfRoot(RootOf[h]) IN
    /\ handle[h] = "open"
    /\ \A q \in Procs : call[q].op # "closeRoot"
    /\ Starts(p, Unmounting([NoCall EXCEPT !.op = "closeRoot", !.h = h, !.mounts = MountsOf(gone)]))
    /\ sessions' = Dropped(gone)
    /\ listener' = StopIfIdle(listener, sessions')
    /\ UNCHANGED <<handle, records, torn, mount, script, req, faults, used, revoked>>

\* Manager.Close, when a serving command line ends: every session and both
\* listeners go, the records stay.
CloseManager(p) ==
    /\ Live # {}
    /\ Starts(p, Unmounting([NoCall EXCEPT !.op = "revoke", !.mounts = MountsOf(Live)]))
    /\ sessions' = Dropped(Live)
    /\ listener' = [t \in BOOLEAN |-> NoPort]
    /\ UNCHANGED <<handle, records, torn, mount, script, req, faults, used, revoked>>

\* The rest, once the mounts are dealt with: root.Close announces that it wants the
\* root's lock for itself, which nobody gets for reading any more,
CloseRootAnnounce(p) ==
    /\ At(p, "close")
    /\ Goes(p, "closing")
    /\ handle' = [handle EXCEPT ![call[p].h] = "closing"]
    /\ UNCHANGED <<records, torn, sessions, listener, mount, script, req, calls, faults, used, revoked>>

\* and has it when every reader is gone; RootStore.Remove.
CloseRootEnd(p) ==
    /\ At(p, "closing")
    /\ \A q \in Reqs : ~(req[q].at = "outer" /\ req[q].h = call[p].h)
    /\ handle' = [handle EXCEPT ![call[p].h] = "closed"]
    /\ Returns(p)
    /\ UNCHANGED <<records, torn, sessions, listener, mount, script, req, calls, faults, used, revoked>>

-----------------------------------------------------------------------------
(* Sessions *)

\* Bound: no more sessions are asked for than there are identifiers.
IdsLeft == Cardinality(used) + Cardinality({q \in Procs : At(q, "register")}) < Cardinality(Ids)

\* WebDavOpenWithOptions_FFI: the handle is looked up and the exposed path
\* examined before the manager's mutex is taken.
OpenSession(p, h, o) ==
    /\ handle[h] = "open" /\ IdsLeft
    /\ Starts(p, [NoCall EXCEPT !.pc = "register", !.op = "openSession", !.h = h, !.options = o])
    /\ UNCHANGED <<handle, records, torn, sessions, listener, mount, script, req, faults, used, revoked>>

\* newValueLocked: drawn at random, a value nobody has had.
NewId == CHOOSE i \in Ids : i \notin used

\* OpenWithOptions under the mutex: listener, identifier and credentials, record,
\* session.  Each can fail; a failed draw leaves the listener running.
Register(p) ==
    LET c == Normalized(call[p].options)
        h == call[p].h
        root == RootOf[h]
    IN
    /\ At(p, "register")
    /\ Returns(p)
    /\ \/ \E port \in Ensured(c.tls, c.port) :
          LET i == NewId
              r == Record(i, c, port)
              on == [listener EXCEPT ![c.tls] = port]
          IN  \/ /\ c.life = "persistent" => Loadable(root)
                 /\ listener' = on /\ used' = used \union {i}
                 /\ records' = IF c.life = "persistent"
                               THEN [records EXCEPT ![root] = @ \union {r}] ELSE records
                 /\ sessions' = [sessions EXCEPT ![i] = ActiveSession(h, r, NewAuth(i, c.mode))]
                 /\ UNCHANGED <<torn, faults>>
              \/ /\ c.life = "persistent"            \* savePersistentLocked fails
                 /\ SaveFails(root, records[root] \union {r})
                 /\ listener' = StopIfIdle(on, sessions) /\ used' = used \union {i}
                 /\ UNCHANGED sessions
              \/ /\ Fault /\ listener' = on          \* newValueLocked, newAuthLocked fail
                 /\ UNCHANGED <<sessions, records, torn, used>>
       \/ /\ Ensured(c.tls, c.port) = {}
          /\ UNCHANGED <<sessions, records, torn, listener, used, faults>>
       \/ Fault /\ UNCHANGED <<sessions, records, torn, listener, used>>
    /\ UNCHANGED <<handle, mount, script, req, calls, revoked>>

\* Mutant: the record of a revoked session stays in the root.
RevokeKeepsRecord(p, i) ==
    /\ i \in Live
    /\ Starts(p, Unmounting([NoCall EXCEPT !.op = "revoke", !.mounts = MountsOf({i})]))
    /\ sessions' = Dropped({i})
    /\ listener' = StopIfIdle(listener, sessions')
    /\ revoked' = revoked \union {i}
    /\ UNCHANGED <<handle, records, torn, mount, script, req, faults, used>>

\* A restore that has read the record of i already.
BeingRestored(i) == \E p \in Procs : \E r \in call[p].todo : r.id = i

\* Revoke under the mutex: the session goes, and the record of a persistent one;
\* an error of the store is ignored.
Revoke(p, i) ==
    LET s == sessions[i]
        root == RootOf[s.h]
    IN
    /\ i \in Live
    /\ Starts(p, Unmounting([NoCall EXCEPT !.op = "revoke", !.mounts = MountsOf({i})]))
    /\ sessions' = Dropped({i})
    /\ listener' = StopIfIdle(listener, sessions')
    /\ \/ /\ s.life = "ephemeral" \/ Loadable(root)
          /\ records' = [records EXCEPT ![root] = Without(@, i)]
          /\ revoked' = IF BeingRestored(i) THEN revoked ELSE revoked \union {i}
          /\ UNCHANGED <<torn, faults>>
       \/ /\ s.life = "persistent"
          /\ SaveFails(root, Without(records[root], i))
          /\ UNCHANGED revoked
    /\ UNCHANGED <<handle, mount, script, req, used>>

-----------------------------------------------------------------------------
(* Mounts *)

\* MountedSession.Unmount: the first caller runs it, the others wait for it and
\* share its result, which is never computed again.
UnmountBegin(p, m) ==
    /\ At(p, "unmount") /\ m \in call[p].mounts
    /\ mount[m].once = "unused"
    /\ mount' = [mount EXCEPT ![m].once = "running", ![m].by = p]
    /\ UNCHANGED <<handle, records, torn, sessions, listener, script, call, req, calls, faults, used, revoked>>

\* umount, only of what is up, under the context of an unmount operation; then the
\* mount point is removed.
UnmountEnd(p, m) ==
    /\ mount[m].once = "running" /\ mount[m].by = p
    /\ \/ /\ mount[m].up
          /\ mount' = [mount EXCEPT ![m].once = "ok", ![m].up = FALSE, ![m].dir = FALSE]
          /\ UNCHANGED faults
       \/ /\ mount' = [mount EXCEPT ![m].once = "failed"]
          /\ IF mount[m].up /\ ~(call[p].op = "unmount" /\ call[p].cancelled)
             THEN Fault ELSE UNCHANGED faults
    /\ UNCHANGED <<handle, records, torn, sessions, listener, script, call, req, calls, used, revoked>>

\* Mutant: a waiting caller is only released by an unmount that succeeds.
UnmountedOnSuccess(p, m) ==
    LET c == call[p] IN
    /\ At(p, "unmount") /\ m \in call[p].mounts
    /\ mount[m].once = "ok"
    /\ call' = [call EXCEPT ![p] = Unmounting([c EXCEPT !.mounts = c.mounts \ {m}])]
    /\ UNCHANGED <<handle, records, torn, sessions, listener, mount, script, req, calls, faults, used, revoked>>

Unmounted(p, m) ==
    LET c == call[p] IN
    /\ At(p, "unmount") /\ m \in call[p].mounts
    /\ mount[m].once \in {"ok", "failed"}
    /\ call' = [call EXCEPT ![p] = Unmounting([c EXCEPT !.mounts = c.mounts \ {m},
                                                 !.failed = (mount[m].once = "failed")])]
    /\ UNCHANGED <<handle, records, torn, sessions, listener, mount, script, req, calls, faults, used, revoked>>

\* WebDavMountStart_FFI, the first section of Manager.Mount, and the refusal of
\* bearer tokens that mountSessionPlatform begins with.
MountStart(p, i) ==
    /\ Starts(p, [NoCall EXCEPT !.op = "mount", !.id = i,
                  !.pc = IF i \notin Live THEN "done"
                         ELSE IF sessions[i].mounted # NoMount THEN "checked"
                         ELSE IF sessions[i].auth.mode = "bearer" THEN "done" ELSE "mounting"])
    /\ UNCHANGED <<handle, records, torn, sessions, listener, mount, script, req, faults, used, revoked>>

\* os.MkdirTemp: a mount point nobody has, while the bound allows one.
NewMount ==
    LET free == {m \in Mounts : ~mount[m].dir /\ ~mount[m].up /\ mount[m].once = "unused"}
    IN  IF free = {} THEN {} ELSE {CHOOSE m \in free : TRUE}

\* mountSessionPlatform on Linux makes a directory; with pkexec or sudo the command
\* for it is then written to davfs_mount.sh beside it, which all mounts share.
MountPrepare(p) ==
    /\ At(p, "mounting")
    /\ \/ \E m \in NewMount :
             /\ mount' = [mount EXCEPT ![m].dir = TRUE, ![m].stray = FALSE]
             /\ script' = IF Elevated THEN m ELSE script
             /\ call' = [call EXCEPT ![p].pc = "command", ![p].m = m]
       \/ Goes(p, "done") /\ UNCHANGED <<mount, script>>
    /\ UNCHANGED <<handle, records, torn, sessions, listener, req, calls, faults, used, revoked>>

\* mount.davfs wants the directory, with nothing mounted on it yet.
CanMount(n) == n # NoMount /\ mount[n].dir /\ ~mount[n].up

\* The mount n is up by the command of a call that is to mount m.
Up(n, m, lost) == [mount EXCEPT ![n].up = TRUE, ![n].stray = (n # m), ![n].lost = lost]

\* cleanupWorkspace: a directory with a read-only mount on it stays.
CleanedUp(ms, m) == [ms EXCEPT ![m].dir = ms[m].up]

\* The command mounts what the script says by the time it is read.  It succeeds; or
\* it is killed when the mount is up already; or it fails.  A call that is told of
\* an error removes its directory, and in any case the script, whoever wrote it.
RunCommand(p) ==
    LET m == call[p].m
        n == IF Elevated THEN script ELSE m
    IN
    /\ At(p, "command")
    /\ \/ /\ CanMount(n)
          /\ mount' = Up(n, m, FALSE)
          /\ Goes(p, "ready") /\ UNCHANGED script
       \/ /\ CanMount(n) /\ call[p].cancelled
          /\ mount' = CleanedUp(Up(n, m, TRUE), m)
          /\ Goes(p, "done") /\ script' = NoMount
       \/ /\ mount' = CleanedUp(mount, m)
          /\ Goes(p, "done") /\ script' = NoMount
    /\ UNCHANGED <<handle, records, torn, sessions, listener, req, calls, faults, used, revoked>>

\* The script is removed.  The directory can be read, mounted on or not; or the mount
\* on it cannot: then the operation is cancelled while it waits, and the mount stays,
\* or it is taken down again, an error of which is ignored.
MountReady(p) ==
    LET m == call[p].m IN
    /\ At(p, "ready")
    /\ script' = NoMount
    /\ \/ Goes(p, "record") /\ UNCHANGED <<mount, faults>>
       \/ /\ mount[m].up /\ Goes(p, "done")
          /\ \/ /\ call[p].cancelled
                /\ mount' = [mount EXCEPT ![m].lost = TRUE] /\ UNCHANGED faults
             \/ /\ Fault
                /\ \/ mount' = [mount EXCEPT ![m].up = FALSE, ![m].dir = FALSE]
                   \/ mount' = [mount EXCEPT ![m].lost = TRUE]
    /\ UNCHANGED <<handle, records, torn, sessions, listener, req, calls, used, revoked>>

\* Mutant: the session is not looked up again.
MountRecordBlind(p) ==
    LET c == call[p] IN
    /\ At(p, "record")
    /\ IF c.id \in Live
       THEN /\ sessions' = [sessions EXCEPT ![c.id].mounted = c.m]
            /\ Goes(p, "checked")
       ELSE Goes(p, "done") /\ UNCHANGED sessions
    /\ UNCHANGED <<handle, records, torn, listener, mount, script, req, calls, faults, used, revoked>>

\* The second section of Manager.Mount: the session may be gone or mounted by
\* another call meanwhile; then this mount is taken down.
MountRecord(p) ==
    LET c == call[p] IN
    /\ At(p, "record")
    /\ IF c.id \in Live /\ sessions[c.id].mounted = NoMount
       THEN /\ sessions' = [sessions EXCEPT ![c.id].mounted = c.m]
            /\ Goes(p, "checked")
       ELSE /\ call' = [call EXCEPT ![p].pc = "unmount", ![p].mounts = {c.m},
                                    ![p].op = IF c.id \in Live THEN "mount" ELSE "revoke"]
            /\ UNCHANGED sessions
    /\ UNCHANGED <<handle, records, torn, listener, mount, script, req, calls, faults, used, revoked>>

\* The operation looks at its context: cancelled, it unmounts the session again.
MountCheck(p) ==
    /\ At(p, "checked")
    /\ IF call[p].cancelled THEN call' = [call EXCEPT ![p].pc = "detach", ![p].op = "cleanup"]
       ELSE Goes(p, "done")
    /\ UNCHANGED <<handle, records, torn, sessions, listener, mount, script, req, calls, faults, used, revoked>>

UnmountStart(p, i) ==
    /\ Starts(p, [NoCall EXCEPT !.op = "unmount", !.id = i, !.pc = "detach"])
    /\ UNCHANGED <<handle, records, torn, sessions, listener, mount, script, req, faults, used, revoked>>

\* The first section of Manager.Unmount.
Detach(p) ==
    LET c == call[p] IN
    /\ At(p, "detach")
    /\ call' = IF c.id \in Live /\ sessions[c.id].mounted # NoMount
               THEN [call EXCEPT ![p].pc = "unmount", ![p].m = sessions[c.id].mounted,
                                 ![p].mounts = {sessions[c.id].mounted}]
               ELSE [call EXCEPT ![p].pc = "done"]
    /\ UNCHANGED <<handle, records, torn, sessions, listener, mount, script, req, calls, faults, used, revoked>>

\* Its second section: a failed unmount stays listed.
ClearMount(p) ==
    LET c == call[p] IN
    /\ At(p, "clear")
    /\ sessions' = IF ~c.failed /\ c.id \in Live /\ sessions[c.id].mounted = c.m
                   THEN [sessions EXCEPT ![c.id].mounted = NoMount] ELSE sessions
    /\ Goes(p, "done")
    /\ UNCHANGED <<handle, records, torn, listener, mount, script, req, calls, faults, used, revoked>>

\* WebDavOperationCancel_FFI, or the 30 seconds are over: the context ends.
Cancel(p) ==
    /\ call[p].op \in {"mount", "unmount"} /\ ~call[p].cancelled
    /\ call[p].pc \notin {"idle", "done"}
    /\ call' = [call EXCEPT ![p].cancelled = TRUE]
    /\ UNCHANGED <<handle, records, torn, sessions, listener, mount, script, req, calls, faults, used, revoked>>

\* The poll that finds the operation finished removes it.
Finish(p) ==
    /\ At(p, "done")
    /\ Returns(p)
    /\ UNCHANGED <<handle, records, torn, sessions, listener, mount, script, req, calls, faults, used, revoked>>

-----------------------------------------------------------------------------
(* Requests *)

NoReq == [at |-> "idle", id |-> CHOOSE i \in Ids : TRUE, h |-> CHOOSE h \in Handles : TRUE,
          write |-> FALSE, policy |-> "unset"]

\* digestState.verify once the response matches: the count must have grown.
Fresh(auth, nc) == nc > auth.maxNC

\* authenticateLocked: the token, or the user and password, or a digest of them
\* with a count not used before.
Authenticated(auth, secret, nc) ==
    /\ secret = auth.secret
    /\ auth.mode = "digest" => Fresh(auth, nc)

\* acquireAuthorized: counts the request and hands out a copy of the session.
Acquire(q, i, secret, nc, write) ==
    /\ req[q].at = "idle" /\ calls < MaxCalls
    /\ i \in Live /\ listener[sessions[i].tls] = sessions[i].port
    /\ Authenticated(sessions[i].auth, secret, nc)
    /\ sessions' = [sessions EXCEPT ![i].active = @ + 1,
                      ![i].auth.maxNC = IF sessions[i].auth.mode = "digest" THEN nc ELSE @]
    /\ req' = [req EXCEPT ![q] = [at |-> "serving", id |-> i, h |-> sessions[i].h,
                                  write |-> write, policy |-> sessions[i].policy]]
    /\ calls' = calls + 1
    /\ UNCHANGED <<handle, records, torn, listener, mount, script, call, faults, used, revoked>>

\* handle and secureFileSystem: a changing method is refused under the read-only
\* policy, else it reaches the root.
Forwarded(r) == ~r.write \/ r.policy # "readOnly"

\* Nobody waits to close the root of the request: its lock can be had for reading.
RootReadable(q) == handle[req[q].h] # "closing"

\* How far a request gets in one step.  One that opens a file for reading goes through
\* secRootImpl.Open, which has the root's lock already when OpenFile asks for it again.
Reaches(r) ==
    IF ~Forwarded(r) THEN {"refused"}
    ELSE {"served"} \union {at \in {"outer"} : ~r.write /\ handle[r.h] = "open"}

Serve(q) ==
    /\ req[q].at = "serving"
    /\ Forwarded(req[q]) => RootReadable(q)
    /\ \E at \in Reaches(req[q]) : req' = [req EXCEPT ![q].at = at]
    /\ UNCHANGED <<handle, records, torn, sessions, listener, mount, script, call, calls, faults, used, revoked>>

OpenInner(q) ==
    /\ req[q].at = "outer" /\ RootReadable(q)
    /\ req' = [req EXCEPT ![q].at = "served"]
    /\ UNCHANGED <<handle, records, torn, sessions, listener, mount, script, call, calls, faults, used, revoked>>

\* releaseRequest: by identifier, whichever session has it now.
Release(q) ==
    /\ req[q].at \in {"served", "refused"}
    /\ req' = [req EXCEPT ![q] = NoReq]
    /\ sessions' = IF req[q].id \in Live /\ sessions[req[q].id].active > 0
                   THEN [sessions EXCEPT ![req[q].id].active = @ - 1] ELSE sessions
    /\ UNCHANGED <<handle, records, torn, listener, mount, script, call, calls, faults, used, revoked>>

-----------------------------------------------------------------------------
Init ==
    /\ handle = [h \in Handles |-> IF h \in Unlocked THEN "open" ELSE "new"]
    /\ records = [r \in Roots |-> {}]
    /\ sessions = [i \in Ids |-> NoSession]
    /\ listener = [t \in BOOLEAN |-> NoPort]
    /\ mount = [m \in Mounts |-> [dir |-> FALSE, up |-> FALSE, lost |-> FALSE, stray |-> FALSE,
                                  once |-> "unused", by |-> CHOOSE p \in Procs : TRUE]]
    /\ script = NoMount /\ torn = {}
    /\ call = [p \in Procs |-> NoCall]
    /\ req = [q \in Reqs |-> NoReq]
    /\ calls = 0 /\ faults = 0 /\ used = {} /\ revoked = {}

\* The steps of a call that has started.
Step(p) ==
    \/ RestoreLoad(p) \/ RestoreOne(p) \/ CloseRootAnnounce(p) \/ CloseRootEnd(p)
    \/ Register(p)
    \/ \E m \in Mounts : UnmountBegin(p, m) \/ UnmountEnd(p, m) \/ Unmounted(p, m)
    \/ MountPrepare(p) \/ RunCommand(p) \/ MountReady(p) \/ MountRecord(p) \/ MountCheck(p)
    \/ Detach(p) \/ ClearMount(p) \/ Finish(p)

NewCall(p) ==
    \/ \E h \in Handles :
          \/ OpenRoot(p, h) \/ CloseRoot(p, h)
          \/ \E o \in Options : OpenSession(p, h, o)
    \/ CloseManager(p)
    \/ \E i \in used : Revoke(p, i) \/ MountStart(p, i) \/ UnmountStart(p, i)
    \/ Cancel(p)

Request(q) ==
    \/ \E i, secret \in used, nc \in 1..MaxNC, write \in BOOLEAN :
          Acquire(q, i, secret, nc, write)
    \/ Serve(q) \/ OpenInner(q) \/ Release(q)

Next ==
    \/ \E p \in Procs : Step(p) \/ NewCall(p)
    \/ \E q \in Reqs : Request(q)

Spec == Init /\ [][Next]_vars

\* A goroutine that can go on does, a handler that holds a root's lock too; commands
\* run under a context that ends, and umount is assumed to return.
FairSpec == /\ Spec
            /\ \A p \in Procs : WF_vars(Step(p))
            /\ \A q \in Reqs : WF_vars(OpenInner(q))

-----------------------------------------------------------------------------
(* Properties *)

InHand(m) ==
    \E p \in Procs : \/ m \in call[p].mounts
                     \/ (At(p, "ready") \/ At(p, "record")) /\ call[p].m = m
                     \/ mount[m].once = "running" /\ mount[m].by = p

\* Mounted by the command of another call, which found davfs_mount.sh replaced.
MountedByAnother(m) == Elevated /\ mount[m].stray

\* "Never leave that race as an invisible system mount": a mount that is up is
\* listed with a session, or a call is about to record it or take it down.  The
\* code leaves three others: one whose unmount failed, one whose command or whose
\* wait for readiness was interrupted, and, with pkexec or sudo, one that two
\* overlapping mounts made by running each other's davfs_mount.sh.
MountsAreOwned ==
    \A m \in Mounts : mount[m].up =>
        \/ \E i \in Live : sessions[i].mounted = m
        \/ InHand(m)
        \/ mount[m].once = "failed"
        \/ mount[m].lost
        \/ MountedByAnother(m)

\* The URL of every listed session works: its scheme listens, on its port
\* (ensureServerLocked and stopIfIdleLocked, whatever is opened, restored,
\* revoked and closed in between).
SessionsAreServed ==
    \A i \in Live : listener[sessions[i].tls] = sessions[i].port

\* A revoked session never comes back, however roots are closed and opened
\* again, unless its record could not be deleted or a restore had read it before.
RevokedStaysRevoked == \A i \in revoked : sessions[i] = NoSession

\* A root is being closed while a request is between the two locks of Open.
NestedLock == \E p \in Procs, q \in Reqs :
                  At(p, "closing") /\ req[q].at = "outer" /\ req[q].h = call[p].h

\* Every call returns, whatever is unmounted at once by a revocation, a closing, an
\* unmount and a mount that finds its session gone (MountedSession.Unmount), except
\* that the closing of a root and a request that opens a file may wait for each other
\* for ever (secRootImpl.Open takes the lock twice).
CallsReturn == \A p \in Procs : ~At(p, "idle") ~> At(p, "idle") \/ NestedLock
=============================================================================
