---------------------------- MODULE WebDavProofs ----------------------------
(* Proofs about WebDav, for any handles, roots, identifiers, mount points,   *)
(* ports, options and bounds: that mounts are owned, that sessions are       *)
(* served, and that a revoked session stays revoked.                         *)
EXTENDS WebDav, FiniteSetTheorems, TLAPS

-----------------------------------------------------------------------------
(* The inductive invariant *)

Pcs == {"idle", "load", "restore", "close", "closing", "register", "unmount", "mounting",
        "command", "ready", "record", "checked", "detach", "clear", "done"}

Ops == {"none", "openRoot", "openSession", "closeRoot", "revoke", "mount", "unmount", "cleanup"}

Calls == [pc : Pcs, op : Ops, h : Handles, id : Ids, m : Mounts \union {NoMount},
          options : Options, todo : SUBSET Records, mounts : SUBSET Mounts,
          cancelled : BOOLEAN, failed : BOOLEAN]

MountStates == [dir : BOOLEAN, up : BOOLEAN, lost : BOOLEAN, stray : BOOLEAN,
                once : {"unused", "running", "ok", "failed"}, by : Procs]

\* A call on its own: it has mounts to take down and records to restore only where
\* it does so, and one that takes down the mount of a session has no other in hand.
Coherent(c) ==
    /\ c.mounts # {} => c.pc = "unmount"
    /\ c.todo # {} => c.pc = "restore"
    /\ c.pc = "unmount" => c.op \in {"closeRoot", "revoke", "mount", "unmount", "cleanup"}
    /\ c.pc = "unmount" /\ c.op \in {"unmount", "cleanup"} => c.mounts \subseteq {c.m}
    /\ c.pc = "detach" => c.op \in {"unmount", "cleanup"}
    /\ c.pc \in {"command", "ready", "record"} => c.m \in Mounts

CallOK(c) == c \in Calls /\ Coherent(c)

TypeOK ==
    /\ DOMAIN records = Roots /\ \A r \in Roots : records[r] \subseteq Records
    /\ sessions \in [Ids -> Sessions \union {NoSession}]
    /\ listener \in [BOOLEAN -> Ports \union {NoPort}]
    /\ mount \in [Mounts -> MountStates] /\ script \in Mounts \union {NoMount}
    /\ DOMAIN call = Procs /\ \A p \in Procs : CallOK(call[p])
    /\ used \subseteq Ids /\ revoked \subseteq used

\* A fresh identifier is left for every session being opened.
Registering == {q \in Procs : At(q, "register")}

FreshLeft == Cardinality(used) + Cardinality(Registering) <= Cardinality(Ids)

\* Where identifier i turns up at root r: in a record stored there, in one a call
\* has read and will restore, or as a session.
Stored(i, r)  == \E x \in records[r] : x.id = i
Pending(i, r) == \E p \in Procs : RootOf[call[p].h] = r /\ \E x \in call[p].todo : x.id = i
Served(i, r)  == i \in Live /\ RootOf[sessions[i].h] = r

Appears(i, r) == Stored(i, r) \/ Pending(i, r) \/ Served(i, r)

\* One that turns up has been drawn, was not revoked for good, and turns up at one
\* root only: so deleting the record there deletes the only one.
AppearsOnce ==
    \A i \in Ids, r \in Roots : Appears(i, r) =>
        /\ i \in used /\ i \notin revoked
        /\ \A s \in Roots : Appears(i, s) => s = r

\* An unmount that succeeded left nothing up and no directory to mount on, and who
\* clears the mount of a session has seen its unmount succeed.
DownWhenOk == \A m \in Mounts : mount[m].once = "ok" => ~mount[m].up /\ ~mount[m].dir

Cleared(c) == c.pc = "clear" /\ ~c.failed => c.m \in Mounts /\ mount[c.m].once = "ok"

ClearedAreDown == \A p \in Procs : Cleared(call[p])

IInv == /\ TypeOK /\ FreshLeft /\ AppearsOnce /\ SessionsAreServed
        /\ DownWhenOk /\ ClearedAreDown /\ MountsAreOwned

-----------------------------------------------------------------------------
(* What a step of a call leaves of the invariant *)

\* The call of p becomes c.
CallBecomes(p, c) == p \in Procs /\ CallOK(c) /\ call' = [call EXCEPT ![p] = c]

LEMMA NoCallOK == CallOK(NoCall) /\ NoCall.pc = "idle" /\ NoCall.todo = {} /\ NoCall.mounts = {}
<1>1. (CHOOSE h \in Handles : TRUE) \in Handles  BY WebDavAssumption
<1>2. (CHOOSE i \in Ids : TRUE) \in Ids  BY WebDavAssumption
<1>3. (CHOOSE o \in Options : TRUE) \in Options  BY WebDavAssumption
<1>4. NoCall \in Calls  BY <1>1, <1>2, <1>3 DEF NoCall, Calls, Pcs, Ops
<1> QED  BY <1>4 DEF NoCall, CallOK, Coherent

LEMMA CallStepped ==
    ASSUME TypeOK, NEW p, NEW c, CallBecomes(p, c)
    PROVE  /\ DOMAIN call' = Procs /\ \A q \in Procs : CallOK(call'[q])
           /\ call'[p] = c /\ \A q \in Procs \ {p} : call'[q] = call[q]
<1>1. DOMAIN call = Procs /\ \A q \in Procs : CallOK(call[q])  BY DEF TypeOK
<1>2. p \in Procs /\ CallOK(c) /\ call' = [call EXCEPT ![p] = c]  BY DEF CallBecomes
<1> QED  BY <1>1, <1>2

\* One call steps and draws no identifier: one is still left for each that will.
LEMMA FreshKept ==
    ASSUME TypeOK, FreshLeft, used' = used, Registering' \subseteq Registering
    PROVE  FreshLeft'
<1>1. IsFiniteSet(Registering)  BY WebDavAssumption, FS_Subset DEF Registering
<1>2. IsFiniteSet(Registering') /\ Cardinality(Registering') <= Cardinality(Registering)
      BY <1>1, FS_Subset
<1>3. IsFiniteSet(used) /\ IsFiniteSet(Ids)  BY WebDavAssumption, FS_Subset DEF TypeOK
<1>4. /\ Cardinality(Registering') \in Nat /\ Cardinality(Registering) \in Nat
      /\ Cardinality(used) \in Nat /\ Cardinality(Ids) \in Nat
      BY <1>1, <1>2, <1>3, FS_CardinalityType
<1>5. Cardinality(used') = Cardinality(used)  OBVIOUS
<1> QED  BY <1>2, <1>4, <1>5 DEF FreshLeft

LEMMA RegisteringLess ==
    ASSUME TypeOK, NEW p, NEW c, CallBecomes(p, c), c.pc # "register"
    PROVE  Registering' \subseteq Registering
<1>1. call'[p] = c /\ \A q \in Procs \ {p} : call'[q] = call[q]  BY CallStepped
<1> QED  BY <1>1 DEF Registering, At

\* Nothing turns up anew: what turned up once still does.
LEMMA AppearsKept ==
    ASSUME AppearsOnce, used \subseteq used', revoked' = revoked,
           \A i \in Ids, r \in Roots : Appears(i, r)' => Appears(i, r)
    PROVE  AppearsOnce'
<1>1. ASSUME NEW i \in Ids, NEW r \in Roots, Appears(i, r)'
      PROVE  i \in used' /\ i \notin revoked' /\ \A s \in Roots : Appears(i, s)' => s = r
  <2>1. Appears(i, r)  BY <1>1
  <2>2. i \in used /\ i \notin revoked /\ \A s \in Roots : Appears(i, s) => s = r
        BY <2>1 DEF AppearsOnce
  <2> QED  BY <2>2
<1> QED  BY <1>1 DEF AppearsOnce

\* What the call c will restore turns up at its root already.
Known(c) == \A x \in c.todo : Appears(x.id, RootOf[c.h])

SessionsKnown == \A i \in Ids : sessions'[i] # NoSession => Appears(i, RootOf[sessions'[i].h])

LEMMA NothingNew ==
    ASSUME TypeOK, NEW p, NEW c, CallBecomes(p, c), Known(c), SessionsKnown,
           \A r \in Roots : records'[r] \subseteq records[r]
    PROVE  \A i \in Ids, r \in Roots : Appears(i, r)' => Appears(i, r)
<1> SUFFICES ASSUME NEW i \in Ids, NEW r \in Roots, Appears(i, r)'
             PROVE  Appears(i, r)
    OBVIOUS
<1>1. CASE Stored(i, r)'
  <2>1. Stored(i, r)  BY <1>1 DEF Stored
  <2> QED  BY <2>1 DEF Appears
<1>2. CASE Pending(i, r)'
  <2>1. PICK q \in Procs : RootOf[call'[q].h] = r /\ \E x \in call'[q].todo : x.id = i
        BY <1>2 DEF Pending
  <2>2. CASE q = p
    <3>1. call'[q] = c  BY <2>2, CallStepped
    <3> QED  BY <3>1, <2>1 DEF Known
  <2>3. CASE q # p
    <3>1. call'[q] = call[q]  BY <2>3, CallStepped
    <3>2. Pending(i, r)  BY <3>1, <2>1 DEF Pending
    <3> QED  BY <3>2 DEF Appears
  <2> QED  BY <2>2, <2>3
<1>3. CASE Served(i, r)'
  <2>1. sessions'[i] # NoSession /\ RootOf[sessions'[i].h] = r  BY <1>3 DEF Served, Live
  <2> QED  BY <2>1 DEF SessionsKnown
<1> QED  BY <1>1, <1>2, <1>3 DEF Appears

\* The mount m is in the hands of the call c, or needs no hands.
Holds(c, m) == m \in c.mounts \/ (c.pc \in {"ready", "record"} /\ c.m = m)

Listed(m) == \E i \in Live : sessions[i].mounted = m

Settled(m) == ~mount[m].up \/ mount[m].once = "failed"

LEMMA OwnedKept ==
    ASSUME TypeOK, MountsAreOwned, NEW p, NEW c, CallBecomes(p, c), mount' = mount,
           \A m \in Mounts : Holds(call[p], m) \/ Listed(m) =>
                                Holds(c, m) \/ Listed(m)' \/ Settled(m)
    PROVE  MountsAreOwned'
<1> SUFFICES ASSUME NEW m \in Mounts, mount'[m].up, mount'[m].once # "failed", ~mount'[m].lost,
                    ~MountedByAnother(m)'
             PROVE  Listed(m)' \/ InHand(m)'
    BY DEF MountsAreOwned, Listed
<1>1. Listed(m) \/ InHand(m)  BY DEF MountsAreOwned, Listed, MountedByAnother
<1>2. ~Settled(m)  BY DEF Settled
<1>3. p \in Procs /\ call'[p] = c /\ \A q \in Procs \ {p} : call'[q] = call[q]
      BY CallStepped DEF CallBecomes
<1>4. ASSUME Holds(c, m) PROVE InHand(m)'
      BY <1>4, <1>3 DEF Holds, InHand, At
<1>5. CASE Listed(m)  BY <1>5, <1>2, <1>4
<1>6. CASE InHand(m)
  <2>1. PICK q \in Procs : \/ Holds(call[q], m)
                           \/ mount[m].once = "running" /\ mount[m].by = q
        BY <1>6 DEF InHand, Holds, At
  <2>2. CASE mount[m].once = "running" /\ mount[m].by = q  BY <2>2 DEF InHand
  <2>3. CASE Holds(call[q], m) /\ q = p  BY <2>3, <1>2, <1>4
  <2>4. CASE Holds(call[q], m) /\ q # p
    <3>1. Holds(call'[q], m)  BY <2>4, <1>3
    <3> QED  BY <3>1 DEF InHand, Holds, At
  <2> QED  BY <2>1, <2>2, <2>3, <2>4
<1> QED  BY <1>1, <1>5, <1>6

LEMMA ClearedKept ==
    ASSUME TypeOK, ClearedAreDown, NEW p, NEW c, CallBecomes(p, c), mount' = mount, Cleared(c)
    PROVE  ClearedAreDown'
<1>1. p \in Procs /\ call'[p] = c /\ \A q \in Procs \ {p} : call'[q] = call[q]
      BY CallStepped DEF CallBecomes
<1> QED  BY <1>1 DEF ClearedAreDown, Cleared

-----------------------------------------------------------------------------
(* Steps that only change the call of one process *)

Still == UNCHANGED <<records, sessions, listener, mount, script, used, revoked>>

LEMMA Stays == ASSUME IInv, Still, call' = call PROVE IInv'
<1>1. TypeOK'  BY DEF IInv, Still, TypeOK
<1>2. FreshLeft'  BY DEF IInv, Still, FreshLeft, Registering, At
<1>3. AppearsOnce'
      BY DEF IInv, Still, AppearsOnce, Appears, Stored, Pending, Served, Live
<1>4. SessionsAreServed'  BY DEF IInv, Still, SessionsAreServed, Live
<1>5. DownWhenOk' /\ ClearedAreDown'  BY DEF IInv, Still, DownWhenOk, ClearedAreDown, Cleared
<1>6. MountsAreOwned'  BY DEF IInv, Still, MountsAreOwned, InHand, At, Live, MountedByAnother
<1> QED  BY <1>1, <1>2, <1>3, <1>4, <1>5, <1>6 DEF IInv

LEMMA LiveKnown == ASSUME UNCHANGED sessions, TypeOK PROVE SessionsKnown
<1> SUFFICES ASSUME NEW i \in Ids, sessions'[i] # NoSession
             PROVE  Appears(i, RootOf[sessions'[i].h])
    BY DEF SessionsKnown
<1>1. Served(i, RootOf[sessions[i].h])  BY DEF Served, Live
<1> QED  BY <1>1 DEF Appears

LEMMA CallMovesBut ==
    ASSUME IInv, Still, NEW p, NEW c, CallBecomes(p, c), Known(c), Cleared(c), FreshLeft',
           \A m \in Mounts : Holds(call[p], m) => Holds(c, m) \/ Settled(m)
    PROVE  IInv'
<1>0. TypeOK /\ AppearsOnce /\ ClearedAreDown /\ MountsAreOwned  BY DEF IInv
<1>1. TypeOK'
  <2>1. DOMAIN call' = Procs /\ \A q \in Procs : CallOK(call'[q])  BY <1>0, CallStepped
  <2> QED  BY <2>1, <1>0 DEF TypeOK, Still
<1>2. AppearsOnce'
  <2>1. SessionsKnown  BY <1>0, LiveKnown DEF Still
  <2>2. \A r \in Roots : records'[r] \subseteq records[r]  BY DEF Still
  <2>3. \A i \in Ids, r \in Roots : Appears(i, r)' => Appears(i, r)
        BY <1>0, <2>1, <2>2, NothingNew
  <2> QED  BY <1>0, <2>3, AppearsKept DEF Still
<1>3. SessionsAreServed' /\ DownWhenOk'
      BY DEF IInv, Still, SessionsAreServed, DownWhenOk, Live
<1>4. ClearedAreDown'  BY <1>0, ClearedKept DEF Still
<1>5. MountsAreOwned'
  <2>1. \A m \in Mounts : Listed(m)' <=> Listed(m)  BY DEF Still, Listed, Live
  <2>2. \A m \in Mounts : Holds(call[p], m) \/ Listed(m) =>
                             Holds(c, m) \/ Listed(m)' \/ Settled(m)
        BY <2>1
  <2> QED  BY <1>0, <2>2, OwnedKept DEF Still
<1> QED  BY <1>1, <1>2, <1>3, <1>4, <1>5 DEF IInv

LEMMA CallMoves ==
    ASSUME IInv, Still, NEW p, NEW c, CallBecomes(p, c), Known(c), Cleared(c),
           c.pc # "register",
           \A m \in Mounts : Holds(call[p], m) => Holds(c, m) \/ Settled(m)
    PROVE  IInv'
<1>1. FreshLeft'  BY RegisteringLess, FreshKept DEF IInv, Still
<1> QED  BY <1>1, CallMovesBut

\* A call that has no mount in hand and comes to a place of no account.
Quiet == {"idle", "load", "close", "closing", "mounting", "checked", "detach", "done"}

LEMMA QuietHolds ==
    ASSUME NEW c, CallOK(c), c.pc \notin {"unmount", "ready", "record"}, NEW m
    PROVE  ~Holds(c, m)
BY DEF CallOK, Coherent, Holds

LEMMA QuietMoves ==
    ASSUME IInv, Still, NEW p, NEW c, CallBecomes(p, c), c.pc \in Quiet,
           call[p].pc \notin {"unmount", "ready", "record"}
    PROVE  IInv'
<1>1. CallOK(call[p])  BY DEF IInv, TypeOK, CallBecomes
<1>2. \A m \in Mounts : ~Holds(call[p], m)  BY <1>1, QuietHolds
<1>3. CallOK(c)  BY DEF CallBecomes
<1>4. c.todo = {}  BY <1>3 DEF CallOK, Coherent, Quiet
<1>5. Known(c) /\ Cleared(c) /\ c.pc # "register"  BY <1>4 DEF Known, Cleared, Quiet
<1> QED  BY <1>2, <1>5, CallMoves

LEMMA ReturnsMoves ==
    ASSUME IInv, Still, NEW p \in Procs, Returns(p), call[p].pc \notin {"unmount", "ready", "record"}
    PROVE  IInv'
<1>1. CallBecomes(p, NoCall)  BY NoCallOK DEF CallBecomes, Returns
<1>2. NoCall.pc \in Quiet  BY NoCallOK DEF Quiet
<1> QED  BY <1>1, <1>2, QuietMoves

LEMMA GoesMoves ==
    ASSUME IInv, Still, NEW p \in Procs, NEW pc \in {"closing", "checked", "done"}, Goes(p, pc),
           call[p].pc \notin {"unmount", "ready", "record", "restore"}
    PROVE  IInv'
<1>1. CallOK(call[p])  BY DEF IInv, TypeOK
<1>2. PICK c : c = [call[p] EXCEPT !.pc = pc]  OBVIOUS
<1>3. c \in Calls /\ c.pc = pc  BY <1>1, <1>2 DEF CallOK, Calls, Pcs
<1>4. Coherent(c)  BY <1>1, <1>2 DEF CallOK, Coherent, Calls
<1>5. CallBecomes(p, c)  BY <1>2, <1>3, <1>4 DEF CallBecomes, Goes, CallOK
<1>6. c.pc \in Quiet  BY <1>3 DEF Quiet
<1> QED  BY <1>5, <1>6, QuietMoves

-----------------------------------------------------------------------------
(* One lemma for every action *)

LEMMA OpenRootStep == ASSUME IInv, NEW p \in Procs, NEW h \in Handles, OpenRoot(p, h) PROVE IInv'
<1>1. PICK c : c = [NoCall EXCEPT !.pc = "load", !.op = "openRoot", !.h = h]  OBVIOUS
<1>2. CallOK(c) /\ c.pc = "load"
      BY <1>1, NoCallOK DEF CallOK, Calls, Pcs, Ops, Coherent
<1>3. CallBecomes(p, c) /\ call[p].pc = "idle"  BY <1>1, <1>2 DEF OpenRoot, Starts, At, CallBecomes
<1>4. Still /\ c.pc \in Quiet  BY <1>2 DEF OpenRoot, Still, Quiet
<1> QED  BY <1>3, <1>4, QuietMoves

LEMMA RestoreLoadStep == ASSUME IInv, NEW p \in Procs, RestoreLoad(p) PROVE IInv'
<1>1. call[p].pc = "load" /\ Still  BY DEF RestoreLoad, At, Still
<1>2. CASE Returns(p)  BY <1>1, <1>2, ReturnsMoves
<1>3. CASE call' = [call EXCEPT ![p] = Restoring(@, records[RootOf[@.h]])]
  <2>1. CallOK(call[p]) /\ DOMAIN call = Procs  BY DEF IInv, TypeOK
  <2>2. call[p].h \in Handles  BY <2>1 DEF CallOK, Calls
  <2>3. PICK r \in Roots : r = RootOf[call[p].h]  BY <2>2, WebDavAssumption
  <2>4. records[r] \subseteq Records  BY <2>3 DEF IInv, TypeOK
  <2>5. call' = [call EXCEPT ![p] = Restoring(call[p], records[r])]  BY <1>3, <2>1, <2>3
  <2>6. CASE records[r] = {}
    <3>1. Returns(p)  BY <2>5, <2>6 DEF Restoring, Returns
    <3> QED  BY <1>1, <3>1, ReturnsMoves
  <2>7. CASE records[r] # {}
    <3>1. PICK c : c = [call[p] EXCEPT !.pc = "restore", !.todo = records[r]]  OBVIOUS
    <3>2. c \in Calls /\ c.pc = "restore" /\ c.todo = records[r] /\ c.h = call[p].h
          BY <3>1, <2>1, <2>4 DEF CallOK, Calls, Pcs
    <3>3. Coherent(c)  BY <3>1, <2>1, <1>1 DEF CallOK, Calls, Coherent
    <3>4. CallBecomes(p, c)
          BY <2>5, <2>7, <3>1, <3>2, <3>3 DEF Restoring, CallBecomes, CallOK
    <3>5. Known(c)
      <4>1. \A x \in c.todo : Stored(x.id, r)  BY <3>2 DEF Stored
      <4> QED  BY <4>1, <3>2, <2>3 DEF Known, Appears
    <3>6. Cleared(c) /\ c.pc # "register"  BY <3>2 DEF Cleared
    <3>7. \A m \in Mounts : ~Holds(call[p], m)  BY <2>1, <1>1, QuietHolds
    <3> QED  BY <1>1, <3>4, <3>5, <3>6, <3>7, CallMoves
  <2> QED  BY <2>6, <2>7
<1> QED  BY <1>2, <1>3 DEF RestoreLoad

LEMMA CloseRootAnnounceStep == ASSUME IInv, NEW p \in Procs, CloseRootAnnounce(p) PROVE IInv'
<1>1. Goes(p, "closing") /\ call[p].pc = "close" /\ Still
      BY DEF CloseRootAnnounce, At, Still
<1> QED  BY <1>1, GoesMoves

LEMMA CloseRootEndStep == ASSUME IInv, NEW p \in Procs, CloseRootEnd(p) PROVE IInv'
<1>1. Returns(p) /\ call[p].pc = "closing" /\ Still  BY DEF CloseRootEnd, At, Still
<1> QED  BY <1>1, ReturnsMoves

LEMMA FinishStep == ASSUME IInv, NEW p \in Procs, Finish(p) PROVE IInv'
<1>1. Returns(p) /\ call[p].pc = "done" /\ Still  BY DEF Finish, At, Still
<1> QED  BY <1>1, ReturnsMoves

LEMMA MountStartStep == ASSUME IInv, NEW p \in Procs, NEW i \in Ids, MountStart(p, i) PROVE IInv'
<1>1. PICK l \in {"done", "checked", "mounting"} :
         l = IF i \notin Live THEN "done"
             ELSE IF sessions[i].mounted # NoMount THEN "checked"
             ELSE IF sessions[i].auth.mode = "bearer" THEN "done" ELSE "mounting"
      OBVIOUS
<1>2. PICK c : c = [NoCall EXCEPT !.op = "mount", !.id = i, !.pc = l]  OBVIOUS
<1>3. CallOK(c) /\ c.pc = l
      BY <1>2, NoCallOK DEF CallOK, Calls, Pcs, Ops, Coherent
<1>4. CallBecomes(p, c) /\ call[p].pc = "idle"
      BY <1>1, <1>2, <1>3 DEF MountStart, Starts, At, CallBecomes
<1>5. Still /\ c.pc \in Quiet  BY <1>3 DEF MountStart, Still, Quiet
<1> QED  BY <1>4, <1>5, QuietMoves

LEMMA UnmountStartStep == ASSUME IInv, NEW p \in Procs, NEW i \in Ids, UnmountStart(p, i) PROVE IInv'
<1>1. PICK c : c = [NoCall EXCEPT !.op = "unmount", !.id = i, !.pc = "detach"]  OBVIOUS
<1>2. CallOK(c) /\ c.pc = "detach"
      BY <1>1, NoCallOK DEF CallOK, Calls, Pcs, Ops, Coherent
<1>3. CallBecomes(p, c) /\ call[p].pc = "idle"
      BY <1>1, <1>2 DEF UnmountStart, Starts, At, CallBecomes
<1>4. Still /\ c.pc \in Quiet  BY <1>2 DEF UnmountStart, Still, Quiet
<1> QED  BY <1>3, <1>4, QuietMoves

LEMMA MountCheckStep == ASSUME IInv, NEW p \in Procs, MountCheck(p) PROVE IInv'
<1>1. call[p].pc = "checked" /\ Still  BY DEF MountCheck, At, Still
<1>2. CASE Goes(p, "done")  BY <1>1, <1>2, GoesMoves
<1>3. CASE call' = [call EXCEPT ![p].pc = "detach", ![p].op = "cleanup"]
  <2>1. CallOK(call[p]) /\ DOMAIN call = Procs  BY DEF IInv, TypeOK
  <2>2. PICK c : c = [call[p] EXCEPT !.pc = "detach", !.op = "cleanup"]  OBVIOUS
  <2>3. c \in Calls /\ c.pc = "detach" /\ Coherent(c)
        BY <2>1, <2>2, <1>1 DEF CallOK, Calls, Pcs, Ops, Coherent
  <2>4. CallBecomes(p, c)  BY <1>3, <2>1, <2>2, <2>3 DEF CallBecomes, CallOK
  <2>5. c.pc \in Quiet  BY <2>3 DEF Quiet
  <2> QED  BY <1>1, <2>4, <2>5, QuietMoves
<1> QED  BY <1>2, <1>3 DEF MountCheck

LEMMA DetachStep == ASSUME IInv, NEW p \in Procs, Detach(p) PROVE IInv'
<1>1. call[p].pc = "detach" /\ Still  BY DEF Detach, At, Still
<1>2. CallOK(call[p]) /\ DOMAIN call = Procs  BY DEF IInv, TypeOK
<1>3. CASE ~(call[p].id \in Live /\ sessions[call[p].id].mounted # NoMount)
  <2>1. Goes(p, "done")  BY <1>3 DEF Detach, Goes
  <2> QED  BY <1>1, <2>1, GoesMoves
<1>4. CASE call[p].id \in Live /\ sessions[call[p].id].mounted # NoMount
  <2>1. PICK i \in Ids : i = call[p].id /\ sessions[i] # NoSession  BY <1>4 DEF Live
  <2>2. sessions[i] \in Sessions  BY <2>1 DEF IInv, TypeOK
  <2>3. PICK m \in Mounts : m = sessions[i].mounted  BY <1>4, <2>1, <2>2 DEF Sessions
  <2>4. PICK c : c = [call[p] EXCEPT !.pc = "unmount", !.m = m, !.mounts = {m}]  OBVIOUS
  <2>5. c \in Calls /\ c.pc = "unmount" /\ Coherent(c)
        BY <1>1, <1>2, <2>4 DEF CallOK, Calls, Pcs, Coherent
  <2>6. CallBecomes(p, c)
        BY <1>2, <1>4, <2>1, <2>3, <2>4, <2>5 DEF Detach, CallBecomes, CallOK
  <2>7. Known(c) /\ Cleared(c) /\ c.pc # "register"
        BY <2>5 DEF Known, Cleared, Coherent
  <2>8. \A n \in Mounts : ~Holds(call[p], n)  BY <1>1, <1>2, QuietHolds
  <2> QED  BY <1>1, <2>6, <2>7, <2>8, CallMoves
<1> QED  BY <1>3, <1>4

LEMMA CancelStep == ASSUME IInv, NEW p \in Procs, Cancel(p) PROVE IInv'
<1>1. Still /\ call[p].op \in {"mount", "unmount"}  BY DEF Cancel, Still
<1>2. CallOK(call[p]) /\ DOMAIN call = Procs  BY DEF IInv, TypeOK
<1>3. PICK c : c = [call[p] EXCEPT !.cancelled = TRUE]  OBVIOUS
<1>4. c \in Calls /\ c.pc = call[p].pc /\ c.m = call[p].m /\ c.mounts = call[p].mounts
      /\ c.failed = call[p].failed /\ c.todo = call[p].todo /\ c.h = call[p].h
      /\ c.op = call[p].op
      BY <1>2, <1>3 DEF CallOK, Calls
<1>5. Coherent(c)  BY <1>2, <1>4 DEF CallOK, Coherent
<1>6. CallBecomes(p, c)  BY <1>2, <1>3, <1>4, <1>5 DEF Cancel, CallBecomes, CallOK
<1>7. Known(c)
  <2>1. \A x \in c.todo : Pending(x.id, RootOf[c.h])  BY <1>4 DEF Pending
  <2> QED  BY <2>1 DEF Known, Appears
<1>8. Cleared(c)  BY <1>4 DEF IInv, ClearedAreDown, Cleared
<1>9. \A m \in Mounts : Holds(call[p], m) => Holds(c, m)  BY <1>4 DEF Holds
<1>10. FreshLeft'
  <2>1. call'[p] = c /\ \A q \in Procs \ {p} : call'[q] = call[q]
        BY <1>6, CallStepped DEF IInv
  <2>2. Registering' \subseteq Registering  BY <1>4, <2>1 DEF Registering, At
  <2> QED  BY <1>1, <2>2, FreshKept DEF IInv, Still
<1> QED  BY <1>1, <1>6, <1>7, <1>8, <1>9, <1>10, CallMovesBut

\* A call with its mounts still to take down, or past them.
LEMMA UnmountingOK ==
    ASSUME NEW c \in Calls, c.todo = {},
           c.op \in {"closeRoot", "revoke", "mount", "unmount", "cleanup"},
           c.op \in {"unmount", "cleanup"} => c.mounts \subseteq {c.m}
    PROVE  /\ CallOK(Unmounting(c))
           /\ Unmounting(c).mounts = c.mounts /\ Unmounting(c).todo = {}
           /\ Unmounting(c).pc \notin {"register", "ready", "record", "restore"}
           /\ Unmounting(c).pc = "clear" =>
                 /\ c.op \in {"unmount", "cleanup"}
                 /\ Unmounting(c).m = c.m /\ Unmounting(c).failed = c.failed
<1>1. PICK d : d = Unmounting(c)  OBVIOUS
<1>2. CASE c.mounts # {}
  <2>1. d = [c EXCEPT !.pc = "unmount"]  BY <1>1, <1>2 DEF Unmounting
  <2>2. d \in Calls /\ d.pc = "unmount" /\ d.mounts = c.mounts /\ d.todo = {} /\ d.m = c.m
        /\ d.op = c.op
        BY <2>1 DEF Calls, Pcs
  <2> QED  BY <1>1, <2>2 DEF CallOK, Coherent
<1>3. CASE c.mounts = {} /\ c.op = "revoke"
  <2>1. d = NoCall  BY <1>1, <1>3 DEF Unmounting
  <2> QED  BY <1>1, <1>3, <2>1, NoCallOK
<1>4. CASE c.mounts = {} /\ c.op # "revoke"
  <2>1. PICK l \in {"close", "checked", "clear"} :
           l = AfterUnmount[c.op] /\ (l = "clear" => c.op \in {"unmount", "cleanup"})
        BY <1>4 DEF AfterUnmount
  <2>2. d = [c EXCEPT !.pc = l]  BY <1>1, <1>4, <2>1 DEF Unmounting
  <2>3. d \in Calls /\ d.pc = l /\ d.mounts = {} /\ d.todo = {} /\ d.m = c.m
        /\ d.failed = c.failed
        BY <1>4, <2>2 DEF Calls, Pcs
  <2> QED  BY <1>1, <1>4, <2>1, <2>3 DEF CallOK, Coherent
<1> QED  BY <1>2, <1>3, <1>4

LEMMA UnmountedStep ==
    ASSUME IInv, NEW p \in Procs, NEW m \in Mounts, Unmounted(p, m)
    PROVE  IInv'
<1>1. /\ call[p].pc = "unmount" /\ m \in call[p].mounts /\ mount[m].once \in {"ok", "failed"}
      /\ Still
      BY DEF Unmounted, At, Still
<1>2. CallOK(call[p]) /\ DOMAIN call = Procs  BY DEF IInv, TypeOK
<1>3. PICK c : c = [call[p] EXCEPT !.mounts = @ \ {m}, !.failed = (mount[m].once = "failed")]
      OBVIOUS
<1>4. /\ c \in Calls /\ c.op = call[p].op /\ c.m = call[p].m /\ c.todo = call[p].todo
      /\ c.mounts = call[p].mounts \ {m} /\ c.failed = (mount[m].once = "failed")
      BY <1>2, <1>3 DEF CallOK, Calls
<1>5. /\ call[p].op \in {"closeRoot", "revoke", "mount", "unmount", "cleanup"}
      /\ call[p].op \in {"unmount", "cleanup"} => call[p].mounts \subseteq {call[p].m}
      /\ call[p].todo = {}
      BY <1>1, <1>2 DEF CallOK, Coherent
<1>6. PICK d : d = Unmounting(c)  OBVIOUS
<1>7. /\ CallOK(d) /\ d.mounts = c.mounts /\ d.todo = {}
      /\ d.pc \notin {"register", "ready", "record", "restore"}
      /\ d.pc = "clear" => /\ c.op \in {"unmount", "cleanup"} /\ d.m = c.m /\ d.failed = c.failed
  <2>1. c.op \in {"unmount", "cleanup"} => c.mounts \subseteq {c.m}  BY <1>4, <1>5
  <2>2. c.op \in {"closeRoot", "revoke", "mount", "unmount", "cleanup"} /\ c.todo = {}
        BY <1>4, <1>5
  <2> QED  BY <1>4, <1>6, <2>1, <2>2, UnmountingOK
<1>8. CallBecomes(p, d)
  <2>1. call' = [call EXCEPT ![p] = Unmounting(c)]  BY <1>3 DEF Unmounted
  <2> QED  BY <1>6, <1>7, <2>1 DEF CallBecomes
<1>9. Known(d) /\ d.pc # "register"  BY <1>7 DEF Known
<1>10. Cleared(d)
  <2>1. ASSUME d.pc = "clear", ~d.failed PROVE d.m \in Mounts /\ mount[d.m].once = "ok"
    <3>1. d.m = m  BY <1>1, <1>4, <1>5, <1>7, <2>1
    <3>2. mount[m].once # "failed"  BY <1>4, <1>7, <2>1
    <3> QED  BY <1>1, <3>1, <3>2
  <2> QED  BY <2>1 DEF Cleared
<1>11. \A n \in Mounts : Holds(call[p], n) => Holds(d, n) \/ Settled(n)
  <2>1. Settled(m)  BY <1>1 DEF Settled, IInv, DownWhenOk
  <2> QED  BY <1>1, <1>4, <1>7, <2>1 DEF Holds
<1> QED  BY <1>1, <1>8, <1>9, <1>10, <1>11, CallMoves

LEMMA UnmountBeginStep ==
    ASSUME IInv, NEW p \in Procs, NEW m \in Mounts, UnmountBegin(p, m)
    PROVE  IInv'
<1>1. /\ mount[m].once = "unused" /\ mount' = [mount EXCEPT ![m].once = "running", ![m].by = p]
      /\ UNCHANGED <<records, sessions, listener, script, call, used, revoked>>
      BY DEF UnmountBegin
<1>2. mount \in [Mounts -> MountStates]  BY DEF IInv, TypeOK
<1>3. /\ mount' \in [Mounts -> MountStates]
      /\ \A n \in Mounts \ {m} : mount'[n] = mount[n]
      /\ mount'[m].up = mount[m].up /\ mount'[m].once = "running" /\ mount'[m].by = p
      BY <1>1, <1>2 DEF MountStates
<1>4. TypeOK'  BY <1>1, <1>3 DEF IInv, TypeOK
<1>5. FreshLeft'  BY <1>1 DEF IInv, FreshLeft, Registering, At
<1>6. AppearsOnce'
      BY <1>1 DEF IInv, AppearsOnce, Appears, Stored, Pending, Served, Live
<1>7. SessionsAreServed'  BY <1>1 DEF IInv, SessionsAreServed, Live
<1>8. DownWhenOk' /\ ClearedAreDown'
  <2>1. \A n \in Mounts : mount[n].once = "ok" => n # m  BY <1>1
  <2> QED  BY <1>1, <1>3, <2>1 DEF IInv, DownWhenOk, ClearedAreDown, Cleared
<1>9. MountsAreOwned'
  <2> SUFFICES ASSUME NEW n \in Mounts, mount'[n].up
               PROVE  \/ (\E i \in Live : sessions[i].mounted = n)' \/ InHand(n)'
                      \/ mount'[n].once = "failed" \/ mount'[n].lost \/ MountedByAnother(n)'
      BY DEF MountsAreOwned
  <2>1. CASE n = m  BY <1>3, <2>1 DEF InHand
  <2>2. CASE n # m
    <3>1. mount'[n] = mount[n]  BY <1>3, <2>2
    <3>2. InHand(n) => InHand(n)'  BY <1>1, <3>1 DEF InHand, At
    <3> QED  BY <1>1, <3>1, <3>2 DEF IInv, MountsAreOwned, Live, MountedByAnother
  <2> QED  BY <2>1, <2>2
<1> QED  BY <1>4, <1>5, <1>6, <1>7, <1>8, <1>9 DEF IInv

LEMMA UnmountEndStep ==
    ASSUME IInv, NEW p \in Procs, NEW m \in Mounts, UnmountEnd(p, m)
    PROVE  IInv'
<1>1. /\ mount[m].once = "running"
      /\ UNCHANGED <<records, sessions, listener, script, call, used, revoked>>
      BY DEF UnmountEnd
<1>2. mount \in [Mounts -> MountStates]  BY DEF IInv, TypeOK
<1>3. /\ mount' \in [Mounts -> MountStates]
      /\ \A n \in Mounts \ {m} : mount'[n] = mount[n]
      /\ \/ mount'[m].once = "ok" /\ ~mount'[m].up /\ ~mount'[m].dir
         \/ mount'[m].once = "failed"
  <2>1. CASE mount' = [mount EXCEPT ![m].once = "ok", ![m].up = FALSE, ![m].dir = FALSE]
        BY <1>2, <2>1 DEF MountStates
  <2>2. CASE mount' = [mount EXCEPT ![m].once = "failed"]
        BY <1>2, <2>2 DEF MountStates
  <2> QED  BY <2>1, <2>2 DEF UnmountEnd
<1>4. TypeOK'  BY <1>1, <1>3 DEF IInv, TypeOK
<1>5. FreshLeft'  BY <1>1 DEF IInv, FreshLeft, Registering, At
<1>6. AppearsOnce'
      BY <1>1 DEF IInv, AppearsOnce, Appears, Stored, Pending, Served, Live
<1>7. SessionsAreServed'  BY <1>1 DEF IInv, SessionsAreServed, Live
<1>8. DownWhenOk' /\ ClearedAreDown'
  <2>1. \A n \in Mounts : mount[n].once = "ok" => n # m  BY <1>1
  <2> QED  BY <1>1, <1>3, <2>1 DEF IInv, DownWhenOk, ClearedAreDown, Cleared
<1>9. MountsAreOwned'
  <2> SUFFICES ASSUME NEW n \in Mounts, mount'[n].up
               PROVE  \/ (\E i \in Live : sessions[i].mounted = n)' \/ InHand(n)'
                      \/ mount'[n].once = "failed" \/ mount'[n].lost \/ MountedByAnother(n)'
      BY DEF MountsAreOwned
  <2>1. CASE n = m  BY <1>3, <2>1
  <2>2. CASE n # m
    <3>1. mount'[n] = mount[n]  BY <1>3, <2>2
    <3>2. InHand(n) => InHand(n)'  BY <1>1, <3>1 DEF InHand, At
    <3> QED  BY <1>1, <3>1, <3>2 DEF IInv, MountsAreOwned, Live, MountedByAnother
  <2> QED  BY <2>1, <2>2
<1> QED  BY <1>4, <1>5, <1>6, <1>7, <1>8, <1>9 DEF IInv

\* One call mounts: its own mount ends up in its hands or lost, and what is mounted
\* otherwise is mounted by the script of another call, or was before and stays.
StaysUp(n, p) == /\ mount[n].up /\ ~Holds(call[p], n)
                 /\ mount'[n].lost = mount[n].lost /\ mount'[n].stray = mount[n].stray

LEMMA MountMoves ==
    ASSUME IInv, NEW p, NEW c, CallBecomes(p, c), c.todo = {}, c.pc \notin {"register", "clear"},
           UNCHANGED <<records, sessions, listener, used, revoked>>,
           script' \in Mounts \union {NoMount}, mount' \in [Mounts -> MountStates],
           \A n \in Mounts :
              /\ mount'[n].once = mount[n].once /\ mount'[n].by = mount[n].by
              /\ mount[n].once = "ok" => ~mount'[n].up /\ ~mount'[n].dir
              /\ mount'[n].up => \/ Holds(c, n) \/ mount'[n].lost
                                 \/ (Elevated /\ mount'[n].stray) \/ StaysUp(n, p)
    PROVE  IInv'
<1>0. TypeOK /\ FreshLeft /\ AppearsOnce /\ MountsAreOwned /\ ClearedAreDown  BY DEF IInv
<1>1. /\ DOMAIN call' = Procs /\ \A q \in Procs : CallOK(call'[q])
      /\ call'[p] = c /\ \A q \in Procs \ {p} : call'[q] = call[q]
      BY <1>0, CallStepped
<1>2. TypeOK'  BY <1>0, <1>1 DEF TypeOK
<1>3. FreshLeft'  BY <1>0, RegisteringLess, FreshKept
<1>4. AppearsOnce'
  <2>1. Known(c) /\ SessionsKnown  BY <1>0, LiveKnown DEF Known
  <2>2. \A r \in Roots : records'[r] \subseteq records[r]  OBVIOUS
  <2>3. \A i \in Ids, r \in Roots : Appears(i, r)' => Appears(i, r)
        BY <1>0, <2>1, <2>2, NothingNew
  <2> QED  BY <1>0, <2>3, AppearsKept
<1>5. SessionsAreServed'  BY DEF IInv, SessionsAreServed, Live
<1>6. DownWhenOk'  BY DEF DownWhenOk
<1>7. ClearedAreDown'
  <2> SUFFICES ASSUME NEW q \in Procs PROVE Cleared(call[q])'
      BY DEF ClearedAreDown
  <2>1. CASE q = p  BY <1>1, <2>1 DEF Cleared
  <2>2. CASE q # p
    <3>1. call'[q] = call[q] /\ Cleared(call[q])  BY <1>0, <1>1, <2>2 DEF ClearedAreDown
    <3> QED  BY <3>1 DEF Cleared
  <2> QED  BY <2>1, <2>2
<1>8. MountsAreOwned'
  <2> SUFFICES ASSUME NEW n \in Mounts, mount'[n].up, mount'[n].once # "failed",
                      ~mount'[n].lost, ~(Elevated /\ mount'[n].stray)
               PROVE  (\E i \in Live : sessions[i].mounted = n)' \/ InHand(n)'
      BY DEF MountsAreOwned, MountedByAnother
  <2>1. CASE Holds(c, n)
    <3>1. p \in Procs  BY DEF CallBecomes
    <3> QED  BY <1>1, <2>1, <3>1 DEF InHand, At, Holds
  <2>2. CASE StaysUp(n, p)
    <3>1. mount[n].up /\ mount[n].once # "failed" /\ ~mount[n].lost
          /\ ~(Elevated /\ mount[n].stray) /\ ~Holds(call[p], n)
          BY <2>2 DEF StaysUp
    <3>2. (\E i \in Live : sessions[i].mounted = n) \/ InHand(n)
          BY <1>0, <3>1 DEF MountsAreOwned, MountedByAnother
    <3>3. CASE \E i \in Live : sessions[i].mounted = n  BY <3>3 DEF Live
    <3>4. CASE InHand(n)
      <4>1. PICK q \in Procs : \/ Holds(call[q], n)
                               \/ mount[n].once = "running" /\ mount[n].by = q
            BY <3>4 DEF InHand, Holds, At
      <4>2. CASE mount[n].once = "running" /\ mount[n].by = q  BY <4>2 DEF InHand
      <4>3. CASE Holds(call[q], n)
        <5>1. call'[q] = call[q]  BY <1>1, <3>1, <4>3
        <5>2. Holds(call'[q], n)  BY <4>3, <5>1
        <5> QED  BY <5>2 DEF InHand, Holds, At
      <4> QED  BY <4>1, <4>2, <4>3
    <3> QED  BY <3>2, <3>3, <3>4
  <2> QED  BY <2>1, <2>2
<1> QED  BY <1>2, <1>3, <1>4, <1>5, <1>6, <1>7, <1>8 DEF IInv

\* A mounting call moves on, with the mount point m in hand.
Moved(c, pc, m) == [c EXCEPT !.pc = pc, !.m = m]

LEMMA MountingMoves ==
    ASSUME IInv, NEW p \in Procs, call[p].pc \in {"mounting", "command", "ready"},
           NEW m \in Mounts, NEW pc \in {"command", "ready", "record", "done"}
    PROVE  /\ CallOK(Moved(call[p], pc, m)) /\ Moved(call[p], pc, m).todo = {}
           /\ Moved(call[p], pc, m).pc = pc /\ Moved(call[p], pc, m).m = m
<1>1. CallOK(call[p])  BY DEF IInv, TypeOK
<1>2. call[p].mounts = {} /\ call[p].todo = {}  BY <1>1 DEF CallOK, Coherent
<1>3. PICK c : c = Moved(call[p], pc, m)  OBVIOUS
<1>4. /\ c \in Calls /\ c.pc = pc /\ c.m = m /\ c.mounts = {} /\ c.todo = {}
      BY <1>1, <1>2, <1>3 DEF CallOK, Calls, Pcs, Moved
<1>5. CallOK(c)  BY <1>4 DEF CallOK, Coherent
<1> QED  BY <1>3, <1>4, <1>5

\* A call that goes on with the mount point it has.
LEMMA GoesWith ==
    ASSUME IInv, NEW p \in Procs, call[p].pc \in {"command", "ready"}, NEW pc, Goes(p, pc)
    PROVE  call[p].m \in Mounts /\ call' = [call EXCEPT ![p].pc = pc, ![p].m = call[p].m]
<1>1. CallOK(call[p]) /\ DOMAIN call = Procs  BY DEF IInv, TypeOK
<1>2. call[p].m \in Mounts  BY <1>1 DEF CallOK, Coherent
<1>3. call[p] \in Calls  BY <1>1 DEF CallOK
<1>4. [call[p] EXCEPT !.pc = pc] = [call[p] EXCEPT !.pc = pc, !.m = call[p].m]
      BY <1>3 DEF Calls
<1> QED  BY <1>1, <1>2, <1>4 DEF Goes

LEMMA MountPrepareStep == ASSUME IInv, NEW p \in Procs, MountPrepare(p) PROVE IInv'
<1>1. call[p].pc = "mounting" /\ UNCHANGED <<records, sessions, listener, used, revoked>>
      BY DEF MountPrepare, At
<1>2. TypeOK /\ CallOK(call[p]) /\ mount \in [Mounts -> MountStates]  BY DEF IInv, TypeOK
<1>3. CASE Goes(p, "done") /\ UNCHANGED <<mount, script>>
  <2>1. Still  BY <1>1, <1>3 DEF Still
  <2> QED  BY <1>1, <1>3, <2>1, GoesMoves
<1>4. ASSUME NEW m \in NewMount, mount' = [mount EXCEPT ![m].dir = TRUE, ![m].stray = FALSE],
             script' = IF Elevated THEN m ELSE script,
             call' = [call EXCEPT ![p].pc = "command", ![p].m = m]
      PROVE  IInv'
  <2>1. m \in Mounts /\ mount[m].once = "unused" /\ ~mount[m].up  BY DEF NewMount
  <2>2. PICK c : CallBecomes(p, c) /\ c.todo = {} /\ c.pc = "command"
    <3>1. PICK l \in {"command", "ready", "record", "done"} : l = "command"  OBVIOUS
    <3>2. PICK c : c = Moved(call[p], l, m)  OBVIOUS
    <3>3. call[p].pc \in {"mounting", "command", "ready"} /\ m \in Mounts  BY <1>1, <2>1
    <3>4. CallOK(c) /\ c.todo = {} /\ c.pc = l /\ c.m = m  BY <3>2, <3>3, MountingMoves
    <3>5. call' = [call EXCEPT ![p] = c]  BY <1>4, <3>1, <3>2 DEF Moved, IInv, TypeOK
    <3> QED  BY <3>1, <3>4, <3>5 DEF CallBecomes
  <2>3. script' \in Mounts \union {NoMount}  BY <1>2, <1>4, <2>1 DEF TypeOK
  <2>4. /\ mount' \in [Mounts -> MountStates]
        /\ \A n \in Mounts \ {m} : mount'[n] = mount[n]
        /\ mount'[m].once = "unused" /\ ~mount'[m].up /\ mount'[m].by = mount[m].by
        BY <1>2, <1>4, <2>1 DEF MountStates
  <2>5. ASSUME NEW n \in Mounts
        PROVE  /\ mount'[n].once = mount[n].once /\ mount'[n].by = mount[n].by
               /\ mount[n].once = "ok" => ~mount'[n].up /\ ~mount'[n].dir
               /\ mount'[n].up => StaysUp(n, p)
    <3>1. CASE n = m  BY <2>1, <2>4, <3>1
    <3>2. CASE n # m
      <4>1. mount'[n] = mount[n] /\ ~Holds(call[p], n)  BY <1>1, <1>2, <2>4, <3>2, QuietHolds
      <4> QED  BY <4>1 DEF IInv, DownWhenOk, StaysUp
    <3> QED  BY <3>1, <3>2
  <2>6. c.pc \notin {"register", "clear"}  BY <2>2
  <2> QED  BY <1>1, <2>2, <2>3, <2>4, <2>5, <2>6, MountMoves
<1> QED  BY <1>3, <1>4 DEF MountPrepare

\* What the directories and mounts are when a command has run.
LEMMA UpFacts ==
    ASSUME TypeOK, DownWhenOk, NEW n, CanMount(n), NEW m \in Mounts, NEW lost \in BOOLEAN,
           NEW ms, ms = Up(n, m, lost), n \in Mounts \union {NoMount}
    PROVE  /\ n \in Mounts /\ ms \in [Mounts -> MountStates]
           /\ \A k \in Mounts \ {n} : ms[k] = mount[k]
           /\ ms[n].once = mount[n].once /\ ms[n].by = mount[n].by /\ mount[n].once # "ok"
           /\ (n # m => ms[n].stray) /\ (lost => ms[n].lost)
<1>1. n \in Mounts /\ mount[n].dir  BY DEF CanMount
<1>2. mount \in [Mounts -> MountStates] /\ (n # m) \in BOOLEAN  BY DEF TypeOK
<1>3. mount[n].once # "ok"  BY <1>1 DEF DownWhenOk
<1>4. PICK s : s = [mount[n] EXCEPT !.up = TRUE, !.stray = (n # m), !.lost = lost]  OBVIOUS
<1>5. /\ s \in MountStates /\ s.once = mount[n].once /\ s.by = mount[n].by
      /\ (n # m => s.stray) /\ (lost => s.lost)
      BY <1>1, <1>2, <1>4 DEF MountStates
<1>6. ms = [mount EXCEPT ![n] = s]  BY <1>1, <1>2, <1>4 DEF Up
<1> QED  BY <1>1, <1>2, <1>3, <1>5, <1>6

LEMMA CleanedFacts ==
    ASSUME NEW ms \in [Mounts -> MountStates], NEW m \in Mounts,
           mount' = CleanedUp(ms, m)
    PROVE  /\ mount' \in [Mounts -> MountStates]
           /\ \A k \in Mounts \ {m} : mount'[k] = ms[k]
           /\ mount'[m].once = ms[m].once /\ mount'[m].by = ms[m].by
           /\ mount'[m].up = ms[m].up /\ mount'[m].dir = ms[m].up
           /\ mount'[m].lost = ms[m].lost /\ mount'[m].stray = ms[m].stray
BY DEF CleanedUp, MountStates

LEMMA RunCommandStep == ASSUME IInv, NEW p \in Procs, RunCommand(p) PROVE IInv'
<1>1. call[p].pc = "command" /\ UNCHANGED <<records, sessions, listener, used, revoked>>
      BY DEF RunCommand, At
<1>2. TypeOK /\ DownWhenOk /\ CallOK(call[p]) /\ mount \in [Mounts -> MountStates]
      /\ script \in Mounts \union {NoMount}
      BY DEF IInv, TypeOK
<1>3. PICK m \in Mounts : m = call[p].m  BY <1>1, <1>2 DEF CallOK, Coherent
<1>0. ASSUME NEW l \in {"command", "ready", "record", "done"}
       PROVE  /\ CallOK(Moved(call[p], l, m)) /\ Moved(call[p], l, m).todo = {}
              /\ Moved(call[p], l, m).pc = l /\ Moved(call[p], l, m).m = m
  <2>1. call[p].pc \in {"mounting", "command", "ready"}  BY <1>1
  <2> QED  BY <2>1, MountingMoves
<1>4. PICK n \in Mounts \union {NoMount} : n = IF Elevated THEN script ELSE m  BY <1>2
<1>5. n # m => Elevated  BY <1>4
<1>6. \A k \in Mounts : ~Holds(call[p], k)  BY <1>1, <1>2, QuietHolds
<1>7. CASE CanMount(n) /\ mount' = Up(n, m, FALSE) /\ Goes(p, "ready") /\ UNCHANGED script
  <2>1. call' = [call EXCEPT ![p].pc = "ready", ![p].m = m]  BY <1>1, <1>3, <1>7, GoesWith
  <2>2. PICK c : CallBecomes(p, c) /\ c.todo = {} /\ c.pc = "ready" /\ c.m = m
    <3>1. PICK l \in {"command", "ready", "record", "done"} : l = "ready"  OBVIOUS
    <3>2. PICK c : c = Moved(call[p], l, m)  OBVIOUS
    <3>4. CallOK(c) /\ c.todo = {} /\ c.pc = l /\ c.m = m  BY <1>0, <3>2
    <3>5. call' = [call EXCEPT ![p] = c]  BY <2>1, <3>1, <3>2 DEF Moved, IInv, TypeOK
    <3> QED  BY <3>1, <3>4, <3>5 DEF CallBecomes
  <2>a. PICK lost \in BOOLEAN : lost = FALSE  OBVIOUS
  <2>3. PICK ms : ms = Up(n, m, lost) /\ mount' = ms  BY <1>7, <2>a
  <2>4. /\ n \in Mounts /\ mount' \in [Mounts -> MountStates]
        /\ \A k \in Mounts \ {n} : mount'[k] = mount[k]
        /\ mount'[n].once = mount[n].once /\ mount'[n].by = mount[n].by /\ mount[n].once # "ok"
        /\ (n # m => mount'[n].stray)
    <3>1. CanMount(n) /\ n \in Mounts \union {NoMount}  BY <1>4, <1>7
    <3>2. /\ n \in Mounts /\ ms \in [Mounts -> MountStates]
          /\ \A k \in Mounts \ {n} : ms[k] = mount[k]
          /\ ms[n].once = mount[n].once /\ ms[n].by = mount[n].by /\ mount[n].once # "ok"
          /\ (n # m => ms[n].stray)
          BY <1>2, <2>3, <3>1, UpFacts
    <3> QED  BY <2>3, <3>2
  <2>5. ASSUME NEW k \in Mounts
        PROVE  /\ mount'[k].once = mount[k].once /\ mount'[k].by = mount[k].by
               /\ mount[k].once = "ok" => ~mount'[k].up /\ ~mount'[k].dir
               /\ mount'[k].up => \/ Holds(c, k) \/ mount'[k].lost
                                  \/ (Elevated /\ mount'[k].stray) \/ StaysUp(k, p)
    <3>1. CASE k = n
      <4>1. Holds(c, k) \/ (Elevated /\ mount'[k].stray)
            BY <1>5, <2>2, <2>4, <3>1 DEF Holds
      <4> QED  BY <2>4, <3>1, <4>1
    <3>2. CASE k # n
      <4>1. mount'[k] = mount[k]  BY <2>4, <3>2
      <4> QED  BY <1>2, <1>6, <4>1 DEF DownWhenOk, StaysUp
    <3> QED  BY <3>1, <3>2
  <2>6. script' \in Mounts \union {NoMount} /\ c.pc \notin {"register", "clear"}
        BY <1>2, <1>7, <2>2
  <2> QED  BY <1>1, <2>2, <2>4, <2>5, <2>6, MountMoves
<1>8. ASSUME Goes(p, "done"), script' = NoMount, NEW ms, mount' = CleanedUp(ms, m),
             \/ ms = mount
             \/ CanMount(n) /\ ms = Up(n, m, TRUE)
      PROVE  IInv'
  <2>1. call' = [call EXCEPT ![p].pc = "done", ![p].m = m]  BY <1>1, <1>3, <1>8, GoesWith
  <2>2. PICK c : CallBecomes(p, c) /\ c.todo = {} /\ c.pc = "done"
    <3>1. PICK l \in {"command", "ready", "record", "done"} : l = "done"  OBVIOUS
    <3>2. PICK c : c = Moved(call[p], l, m)  OBVIOUS
    <3>4. CallOK(c) /\ c.todo = {} /\ c.pc = l /\ c.m = m  BY <1>0, <3>2
    <3>5. call' = [call EXCEPT ![p] = c]  BY <2>1, <3>1, <3>2 DEF Moved, IInv, TypeOK
    <3> QED  BY <3>1, <3>4, <3>5 DEF CallBecomes
  <2>3. /\ ms \in [Mounts -> MountStates]
        /\ \A k \in Mounts :
              /\ ms[k].once = mount[k].once /\ ms[k].by = mount[k].by
              /\ ms[k] = mount[k] \/ (ms[k].lost /\ mount[k].once # "ok")
    <3>1. CASE ms = mount  BY <1>2, <3>1
    <3>2. CASE CanMount(n) /\ ms = Up(n, m, TRUE)
      <4>1. /\ n \in Mounts /\ ms \in [Mounts -> MountStates]
            /\ \A k \in Mounts \ {n} : ms[k] = mount[k]
            /\ ms[n].once = mount[n].once /\ ms[n].by = mount[n].by /\ mount[n].once # "ok"
            /\ ms[n].lost
        <5>1. PICK lost \in BOOLEAN : lost = TRUE  OBVIOUS
        <5>2. /\ ms = Up(n, m, lost) /\ CanMount(n) /\ n \in Mounts \union {NoMount}
              BY <1>4, <3>2, <5>1
        <5>3. /\ n \in Mounts /\ ms \in [Mounts -> MountStates]
              /\ \A k \in Mounts \ {n} : ms[k] = mount[k]
              /\ ms[n].once = mount[n].once /\ ms[n].by = mount[n].by /\ mount[n].once # "ok"
              /\ (lost => ms[n].lost)
              BY <1>2, <5>2, UpFacts
        <5> QED  BY <5>1, <5>3
      <4> QED  BY <4>1
    <3> QED  BY <1>8, <3>1, <3>2
  <2>4. /\ mount' \in [Mounts -> MountStates]
        /\ \A k \in Mounts \ {m} : mount'[k] = ms[k]
        /\ mount'[m].once = ms[m].once /\ mount'[m].by = ms[m].by
        /\ mount'[m].up = ms[m].up /\ mount'[m].dir = ms[m].up
        /\ mount'[m].lost = ms[m].lost /\ mount'[m].stray = ms[m].stray
        BY <1>8, <2>3, CleanedFacts
  <2>5. ASSUME NEW k \in Mounts
        PROVE  /\ mount'[k].once = mount[k].once /\ mount'[k].by = mount[k].by
               /\ mount[k].once = "ok" => ~mount'[k].up /\ ~mount'[k].dir
               /\ mount'[k].up => mount'[k].lost \/ StaysUp(k, p)
    <3>1. /\ mount'[k].once = ms[k].once /\ mount'[k].by = ms[k].by /\ mount'[k].up = ms[k].up
          /\ mount'[k].lost = ms[k].lost /\ mount'[k].stray = ms[k].stray
          /\ mount'[k].dir = ms[k].dir \/ mount'[k].dir = ms[k].up
          BY <2>4
    <3>2. CASE ms[k] = mount[k]
          BY <1>2, <1>6, <3>1, <3>2 DEF DownWhenOk, StaysUp
    <3>3. CASE ms[k].lost /\ mount[k].once # "ok"  BY <2>3, <3>1, <3>3
    <3> QED  BY <2>3, <3>2, <3>3
  <2>6. script' \in Mounts \union {NoMount} /\ c.pc \notin {"register", "clear"}
        BY <1>8, <2>2
  <2> QED  BY <1>1, <2>2, <2>4, <2>5, <2>6, MountMoves
<1>9. \/ CanMount(n) /\ mount' = Up(n, m, FALSE) /\ Goes(p, "ready") /\ UNCHANGED script
      \/ /\ Goes(p, "done") /\ script' = NoMount
         /\ \/ CanMount(n) /\ mount' = CleanedUp(Up(n, m, TRUE), m)
            \/ mount' = CleanedUp(mount, m)
      BY <1>3, <1>4 DEF RunCommand
<1> QED  BY <1>7, <1>8, <1>9

LEMMA MountReadyStep == ASSUME IInv, NEW p \in Procs, MountReady(p) PROVE IInv'
<1>1. /\ call[p].pc = "ready" /\ script' = NoMount
      /\ UNCHANGED <<records, sessions, listener, used, revoked>>
      BY DEF MountReady, At
<1>2. TypeOK /\ DownWhenOk /\ CallOK(call[p]) /\ mount \in [Mounts -> MountStates]
      BY DEF IInv, TypeOK
<1>3. PICK m \in Mounts : m = call[p].m  BY <1>1, <1>2 DEF CallOK, Coherent
<1>4. \A k \in Mounts : Holds(call[p], k) => k = m  BY <1>1, <1>2, <1>3 DEF CallOK, Coherent, Holds
<1>5. CASE Goes(p, "record") /\ UNCHANGED mount
  <2>1. call' = [call EXCEPT ![p].pc = "record", ![p].m = m]  BY <1>1, <1>3, <1>5, GoesWith
  <2>2. PICK c : CallBecomes(p, c) /\ c.todo = {} /\ c.pc = "record" /\ c.m = m
    <3>1. PICK l \in {"command", "ready", "record", "done"} : l = "record"  OBVIOUS
    <3>2. PICK c : c = Moved(call[p], l, m)  OBVIOUS
    <3>3. call[p].pc \in {"mounting", "command", "ready"} /\ m \in Mounts  BY <1>1
    <3>4. CallOK(c) /\ c.todo = {} /\ c.pc = l /\ c.m = m  BY <3>2, <3>3, MountingMoves
    <3>5. call' = [call EXCEPT ![p] = c]  BY <2>1, <3>1, <3>2 DEF Moved, IInv, TypeOK
    <3> QED  BY <3>1, <3>4, <3>5 DEF CallBecomes
  <2>3. ASSUME NEW k \in Mounts
        PROVE  /\ mount'[k].once = mount[k].once /\ mount'[k].by = mount[k].by
               /\ mount[k].once = "ok" => ~mount'[k].up /\ ~mount'[k].dir
               /\ mount'[k].up => Holds(c, k) \/ StaysUp(k, p)
    <3>1. mount'[k] = mount[k]  BY <1>5
    <3>2. ~Holds(call[p], k) \/ Holds(c, k)  BY <1>4, <2>2 DEF Holds
    <3> QED  BY <1>2, <3>1, <3>2 DEF DownWhenOk, StaysUp
  <2>4. /\ script' \in Mounts \union {NoMount} /\ c.pc \notin {"register", "clear"}
        /\ mount' \in [Mounts -> MountStates]
        BY <1>1, <1>2, <1>5, <2>2
  <2> QED  BY <1>1, <2>2, <2>3, <2>4, MountMoves
<1>6. CASE /\ mount[m].up /\ Goes(p, "done")
           /\ \/ mount' = [mount EXCEPT ![m].lost = TRUE]
              \/ mount' = [mount EXCEPT ![m].up = FALSE, ![m].dir = FALSE]
  <2>1. call' = [call EXCEPT ![p].pc = "done", ![p].m = m]  BY <1>1, <1>3, <1>6, GoesWith
  <2>2. PICK c : CallBecomes(p, c) /\ c.todo = {} /\ c.pc = "done"
    <3>1. PICK l \in {"command", "ready", "record", "done"} : l = "done"  OBVIOUS
    <3>2. PICK c : c = Moved(call[p], l, m)  OBVIOUS
    <3>3. call[p].pc \in {"mounting", "command", "ready"} /\ m \in Mounts  BY <1>1
    <3>4. CallOK(c) /\ c.todo = {} /\ c.pc = l /\ c.m = m  BY <3>2, <3>3, MountingMoves
    <3>5. call' = [call EXCEPT ![p] = c]  BY <2>1, <3>1, <3>2 DEF Moved, IInv, TypeOK
    <3> QED  BY <3>1, <3>4, <3>5 DEF CallBecomes
  <2>3. /\ mount' \in [Mounts -> MountStates]
        /\ \A k \in Mounts \ {m} : mount'[k] = mount[k]
        /\ mount'[m].once = mount[m].once /\ mount'[m].by = mount[m].by
        /\ mount'[m].lost \/ ~mount'[m].up
    <3>1. CASE mount' = [mount EXCEPT ![m].lost = TRUE]  BY <1>2, <3>1 DEF MountStates
    <3>2. CASE mount' = [mount EXCEPT ![m].up = FALSE, ![m].dir = FALSE]
          BY <1>2, <3>2 DEF MountStates
    <3> QED  BY <1>6, <3>1, <3>2
  <2>4. ASSUME NEW k \in Mounts
        PROVE  /\ mount'[k].once = mount[k].once /\ mount'[k].by = mount[k].by
               /\ mount[k].once = "ok" => ~mount'[k].up /\ ~mount'[k].dir
               /\ mount'[k].up => mount'[k].lost \/ StaysUp(k, p)
    <3>1. CASE k = m
      <4>1. mount[m].once # "ok"  BY <1>2, <1>6 DEF DownWhenOk
      <4> QED  BY <2>3, <3>1, <4>1
    <3>2. CASE k # m
      <4>1. mount'[k] = mount[k] /\ ~Holds(call[p], k)  BY <1>4, <2>3, <3>2
      <4> QED  BY <1>2, <4>1 DEF DownWhenOk, StaysUp
    <3> QED  BY <3>1, <3>2
  <2>5. script' \in Mounts \union {NoMount} /\ c.pc \notin {"register", "clear"}
        BY <1>1, <2>2
  <2> QED  BY <1>1, <2>2, <2>3, <2>4, <2>5, MountMoves
<1>7. \/ Goes(p, "record") /\ UNCHANGED mount
      \/ /\ mount[m].up /\ Goes(p, "done")
         /\ \/ mount' = [mount EXCEPT ![m].lost = TRUE]
            \/ mount' = [mount EXCEPT ![m].up = FALSE, ![m].dir = FALSE]
      BY <1>3 DEF MountReady
<1> QED  BY <1>5, <1>6, <1>7

-----------------------------------------------------------------------------
(* Steps that change the sessions *)

\* The sessions stay where they are, on their ports.
SameSessions ==
    /\ sessions' \in [Ids -> Sessions \union {NoSession}]
    /\ \A i \in Ids : /\ sessions'[i] # NoSession <=> sessions[i] # NoSession
                      /\ sessions[i] # NoSession =>
                            /\ sessions'[i].h = sessions[i].h /\ sessions'[i].tls = sessions[i].tls
                            /\ sessions'[i].port = sessions[i].port

LEMMA SameServed ==
    ASSUME SessionsAreServed, SameSessions, listener' = listener
    PROVE  SessionsAreServed'
BY DEF SessionsAreServed, SameSessions, Live

LEMMA SameKnown == ASSUME SameSessions PROVE SessionsKnown
<1> SUFFICES ASSUME NEW i \in Ids, sessions'[i] # NoSession
             PROVE  Appears(i, RootOf[sessions'[i].h])
    BY DEF SessionsKnown
<1>1. Served(i, RootOf[sessions[i].h]) /\ sessions'[i].h = sessions[i].h
      BY DEF Served, Live, SameSessions
<1> QED  BY <1>1 DEF Appears

\* What is left to show of a step that changes a call and the sessions, and takes
\* nothing from the set of mounts.
LEMMA SessionMoves ==
    ASSUME IInv, NEW p, NEW c, CallBecomes(p, c), Known(c), Cleared(c), c.pc # "register",
           sessions' \in [Ids -> Sessions \union {NoSession}],
           listener' \in [BOOLEAN -> Ports \union {NoPort}],
           SessionsKnown, SessionsAreServed',
           UNCHANGED <<records, mount, script, used, revoked>>,
           \A m \in Mounts : Holds(call[p], m) \/ Listed(m) =>
                                Holds(c, m) \/ Listed(m)' \/ Settled(m)
    PROVE  IInv'
<1>0. TypeOK /\ FreshLeft /\ AppearsOnce /\ ClearedAreDown /\ MountsAreOwned /\ DownWhenOk
      BY DEF IInv
<1>1. TypeOK'
  <2>1. DOMAIN call' = Procs /\ \A q \in Procs : CallOK(call'[q])  BY <1>0, CallStepped
  <2> QED  BY <2>1, <1>0 DEF TypeOK
<1>2. FreshLeft'  BY <1>0, RegisteringLess, FreshKept
<1>3. AppearsOnce'
  <2>1. \A r \in Roots : records'[r] \subseteq records[r]  OBVIOUS
  <2>2. \A i \in Ids, r \in Roots : Appears(i, r)' => Appears(i, r)
        BY <1>0, <2>1, NothingNew
  <2> QED  BY <1>0, <2>2, AppearsKept
<1>4. DownWhenOk'  BY <1>0 DEF DownWhenOk
<1>5. ClearedAreDown'  BY <1>0, ClearedKept
<1>6. MountsAreOwned'  BY <1>0, OwnedKept
<1> QED  BY <1>1, <1>2, <1>3, <1>4, <1>5, <1>6 DEF IInv

LEMMA SessionType ==
    ASSUME TypeOK, NEW i, i \in Live
    PROVE  i \in Ids /\ sessions[i] \in Sessions
BY DEF TypeOK, Live

\* Changing where a session is mounted changes nothing else of it.
LEMMA MountedChanges ==
    ASSUME TypeOK, NEW i, i \in Live, NEW m \in Mounts \union {NoMount},
           sessions' = [sessions EXCEPT ![i].mounted = m]
    PROVE  /\ SameSessions
           /\ sessions'[i].mounted = m /\ \A j \in Ids \ {i} : sessions'[j] = sessions[j]
<1>1. i \in Ids /\ sessions[i] \in Sessions /\ sessions \in [Ids -> Sessions \union {NoSession}]
      BY SessionType DEF TypeOK
<1>2. PICK s : s = [sessions[i] EXCEPT !.mounted = m]  OBVIOUS
<1>3. /\ s \in Sessions /\ s.mounted = m /\ s.h = sessions[i].h
      /\ s.tls = sessions[i].tls /\ s.port = sessions[i].port
      BY <1>1, <1>2 DEF Sessions
<1>4. sessions' = [sessions EXCEPT ![i] = s]  BY <1>1, <1>2
<1>5. /\ sessions' \in [Ids -> Sessions \union {NoSession}]
      /\ sessions'[i] = s /\ \A j \in Ids \ {i} : sessions'[j] = sessions[j]
      BY <1>1, <1>3, <1>4
<1>6. s # NoSession /\ sessions[i] # NoSession  BY <1>1, <1>3, WebDavAssumption
<1> QED  BY <1>3, <1>5, <1>6 DEF SameSessions

LEMMA MountRecordStep == ASSUME IInv, NEW p \in Procs, MountRecord(p) PROVE IInv'
<1>1. /\ call[p].pc = "record"
      /\ UNCHANGED <<records, listener, mount, script, used, revoked>>
      BY DEF MountRecord, At
<1>2. CallOK(call[p]) /\ DOMAIN call = Procs /\ TypeOK  BY DEF IInv, TypeOK
<1>3. call[p].m \in Mounts /\ call[p].mounts = {} /\ call[p].todo = {}
      BY <1>1, <1>2 DEF CallOK, Coherent
<1>4. CASE call[p].id \in Live /\ sessions[call[p].id].mounted = NoMount
  <2>1. PICK i \in Ids : i = call[p].id  BY <1>2 DEF CallOK, Calls
  <2>2. sessions' = [sessions EXCEPT ![i].mounted = call[p].m] /\ Goes(p, "checked")
        BY <1>4, <2>1 DEF MountRecord
  <2>3. /\ SameSessions
        /\ sessions'[i].mounted = call[p].m /\ \A j \in Ids \ {i} : sessions'[j] = sessions[j]
    <3>1. PICK m \in Mounts \union {NoMount} : m = call[p].m  BY <1>3
    <3>2. i \in Live /\ sessions' = [sessions EXCEPT ![i].mounted = m]  BY <1>4, <2>1, <2>2, <3>1
    <3> QED  BY <1>2, <3>1, <3>2, MountedChanges
  <2>4. PICK c : c = [call[p] EXCEPT !.pc = "checked"]  OBVIOUS
  <2>5. c \in Calls /\ c.pc = "checked" /\ Coherent(c) /\ c.todo = {}
        BY <1>1, <1>2, <1>3, <2>4 DEF CallOK, Calls, Pcs, Coherent
  <2>6. CallBecomes(p, c)  BY <1>2, <2>2, <2>4, <2>5 DEF CallBecomes, CallOK, Goes
  <2>7. Known(c) /\ Cleared(c) /\ c.pc # "register"  BY <2>5 DEF Known, Cleared
  <2>8. SessionsAreServed' /\ SessionsKnown
        BY <1>1, <2>3, SameServed, SameKnown DEF IInv
  <2>9. /\ sessions' \in [Ids -> Sessions \union {NoSession}]
        /\ listener' \in [BOOLEAN -> Ports \union {NoPort}]
        BY <1>1, <1>2, <2>3 DEF SameSessions, TypeOK
  <2>10. \A m \in Mounts : Holds(call[p], m) \/ Listed(m) => Listed(m)'
    <3> SUFFICES ASSUME NEW m \in Mounts, Holds(call[p], m) \/ Listed(m) PROVE Listed(m)'
        OBVIOUS
    <3>1. CASE Holds(call[p], m)
      <4>1. m = call[p].m  BY <1>3, <3>1 DEF Holds
      <4>2. i \in Live'  BY <1>4, <2>1, <2>3 DEF SameSessions, Live
      <4> QED  BY <2>3, <4>1, <4>2 DEF Listed
    <3>2. CASE Listed(m)
      <4>1. PICK j \in Live : sessions[j].mounted = m  BY <3>2 DEF Listed
      <4>2. j \in Ids /\ j # i  BY <1>4, <2>1, <4>1, WebDavAssumption DEF Live
      <4>3. sessions'[j] = sessions[j]  BY <2>3, <4>2
      <4> QED  BY <4>1, <4>2, <4>3 DEF Listed, Live
    <3> QED  BY <3>1, <3>2
  <2> QED  BY <1>1, <2>6, <2>7, <2>8, <2>9, <2>10, SessionMoves
<1>5. CASE ~(call[p].id \in Live /\ sessions[call[p].id].mounted = NoMount)
  <2>1. PICK o \in {"mount", "revoke"} : o = IF call[p].id \in Live THEN "mount" ELSE "revoke"
        OBVIOUS
  <2>2. /\ call' = [call EXCEPT ![p].pc = "unmount", ![p].mounts = {call[p].m}, ![p].op = o]
        /\ Still
        BY <1>1, <1>5, <2>1 DEF MountRecord, Still
  <2>3. PICK c : c = [call[p] EXCEPT !.pc = "unmount", !.mounts = {call[p].m}, !.op = o]
        OBVIOUS
  <2>4. /\ c \in Calls /\ c.pc = "unmount" /\ c.mounts = {call[p].m} /\ c.op = o /\ c.todo = {}
        BY <1>2, <1>3, <2>3 DEF CallOK, Calls, Pcs, Ops
  <2>5. CallOK(c)  BY <2>4 DEF CallOK, Coherent
  <2>6. CallBecomes(p, c)  BY <1>2, <2>2, <2>3, <2>5 DEF CallBecomes
  <2>7. Known(c) /\ Cleared(c) /\ c.pc # "register"  BY <2>4 DEF Known, Cleared
  <2>8. \A m \in Mounts : Holds(call[p], m) => Holds(c, m)  BY <1>3, <2>4 DEF Holds
  <2> QED  BY <2>2, <2>6, <2>7, <2>8, CallMoves
<1> QED  BY <1>4, <1>5

LEMMA ClearMountStep == ASSUME IInv, NEW p \in Procs, ClearMount(p) PROVE IInv'
<1>1. /\ call[p].pc = "clear" /\ Goes(p, "done")
      /\ UNCHANGED <<records, listener, mount, script, used, revoked>>
      BY DEF ClearMount, At
<1>2. CallOK(call[p]) /\ DOMAIN call = Procs /\ TypeOK  BY DEF IInv, TypeOK
<1>3. CASE sessions' = sessions
  <2>1. Still  BY <1>1, <1>3 DEF Still
  <2> QED  BY <1>1, <2>1, GoesMoves
<1>4. CASE /\ ~call[p].failed /\ call[p].id \in Live
           /\ sessions[call[p].id].mounted = call[p].m
           /\ sessions' = [sessions EXCEPT ![call[p].id].mounted = NoMount]
  <2>1. PICK i \in Ids : i = call[p].id  BY <1>2 DEF CallOK, Calls
  <2>2. sessions' = [sessions EXCEPT ![i].mounted = NoMount] /\ sessions[i].mounted = call[p].m
        BY <1>4, <2>1
  <2>3. /\ SameSessions
        /\ \A j \in Ids \ {i} : sessions'[j] = sessions[j]
        BY <1>2, <1>4, <2>1, <2>2, MountedChanges
  <2>4. PICK c : c = [call[p] EXCEPT !.pc = "done"]  OBVIOUS
  <2>5. c \in Calls /\ c.pc = "done" /\ Coherent(c) /\ c.todo = {}
        BY <1>1, <1>2, <2>4 DEF CallOK, Calls, Pcs, Coherent
  <2>6. CallBecomes(p, c)  BY <1>1, <1>2, <2>4, <2>5 DEF CallBecomes, CallOK, Goes
  <2>7. Known(c) /\ Cleared(c) /\ c.pc # "register"  BY <2>5 DEF Known, Cleared
  <2>8. SessionsAreServed' /\ SessionsKnown
        BY <1>1, <2>3, SameServed, SameKnown DEF IInv
  <2>9. /\ sessions' \in [Ids -> Sessions \union {NoSession}]
        /\ listener' \in [BOOLEAN -> Ports \union {NoPort}]
        BY <1>1, <1>2, <2>3 DEF SameSessions, TypeOK
  <2>10. \A m \in Mounts : Holds(call[p], m) \/ Listed(m) => Listed(m)' \/ Settled(m)
    <3> SUFFICES ASSUME NEW m \in Mounts, Holds(call[p], m) \/ Listed(m)
                 PROVE  Listed(m)' \/ Settled(m)
        OBVIOUS
    <3>1. Listed(m)  BY <1>1, <1>2, QuietHolds
    <3>2. PICK j \in Live : sessions[j].mounted = m  BY <3>1 DEF Listed
    <3>3. CASE j = i
      <4>1. m = call[p].m  BY <2>2, <3>2, <3>3
      <4>2. mount[m].once = "ok"
            BY <1>1, <1>4, <4>1 DEF IInv, ClearedAreDown, Cleared
      <4> QED  BY <4>2 DEF IInv, DownWhenOk, Settled
    <3>4. CASE j # i
      <4>1. j \in Ids /\ sessions'[j] = sessions[j]  BY <2>3, <3>2, <3>4 DEF Live
      <4> QED  BY <3>2, <4>1 DEF Listed, Live
    <3> QED  BY <3>3, <3>4
  <2> QED  BY <1>1, <2>6, <2>7, <2>8, <2>9, <2>10, SessionMoves
<1> QED  BY <1>3, <1>4 DEF ClearMount

\* Requests count themselves in and out, and move the count of a digest.
LEMMA CountsChange ==
    ASSUME IInv, UNCHANGED <<records, listener, mount, script, call, used, revoked>>,
           SameSessions, \A i \in Live : sessions'[i].mounted = sessions[i].mounted
    PROVE  IInv'
<1>1. TypeOK'  BY DEF IInv, TypeOK, SameSessions
<1>2. FreshLeft'  BY DEF IInv, FreshLeft, Registering, At
<1>3. Live' = Live /\ \A i \in Live : sessions'[i].h = sessions[i].h  BY DEF SameSessions, Live
<1>4. AppearsOnce'
  <2>1. \A i \in Ids, r \in Roots : Appears(i, r)' => Appears(i, r)
        BY <1>3 DEF Appears, Stored, Pending, Served
  <2> QED  BY <2>1, AppearsKept DEF IInv
<1>5. SessionsAreServed'  BY SameServed DEF IInv
<1>6. DownWhenOk' /\ ClearedAreDown'  BY DEF IInv, DownWhenOk, ClearedAreDown, Cleared
<1>7. MountsAreOwned'
  <2>1. \A m \in Mounts : InHand(m)' <=> InHand(m)  BY DEF InHand, At
  <2> QED  BY <1>3, <2>1 DEF IInv, MountsAreOwned, MountedByAnother
<1> QED  BY <1>1, <1>2, <1>4, <1>5, <1>6, <1>7 DEF IInv

LEMMA OneReplaced ==
    ASSUME TypeOK, NEW i, i \in Live, NEW s \in Sessions, sessions' = [sessions EXCEPT ![i] = s],
           s.h = sessions[i].h, s.tls = sessions[i].tls, s.port = sessions[i].port,
           s.mounted = sessions[i].mounted
    PROVE  SameSessions /\ \A j \in Live : sessions'[j].mounted = sessions[j].mounted
<1>1. i \in Ids /\ sessions[i] # NoSession /\ sessions \in [Ids -> Sessions \union {NoSession}]
      BY DEF TypeOK, Live
<1>2. s # NoSession  BY WebDavAssumption
<1>3. /\ sessions' \in [Ids -> Sessions \union {NoSession}]
      /\ sessions'[i] = s /\ \A j \in Ids \ {i} : sessions'[j] = sessions[j]
      BY <1>1
<1> QED  BY <1>1, <1>2, <1>3 DEF SameSessions, Live

LEMMA AcquireStep ==
    ASSUME IInv, NEW q, NEW i, NEW secret, NEW nc \in Nat, NEW write,
           Acquire(q, i, secret, nc, write)
    PROVE  IInv'
<1>1. i \in Live /\ UNCHANGED <<records, listener, mount, script, call, used, revoked>>  BY DEF Acquire
<1>2. TypeOK /\ i \in Ids /\ sessions[i] \in Sessions  BY <1>1, SessionType DEF IInv
<1>3. PICK n \in Nat : n = IF sessions[i].auth.mode = "digest" THEN nc ELSE sessions[i].auth.maxNC
      BY <1>2 DEF Sessions
<1>a. PICK a : a = [sessions[i].auth EXCEPT !.maxNC = n]  OBVIOUS
<1>b. a \in [mode : Modes, secret : Ids, maxNC : Nat]  BY <1>2, <1>a DEF Sessions
<1>4. PICK s : s = [sessions[i] EXCEPT !.active = sessions[i].active + 1, !.auth = a]  OBVIOUS
<1>5. s \in Sessions /\ s.h = sessions[i].h /\ s.tls = sessions[i].tls
      /\ s.port = sessions[i].port /\ s.mounted = sessions[i].mounted
  <2>1. PICK A : A = [mode : Modes, secret : Ids, maxNC : Nat]  OBVIOUS
  <2>2. sessions[i] \in [h : Handles, life : Lives, tls : BOOLEAN, port : Ports, auth : A,
                         policy : {"unset"}, mounted : Mounts \union {NoMount}, active : Nat]
        BY <1>2, <2>1 DEF Sessions
  <2>3. a \in A  BY <1>b, <2>1
  <2>4. /\ s \in [h : Handles, life : Lives, tls : BOOLEAN, port : Ports, auth : A,
                  policy : {"unset"}, mounted : Mounts \union {NoMount}, active : Nat]
        /\ s.h = sessions[i].h /\ s.tls = sessions[i].tls
        /\ s.port = sessions[i].port /\ s.mounted = sessions[i].mounted
    <3>1. PICK k \in Nat : k = sessions[i].active + 1  BY <2>2
    <3>2. s = [sessions[i] EXCEPT !.active = k, !.auth = a]  BY <1>4, <3>1
    <3> QED  BY <2>2, <2>3, <3>2
  <2> QED  BY <2>1, <2>4 DEF Sessions
<1>6. sessions' = [sessions EXCEPT ![i] = s]
      BY <1>2, <1>3, <1>4, <1>a DEF Acquire, TypeOK, Sessions
<1>7. SameSessions /\ \A j \in Live : sessions'[j].mounted = sessions[j].mounted
      BY <1>1, <1>2, <1>5, <1>6, OneReplaced
<1> QED  BY <1>1, <1>7, CountsChange

LEMMA ReleaseStep == ASSUME IInv, NEW q, Release(q) PROVE IInv'
<1>1. UNCHANGED <<records, listener, mount, script, call, used, revoked>>  BY DEF Release
<1>2. CASE sessions' = sessions
  <2>1. Still /\ call' = call  BY <1>1, <1>2 DEF Still
  <2> QED  BY <2>1, Stays
<1>3. CASE /\ req[q].id \in Live /\ sessions[req[q].id].active > 0
           /\ sessions' = [sessions EXCEPT ![req[q].id].active = @ - 1]
  <2>1. PICK i : i = req[q].id  OBVIOUS
  <2>2. TypeOK /\ i \in Live /\ i \in Ids /\ sessions[i] \in Sessions
        BY <1>3, <2>1, SessionType DEF IInv
  <2>3. PICK s : s = [sessions[i] EXCEPT !.active = sessions[i].active - 1]  OBVIOUS
  <2>4. s \in Sessions /\ s.h = sessions[i].h /\ s.tls = sessions[i].tls
        /\ s.port = sessions[i].port /\ s.mounted = sessions[i].mounted
        BY <1>3, <2>1, <2>2, <2>3 DEF Sessions
  <2>5. sessions' = [sessions EXCEPT ![i] = s]  BY <1>3, <2>1, <2>2, <2>3 DEF TypeOK
  <2>6. SameSessions /\ \A j \in Live : sessions'[j].mounted = sessions[j].mounted
        BY <2>2, <2>4, <2>5, OneReplaced
  <2> QED  BY <1>1, <2>6, CountsChange
<1> QED  BY <1>2, <1>3 DEF Release

LEMMA ServeStep == ASSUME IInv, NEW q, Serve(q) PROVE IInv'
<1>1. Still /\ call' = call  BY DEF Serve, Still
<1> QED  BY <1>1, Stays

LEMMA OpenInnerStep == ASSUME IInv, NEW q, OpenInner(q) PROVE IInv'
<1>1. Still /\ call' = call  BY DEF OpenInner, Still
<1> QED  BY <1>1, Stays

\* A scheme that listens keeps its port; one that does not has no session.
LEMMA EnsuredPort ==
    ASSUME TypeOK, SessionsAreServed, NEW t \in BOOLEAN, NEW wanted \in Ports \union {NoPort},
           NEW port \in Ensured(t, wanted)
    PROVE  /\ port \in Ports /\ (wanted \in Ports => port = wanted)
           /\ \A j \in Live : sessions[j].tls = t => sessions[j].port = port
<1>1. port \in Ports /\ (wanted \in Ports => port = wanted)
      BY WebDavAssumption DEF Ensured
<1>2. ASSUME NEW j \in Live, sessions[j].tls = t PROVE sessions[j].port = port
  <2>1. sessions[j] \in Sessions  BY SessionType
  <2>2. listener[t] = sessions[j].port  BY <1>2 DEF SessionsAreServed
  <2>3. listener[t] # NoPort  BY <2>1, <2>2, WebDavAssumption DEF Sessions
  <2> QED  BY <2>2, <2>3 DEF Ensured
<1> QED  BY <1>1, <1>2

\* A session opened or restored is served, and so is every other.
LEMMA AddedServed ==
    ASSUME TypeOK, SessionsAreServed, NEW i \in Ids, NEW s \in Sessions,
           \A j \in Live : sessions[j].tls = s.tls => sessions[j].port = s.port,
           listener' = [listener EXCEPT ![s.tls] = s.port],
           sessions' = [sessions EXCEPT ![i] = s]
    PROVE  /\ SessionsAreServed' /\ Live' = Live \union {i} /\ sessions'[i] = s
           /\ \A j \in Ids \ {i} : sessions'[j] = sessions[j]
           /\ sessions' \in [Ids -> Sessions \union {NoSession}]
           /\ listener' \in [BOOLEAN -> Ports \union {NoPort}]
<1>1. /\ sessions \in [Ids -> Sessions \union {NoSession}]
      /\ listener \in [BOOLEAN -> Ports \union {NoPort}]
      BY DEF TypeOK
<1>2. s.tls \in BOOLEAN /\ s.port \in Ports  BY DEF Sessions
<1>3. s # NoSession  BY WebDavAssumption
<1>4. /\ sessions' \in [Ids -> Sessions \union {NoSession}]
      /\ sessions'[i] = s /\ \A j \in Ids \ {i} : sessions'[j] = sessions[j]
      BY <1>1
<1>5. /\ listener' \in [BOOLEAN -> Ports \union {NoPort}]
      /\ listener'[s.tls] = s.port
      /\ \A t \in BOOLEAN : t # s.tls => listener'[t] = listener[t]
      BY <1>1, <1>2
<1>6. Live' = Live \union {i}  BY <1>3, <1>4 DEF Live
<1>7. SessionsAreServed'
  <2> SUFFICES ASSUME NEW j \in Live' PROVE listener'[sessions'[j].tls] = sessions'[j].port
      BY DEF SessionsAreServed
  <2>1. CASE j = i  BY <1>4, <1>5, <2>1
  <2>2. CASE j # i
    <3>1. j \in Live /\ sessions'[j] = sessions[j] /\ sessions[j] \in Sessions
          BY <1>4, <1>6, <2>2, SessionType DEF Live
    <3>2. sessions[j].tls \in BOOLEAN  BY <3>1 DEF Sessions
    <3> QED  BY <1>5, <3>1, <3>2 DEF SessionsAreServed
  <2> QED  BY <2>1, <2>2
<1> QED  BY <1>4, <1>5, <1>6, <1>7

LEMMA ActiveSessionOK ==
    ASSUME NEW h \in Handles, NEW r \in Records, NEW auth \in [mode : Modes, secret : Ids, maxNC : Nat]
    PROVE  /\ ActiveSession(h, r, auth) \in Sessions
           /\ ActiveSession(h, r, auth).h = h
           /\ ActiveSession(h, r, auth).tls = r.tls /\ ActiveSession(h, r, auth).port = r.port
<1>1. PICK A : A = [mode : Modes, secret : Ids, maxNC : Nat]  OBVIOUS
<1>2. r.life \in Lives /\ r.tls \in BOOLEAN /\ r.port \in Ports  BY DEF Records
<1>3. auth \in A  BY <1>1
<1>4. ActiveSession(h, r, auth) \in
         [h : Handles, life : Lives, tls : BOOLEAN, port : Ports, auth : A,
          policy : {"unset"}, mounted : Mounts \union {NoMount}, active : Nat]
      BY <1>2, <1>3 DEF ActiveSession
<1> QED  BY <1>1, <1>4 DEF Sessions, ActiveSession

LEMMA RestoreOneStep == ASSUME IInv, NEW p \in Procs, RestoreOne(p) PROVE IInv'
<1>1. call[p].pc = "restore" /\ UNCHANGED <<records, mount, script, used, revoked>>
      BY DEF RestoreOne, At
<1>2. CallOK(call[p]) /\ DOMAIN call = Procs /\ TypeOK /\ SessionsAreServed  BY DEF IInv, TypeOK
<1>3. PICK x \in call[p].todo :
         /\ \/ /\ sessions[x.id] = NoSession
               /\ \E port \in Ensured(x.tls, x.port) :
                     /\ listener' = [listener EXCEPT ![x.tls] = port]
                     /\ sessions' = [sessions EXCEPT ![x.id] =
                                        ActiveSession(call[p].h, x, AuthFromPersistent(x))]
            \/ UNCHANGED <<listener, sessions>>
         /\ call' = [call EXCEPT ![p] = Restoring(@, call[p].todo \ {x})]
      BY DEF RestoreOne
<1>4. PICK rest : rest = call[p].todo \ {x}  OBVIOUS
<1>5. /\ call[p].h \in Handles /\ x \in Records /\ rest \subseteq Records
      /\ call' = [call EXCEPT ![p] = Restoring(call[p], rest)]
      BY <1>2, <1>3, <1>4 DEF CallOK, Calls
<1>6. PICK c : c = Restoring(call[p], rest)  OBVIOUS
<1>7. /\ CallOK(c) /\ c.pc \in {"idle", "restore"}
      /\ c.todo # {} => c.todo \subseteq call[p].todo /\ c.h = call[p].h
  <2>1. CASE rest = {}  BY <1>6, <2>1, NoCallOK DEF Restoring
  <2>2. CASE rest # {}
    <3>1. c = [call[p] EXCEPT !.pc = "restore", !.todo = rest]  BY <1>6, <2>2 DEF Restoring
    <3>2. c \in Calls /\ c.pc = "restore" /\ c.todo = rest /\ c.h = call[p].h
          /\ c.mounts = call[p].mounts
          BY <1>2, <1>5, <3>1 DEF CallOK, Calls, Pcs
    <3>3. Coherent(c)  BY <1>1, <1>2, <3>2 DEF CallOK, Coherent
    <3> QED  BY <1>4, <3>2, <3>3 DEF CallOK
  <2> QED  BY <2>1, <2>2
<1>8. CallBecomes(p, c)  BY <1>5, <1>6, <1>7 DEF CallBecomes
<1>9. Known(c)
  <2>1. \A y \in c.todo : Pending(y.id, RootOf[c.h])  BY <1>7 DEF Pending
  <2> QED  BY <2>1 DEF Known, Appears
<1>10. Cleared(c) /\ c.pc # "register"  BY <1>7 DEF Cleared
<1>11. \A m \in Mounts : ~Holds(call[p], m)  BY <1>1, <1>2, QuietHolds
<1>12. CASE UNCHANGED <<listener, sessions>>
  <2>1. Still  BY <1>1, <1>12 DEF Still
  <2> QED  BY <1>8, <1>9, <1>10, <1>11, <2>1, CallMoves
<1>13. ASSUME NEW port \in Ensured(x.tls, x.port), sessions[x.id] = NoSession,
              listener' = [listener EXCEPT ![x.tls] = port],
              sessions' = [sessions EXCEPT ![x.id] =
                              ActiveSession(call[p].h, x, AuthFromPersistent(x))]
       PROVE  IInv'
  <2>1. /\ x.id \in Ids /\ x.tls \in BOOLEAN /\ x.port \in Ports
        /\ x.mode \in Modes /\ x.secret \in Ids
        BY <1>5 DEF Records
  <2>2. AuthFromPersistent(x) \in [mode : Modes, secret : Ids, maxNC : Nat]
        BY <2>1 DEF AuthFromPersistent
  <2>3. PICK s : s = ActiveSession(call[p].h, x, AuthFromPersistent(x))  OBVIOUS
  <2>4. s \in Sessions /\ s.h = call[p].h /\ s.tls = x.tls /\ s.port = x.port
        BY <1>5, <2>2, <2>3, ActiveSessionOK
  <2>5. port = x.port /\ \A j \in Live : sessions[j].tls = x.tls => sessions[j].port = port
        BY <1>2, <1>13, <2>1, EnsuredPort
  <2>6. /\ SessionsAreServed' /\ Live' = Live \union {x.id} /\ sessions'[x.id] = s
        /\ \A j \in Ids \ {x.id} : sessions'[j] = sessions[j]
        /\ sessions' \in [Ids -> Sessions \union {NoSession}]
        /\ listener' \in [BOOLEAN -> Ports \union {NoPort}]
    <3>1. listener' = [listener EXCEPT ![s.tls] = s.port]  BY <1>13, <2>4, <2>5
    <3>2. sessions' = [sessions EXCEPT ![x.id] = s]  BY <1>13, <2>3
    <3>3. \A j \in Live : sessions[j].tls = s.tls => sessions[j].port = s.port  BY <2>4, <2>5
    <3> QED  BY <1>2, <2>1, <2>4, <3>1, <3>2, <3>3, AddedServed
  <2>7. SessionsKnown
    <3> SUFFICES ASSUME NEW i \in Ids, sessions'[i] # NoSession
                 PROVE  Appears(i, RootOf[sessions'[i].h])
        BY DEF SessionsKnown
    <3>1. CASE i = x.id
      <4>1. Pending(i, RootOf[call[p].h])  BY <1>3, <3>1 DEF Pending
      <4> QED  BY <2>4, <2>6, <3>1, <4>1 DEF Appears
    <3>2. CASE i # x.id
      <4>1. Served(i, RootOf[sessions[i].h]) /\ sessions'[i] = sessions[i]
            BY <2>6, <3>2 DEF Served, Live
      <4> QED  BY <4>1 DEF Appears
    <3> QED  BY <3>1, <3>2
  <2>8. \A m \in Mounts : Listed(m) => Listed(m)'
    <3>1. \A i \in Live : i \in Ids \ {x.id}  BY <1>13 DEF Live
    <3> QED  BY <2>6, <3>1 DEF Listed
  <2> QED  BY <1>1, <1>8, <1>9, <1>10, <1>11, <2>6, <2>7, <2>8, SessionMoves
<1> QED  BY <1>3, <1>12, <1>13

-----------------------------------------------------------------------------
(* Steps that drop sessions *)

LEMMA DropFacts ==
    ASSUME TypeOK, NEW S, sessions' = Dropped(S)
    PROVE  /\ sessions' \in [Ids -> Sessions \union {NoSession}]
           /\ Live' = Live \ S /\ \A j \in Ids \ S : sessions'[j] = sessions[j]
           /\ SessionsKnown
<1>1. sessions \in [Ids -> Sessions \union {NoSession}]  BY DEF TypeOK
<1>2. /\ sessions' \in [Ids -> Sessions \union {NoSession}]
      /\ \A j \in Ids \ S : sessions'[j] = sessions[j]
      /\ \A j \in Ids \cap S : sessions'[j] = NoSession
      BY <1>1 DEF Dropped
<1>3. Live' = Live \ S  BY <1>2 DEF Live
<1>4. SessionsKnown
  <2> SUFFICES ASSUME NEW i \in Ids, sessions'[i] # NoSession
               PROVE  Appears(i, RootOf[sessions'[i].h])
      BY DEF SessionsKnown
  <2>1. sessions'[i] = sessions[i]  BY <1>2
  <2>2. Served(i, RootOf[sessions[i].h])  BY <2>1 DEF Served, Live
  <2> QED  BY <2>1, <2>2 DEF Appears
<1> QED  BY <1>2, <1>3, <1>4

\* A scheme only stops listening when its last session is gone.
LEMMA DropServed ==
    ASSUME TypeOK, SessionsAreServed, NEW S, sessions' = Dropped(S),
           listener' = StopIfIdle(listener, sessions')
    PROVE  SessionsAreServed' /\ listener' \in [BOOLEAN -> Ports \union {NoPort}]
<1>1. /\ sessions' \in [Ids -> Sessions \union {NoSession}]
      /\ Live' = Live \ S /\ \A j \in Ids \ S : sessions'[j] = sessions[j]
      BY DropFacts
<1>2. /\ listener' \in [BOOLEAN -> Ports \union {NoPort}]
      /\ \A t \in SchemesIn(sessions') \cap BOOLEAN : listener'[t] = listener[t]
      BY DEF TypeOK, StopIfIdle
<1>3. ASSUME NEW j \in Live' PROVE listener'[sessions'[j].tls] = sessions'[j].port
  <2>1. j \in Live /\ j \in Ids /\ sessions'[j] = sessions[j] /\ sessions'[j] # NoSession
        BY <1>1 DEF Live
  <2>2. sessions[j].tls \in BOOLEAN  BY <2>1, SessionType DEF Sessions
  <2>3. sessions'[j].tls \in SchemesIn(sessions')  BY <2>1 DEF SchemesIn
  <2> QED  BY <1>2, <2>1, <2>2, <2>3 DEF SessionsAreServed
<1> QED  BY <1>2, <1>3 DEF SessionsAreServed

\* The call takes down the mounts of the sessions it drops.
LEMMA Drops ==
    ASSUME IInv, NEW p, NEW c, CallBecomes(p, c), call[p].pc \notin {"unmount", "ready", "record"},
           NEW S, S \subseteq Live, sessions' = Dropped(S), c.mounts = MountsOf(S), c.todo = {},
           c.pc \notin {"register", "clear"},
           listener' \in [BOOLEAN -> Ports \union {NoPort}], SessionsAreServed',
           mount' = mount, script' = script, used' = used, revoked' \subseteq used,
           DOMAIN records' = Roots, \A r \in Roots : records'[r] \subseteq records[r],
           AppearsOnce'
    PROVE  IInv'
<1>0. TypeOK /\ FreshLeft /\ ClearedAreDown /\ MountsAreOwned /\ DownWhenOk /\ p \in Procs
      BY DEF IInv, CallBecomes
<1>1. /\ sessions' \in [Ids -> Sessions \union {NoSession}]
      /\ Live' = Live \ S /\ \A j \in Ids \ S : sessions'[j] = sessions[j]
      BY <1>0, DropFacts
<1>2. TypeOK'
  <2>1. DOMAIN call' = Procs /\ \A q \in Procs : CallOK(call'[q])  BY <1>0, CallStepped
  <2>2. \A r \in Roots : records'[r] \subseteq Records  BY <1>0 DEF TypeOK
  <2> QED  BY <1>0, <1>1, <2>1, <2>2 DEF TypeOK
<1>3. FreshLeft'  BY <1>0, RegisteringLess, FreshKept
<1>4. DownWhenOk'  BY <1>0 DEF DownWhenOk
<1>5. Cleared(c)  BY DEF Cleared
<1>6. ClearedAreDown'  BY <1>0, <1>5, ClearedKept
<1>7. MountsAreOwned'
  <2>1. CallOK(call[p])  BY <1>0 DEF TypeOK
  <2>2. \A m \in Mounts : ~Holds(call[p], m)  BY <2>1, QuietHolds
  <2>3. ASSUME NEW m \in Mounts, Listed(m) PROVE Holds(c, m) \/ Listed(m)'
    <3>1. PICK i \in Live : sessions[i].mounted = m  BY <2>3 DEF Listed
    <3>2. CASE i \in S
      <4>1. m \in MountsOf(S)  BY <3>1, <3>2, WebDavAssumption DEF MountsOf
      <4> QED  BY <4>1 DEF Holds
    <3>3. CASE i \notin S  BY <1>1, <3>1, <3>3 DEF Listed, Live
    <3> QED  BY <3>2, <3>3
  <2> QED  BY <1>0, <2>2, <2>3, OwnedKept
<1> QED  BY <1>2, <1>3, <1>4, <1>6, <1>7 DEF IInv

LEMMA DroppedMounts == ASSUME TypeOK, NEW S, S \subseteq Live PROVE MountsOf(S) \subseteq Mounts
<1>1. \A i \in S : sessions[i] \in Sessions  BY SessionType
<1>2. \A i \in S : sessions[i].mounted \in Mounts \union {NoMount}  BY <1>1 DEF Sessions
<1> QED  BY <1>2 DEF MountsOf

LEMMA CloseRootStep == ASSUME IInv, NEW p \in Procs, NEW h \in Handles, CloseRoot(p, h) PROVE IInv'
<1>1. PICK S : S = OfRoot(RootOf[h])  OBVIOUS
<1>2. S \subseteq Live  BY <1>1 DEF OfRoot
<1>3. PICK c0 : c0 = [NoCall EXCEPT !.op = "closeRoot", !.h = h, !.mounts = MountsOf(S)]  OBVIOUS
<1>4. /\ call[p].pc = "idle" /\ call' = [call EXCEPT ![p] = Unmounting(c0)]
      /\ sessions' = Dropped(S) /\ listener' = StopIfIdle(listener, sessions')
      /\ UNCHANGED <<records, mount, script, used, revoked>>
      BY <1>1, <1>3 DEF CloseRoot, Starts, At
<1>5. TypeOK /\ SessionsAreServed /\ AppearsOnce  BY DEF IInv
<1>6. MountsOf(S) \subseteq Mounts  BY <1>2, <1>5, DroppedMounts
<1>7. c0 \in Calls /\ c0.op = "closeRoot" /\ c0.todo = {} /\ c0.mounts = MountsOf(S)
      BY <1>3, <1>6, NoCallOK DEF CallOK, Calls, Ops
<1>8. PICK c : c = Unmounting(c0)  OBVIOUS
<1>9. CallOK(c) /\ c.mounts = MountsOf(S) /\ c.todo = {} /\ c.pc \notin {"register", "clear"}
      BY <1>7, <1>8, UnmountingOK
<1>10. CallBecomes(p, c)  BY <1>4, <1>8, <1>9 DEF CallBecomes
<1>11. SessionsAreServed' /\ listener' \in [BOOLEAN -> Ports \union {NoPort}]
       BY <1>4, <1>5, DropServed
<1>12. DOMAIN records' = Roots /\ \A r \in Roots : records'[r] \subseteq records[r]
       BY <1>4, <1>5 DEF TypeOK
<1>13. AppearsOnce'
  <2>1. SessionsKnown /\ Known(c)  BY <1>4, <1>5, <1>9, DropFacts DEF Known
  <2>2. \A i \in Ids, r \in Roots : Appears(i, r)' => Appears(i, r)
        BY <1>5, <1>10, <1>12, <2>1, NothingNew
  <2> QED  BY <1>4, <1>5, <2>2, AppearsKept
<1>14. revoked' \subseteq used  BY <1>4, <1>5 DEF TypeOK
<1> QED  BY <1>2, <1>4, <1>9, <1>10, <1>11, <1>12, <1>13, <1>14, Drops

LEMMA CloseManagerStep == ASSUME IInv, NEW p \in Procs, CloseManager(p) PROVE IInv'
<1>1. PICK S : S = Live  OBVIOUS
<1>2. S \subseteq Live  BY <1>1
<1>3. PICK c0 : c0 = [NoCall EXCEPT !.op = "revoke", !.mounts = MountsOf(S)]  OBVIOUS
<1>4. /\ call[p].pc = "idle" /\ call' = [call EXCEPT ![p] = Unmounting(c0)]
      /\ sessions' = Dropped(S) /\ listener' = [t \in BOOLEAN |-> NoPort]
      /\ UNCHANGED <<records, mount, script, used, revoked>>
      BY <1>1, <1>3 DEF CloseManager, Starts, At
<1>5. TypeOK /\ AppearsOnce  BY DEF IInv
<1>6. MountsOf(S) \subseteq Mounts  BY <1>2, <1>5, DroppedMounts
<1>7. c0 \in Calls /\ c0.op = "revoke" /\ c0.todo = {} /\ c0.mounts = MountsOf(S)
      BY <1>3, <1>6, NoCallOK DEF CallOK, Calls, Ops
<1>8. PICK c : c = Unmounting(c0)  OBVIOUS
<1>9. CallOK(c) /\ c.mounts = MountsOf(S) /\ c.todo = {} /\ c.pc \notin {"register", "clear"}
      BY <1>7, <1>8, UnmountingOK
<1>10. CallBecomes(p, c)  BY <1>4, <1>8, <1>9 DEF CallBecomes
<1>11. SessionsAreServed' /\ listener' \in [BOOLEAN -> Ports \union {NoPort}]
  <2>1. Live' = {}  BY <1>1, <1>4, <1>5, DropFacts
  <2> QED  BY <1>4, <2>1 DEF SessionsAreServed
<1>12. DOMAIN records' = Roots /\ \A r \in Roots : records'[r] \subseteq records[r]
       BY <1>4, <1>5 DEF TypeOK
<1>13. AppearsOnce'
  <2>1. SessionsKnown /\ Known(c)  BY <1>4, <1>5, <1>9, DropFacts DEF Known
  <2>2. \A i \in Ids, r \in Roots : Appears(i, r)' => Appears(i, r)
        BY <1>5, <1>10, <1>12, <2>1, NothingNew
  <2> QED  BY <1>4, <1>5, <2>2, AppearsKept
<1>14. revoked' \subseteq used  BY <1>4, <1>5 DEF TypeOK
<1> QED  BY <1>2, <1>4, <1>9, <1>10, <1>11, <1>12, <1>13, <1>14, Drops

\* A failed save leaves the records as they were, none of that root, or the new ones.
LEMMA SaveFailsLess ==
    ASSUME TypeOK, NEW r \in Roots, NEW new, SaveFails(r, new)
    PROVE  /\ DOMAIN records' = Roots /\ \A s \in Roots \ {r} : records'[s] = records[s]
           /\ records'[r] \subseteq records[r] \union new
<1>1. DOMAIN records = Roots  BY DEF TypeOK
<1>2. CASE records' = records  BY <1>1, <1>2
<1>3. CASE records' = [records EXCEPT ![r] = {}]  BY <1>1, <1>3
<1>4. CASE records' = [records EXCEPT ![r] = new]  BY <1>1, <1>4
<1> QED  BY <1>2, <1>3, <1>4 DEF SaveFails

LEMMA RevokeStep == ASSUME IInv, NEW p \in Procs, NEW i \in used, Revoke(p, i) PROVE IInv'
<1>1. TypeOK /\ SessionsAreServed /\ AppearsOnce  BY DEF IInv
<1>2. i \in Live /\ i \in Ids /\ sessions[i] \in Sessions  BY <1>1, SessionType DEF Revoke
<1>3. PICK root \in Roots : root = RootOf[sessions[i].h]
      BY <1>2, WebDavAssumption DEF Sessions
<1>4. PICK S : S = {i}  OBVIOUS
<1>5. PICK c0 : c0 = [NoCall EXCEPT !.op = "revoke", !.mounts = MountsOf(S)]  OBVIOUS
<1>6. /\ call[p].pc = "idle" /\ call' = [call EXCEPT ![p] = Unmounting(c0)]
      /\ sessions' = Dropped(S) /\ listener' = StopIfIdle(listener, sessions')
      /\ UNCHANGED <<mount, script, used>>
      BY <1>4, <1>5 DEF Revoke, Starts, At
<1>7. S \subseteq Live  BY <1>2, <1>4
<1>8. MountsOf(S) \subseteq Mounts  BY <1>1, <1>7, DroppedMounts
<1>9. c0 \in Calls /\ c0.op = "revoke" /\ c0.todo = {} /\ c0.mounts = MountsOf(S)
      BY <1>5, <1>8, NoCallOK DEF CallOK, Calls, Ops
<1>10. PICK c : c = Unmounting(c0)  OBVIOUS
<1>11. CallOK(c) /\ c.mounts = MountsOf(S) /\ c.todo = {} /\ c.pc \notin {"register", "clear"}
       BY <1>9, <1>10, UnmountingOK
<1>12. CallBecomes(p, c)  BY <1>6, <1>10, <1>11 DEF CallBecomes
<1>13. SessionsAreServed' /\ listener' \in [BOOLEAN -> Ports \union {NoPort}]
       BY <1>1, <1>6, DropServed
<1>14. SessionsKnown /\ Known(c) /\ Live' = Live \ S
       BY <1>1, <1>6, <1>11, DropFacts DEF Known
<1>15. CASE /\ records' = [records EXCEPT ![root] = Without(@, i)]
            /\ revoked' = IF BeingRestored(i) THEN revoked ELSE revoked \union {i}
  <2>1. /\ DOMAIN records' = Roots /\ \A r \in Roots : records'[r] \subseteq records[r]
        /\ records'[root] = Without(records[root], i)
        BY <1>1, <1>3, <1>15 DEF TypeOK, Without
  <2>2. \A j \in Ids, r \in Roots : Appears(j, r)' => Appears(j, r)
        BY <1>1, <1>12, <1>14, <2>1, NothingNew
  <2>3. revoked' \subseteq used  BY <1>1, <1>15 DEF TypeOK
  <2>4. AppearsOnce'
    <3>1. CASE BeingRestored(i)
      <4>1. revoked' = revoked  BY <1>15, <3>1
      <4> QED  BY <1>1, <1>6, <2>2, <4>1, AppearsKept
    <3>2. CASE ~BeingRestored(i)
      <4>1. revoked' = revoked \union {i}  BY <1>15, <3>2
      <4>2. ASSUME NEW r \in Roots, Appears(i, r)' PROVE FALSE
        <5>1. Served(i, root)  BY <1>2, <1>3 DEF Served
        <5>2. r = root  BY <1>1, <1>2, <1>3, <2>2, <4>2, <5>1 DEF AppearsOnce, Appears
        <5>3. CASE Stored(i, r)'  BY <2>1, <5>2, <5>3 DEF Stored, Without
        <5>4. CASE Pending(i, r)'
          <6>1. PICK q \in Procs : \E x \in call'[q].todo : x.id = i  BY <5>4 DEF Pending
          <6>2. call'[p] = c /\ \A o \in Procs \ {p} : call'[o] = call[o]
                BY <1>1, <1>12, CallStepped
          <6> QED  BY <1>11, <3>2, <6>1, <6>2 DEF BeingRestored
        <5>5. CASE Served(i, r)'  BY <1>4, <1>14, <5>5 DEF Served
        <5> QED  BY <4>2, <5>3, <5>4, <5>5 DEF Appears
      <4>3. ASSUME NEW j \in Ids, NEW r \in Roots, Appears(j, r)'
            PROVE  j \in used' /\ j \notin revoked' /\ \A s \in Roots : Appears(j, s)' => s = r
        <5>1. Appears(j, r) /\ j # i  BY <2>2, <4>2, <4>3
        <5>2. j \in used /\ j \notin revoked /\ \A s \in Roots : Appears(j, s) => s = r
              BY <1>1, <5>1 DEF AppearsOnce
        <5> QED  BY <1>6, <2>2, <4>1, <5>1, <5>2
      <4> QED  BY <4>3 DEF AppearsOnce
    <3> QED  BY <3>1, <3>2
  <2> QED  BY <1>6, <1>7, <1>11, <1>12, <1>13, <2>1, <2>3, <2>4, Drops
<1>16. CASE SaveFails(root, Without(records[root], i)) /\ UNCHANGED revoked
  <2>1. DOMAIN records' = Roots /\ \A r \in Roots : records'[r] \subseteq records[r]
    <3>1. PICK new : new = Without(records[root], i)  OBVIOUS
    <3>2. new \subseteq records[root]  BY <3>1 DEF Without
    <3>3. /\ DOMAIN records' = Roots /\ \A r \in Roots \ {root} : records'[r] = records[r]
          /\ records'[root] \subseteq records[root] \union new
          BY <1>1, <1>16, <3>1, SaveFailsLess
    <3> QED  BY <3>2, <3>3
  <2>2. \A j \in Ids, r \in Roots : Appears(j, r)' => Appears(j, r)
        BY <1>1, <1>12, <1>14, <2>1, NothingNew
  <2>3. AppearsOnce' /\ revoked' \subseteq used
        BY <1>1, <1>6, <1>16, <2>2, AppearsKept DEF TypeOK
  <2> QED  BY <1>6, <1>7, <1>11, <1>12, <1>13, <2>1, <2>3, Drops
<1> QED  BY <1>3, <1>15, <1>16 DEF Revoke

-----------------------------------------------------------------------------
(* Opening sessions *)

LEMMA FiniteCounts ==
    ASSUME TypeOK
    PROVE  /\ IsFiniteSet(used) /\ IsFiniteSet(Ids) /\ IsFiniteSet(Registering)
           /\ Cardinality(used) \in Nat /\ Cardinality(Ids) \in Nat
           /\ Cardinality(Registering) \in Nat
<1>1. IsFiniteSet(Registering)  BY WebDavAssumption, FS_Subset DEF Registering
<1>2. IsFiniteSet(used) /\ IsFiniteSet(Ids)  BY WebDavAssumption, FS_Subset DEF TypeOK
<1> QED  BY <1>1, <1>2, FS_CardinalityType

LEMMA OpenSessionStep ==
    ASSUME IInv, NEW p \in Procs, NEW h \in Handles, NEW o \in Options, OpenSession(p, h, o)
    PROVE  IInv'
<1>1. PICK c : c = [NoCall EXCEPT !.pc = "register", !.op = "openSession", !.h = h, !.options = o]
      OBVIOUS
<1>2. CallOK(c) /\ c.pc = "register" /\ c.todo = {}
      BY <1>1, NoCallOK DEF CallOK, Calls, Pcs, Ops, Coherent
<1>3. CallBecomes(p, c) /\ call[p].pc = "idle" /\ Still
      BY <1>1, <1>2 DEF OpenSession, Starts, At, CallBecomes, Still
<1>4. TypeOK /\ CallOK(call[p])  BY DEF IInv, TypeOK
<1>5. FreshLeft'
  <2>1. call'[p] = c /\ \A q \in Procs \ {p} : call'[q] = call[q]  BY <1>3, <1>4, CallStepped
  <2>2. Registering' = Registering \union {p} /\ p \notin Registering
        BY <1>2, <1>3, <2>1 DEF Registering, At
  <2>3. Cardinality(Registering') = Cardinality(Registering) + 1
        BY <1>4, <2>2, FiniteCounts, FS_AddElement
  <2>4. Cardinality(used) + Cardinality(Registering) < Cardinality(Ids)
        BY DEF OpenSession, IdsLeft, Registering
  <2>5. Cardinality(used') = Cardinality(used)  BY <1>3 DEF Still
  <2> QED  BY <1>4, <2>3, <2>4, <2>5, FiniteCounts DEF FreshLeft
<1>6. Known(c) /\ Cleared(c)  BY <1>2 DEF Known, Cleared
<1>7. \A m \in Mounts : ~Holds(call[p], m)  BY <1>3, <1>4, QuietHolds
<1> QED  BY <1>3, <1>5, <1>6, <1>7, CallMovesBut

\* A session is being opened: an identifier nobody has had is left.
LEMMA NewIdFresh ==
    ASSUME TypeOK, FreshLeft, NEW p \in Procs, At(p, "register")
    PROVE  NewId \in Ids /\ NewId \notin used
<1>1. p \in Registering  BY DEF Registering
<1>2. Cardinality(Registering) # 0  BY <1>1, FiniteCounts, FS_EmptySet
<1>3. Cardinality(used) < Cardinality(Ids)  BY <1>2, FiniteCounts DEF FreshLeft
<1>4. used # Ids  BY <1>3, FiniteCounts
<1>5. \E i \in Ids : i \notin used  BY <1>4 DEF TypeOK
<1> QED  BY <1>5 DEF NewId

\* The sessions stay while a listener was started, or stopped again.
LEMMA ListenerServed ==
    ASSUME TypeOK, SessionsAreServed, sessions' = sessions,
           NEW t \in BOOLEAN, NEW wanted \in Ports \union {NoPort}, NEW port \in Ensured(t, wanted),
           NEW on, on = [listener EXCEPT ![t] = port],
           listener' = on \/ listener' = StopIfIdle(on, sessions)
    PROVE  SessionsAreServed' /\ listener' \in [BOOLEAN -> Ports \union {NoPort}]
<1>1. port \in Ports /\ \A j \in Live : sessions[j].tls = t => sessions[j].port = port
      BY EnsuredPort
<1>2. /\ on \in [BOOLEAN -> Ports \union {NoPort}]
      /\ on[t] = port /\ \A u \in BOOLEAN : u # t => on[u] = listener[u]
      BY <1>1 DEF TypeOK
<1>3. /\ listener' \in [BOOLEAN -> Ports \union {NoPort}]
      /\ \A u \in SchemesIn(sessions) \cap BOOLEAN : listener'[u] = on[u]
      BY <1>2 DEF StopIfIdle
<1>4. ASSUME NEW j \in Live' PROVE listener'[sessions'[j].tls] = sessions'[j].port
  <2>1. j \in Live /\ sessions'[j] = sessions[j] /\ sessions[j] # NoSession  BY DEF Live
  <2>2. j \in Ids /\ sessions[j].tls \in BOOLEAN  BY <2>1, SessionType DEF Sessions
  <2>3. sessions[j].tls \in SchemesIn(sessions)  BY <2>1, <2>2 DEF SchemesIn
  <2>4. listener'[sessions[j].tls] = on[sessions[j].tls]  BY <1>3, <2>2, <2>3
  <2>5. CASE sessions[j].tls = t  BY <1>1, <1>2, <2>1, <2>4, <2>5
  <2>6. CASE sessions[j].tls # t
        BY <1>2, <2>1, <2>2, <2>4, <2>6 DEF SessionsAreServed
  <2> QED  BY <2>5, <2>6
<1> QED  BY <1>3, <1>4 DEF SessionsAreServed

\* Opening a session fails before its record is saved: no session, no identifier.
LEMMA RegisterFails ==
    ASSUME IInv, NEW p \in Procs, At(p, "register"), Returns(p),
           UNCHANGED <<sessions, mount, script, used, revoked>>,
           DOMAIN records' = Roots, \A r \in Roots : records'[r] \subseteq records[r],
           SessionsAreServed', listener' \in [BOOLEAN -> Ports \union {NoPort}]
    PROVE  IInv'
<1>1. TypeOK /\ AppearsOnce  BY DEF IInv
<1>2. CallBecomes(p, NoCall)  BY NoCallOK DEF CallBecomes, Returns
<1>3. sessions' = Dropped({})  BY <1>1 DEF TypeOK, Dropped
<1>4. SessionsKnown /\ Known(NoCall)  BY <1>1, LiveKnown, NoCallOK DEF Known
<1>5. \A j \in Ids, r \in Roots : Appears(j, r)' => Appears(j, r)
      BY <1>1, <1>2, <1>4, NothingNew
<1>6. AppearsOnce' /\ revoked' \subseteq used  BY <1>1, <1>5, AppearsKept DEF TypeOK
<1>7. /\ NoCall.mounts = MountsOf({}) /\ NoCall.todo = {}
      /\ NoCall.pc \notin {"register", "clear"} /\ call[p].pc \notin {"unmount", "ready", "record"}
      BY NoCallOK DEF MountsOf, At
<1>8. PICK S : S = {}  OBVIOUS
<1>9. S \subseteq Live /\ sessions' = Dropped(S) /\ NoCall.mounts = MountsOf(S)
      BY <1>3, <1>7, <1>8
<1>10. mount' = mount /\ script' = script /\ used' = used  OBVIOUS
<1> QED  BY <1>2, <1>6, <1>7, <1>8, <1>9, <1>10, Drops

\* An identifier is drawn, and its record may be stored at the root: there it turns
\* up for the first time, whether the session is opened too or saving it failed.
Draws(i, x, root) ==
    /\ i \in Ids /\ i \notin used /\ used' = used \union {i}
    /\ root \in Roots /\ x \in Records /\ x.id = i
    /\ DOMAIN records' = Roots /\ \A r \in Roots \ {root} : records'[r] = records[r]
    /\ records'[root] \subseteq records[root] \union {x}

LEMMA RegisterDraws ==
    ASSUME IInv, NEW p \in Procs, At(p, "register"), Returns(p), UNCHANGED <<mount, script, revoked>>,
           NEW i, NEW x, NEW root, Draws(i, x, root),
           SessionsAreServed', sessions' \in [Ids -> Sessions \union {NoSession}],
           listener' \in [BOOLEAN -> Ports \union {NoPort}],
           \A j \in Ids \ {i} : sessions'[j] = sessions[j],
           sessions'[i] = sessions[i] \/ RootOf[sessions'[i].h] = root
    PROVE  IInv'
<1> USE DEF Draws
<1>1. TypeOK /\ AppearsOnce /\ SessionsAreServed /\ FreshLeft  BY DEF IInv
<1>2. CallBecomes(p, NoCall)  BY NoCallOK DEF CallBecomes, Returns
<1>3. /\ DOMAIN call' = Procs /\ \A q \in Procs : CallOK(call'[q])
      /\ call'[p] = NoCall /\ \A q \in Procs \ {p} : call'[q] = call[q]
      BY <1>1, <1>2, CallStepped
<1>4. i \notin Live
  <2>1. ASSUME i \in Live PROVE FALSE
    <3>1. sessions[i].h \in Handles  BY <1>1, <2>1, SessionType DEF Sessions
    <3>2. RootOf[sessions[i].h] \in Roots /\ Served(i, RootOf[sessions[i].h])
          BY <2>1, <3>1, WebDavAssumption DEF Served
    <3> QED  BY <1>1, <3>2 DEF AppearsOnce, Appears
  <2> QED  BY <2>1
<1>5. \A r \in Roots : \A y \in records'[r] : y \in records[r] \/ (r = root /\ y = x)
      OBVIOUS
<1>6. TypeOK'
  <2>1. \A r \in Roots : records'[r] \subseteq Records  BY <1>1, <1>5 DEF TypeOK
  <2>2. used' \subseteq Ids /\ revoked' \subseteq used'  BY <1>1 DEF TypeOK
  <2>3. mount' \in [Mounts -> MountStates] /\ script' \in Mounts \union {NoMount}
        BY <1>1 DEF TypeOK
  <2> QED  BY <1>3, <1>5, <2>1, <2>2, <2>3 DEF TypeOK
<1>7. FreshLeft'
  <2>1. Registering' = Registering \ {p} /\ p \in Registering
        BY <1>3, NoCallOK DEF Registering, At
  <2>2. Cardinality(Registering') = Cardinality(Registering) - 1
        BY <1>1, <2>1, FiniteCounts, FS_RemoveElement
  <2>3. Cardinality(used') = Cardinality(used) + 1  BY <1>1, FiniteCounts, FS_AddElement
  <2> QED  BY <1>1, <2>2, <2>3, FiniteCounts DEF FreshLeft
<1>8. AppearsOnce'
  <2>1. ASSUME NEW j \in Ids, NEW r \in Roots, Appears(j, r)'
        PROVE  Appears(j, r) \/ (j = i /\ r = root)
    <3>1. CASE Stored(j, r)'  BY <1>5, <3>1 DEF Stored, Appears
    <3>2. CASE Pending(j, r)'
      <4>1. Pending(j, r)  BY <1>3, <3>2, NoCallOK DEF Pending
      <4> QED  BY <4>1 DEF Appears
    <3>3. CASE Served(j, r)'
      <4>1. sessions'[j] # NoSession /\ RootOf[sessions'[j].h] = r  BY <3>3 DEF Served, Live
      <4>2. CASE j = i
        <5>1. sessions[i] = NoSession  BY <1>4, <4>2 DEF Live
        <5> QED  BY <4>1, <4>2, <5>1
      <4>3. CASE j # i
        <5>1. sessions'[j] = sessions[j]  BY <4>3
        <5>2. Served(j, r)  BY <4>1, <5>1 DEF Served, Live
        <5> QED  BY <5>2 DEF Appears
      <4> QED  BY <4>2, <4>3
    <3> QED  BY <2>1, <3>1, <3>2, <3>3 DEF Appears
  <2>2. \A r \in Roots : ~Appears(i, r)  BY <1>1 DEF AppearsOnce
  <2>3. ASSUME NEW j \in Ids, NEW r \in Roots, Appears(j, r)'
        PROVE  j \in used' /\ j \notin revoked' /\ \A u \in Roots : Appears(j, u)' => u = r
    <3>1. CASE j = i
      <4>1. \A u \in Roots : Appears(j, u)' => u = root  BY <2>1, <2>2, <3>1
      <4>2. i \notin revoked  BY <1>1 DEF TypeOK
      <4> QED  BY <2>3, <3>1, <4>1, <4>2
    <3>2. CASE j # i
      <4>1. Appears(j, r)  BY <2>1, <2>3, <3>2
      <4>2. j \in used /\ j \notin revoked /\ \A u \in Roots : Appears(j, u) => u = r
            BY <1>1, <4>1 DEF AppearsOnce
      <4> QED  BY <2>1, <3>2, <4>2
    <3> QED  BY <3>1, <3>2
  <2> QED  BY <2>3 DEF AppearsOnce
<1>9. DownWhenOk'  BY DEF IInv, DownWhenOk
<1>10. ClearedAreDown'
  <2>1. Cleared(NoCall)  BY NoCallOK DEF Cleared
  <2> QED  BY <1>1, <1>2, <2>1, ClearedKept DEF IInv
<1>11. MountsAreOwned'
  <2>1. CallOK(call[p])  BY <1>1 DEF TypeOK
  <2>2. \A m \in Mounts : ~Holds(call[p], m)  BY <2>1, QuietHolds DEF At
  <2>3. \A j \in Live : j \in Ids \ {i} /\ sessions'[j] # NoSession  BY <1>4 DEF Live
  <2>4. \A m \in Mounts : Listed(m) => Listed(m)'  BY <2>3 DEF Listed, Live
  <2> QED  BY <1>1, <1>2, <2>2, <2>4, OwnedKept DEF IInv
<1> QED  BY <1>6, <1>7, <1>8, <1>9, <1>10, <1>11 DEF IInv

LEMMA RegisterStep == ASSUME IInv, NEW p \in Procs, Register(p) PROVE IInv'
<1>1. TypeOK /\ SessionsAreServed /\ FreshLeft /\ CallOK(call[p])  BY DEF IInv, TypeOK
<1>2. At(p, "register") /\ Returns(p) /\ UNCHANGED <<mount, script, revoked>>  BY DEF Register
<1>3. PICK c : c = Normalized(call[p].options)  OBVIOUS
<1>4. /\ c.life \in Lives /\ c.tls \in BOOLEAN /\ c.port \in Ports \union {NoPort} /\ c.mode \in Modes
  <2>1. call[p].options \in [life : Lives, tls : BOOLEAN, port : Ports \union {NoPort},
                             mode : {""} \union Modes]
        BY <1>1, WebDavAssumption DEF CallOK, Calls
  <2>2. CASE call[p].options.mode = ""  BY <1>3, <2>1, <2>2 DEF Normalized, Modes
  <2>3. CASE call[p].options.mode # ""  BY <1>3, <2>1, <2>3 DEF Normalized
  <2> QED  BY <2>2, <2>3
<1>5. PICK h \in Handles : h = call[p].h  BY <1>1 DEF CallOK, Calls
<1>6. PICK root \in Roots : root = RootOf[h]  BY <1>5, WebDavAssumption
<1>7. DOMAIN records = Roots /\ listener \in [BOOLEAN -> Ports \union {NoPort}]  BY <1>1 DEF TypeOK
<1>8. CASE UNCHANGED <<sessions, records, listener, used>>
  <2>1. SessionsAreServed'  BY <1>1, <1>8 DEF SessionsAreServed, Live
  <2> QED  BY <1>2, <1>7, <1>8, <2>1, RegisterFails
<1>9. ASSUME NEW port \in Ensured(c.tls, c.port), UNCHANGED <<sessions, records, used>>,
             listener' = [listener EXCEPT ![c.tls] = port]
      PROVE  IInv'
  <2>1. PICK on : on = [listener EXCEPT ![c.tls] = port]  OBVIOUS
  <2>2. SessionsAreServed' /\ listener' \in [BOOLEAN -> Ports \union {NoPort}]
        BY <1>1, <1>4, <1>9, <2>1, ListenerServed
  <2> QED  BY <1>2, <1>7, <1>9, <2>2, RegisterFails
<1>11. ASSUME NEW port \in Ensured(c.tls, c.port), sessions' = sessions,
              NEW on, on = [listener EXCEPT ![c.tls] = port],
              listener' = StopIfIdle(on, sessions), used' = used \union {NewId},
              SaveFails(root, records[root] \union {Record(NewId, c, port)})
       PROVE  IInv'
  <2>1. PICK i \in Ids : i = NewId /\ i \notin used  BY <1>1, <1>2, NewIdFresh
  <2>2. port \in Ports  BY <1>1, <1>4, <1>11, EnsuredPort
  <2>3. PICK x : x = Record(i, c, port)  OBVIOUS
  <2>4. x \in Records /\ x.id = i  BY <1>4, <2>2, <2>3 DEF Record, Records
  <2>5. PICK new : new = records[root] \union {x}  OBVIOUS
  <2>6. SaveFails(root, new)  BY <1>11, <2>1, <2>3, <2>5
  <2>7. /\ DOMAIN records' = Roots /\ \A r \in Roots \ {root} : records'[r] = records[r]
        /\ records'[root] \subseteq records[root] \union {x}
        BY <1>1, <2>5, <2>6, SaveFailsLess
  <2>8. Draws(i, x, root)  BY <1>11, <2>1, <2>4, <2>7 DEF Draws
  <2>9. SessionsAreServed' /\ listener' \in [BOOLEAN -> Ports \union {NoPort}]
        BY <1>1, <1>4, <1>11, ListenerServed
  <2>10. sessions' \in [Ids -> Sessions \union {NoSession}]  BY <1>1, <1>11 DEF TypeOK
  <2>11. \A j \in Ids : sessions'[j] = sessions[j]  BY <1>11
  <2> QED  BY <1>2, <2>8, <2>9, <2>10, <2>11, RegisterDraws
<1>10. ASSUME NEW port \in Ensured(c.tls, c.port),
              listener' = [listener EXCEPT ![c.tls] = port], used' = used \union {NewId},
              records' = IF c.life = "persistent"
                         THEN [records EXCEPT ![root] = @ \union {Record(NewId, c, port)}]
                         ELSE records,
              sessions' = [sessions EXCEPT ![NewId] =
                              ActiveSession(h, Record(NewId, c, port), NewAuth(NewId, c.mode))]
       PROVE  IInv'
  <2>1. PICK i \in Ids : i = NewId /\ i \notin used  BY <1>1, <1>2, NewIdFresh
  <2>2. port \in Ports /\ \A j \in Live : sessions[j].tls = c.tls => sessions[j].port = port
        BY <1>1, <1>4, <1>10, EnsuredPort
  <2>3. PICK x : x = Record(i, c, port)  OBVIOUS
  <2>4. x \in Records /\ x.id = i /\ x.tls = c.tls /\ x.port = port
        BY <1>4, <2>2, <2>3 DEF Record, Records
  <2>5. NewAuth(i, c.mode) \in [mode : Modes, secret : Ids, maxNC : Nat]
        BY <1>4 DEF NewAuth
  <2>6. PICK s : s = ActiveSession(h, x, NewAuth(i, c.mode))  OBVIOUS
  <2>7. s \in Sessions /\ s.h = h /\ s.tls = c.tls /\ s.port = port
        BY <2>4, <2>5, <2>6, ActiveSessionOK
  <2>8. /\ used' = used \union {i} /\ sessions' = [sessions EXCEPT ![i] = s]
        /\ listener' = [listener EXCEPT ![s.tls] = s.port]
        /\ records' = records \/ records' = [records EXCEPT ![root] = @ \union {x}]
        BY <1>10, <2>1, <2>3, <2>6, <2>7
  <2>9. /\ \A j \in Live : sessions[j].tls = s.tls => sessions[j].port = s.port
        /\ RootOf[s.h] = root
        BY <1>6, <2>2, <2>7
  <2>10. /\ DOMAIN records' = Roots /\ \A r \in Roots \ {root} : records'[r] = records[r]
         /\ records'[root] \subseteq records[root] \union {x}
         BY <1>7, <2>8
  <2>11. Draws(i, x, root)  BY <2>1, <2>4, <2>8, <2>10 DEF Draws
  <2>12. /\ SessionsAreServed' /\ sessions'[i] = s
         /\ \A j \in Ids \ {i} : sessions'[j] = sessions[j]
         /\ sessions' \in [Ids -> Sessions \union {NoSession}]
         /\ listener' \in [BOOLEAN -> Ports \union {NoPort}]
         BY <1>1, <2>1, <2>7, <2>8, <2>9, AddedServed
  <2>13. RootOf[sessions'[i].h] = root  BY <2>9, <2>12
  <2> QED  BY <1>2, <2>11, <2>12, <2>13, RegisterDraws
<1> QED  BY <1>3, <1>5, <1>6, <1>8, <1>9, <1>10, <1>11 DEF Register

-----------------------------------------------------------------------------
(* The theorems *)

LEMMA InitIInv == Init => IInv
<1> SUFFICES ASSUME Init PROVE IInv  OBVIOUS
<1> USE DEF Init
<1>1. \A p \in Procs : call[p] = NoCall  OBVIOUS
<1>2. Live = {} /\ \A r \in Roots : records[r] = {}  BY DEF Live
<1>3. TypeOK
  <2>1. (CHOOSE p \in Procs : TRUE) \in Procs  BY WebDavAssumption
  <2>2. mount \in [Mounts -> MountStates]  BY <2>1 DEF MountStates
  <2>3. DOMAIN call = Procs /\ \A p \in Procs : CallOK(call[p])  BY <1>1, NoCallOK
  <2> QED  BY <1>2, <2>2, <2>3 DEF TypeOK
<1>4. FreshLeft
  <2>1. Registering = {}  BY <1>1, NoCallOK DEF Registering, At
  <2>2. Cardinality({}) = 0  BY FS_EmptySet
  <2>3. Cardinality(Ids) \in Nat  BY <1>3, FiniteCounts
  <2> QED  BY <2>1, <2>2, <2>3 DEF FreshLeft
<1>5. AppearsOnce
  <2>1. \A i \in Ids, r \in Roots : ~Appears(i, r)
        BY <1>1, <1>2, NoCallOK DEF Appears, Stored, Pending, Served
  <2> QED  BY <2>1 DEF AppearsOnce
<1>6. SessionsAreServed  BY <1>2 DEF SessionsAreServed
<1>7. DownWhenOk /\ MountsAreOwned  BY DEF DownWhenOk, MountsAreOwned
<1>8. ClearedAreDown  BY <1>1, NoCallOK DEF ClearedAreDown, Cleared
<1> QED  BY <1>3, <1>4, <1>5, <1>6, <1>7, <1>8 DEF IInv

LEMMA NextIInv == IInv /\ [Next]_vars => IInv'
<1> SUFFICES ASSUME IInv, [Next]_vars PROVE IInv'  OBVIOUS
<1>1. CASE UNCHANGED vars
  <2>1. Still /\ call' = call  BY <1>1 DEF vars, Still
  <2> QED  BY <2>1, Stays
<1>2. ASSUME NEW p \in Procs, Step(p) PROVE IInv'
  <2>1. CASE RestoreLoad(p)  BY <2>1, RestoreLoadStep
  <2>2. CASE RestoreOne(p)  BY <2>2, RestoreOneStep
  <2>3. CASE CloseRootEnd(p)  BY <2>3, CloseRootEndStep
  <2>14. CASE CloseRootAnnounce(p)  BY <2>14, CloseRootAnnounceStep
  <2>4. CASE Register(p)  BY <2>4, RegisterStep
  <2>5. ASSUME NEW m \in Mounts, UnmountBegin(p, m) PROVE IInv'  BY <2>5, UnmountBeginStep
  <2>6. ASSUME NEW m \in Mounts, UnmountEnd(p, m) PROVE IInv'  BY <2>6, UnmountEndStep
  <2>7. ASSUME NEW m \in Mounts, Unmounted(p, m) PROVE IInv'  BY <2>7, UnmountedStep
  <2>8. CASE MountPrepare(p)  BY <2>8, MountPrepareStep
  <2>15. CASE RunCommand(p)  BY <2>15, RunCommandStep
  <2>16. CASE MountReady(p)  BY <2>16, MountReadyStep
  <2>9. CASE MountRecord(p)  BY <2>9, MountRecordStep
  <2>10. CASE MountCheck(p)  BY <2>10, MountCheckStep
  <2>11. CASE Detach(p)  BY <2>11, DetachStep
  <2>12. CASE ClearMount(p)  BY <2>12, ClearMountStep
  <2>13. CASE Finish(p)  BY <2>13, FinishStep
  <2> QED  BY <1>2, <2>1, <2>2, <2>3, <2>4, <2>5, <2>6, <2>7, <2>8, <2>9, <2>10, <2>11,
              <2>12, <2>13, <2>14, <2>15, <2>16 DEF Step
<1>3. ASSUME NEW p \in Procs, NewCall(p) PROVE IInv'
  <2>1. ASSUME NEW h \in Handles, OpenRoot(p, h) PROVE IInv'  BY <2>1, OpenRootStep
  <2>2. ASSUME NEW h \in Handles, CloseRoot(p, h) PROVE IInv'  BY <2>2, CloseRootStep
  <2>3. ASSUME NEW h \in Handles, NEW o \in Options, OpenSession(p, h, o) PROVE IInv'
        BY <2>3, OpenSessionStep
  <2>4. CASE CloseManager(p)  BY <2>4, CloseManagerStep
  <2>5. used \subseteq Ids  BY DEF IInv, TypeOK
  <2>6. ASSUME NEW i \in used, Revoke(p, i) PROVE IInv'  BY <2>6, RevokeStep
  <2>7. ASSUME NEW i \in used, MountStart(p, i) PROVE IInv'  BY <2>5, <2>7, MountStartStep
  <2>8. ASSUME NEW i \in used, UnmountStart(p, i) PROVE IInv'  BY <2>5, <2>8, UnmountStartStep
  <2>9. CASE Cancel(p)  BY <2>9, CancelStep
  <2> QED  BY <1>3, <2>1, <2>2, <2>3, <2>4, <2>6, <2>7, <2>8, <2>9 DEF NewCall
<1>4. ASSUME NEW q \in Reqs, Request(q) PROVE IInv'
  <2>1. ASSUME NEW i \in used, NEW secret \in used, NEW nc \in 1..MaxNC, NEW write \in BOOLEAN,
               Acquire(q, i, secret, nc, write)
        PROVE  IInv'
    <3>1. MaxNC \in Nat  BY WebDavAssumption
    <3>2. nc \in Nat  BY <3>1
    <3> QED  BY <2>1, <3>2, AcquireStep
  <2>2. CASE Serve(q)  BY <2>2, ServeStep
  <2>3. CASE OpenInner(q)  BY <2>3, OpenInnerStep
  <2>4. CASE Release(q)  BY <2>4, ReleaseStep
  <2> QED  BY <1>4, <2>1, <2>2, <2>3, <2>4 DEF Request
<1> QED  BY <1>1, <1>2, <1>3, <1>4 DEF Next

\* The inductive invariant holds of every behaviour of the manager.
THEOREM Invariant == Spec => []IInv
<1> QED  BY InitIInv, NextIInv, PTL DEF Spec

\* Manager.Mount and Manager.Unmount release the mutex around the platform's mount
\* and unmount, and a session may be revoked, its root closed or the operation
\* cancelled meanwhile: still no mount that is up is ever invisible, but for one
\* whose unmount failed, one whose command or wait for readiness was interrupted,
\* and, with pkexec or sudo only, one mounted through another call's davfs_mount.sh.
THEOREM MountsOwned == Spec => []MountsAreOwned
<1>1. IInv => MountsAreOwned  BY DEF IInv
<1> QED  BY <1>1, Invariant, PTL

\* Every session that OpenWithOptions or RestorePersistent lists can be reached at
\* its port: stopIfIdleLocked never stops the listener under another session, and
\* ensureSchemeListenerLocked never moves it.
THEOREM SessionsServed == Spec => []SessionsAreServed
<1>1. IInv => SessionsAreServed  BY DEF IInv
<1> QED  BY <1>1, Invariant, PTL

\* A session revoked with its record is gone for good: no later opening of the
\* root, on this handle or another, restores it.
THEOREM RevokedForGood == Spec => []RevokedStaysRevoked
<1>1. IInv => RevokedStaysRevoked
  <2> SUFFICES ASSUME IInv, NEW i \in revoked, sessions[i] # NoSession PROVE FALSE
      BY DEF RevokedStaysRevoked
  <2>1. i \in Live /\ TypeOK  BY DEF Live, IInv, TypeOK
  <2>2. sessions[i].h \in Handles /\ i \in Ids  BY <2>1, SessionType DEF Sessions
  <2>3. RootOf[sessions[i].h] \in Roots /\ Appears(i, RootOf[sessions[i].h])
        BY <2>1, <2>2, WebDavAssumption DEF Appears, Served
  <2> QED  BY <2>2, <2>3 DEF IInv, AppearsOnce
<1> QED  BY <1>1, Invariant, PTL
=============================================================================
