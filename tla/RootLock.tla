------------------------------ MODULE RootLock ------------------------------
(***************************************************************************)
(* Unlocking and locking of a vault while its documents are open           *)
(* (lib/pages/home_page.dart, home_page_auto_lock_mixin.dart,              *)
(* lib/services/content_window_host_bridge.dart,                           *)
(* content_window_lock_endpoint.dart).                                     *)
(*                                                                         *)
(* Operations that close a root session queue at a gate of that session.   *)
(* The automatic lock first hides the directory, then asks every native    *)
(* window to put its unsaved text into a draft; ending the session by hand *)
(* does not ask.  Both freeze the leases, wait for the saves the broker    *)
(* has accepted, close the windows, revoke the leases and close the native *)
(* root.                                                                   *)
(*                                                                         *)
(* Abstractions: one vault; the page lives as long as the process; a       *)
(* cancellation reaches the windows at once; an unlock does not wait for   *)
(* an automatic lock (it stops waiting after 30 seconds).                  *)
(***************************************************************************)
EXTENDS Documents

Kinds == {"auto", "end"}

VARIABLES
    op,       \* the operations that close a root session
    gate      \* _rootCloseTails: who waits at the gate of each session

lockVars == <<op, gate>>
vars == <<docVars, lockVars>>

Idle == [phase |-> "idle", root |-> None, strict |-> FALSE, tokens |-> {}, wait |-> {},
         yes |-> {}, no |-> {}]

\* Native windows that hold a lease of root r.
NativeOf(r) == OfRoot(r) \cap shown
Goto(k, p) == op' = [op EXCEPT ![k].phase = p]
At(k, p) == op[k].phase = p
Mine(k) == op[k].root
\* The operation ends and lets the next one through the gate.
Leave(k) ==
    /\ op' = [op EXCEPT ![k] = Idle]
    /\ gate' = [gate EXCEPT ![Mine(k)] = Tail(@)]

\* Mutant: an operation does not wait at the gate.
AtGateAny(k) == At(k, "queued")

AtGate(k) == At(k, "queued") /\ Head(gate[Mine(k)]) = k

-----------------------------------------------------------------------------
(* Unlocking *)

\* The directory shown is replaced: an unlock under way no longer finds the one it started from.
Replaced(rs) == [r \in Roots |-> IF rs[r] = "opening" THEN "stale" ELSE rs[r]]

OpenRoot(r) ==
    /\ root[r] = "unused" /\ dir = None /\ ~Covered
    /\ root' = [root EXCEPT ![r] = "opening"]
    /\ UNCHANGED <<dir, disk, broker, shown, win, spent, lockVars>>

\* The unlocked root becomes the session of the directory.
Attach(r) ==
    /\ root[r] = "opening"
    /\ dir' = r
    /\ root' = Replaced([root EXCEPT ![r] = "loading"])
    /\ UNCHANGED <<disk, broker, shown, win, spent, lockVars>>

\* The directory has changed, or an unfinished transfer stands in the way.
AttachRefused(r) ==
    /\ root[r] \in {"opening", "stale"}
    /\ root' = [root EXCEPT ![r] = "closed"]
    /\ UNCHANGED <<dir, disk, broker, shown, win, spent, lockVars>>

\* The first listing is there; if the directory was locked meanwhile the root is closed again.
Listed(r) ==
    /\ root[r] = "loading"
    /\ root' = [root EXCEPT ![r] = IF dir = r THEN "open" ELSE "closed"]
    /\ UNCHANGED <<dir, disk, broker, shown, win, spent, lockVars>>

-----------------------------------------------------------------------------
(* The two operations up to the closing of the windows *)

Start(k, strict) ==
    /\ At(k, "idle") /\ dir # None
    /\ op' = [op EXCEPT ![k] = [Idle EXCEPT !.phase = "queued", !.root = dir, !.strict = strict]]
    /\ gate' = [gate EXCEPT ![dir] = Append(@, k)]
    /\ UNCHANGED <<root, dir, disk, broker, shown, win>>

\* The application goes to the background, or the session has been idle for too long.
StartAuto == Spend("lock") /\ Start("auto", FALSE)
\* The user ends the session, or changes the password (strict: no document may be open).
StartEnd(strict) == ~Covered /\ Spend("end") /\ Start("end", strict)

\* RootCloseCoordinator.inspect
Busy(r) == \E w \in OfRoot(r) : lease[w].pending > 0 \/ lease[w].dirty

Skip(k) ==
    /\ AtGate(k)
    /\ \/ dir # Mine(k)
       \/ Busy(Mine(k))
       \/ op[k].strict /\ OfRoot(Mine(k)) # {}
    /\ Leave(k)
    /\ UNCHANGED docVars

\* The automatic lock: what is on top of the directory list is popped, which is the page or
\* the dialog over it (an unanswered dialog discards the draft), and the directory shown as locked.
Hide ==
    /\ AtGate("auto") /\ dir = Mine("auto") /\ ~Busy(dir)
    /\ LET pages == {w \in OfRoot(dir) : Editing(w) /\ ~win[w].native}
           asking == {w \in pages : win[w].offer # None}
       IN  /\ win' = [w \in Windows |->
                    CASE w \in asking -> Discarded(win[w], TRUE)
                      [] w \in pages \ asking -> Closed(win[w])
                      [] OTHER -> win[w]]
           /\ lease' = CloseLeases(pages \ asking)
           /\ draft' = [d \in Docs |-> IF \E w \in asking : win[w].doc = d THEN None ELSE draft[d]]
    /\ dir' = None
    /\ root' = Replaced(root)
    /\ Goto("auto", "yield")
    /\ UNCHANGED <<file, ids, queue, shown, spent, gate>>

\* After a pause, the native windows are asked to prepare; without any the lock goes on.
AskWindows ==
    /\ At("auto", "yield")
    /\ LET ws == NativeOf(Mine("auto")) IN
        IF ws = {} THEN Goto("auto", "finish")
        ELSE op' = [op EXCEPT !["auto"].phase = "prepare", !["auto"].tokens = ws]
    /\ UNCHANGED <<docVars, gate>>

\* The lock waits for an answer of w.
Asked(w) == At("auto", "prepare") /\ w \in op["auto"].tokens \ (op["auto"].yes \cup op["auto"].no)

\* The editor takes no more typing.
Prepare(w) ==
    /\ Asked(w) /\ Editing(w) /\ win[w].lock = "free"
    /\ win' = [win EXCEPT ![w].lock = "preparing"]
    /\ UNCHANGED <<root, dir, disk, broker, shown, spent, lockVars>>

\* Mutant: a window answers without having written its draft.
NeedsDraftNever(e) == FALSE

\* The editor has text that is neither saved nor in its last draft.
NeedsDraft(e) == e.dirty /\ e.text # e.last

\* The window answers, if the lock still waits for it.
Answers(w, yes, no) ==
    op' = IF Asked(w) /\ win[w].lock = "preparing"
            THEN [op EXCEPT !["auto"].yes = @ \cup yes, !["auto"].no = @ \cup no]
            ELSE op

\* The running save has ended, and the unsaved text is in the draft.
Prepared(w) ==
    /\ Editing(w) /\ win[w].lock \in {"preparing", "cancelling"} /\ win[w].save = "none"
    /\ NeedsDraft(win[w]) => CanDraft(w)
    /\ draft' = [draft EXCEPT ![win[w].doc] = IF NeedsDraft(win[w]) THEN win[w].text ELSE @]
    /\ win' = [win EXCEPT
            ![w].last = IF NeedsDraft(win[w]) THEN win[w].text ELSE @,
            ![w].lock = IF @ = "preparing" THEN "prepared" ELSE "free",
            ![w].acked = IF win[w].lock = "preparing" /\ win[w].dirty THEN win[w].text ELSE None]
    /\ Answers(w, {w}, {})
    /\ UNCHANGED <<root, dir, file, broker, shown, spent, gate>>

\* The draft could not be written.
PrepareFails(w) ==
    /\ Editing(w) /\ win[w].lock \in {"preparing", "cancelling"} /\ win[w].save = "none"
    /\ NeedsDraft(win[w])
    /\ win' = [win EXCEPT ![w].lock = "free"]
    /\ Answers(w, {}, {w})
    /\ UNCHANGED <<root, dir, disk, broker, shown, spent, gate>>

\* No answer in time, no window any more, or one without a text yet or held by a cancelled lock.
NoAnswer(w) ==
    /\ Asked(w)
    /\ op' = [op EXCEPT !["auto"].no = @ \cup {w}]
    /\ UNCHANGED <<docVars, gate>>

-----------------------------------------------------------------------------
(* Freezing, closing, revoking *)

\* The windows after the preparation of ws is cancelled.
Cancelled(ws) ==
    [w \in Windows |->
        IF w \notin ws THEN win[w]
        ELSE CASE win[w].lock = "prepared" -> [win[w] EXCEPT !.lock = "free", !.acked = None]
               [] win[w].lock = "preparing" -> [win[w] EXCEPT !.lock = "cancelling"]
               [] OTHER -> win[w]]

Frozen(r, b) == [w \in Windows |-> IF w \in OfRoot(r) THEN [lease[w] EXCEPT !.frozen = b] ELSE lease[w]]

\* Mutant: the leases stay frozen when the operation is given up.
AbortFrozen(k) ==
    /\ win' = IF k = "auto" THEN Cancelled(op[k].tokens) ELSE win
    /\ Leave(k)
    /\ UNCHANGED <<root, dir, disk, lease, ids, queue, shown, spent>>

\* The operation is given up: windows and leases go back to work.
Abort(k) ==
    /\ win' = IF k = "auto" THEN Cancelled(op[k].tokens) ELSE win
    /\ lease' = Frozen(Mine(k), FALSE)
    /\ Leave(k)
    /\ UNCHANGED <<root, dir, disk, ids, queue, shown, spent>>

Freeze(k, tokens) ==
    /\ lease' = Frozen(Mine(k), TRUE)
    /\ op' = [op EXCEPT ![k].phase = "freeze", ![k].tokens = tokens, ![k].wait = OfRoot(Mine(k))]
    /\ UNCHANGED <<root, dir, disk, ids, queue, shown, win, spent, gate>>

\* By hand: the leases are frozen at once; without a document there is nothing to freeze.
EndDecides ==
    /\ AtGate("end") /\ dir = Mine("end") /\ ~Busy(dir)
    /\ \/ /\ OfRoot(dir) = {}
          /\ Goto("end", "finish")
          /\ UNCHANGED <<docVars, gate>>
       \/ /\ OfRoot(dir) # {} /\ ~op["end"].strict
          /\ Freeze("end", NativeOf(dir))

\* All answers are there.
Evaluate ==
    LET ws == op["auto"].tokens IN
    /\ At("auto", "prepare")
    /\ \A w \in ws : ~Asked(w)
    /\ IF op["auto"].yes = ws /\ NativeOf(Mine("auto")) = ws
         THEN Freeze("auto", ws)
         ELSE Abort("auto")

\* Mutant: the operation does not wait for saves.
DrainedAlways(k) == TRUE

\* The saves the operation waits for have ended.
Drained(k) == \A w \in op[k].wait : lease[w] # None => lease[w].pending = 0

Freezes(k) ==
    /\ At(k, "freeze") /\ Drained(k)
    /\ IF NativeOf(Mine(k)) = op[k].tokens
         THEN Goto(k, "closing") /\ UNCHANGED <<docVars, gate>>
         ELSE Abort(k)

Gone(w) == win[w].phase = "closed"

CloseWindow(k, w) ==
    /\ At(k, "closing") /\ w \in op[k].tokens /\ ~Gone(w)
    /\ win' = [win EXCEPT ![w] = Closed(@)]
    /\ UNCHANGED <<root, dir, disk, broker, shown, spent, lockVars>>

CloseWindowFails(k) ==
    /\ At(k, "closing") /\ \E w \in op[k].tokens : ~Gone(w)
    /\ Abort(k)

Revoke(k) ==
    /\ At(k, "closing") /\ \A w \in op[k].tokens : Gone(w)
    /\ lease' = CloseLeases(OfRoot(Mine(k)))
    /\ ids' = DropIds(Mine(k))
    /\ op' = [op EXCEPT ![k].phase = "revoke", ![k].wait = OfRoot(Mine(k))]
    /\ UNCHANGED <<root, dir, disk, queue, shown, win, spent, gate>>

Revoked(k) ==
    /\ At(k, "revoke") /\ Drained(k)
    /\ shown' = shown \ op[k].tokens
    /\ Goto(k, "finish")
    /\ UNCHANGED <<root, dir, disk, broker, win, spent, gate>>

-----------------------------------------------------------------------------
(* Closing the native root *)

\* Mutant: the session shown is not looked at again.
StillMineAlways(k) == TRUE

StillMine(k) == dir = Mine(k)

\* The native root is closed, its leases are given up and the directory shown as locked.
Close(k) ==
    /\ At(k, "finish") /\ StillMine(k)
    /\ root' = Replaced([root EXCEPT ![Mine(k)] = "closed"])
    /\ dir' = None
    /\ lease' = CloseLeases(OfRoot(Mine(k)))
    /\ ids' = DropIds(Mine(k))
    /\ Leave(k)
    /\ UNCHANGED <<disk, queue, shown, win, spent>>

CloseFails(k) ==
    /\ At(k, "finish") /\ StillMine(k)
    /\ Leave(k)
    /\ UNCHANGED docVars

\* The session is no longer the one shown.
GiveUp(k) ==
    /\ At(k, "finish") /\ ~StillMine(k)
    /\ Leave(k)
    /\ UNCHANGED docVars

-----------------------------------------------------------------------------
Init ==
    /\ DocInit
    /\ op = [k \in Kinds |-> Idle]
    /\ gate = [r \in Roots |-> <<>>]

OpStep(k) ==
    \/ Skip(k) \/ Freezes(k) \/ CloseWindowFails(k) \/ Revoke(k) \/ Revoked(k)
    \/ Close(k) \/ CloseFails(k) \/ GiveUp(k)
    \/ \E w \in Windows : CloseWindow(k, w)
HostStep == Hide \/ AskWindows \/ EndDecides \/ Evaluate \/ \E k \in Kinds : OpStep(k)
WindowStep(w) == Prepare(w) \/ Prepared(w) \/ PrepareFails(w) \/ NoAnswer(w)

Next ==
    \/ DocNext /\ UNCHANGED lockVars
    \/ \E r \in Roots : OpenRoot(r) \/ Attach(r) \/ AttachRefused(r) \/ Listed(r)
    \/ StartAuto
    \/ \E strict \in BOOLEAN : StartEnd(strict)
    \/ HostStep
    \/ \E w \in Windows : WindowStep(w)

Spec == Init /\ [][Next]_vars

\* What has been started goes on: the broker's writes, the steps of an operation (a platform
\* call ends or fails), the answers of a window and the time-outs that stand in for them.
Fairness ==
    /\ WF_vars(BrokerStep /\ UNCHANGED lockVars)
    /\ WF_vars(HostStep)
    /\ \A w \in Windows :
        /\ WF_vars(SaveAnswered(w) /\ UNCHANGED lockVars)
        /\ WF_vars(Prepared(w) \/ PrepareFails(w))
        /\ WF_vars(NoAnswer(w))
FairSpec == Spec /\ Fairness

-----------------------------------------------------------------------------
(* Properties *)

\* DocumentSessionBroker: a save replaces the text its window last saw, or a text that did not
\* come through the same document id; no editor overwrites another one's save unseen, however
\* the saves, the closings and the locks of a session interleave.
NoSilentOverwrite ==
    [][\A i \in Windows, d \in Docs :
        file'[d] # file[d] /\ file'[d].by = i =>
            \/ file[d].by # i
            \/ \E n \in DOMAIN queue[i] :
                /\ queue[i][n].running /\ file'[d].text = queue[i][n].text
                /\ file[d].text = lease[queue[i][n].win].base]_vars

\* revokeRootSessions: when an operation goes on to close the native root, no save that the
\* broker had accepted from a lease it revoked is still under way.
DrainedBeforeClose ==
    \A k \in Kinds : At(k, "finish") => \A w \in op[k].wait : lease[w] = None

\* freezeRootSessions: while an operation closes the windows of a root, no lease it has frozen
\* takes calls again, whatever another operation on the same root does.
FrozenWhileClosing ==
    \A k \in Kinds : At(k, "closing") => \A w \in op[k].wait : ~Require(w)

\* prepareForLock: from the moment a window has answered that it is prepared until the lock is
\* cancelled or the window closed, the unsaved text it answered for is in the draft of its
\* document, provided no other window has that document open (the draft is shared).
AckedTextKept ==
    \A w \in Windows :
        win[w].acked # None
        => \/ draft[win[w].doc] = win[w].acked
           \/ \E u \in Windows \ {w} : win[u].phase # "new" /\ win[u].doc = win[w].doc

\* isCurrentDirectorySession: the session shown is only taken away by an operation that was
\* started for this very session, not by one left over from a session before it.
OnlyOwnSessionHidden ==
    [][dir # None /\ dir' # dir => \E k \in Kinds : Mine(k) = dir]_vars

\* unfreezeRootSessions, cancelTokenLock: no lease stays frozen and no editor stays locked for
\* ever; either the operation goes through or everything can be edited and saved again.
Thaws ==
    \A w \in Windows :
        ((lease[w] # None /\ lease[w].frozen) \/ win[w].lock # "free")
        ~> ((lease[w] # None => ~lease[w].frozen) /\ win[w].lock = "free")

=============================================================================
