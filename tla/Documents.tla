----------------------------- MODULE Documents -----------------------------
(***************************************************************************)
(* Documents of an unlocked vault open in editors                          *)
(* (lib/services/document_session_broker.dart,                             *)
(* content_window_host_bridge.dart, lib/controllers/                       *)
(* secure_notepad_controller.dart).                                        *)
(*                                                                         *)
(* Every editor holds a lease of the broker: a token for one document of   *)
(* one root session.  An editor is a page of the main window or a native   *)
(* window in a process of its own that reaches the broker through a        *)
(* channel.  A save carries the revision the editor last saw; the broker   *)
(* runs the saves of one document one after the other and refuses one      *)
(* whose revision or base content is no longer the current one.            *)
(*                                                                         *)
(* Abstractions: a request is handled when it is sent, its answer arrives  *)
(* later; each await of a write is a point where anything else may run;    *)
(* size limits and read-only (image) leases are left out.                  *)
(***************************************************************************)
EXTENDS Naturals, Sequences

CONSTANTS
    Roots,     \* native root sessions, a new one for each unlock
    Windows,   \* lease tokens, each used once; also the document ids
    Docs,      \* documents of the vault
    Texts,     \* their contents
    None,      \* nothing
    Limit      \* bounds on what users do

Events == {"edit", "save", "timeout", "lock", "end"}

\* DocumentSessionLease: the document, the content and the revision the editor last saw, and
\* the saves accepted from it.
Leases == [root: Roots, doc: Docs, id: Windows, base: Texts, rev: Nat, dirty: BOOLEAN,
           pending: Nat, closing: BOOLEAN, frozen: BOOLEAN]

ASSUME DocumentsAssumption ==
    /\ None \notin Roots \cup Windows \cup Texts \cup Docs \cup Leases
    /\ Texts # {}
    /\ Limit \in [Events -> Nat]

VARIABLES
    root,    \* the native root sessions
    dir,     \* the root session shown by the directory list
    file,    \* the documents on disk, and the document id that wrote them
    draft,   \* the recovery draft next to each document
    lease,   \* _sessions: the leases by token
    ids,     \* _documentIDs
    queue,   \* _saveQueues
    shown,   \* _nativeTokens
    win,     \* the editors
    spent    \* how often each event happened

disk == <<file, draft>>
broker == <<lease, ids, queue>>
docVars == <<root, dir, file, draft, lease, ids, queue, shown, win, spent>>

-----------------------------------------------------------------------------
Live(r) == root[r] \in {"opening", "stale", "loading", "open"}

\* An editor that was never opened.  Its phase goes over "asked", "opening" and "loading" to
\* "editing" or "failed", and to "closed"; a save is "sent" and then "saved" or "failed"; a lock
\* is "preparing", then "prepared" or "cancelling", and "free" again.
NoEditor == [phase |-> "new", native |-> FALSE, root |-> None, doc |-> None,
             text |-> None, saved |-> None, seen |-> {}, dirty |-> FALSE, last |-> None,
             offer |-> None, rev |-> 0, save |-> "none", lock |-> "free", acked |-> None]
\* An editor that is gone, with the document it had open.
Closed(e) == [NoEditor EXCEPT !.phase = "closed", !.doc = e.doc]

Editing(w) == win[w].phase = "editing"
\* A page of the main window covers the directory list while it is open.
Covered == \E w \in Windows : Editing(w) /\ ~win[w].native
Spend(e) == spent[e] < Limit[e] /\ spent' = [spent EXCEPT ![e] = @ + 1]

-----------------------------------------------------------------------------
(* The broker *)

\* The lease takes calls.
Require(w) == lease[w] # None /\ ~lease[w].closing /\ ~lease[w].frozen

OfRoot(r) == {w \in Windows : lease[w] # None /\ lease[w].root = r}

\* The leases after those of ws are closed: one with pending writes goes with the last of them.
CloseLeases(ws) ==
    [w \in Windows |->
        IF w \notin ws \/ lease[w] = None THEN lease[w]
        ELSE IF lease[w].pending > 0 THEN [lease[w] EXCEPT !.closing = TRUE]
        ELSE None]

\* The document ids after those of root r are dropped.
DropIds(r) == [k \in Roots \X Docs |-> IF k[1] = r THEN None ELSE ids[k]]

\* The leases after w reports whether it has unsaved changes.
Reported(w, b) == IF Require(w) THEN [lease EXCEPT ![w].dirty = b] ELSE lease

\* A draft of w can be written, or deleted: a native window does so through its lease.
CanDraft(w) == IF win[w].native THEN Require(w) /\ Live(win[w].root) ELSE Live(win[w].root)

-----------------------------------------------------------------------------
(* Opening an editor *)

\* The user asks for a native window on d; its language is looked up before anything else.
Ask(w, d) ==
    /\ win[w].phase = "new" /\ dir # None /\ ~Covered
    /\ win' = [win EXCEPT ![w].phase = "asked", ![w].native = TRUE, ![w].root = dir, ![w].doc = d]
    /\ UNCHANGED <<root, dir, disk, broker, shown, spent>>

\* open: the lease of w for document d of root r.
NewLease(w, r, d) ==
    LET i == IF ids[<<r, d>>] = None THEN w ELSE ids[<<r, d>>] IN
    /\ ids' = [ids EXCEPT ![<<r, d>>] = i]
    /\ lease' = [lease EXCEPT ![w] =
            [root |-> r, doc |-> d, id |-> i, base |-> file[d].text, rev |-> 1, dirty |-> FALSE,
             pending |-> 0, closing |-> FALSE, frozen |-> FALSE]]

\* The editor e with content t loaded.  A draft that differs is offered in a dialog.
Loaded(e, t, rev) ==
    LET d == IF draft[e.doc] = t THEN None ELSE draft[e.doc] IN
    [e EXCEPT !.phase = "editing", !.text = t, !.saved = t, !.seen = {t}, !.rev = rev,
              !.last = d, !.offer = d]
DraftAfterLoad(d, t) == draft' = [draft EXCEPT ![d] = IF @ = t THEN None ELSE @]

\* A page of the main window opens on d: the directory is still the one it was asked from.
OpenPage(w, d) ==
    /\ win[w].phase = "new" /\ ~Covered /\ dir # None /\ Live(dir)
    /\ NewLease(w, dir, d)
    /\ win' = [win EXCEPT ![w] = Loaded([@ EXCEPT !.root = dir, !.doc = d], file[d].text, 1)]
    /\ DraftAfterLoad(d, file[d].text)
    /\ UNCHANGED <<root, dir, file, queue, shown, spent>>

\* A lease for a native window; the platform starts the window.
OpenWindow(w) ==
    /\ win[w].phase = "asked" /\ Live(win[w].root)
    /\ NewLease(w, win[w].root, win[w].doc)
    /\ win' = [win EXCEPT ![w].phase = "opening"]
    /\ UNCHANGED <<root, dir, disk, queue, shown, spent>>

OpenRefused(w) ==
    /\ win[w].phase = "asked" /\ ~Live(win[w].root)
    /\ win' = [win EXCEPT ![w] = Closed(@)]
    /\ UNCHANGED <<root, dir, disk, broker, shown, spent>>

WindowStarted(w) ==
    /\ win[w].phase = "opening"
    /\ win' = [win EXCEPT ![w].phase = "loading"]
    /\ shown' = shown \cup {w}
    /\ UNCHANGED <<root, dir, disk, broker, spent>>

WindowFailed(w) ==
    /\ win[w].phase = "opening"
    /\ win' = [win EXCEPT ![w] = Closed(@)]
    /\ lease' = CloseLeases({w})
    /\ UNCHANGED <<root, dir, disk, ids, queue, shown, spent>>

\* The native window reads its document.
Load(w) ==
    /\ win[w].phase = "loading" /\ Require(w) /\ Live(win[w].root)
    /\ LET t == file[win[w].doc].text IN
        /\ lease' = [lease EXCEPT ![w].base = t, ![w].rev = @ + 1, ![w].dirty = FALSE]
        /\ win' = [win EXCEPT ![w] = Loaded(@, t, lease[w].rev + 1)]
        /\ DraftAfterLoad(win[w].doc, t)
    /\ UNCHANGED <<root, dir, file, ids, queue, shown, spent>>

LoadFails(w) ==
    /\ win[w].phase = "loading" /\ ~(Require(w) /\ Live(win[w].root))
    /\ win' = [win EXCEPT ![w].phase = "failed"]
    /\ UNCHANGED <<root, dir, disk, broker, shown, spent>>

-----------------------------------------------------------------------------
(* Editing *)

\* The text of w becomes that of e; the lease learns whether there are unsaved changes.
Retype(w, e) ==
    /\ e.text # win[w].text
    /\ win' = [win EXCEPT ![w] = [e EXCEPT !.dirty = (e.text # e.saved), !.seen = e.seen \cup {e.text}]]
    /\ lease' = Reported(w, e.text # e.saved)
    /\ UNCHANGED <<root, dir, disk, ids, queue, shown>>

\* The user types, unless the dialog is up or the editor is being prepared for a lock.
Edit(w, t) ==
    /\ Editing(w) /\ win[w].offer = None /\ win[w].lock = "free"
    /\ Spend("edit")
    /\ Retype(w, [win[w] EXCEPT !.text = t])

\* Undo and redo look at the read-only switch only.
Undo(w, t) ==
    /\ Editing(w) /\ t \in win[w].seen
    /\ Spend("edit")
    /\ Retype(w, [win[w] EXCEPT !.text = t])

\* The dialog is answered: the offered draft becomes the text,
Restore(w) ==
    /\ Editing(w) /\ win[w].offer # None
    /\ Retype(w, [win[w] EXCEPT !.text = win[w].offer, !.offer = None])
    /\ UNCHANGED spent

\* or it is deleted.
Discarded(e, deleted) == [e EXCEPT !.offer = None, !.last = IF deleted THEN None ELSE e.last]
Discard(w) ==
    /\ Editing(w) /\ win[w].offer # None
    /\ win' = [win EXCEPT ![w] = Discarded(@, CanDraft(w))]
    /\ draft' = [draft EXCEPT ![win[w].doc] = IF CanDraft(w) THEN None ELSE @]
    /\ UNCHANGED <<root, dir, file, broker, shown, spent>>

\* The recovery draft: saved by a timer while there are unsaved changes.
Draft(w) ==
    /\ Editing(w) /\ win[w].dirty /\ win[w].save = "none"
    /\ win[w].text # win[w].last /\ CanDraft(w)
    /\ draft' = [draft EXCEPT ![win[w].doc] = win[w].text]
    /\ win' = [win EXCEPT ![w].last = win[w].text,
                          ![w].acked = IF @ = None THEN @ ELSE win[w].text]
    /\ UNCHANGED <<root, dir, file, broker, shown, spent>>

\* The lease counts the saves it has accepted.
Accepted(l) == [l EXCEPT !.pending = l.pending + 1]

\* A save is accepted: it is queued behind the other saves of the document.
Save(w) ==
    /\ Editing(w) /\ win[w].dirty /\ win[w].save = "none" /\ Require(w)
    /\ Spend("save")
    /\ lease' = [lease EXCEPT ![w] = Accepted(@)]
    /\ queue' = [queue EXCEPT ![lease[w].id] =
            Append(@, [win |-> w, text |-> win[w].text, rev |-> win[w].rev,
                       live |-> TRUE, running |-> FALSE])]
    /\ win' = [win EXCEPT ![w].save = "sent"]
    /\ UNCHANGED <<root, dir, disk, ids, shown>>

\* The request of a native window gives up waiting; the save goes on without it.
SaveTimesOut(w) ==
    /\ Editing(w) /\ win[w].native /\ win[w].save = "sent"
    /\ Spend("timeout")
    /\ win' = [win EXCEPT ![w].save = "none"]
    /\ queue' = [i \in Windows |-> [n \in DOMAIN queue[i] |->
            IF queue[i][n].win = w THEN [queue[i][n] EXCEPT !.live = FALSE] ELSE queue[i][n]]]
    /\ UNCHANGED <<root, dir, disk, lease, ids, shown>>

\* The answer to a save.  What counts as saved is the text of this moment.
SaveAnswered(w) ==
    /\ Editing(w)
    /\ \/ /\ win[w].save = "failed"
          /\ win' = [win EXCEPT ![w].save = "none"]
          /\ UNCHANGED <<draft, lease>>
       \/ /\ win[w].save = "saved"
          /\ lease' = IF win[w].native THEN Reported(w, FALSE) ELSE lease
          /\ draft' = [draft EXCEPT ![win[w].doc] = IF CanDraft(w) THEN None ELSE @]
          /\ win' = [win EXCEPT ![w].save = "none", ![w].saved = win[w].text, ![w].dirty = FALSE,
                                ![w].last = IF CanDraft(w) THEN None ELSE @, ![w].acked = None]
    /\ UNCHANGED <<root, dir, file, ids, queue, shown, spent>>

-----------------------------------------------------------------------------
(* The saves of one document *)

\* Mutant: a save does not wait for the one before it.
NextOfAny(i) == DOMAIN queue[i]

\* The save of document i that may run: the oldest one.
NextOf(i) == {n \in DOMAIN queue[i] : n = 1}

\* The save may write: its revision and its base content are the current ones.
Current(j) ==
    /\ j.rev = lease[j.win].rev
    /\ Live(lease[j.win].root)
    /\ file[lease[j.win].doc].text = lease[j.win].base

SaveStarts(i) ==
    \E n \in NextOf(i) :
        /\ ~queue[i][n].running /\ Current(queue[i][n])
        /\ queue' = [queue EXCEPT ![i][n].running = TRUE]
        /\ UNCHANGED <<root, dir, disk, lease, ids, shown, win, spent>>

Without(s, n) == SubSeq(s, 1, n - 1) \o SubSeq(s, n + 1, Len(s))

\* The n-th save of document i ends, leaving l as its lease.
SaveEnds(i, n, l, result) ==
    LET j == queue[i][n]
        after == [l EXCEPT !.pending = l.pending - 1]
    IN  /\ queue' = [queue EXCEPT ![i] = Without(@, n)]
        /\ lease' = [lease EXCEPT ![j.win] =
                IF after.closing /\ after.pending = 0 THEN None ELSE after]
        /\ win' = IF j.live /\ Editing(j.win)
                    THEN [win EXCEPT ![j.win].save = result,
                                      ![j.win].rev = IF result = "saved" THEN l.rev ELSE @]
                    ELSE win
        /\ UNCHANGED <<root, dir, draft, ids, shown, spent>>

\* A conflict, or a root that is not open.
SaveRefused(i) ==
    \E n \in NextOf(i) :
        LET j == queue[i][n] IN
        /\ ~j.running /\ ~Current(j)
        /\ SaveEnds(i, n, lease[j.win], "failed")
        /\ UNCHANGED file

SaveWrites(i) ==
    \E n \in NextOf(i) :
        LET j == queue[i][n]
            l == lease[j.win]
        IN  /\ j.running
            /\ \/ /\ Live(l.root)
                  /\ file' = [file EXCEPT ![l.doc] = [text |-> j.text, by |-> i]]
                  /\ SaveEnds(i, n, [l EXCEPT !.base = j.text, !.rev = l.rev + 1, !.dirty = FALSE], "saved")
               \/ /\ ~Live(l.root)
                  /\ UNCHANGED file
                  /\ SaveEnds(i, n, l, "failed")

-----------------------------------------------------------------------------
(* Closing an editor *)

\* The user closes a native window.
UserCloses(w) ==
    /\ win[w].native /\ win[w].phase \in {"loading", "failed", "editing"}
    /\ win' = [win EXCEPT ![w] = Closed(@)]
    /\ UNCHANGED <<root, dir, disk, broker, shown, spent>>

\* A page gives its lease back; leaving unsaved changes behind deletes the draft first.
LeavePage(w) ==
    /\ Editing(w) /\ ~win[w].native /\ win[w].offer = None
    /\ win[w].dirty => CanDraft(w)
    /\ draft' = [draft EXCEPT ![win[w].doc] = IF win[w].dirty THEN None ELSE @]
    /\ win' = [win EXCEPT ![w] = Closed(@)]
    /\ lease' = CloseLeases({w})
    /\ UNCHANGED <<root, dir, file, ids, queue, shown, spent>>

\* The main window learns that a native window is gone.
Reconcile(w) ==
    /\ w \in shown /\ win[w].phase = "closed"
    /\ shown' = shown \ {w}
    /\ lease' = CloseLeases({w})
    /\ UNCHANGED <<root, dir, disk, ids, queue, win, spent>>

DocInit ==
    /\ root = [r \in Roots |-> "unused"]
    /\ dir = None
    /\ file \in [Docs -> [text: Texts, by: {None}]]
    /\ draft = [d \in Docs |-> None]
    /\ lease = [w \in Windows |-> None]
    /\ ids = [k \in Roots \X Docs |-> None]
    /\ queue = [i \in Windows |-> <<>>]
    /\ shown = {}
    /\ win = [w \in Windows |-> NoEditor]
    /\ spent = [e \in Events |-> 0]

BrokerStep == \E i \in Windows : SaveStarts(i) \/ SaveRefused(i) \/ SaveWrites(i)

DocNext ==
    \/ BrokerStep
    \/ \E w \in Windows :
        \/ \E d \in Docs : Ask(w, d) \/ OpenPage(w, d)
        \/ OpenWindow(w) \/ OpenRefused(w)
        \/ WindowStarted(w) \/ WindowFailed(w) \/ Load(w) \/ LoadFails(w)
        \/ \E t \in Texts : Edit(w, t) \/ Undo(w, t)
        \/ Restore(w) \/ Discard(w) \/ Draft(w) \/ Save(w) \/ SaveTimesOut(w) \/ SaveAnswered(w)
        \/ UserCloses(w) \/ LeavePage(w) \/ Reconcile(w)

=============================================================================
