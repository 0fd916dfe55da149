--------------------------- MODULE RootLockProofs ---------------------------
(***************************************************************************)
(* Proofs about RootLock.  The inductive invariant has seven parts, each     *)
(* about few of the variables:                                             *)
(*                                                                         *)
(*   TypeOK   the types;                                                   *)
(*   ShownOK  an unlock under way started from the directory shown;        *)
(*   GateOK   an operation past the gate of its root is the first there;   *)
(*   CountOK  a lease counts exactly its saves in the queue, and a closed  *)
(*            lease goes with the last of them;                            *)
(*   WaitOK   what an operation has frozen stays frozen or goes away;      *)
(*   RunOK    the save that runs still writes over the text its editor saw;*)
(*   TextOK   an editor alone on its document knows the draft.             *)
(***************************************************************************)
EXTENDS RootLock, FiniteSets, FiniteSetTheorems, FunctionTheorems, SequenceTheorems, TLAPS

-----------------------------------------------------------------------------
(* The inductive invariant *)

RootStates == {"unused", "opening", "stale", "loading", "open", "closed"}
Phases == {"new", "asked", "opening", "loading", "editing", "failed", "closed"}
Editors == [phase: Phases, native: BOOLEAN, root: Roots \cup {None}, doc: Docs \cup {None},
            text: Texts \cup {None}, saved: Texts \cup {None}, seen: SUBSET Texts,
            dirty: BOOLEAN, last: Texts \cup {None}, offer: Texts \cup {None}, rev: Nat,
            save: {"none", "sent", "saved", "failed"},
            lock: {"free", "preparing", "prepared", "cancelling"}, acked: Texts \cup {None}]
Jobs == [win: Windows, text: Texts, rev: Nat, live: BOOLEAN, running: BOOLEAN]
OpPhases == {"idle", "queued", "yield", "prepare", "freeze", "closing", "revoke", "finish"}
Ops == [phase: OpPhases, root: Roots \cup {None}, strict: BOOLEAN, tokens: SUBSET Windows,
        wait: SUBSET Windows, yes: SUBSET Windows, no: SUBSET Windows]

\* What an editor holds in its phase.
Formed(e) ==
    /\ e.phase # "new" => e.doc \in Docs
    /\ e.phase \notin {"new", "closed"} => e.root \in Roots
    /\ e.phase = "editing" => e.text \in Texts
    /\ e.phase # "editing" => e.acked = None /\ ~e.dirty
    /\ e.offer # None => ~e.dirty /\ e.seen \subseteq {e.text} /\ e.acked = None

DocTypeOK ==
    /\ file \in [Docs -> [text: Texts, by: Windows \cup {None}]]
    /\ draft \in [Docs -> Texts \cup {None}]
    /\ lease \in [Windows -> Leases \cup {None}]
    /\ ids \in [Roots \X Docs -> Windows \cup {None}]
    /\ queue \in [Windows -> Seq(Jobs)]
    /\ win \in [Windows -> Editors]
    /\ \A w \in Windows : Formed(win[w])

LockTypeOK ==
    /\ root \in [Roots -> RootStates]
    /\ dir \in Roots \cup {None}
    /\ op \in [Kinds -> Ops]
    /\ gate \in [Roots -> Seq(Kinds)]

TypeOK == DocTypeOK /\ LockTypeOK

ShownOK == \A r \in Roots : root[r] = "opening" => dir = None

GateOK ==
    \A k \in Kinds :
        /\ ~At(k, "idle") => /\ Mine(k) \in Roots
                             /\ \E n \in DOMAIN gate[Mine(k)] : gate[Mine(k)][n] = k
        /\ op[k].phase \notin {"idle", "queued"} => gate[Mine(k)][1] = k

\* The saves of window w in the queue s.
SavesIn(s, w) == {n \in DOMAIN s : s[n].win = w}

CountOK ==
    /\ \A i \in Windows : \A n \in DOMAIN queue[i] :
        /\ lease[queue[i][n].win] # None
        /\ lease[queue[i][n].win].id = i
    /\ \A w \in Windows : lease[w] # None =>
        /\ lease[w].pending = Cardinality(SavesIn(queue[lease[w].id], w))
        /\ lease[w].closing => lease[w].pending > 0

\* What a lease may be that the operation o waits for.
Held(o, l) ==
    \/ l = None
    \/ /\ o.phase \in {"freeze", "closing"}
       /\ l.root = o.root
       /\ l.closing \/ l.frozen
    \/ /\ o.phase = "revoke"
       /\ l.closing

WaitOK ==
    /\ \A w \in Windows : lease[w] # None => win[w].phase \notin {"new", "asked"}
    /\ \A k \in Kinds, w \in Windows : w \in op[k].wait =>
        /\ win[w].phase \notin {"new", "asked"}
        /\ Held(op[k], lease[w])
    /\ \A k \in Kinds, w \in Windows : w \in op[k].tokens => win[w].phase \notin {"new", "asked"}

RunOK ==
    \A i \in Windows : \A n \in DOMAIN queue[i] :
        LET j == queue[i][n]
            f == file[lease[j.win].doc]
        IN  /\ win[j.win].phase \in {"editing", "closed"}
            /\ j.running => n = 1
            /\ j.running /\ f.by = i => f.text = lease[j.win].base

\* Another window has, or had, the document of w open.
Shared(w) == \E u \in Windows \ {w} : win[u].phase # "new" /\ win[u].doc = win[w].doc

TextOK ==
    \A w \in Windows : ~Shared(w) =>
        /\ Editing(w) => draft[win[w].doc] = win[w].last
        /\ win[w].acked # None => draft[win[w].doc] = win[w].acked

IInv == TypeOK /\ ShownOK /\ GateOK /\ CountOK /\ WaitOK /\ RunOK /\ TextOK

-----------------------------------------------------------------------------
(* What most steps do to the editors, the leases and the queues *)

\* An editor e becomes f: it keeps its document, and does not start again.
Grows(e, f) ==
    /\ e.phase # "new" => f.phase # "new" /\ f.doc = e.doc
    /\ e.phase \notin {"new", "asked"} => f.phase \notin {"new", "asked"}
    /\ e.phase \in {"editing", "closed"} => f.phase \in {"editing", "closed"}

EditorsGo == \A w \in Windows : Grows(win[w], win'[w])

\* A lease l becomes m: it is given up only without a pending save.
Goes(l, m) ==
    IF m = None THEN l = None \/ l.pending = 0
    ELSE /\ l # None
         /\ m.root = l.root /\ m.doc = l.doc /\ m.id = l.id /\ m.pending = l.pending
         /\ l.closing => m.closing
         /\ m.closing => l.closing \/ l.pending > 0

\* A new base content is only read by a window that loads.
SameBase(w) == lease'[w] # None => lease'[w].base = lease[w].base \/ win[w].phase = "loading"

LeasesGo == \A w \in Windows : Goes(lease[w], lease'[w]) /\ SameBase(w)

StillFrozen ==
    \A w \in Windows : lease[w] # None /\ lease'[w] # None /\ lease[w].frozen => lease'[w].frozen

\* A lease is given up, or keeps its root and what stops it.
LeasesHold ==
    \A w \in Windows : lease'[w] # None =>
        /\ lease[w] # None /\ lease'[w].root = lease[w].root
        /\ lease[w].closing => lease'[w].closing
        /\ lease[w].frozen => lease'[w].frozen

QueueStays ==
    \A i \in Windows :
        /\ DOMAIN queue'[i] = DOMAIN queue[i]
        /\ \A n \in DOMAIN queue[i] :
            queue'[i][n].win = queue[i][n].win /\ queue'[i][n].running = queue[i][n].running

Quiet == DocTypeOK' /\ file' = file /\ EditorsGo /\ LeasesGo /\ QueueStays

\* An operation waits for what it waited for, and in the same way.
OpsGo ==
    \A k \in Kinds :
        /\ op'[k].wait \subseteq op[k].wait /\ op'[k].tokens \subseteq op[k].tokens
        /\ \A l \in Leases : Held(op[k], l) => Held(op'[k], l)

LEMMA LeaseTyped ==
    ASSUME DocTypeOK, NEW w \in Windows, lease[w] # None
    PROVE  lease[w] \in Leases
BY DEF DocTypeOK

LEMMA JobTyped ==
    ASSUME DocTypeOK, NEW i \in Windows, NEW n \in DOMAIN queue[i]
    PROVE  /\ queue[i] \in Seq(Jobs)
           /\ n \in Nat /\ n >= 1
           /\ queue[i][n] \in Jobs
           /\ queue[i][n].win \in Windows
<1>1. queue[i] \in Seq(Jobs)
  BY DEF DocTypeOK
<1>2. PICK s \in Seq(Jobs) : s = queue[i]
  BY <1>1
<1>3. DOMAIN s = 1 .. Len(s) /\ n \in 1 .. Len(s) /\ Len(s) \in Nat
  BY <1>2
<1>4. s[n] \in Jobs
  BY <1>3
<1> QED  BY <1>2, <1>3, <1>4 DEF Jobs

LEMMA SavesFinite ==
    ASSUME NEW s \in Seq(Jobs), NEW w
    PROVE  IsFiniteSet(SavesIn(s, w))
<1>1. DOMAIN s = 1 .. Len(s) /\ Len(s) \in Int
  OBVIOUS
<1>2. IsFiniteSet(1 .. Len(s))
  BY <1>1, FS_Interval
<1>3. SavesIn(s, w) \in SUBSET (1 .. Len(s))
  BY <1>1 DEF SavesIn
<1> QED  BY <1>2, <1>3, FS_Subset

\* The count of a lease does not change when neither its saves nor its number do.
LEMMA QuietCount ==
    ASSUME DocTypeOK, DocTypeOK', CountOK, LeasesGo, QueueStays
    PROVE  CountOK'
<1>1. \A i \in Windows, w \in Windows : SavesIn(queue'[i], w) = SavesIn(queue[i], w)
  BY DEF QueueStays, SavesIn
<1>2. ASSUME NEW i \in Windows, NEW n \in DOMAIN queue'[i]
      PROVE  /\ lease'[queue'[i][n].win] # None
             /\ lease'[queue'[i][n].win].id = i
  <2>1. n \in DOMAIN queue[i] /\ queue'[i][n].win = queue[i][n].win
    BY <1>2 DEF QueueStays
  <2>2. PICK w \in Windows : w = queue[i][n].win
    BY <2>1, JobTyped
  <2>3. lease[w] # None /\ lease[w].id = i
    BY <2>1, <2>2 DEF CountOK
  <2>4. n \in SavesIn(queue[i], w)
    BY <2>1, <2>2 DEF SavesIn
  <2>5. IsFiniteSet(SavesIn(queue[i], w))
    BY SavesFinite DEF DocTypeOK
  <2>6. lease[w].pending # 0
    BY <2>3, <2>4, <2>5, FS_EmptySet DEF CountOK
  <2>7. Goes(lease[w], lease'[w])
    BY DEF LeasesGo
  <2> QED  BY <2>1, <2>2, <2>3, <2>6, <2>7 DEF Goes
<1>3. ASSUME NEW w \in Windows, lease'[w] # None
      PROVE  /\ lease'[w].pending = Cardinality(SavesIn(queue'[lease'[w].id], w))
             /\ lease'[w].closing => lease'[w].pending > 0
  <2>1. /\ lease[w] # None /\ lease'[w].id = lease[w].id /\ lease'[w].pending = lease[w].pending
        /\ lease'[w].closing => lease[w].closing \/ lease[w].pending > 0
    BY <1>3 DEF LeasesGo, Goes
  <2>2. lease[w].id \in Windows
    BY <2>1, LeaseTyped DEF Leases
  <2> QED  BY <1>1, <2>1, <2>2 DEF CountOK
<1> QED  BY <1>2, <1>3 DEF CountOK

\* The running save still finds the text its editor saw.
LEMMA QuietRun ==
    ASSUME DocTypeOK, DocTypeOK', CountOK, CountOK', RunOK,
           file' = file, EditorsGo, LeasesGo, QueueStays
    PROVE  RunOK'
<1> SUFFICES ASSUME NEW i \in Windows, NEW n \in DOMAIN queue'[i]
             PROVE  LET j == queue'[i][n]
                        f == file'[lease'[j.win].doc]
                    IN  /\ win'[j.win].phase \in {"editing", "closed"}
                        /\ j.running => n = 1
                        /\ j.running /\ f.by = i => f.text = lease'[j.win].base
  BY DEF RunOK
<1>1. /\ n \in DOMAIN queue[i]
      /\ queue'[i][n].win = queue[i][n].win /\ queue'[i][n].running = queue[i][n].running
  BY DEF QueueStays
<1>2. PICK w \in Windows : w = queue[i][n].win
  BY <1>1, JobTyped
<1>3. /\ win[w].phase \in {"editing", "closed"}
      /\ queue[i][n].running => n = 1
      /\ queue[i][n].running /\ file[lease[w].doc].by = i =>
            file[lease[w].doc].text = lease[w].base
  BY <1>1, <1>2 DEF RunOK
<1>4. win'[w].phase \in {"editing", "closed"}
  BY <1>3 DEF EditorsGo, Grows
<1>5. lease'[w] # None
  BY <1>1, <1>2 DEF CountOK
<1>6. lease'[w].doc = lease[w].doc /\ lease'[w].base = lease[w].base
  BY <1>3, <1>5 DEF LeasesGo, Goes, SameBase
<1> QED  BY <1>1, <1>2, <1>3, <1>4, <1>6

LEMMA GoingHolds ==
    ASSUME LeasesGo, StillFrozen
    PROVE  LeasesHold
BY DEF LeasesGo, StillFrozen, LeasesHold, Goes

\* What is frozen stays frozen.
LEMMA QuietWait ==
    ASSUME DocTypeOK, DocTypeOK', WaitOK, EditorsGo, LeasesHold,
           OpsGo, op \in [Kinds -> Ops], op' \in [Kinds -> Ops]
    PROVE  WaitOK'
<1>1. ASSUME NEW w \in Windows, lease'[w] # None
      PROVE  win'[w].phase \notin {"new", "asked"}
  <2>1. lease[w] # None
    BY <1>1 DEF LeasesHold
  <2> QED  BY <2>1 DEF WaitOK, EditorsGo, Grows
<1>2. ASSUME NEW k \in Kinds, NEW w \in Windows, w \in op'[k].wait
      PROVE  win'[w].phase \notin {"new", "asked"} /\ Held(op'[k], lease'[w])
  <2>1. w \in op[k].wait
    BY <1>2 DEF OpsGo
  <2>2. win[w].phase \notin {"new", "asked"} /\ Held(op[k], lease[w])
    BY <2>1 DEF WaitOK
  <2>3. win'[w].phase \notin {"new", "asked"}
    BY <2>2 DEF EditorsGo, Grows
  <2>4. CASE lease'[w] = None
    BY <2>3, <2>4 DEF Held
  <2>5. CASE lease'[w] # None
    <3>1. /\ lease[w] # None /\ lease'[w].root = lease[w].root
          /\ lease[w].closing => lease'[w].closing
          /\ lease[w].frozen => lease'[w].frozen
      BY <2>5 DEF LeasesHold
    <3>3. Held(op[k], lease'[w])
      BY <2>2, <3>1 DEF Held
    <3>4. lease'[w] \in Leases
      BY <2>5 DEF DocTypeOK
    <3> QED  BY <2>3, <3>3, <3>4 DEF OpsGo
  <2> QED  BY <2>4, <2>5
<1>3. ASSUME NEW k \in Kinds, NEW w \in Windows, w \in op'[k].tokens
      PROVE  win'[w].phase \notin {"new", "asked"}
  <2>1. w \in op[k].tokens
    BY <1>3 DEF OpsGo
  <2>2. win[w].phase \notin {"new", "asked"}
    BY <2>1 DEF WaitOK
  <2> QED  BY <2>2 DEF EditorsGo, Grows
<1> QED  BY <1>1, <1>2, <1>3 DEF WaitOK

\* A step that leaves the lock alone and is quiet keeps the invariant.
LEMMA QuietInv ==
    ASSUME IInv, UNCHANGED <<root, dir, op, gate>>, Quiet, StillFrozen, TextOK'
    PROVE  IInv'
<1>1. DocTypeOK /\ LockTypeOK /\ DocTypeOK'
  BY DEF IInv, TypeOK, Quiet
<1>2. LockTypeOK'
  BY <1>1 DEF LockTypeOK
<1>3. ShownOK'
  BY DEF IInv, ShownOK
<1>4. GateOK'
  BY DEF IInv, GateOK, At, Mine
<1>5. CountOK'
  BY <1>1, QuietCount DEF IInv, Quiet
<1>6. RunOK'
  BY <1>1, <1>5, QuietRun DEF IInv, Quiet
<1>7. OpsGo
  BY DEF OpsGo
<1>8. op \in [Kinds -> Ops] /\ op' \in [Kinds -> Ops]
  BY <1>1, <1>2 DEF LockTypeOK
<1>9. WaitOK'
  BY <1>1, <1>7, <1>8, GoingHolds, QuietWait DEF IInv, Quiet
<1> QED  BY <1>1, <1>2, <1>3, <1>4, <1>5, <1>6, <1>9 DEF IInv, TypeOK

-----------------------------------------------------------------------------
(* One editor changes *)

\* The editor of w becomes e.
Becomes(w, e) ==
    /\ win' = [win EXCEPT ![w] = e]
    /\ e \in Editors
    /\ Formed(e)
    /\ Grows(win[w], e)
    /\ e.phase # "new"

LEMMA EditorBecomes ==
    ASSUME DocTypeOK, NEW w \in Windows, NEW e, Becomes(w, e)
    PROVE  /\ win' \in [Windows -> Editors]
           /\ \A u \in Windows : Formed(win'[u])
           /\ EditorsGo
           /\ \A u \in Windows \ {w} : win'[u] = win[u]
           /\ win'[w] = e
<1>1. win' = [win EXCEPT ![w] = e] /\ e \in Editors /\ Formed(e) /\ Grows(win[w], e)
  BY DEF Becomes
<1>2. win \in [Windows -> Editors] /\ \A u \in Windows : Formed(win[u])
  BY DEF DocTypeOK
<1>3. win' \in [Windows -> Editors] /\ win'[w] = e /\ \A u \in Windows \ {w} : win'[u] = win[u]
  BY <1>1, <1>2
<1>4. \A u \in Windows : Formed(win'[u])
  BY <1>1, <1>2, <1>3
<1>5. \A u \in Windows : Grows(win[u], win[u])
  BY DEF Grows
<1>6. EditorsGo
  BY <1>1, <1>3, <1>5 DEF EditorsGo
<1> QED  BY <1>3, <1>4, <1>6

LEMMA EditorsSame ==
    ASSUME DocTypeOK, win' = win
    PROVE  /\ win' \in [Windows -> Editors]
           /\ \A u \in Windows : Formed(win'[u])
           /\ EditorsGo
<1>1. \A u \in Windows : Grows(win[u], win[u])
  BY DEF Grows
<1> QED  BY <1>1 DEF EditorsGo, DocTypeOK

\* The draft of the document of e becomes x.
Drafts(e, x) == x \in Texts \cup {None} /\ draft' = [draft EXCEPT ![e.doc] = x]

\* What an editor that is alone on its document knows of a draft x.
Knows(e, x) == (e.phase = "editing" => x = e.last) /\ (e.acked # None => x = e.acked)

LEMMA AloneKnows ==
    ASSUME TextOK, NEW w \in Windows, ~Shared(w)
    PROVE  Knows(win[w], draft[win[w].doc])
BY DEF TextOK, Knows, Editing

LEMMA OneText ==
    ASSUME DocTypeOK, TextOK, NEW w \in Windows, NEW e, NEW x, Becomes(w, e), Drafts(e, x),
           win[w].phase = "new" \/ ~Shared(w) => Knows(e, x)
    PROVE  TextOK' /\ draft' \in [Docs -> Texts \cup {None}]
<1>1. /\ e \in Editors /\ Formed(e) /\ e.phase # "new" /\ e.doc \in Docs
      /\ win[w].phase # "new" => e.doc = win[w].doc
  BY DEF Becomes, Formed, Grows
<1>2. win'[w] = e /\ \A u \in Windows \ {w} : win'[u] = win[u]
  BY EditorBecomes
<1>3. draft \in [Docs -> Texts \cup {None}] /\ win \in [Windows -> Editors]
      /\ \A u \in Windows : Formed(win[u])
  BY DEF DocTypeOK
<1>4. /\ draft' \in [Docs -> Texts \cup {None}]
      /\ draft'[e.doc] = x
      /\ \A d \in Docs : d # e.doc => draft'[d] = draft[d]
  BY <1>1, <1>3 DEF Drafts
<1>5. ASSUME NEW u \in Windows, ~Shared(u)', Editing(u)' \/ win'[u].acked # None
      PROVE  /\ Editing(u)' => draft'[win'[u].doc] = win'[u].last
             /\ win'[u].acked # None => draft'[win'[u].doc] = win'[u].acked
  <2>1. CASE u = w
    <3>1. win[w].phase = "new" \/ ~Shared(w)
      <4>1. SUFFICES ASSUME win[w].phase # "new", NEW v \in Windows \ {w}, win[v].phase # "new",
                            win[v].doc = win[w].doc
                     PROVE  FALSE
        BY DEF Shared
      <4>2. win'[v] = win[v] /\ win'[w].doc = win[w].doc
        BY <1>1, <1>2, <4>1
      <4> QED  BY <1>5, <2>1, <4>1, <4>2 DEF Shared
    <3>2. Knows(e, x)
      BY <3>1
    <3> QED  BY <1>2, <1>4, <2>1, <3>2 DEF Knows, Editing
  <2>2. CASE u # w
    <3>1. win'[u] = win[u]
      BY <1>2, <2>2
    <3>2. win[u].phase = "editing"
      BY <1>3, <1>5, <3>1 DEF Formed, Editing
    <3>3. win[u].doc \in Docs
      BY <1>3, <3>2 DEF Formed
    <3>4. win[u].doc # e.doc
      BY <1>1, <1>2, <1>5, <2>2, <3>1 DEF Shared
    <3>5. ~Shared(u)
      <4>1. SUFFICES ASSUME NEW v \in Windows \ {u}, win[v].phase # "new", win[v].doc = win[u].doc
                     PROVE  FALSE
        BY DEF Shared
      <4>2. CASE v = w
        BY <1>1, <3>4, <4>1, <4>2
      <4>3. CASE v # w
        BY <1>2, <1>5, <3>1, <4>1, <4>3 DEF Shared
      <4> QED  BY <4>2, <4>3
    <3>6. Knows(win[u], draft[win[u].doc])
      BY <3>5, AloneKnows
    <3> QED  BY <1>4, <3>1, <3>3, <3>4, <3>6 DEF Knows, Editing
  <2> QED  BY <2>1, <2>2
<1> QED  BY <1>4, <1>5 DEF TextOK

\* The same when no draft is written.
LEMMA SameText ==
    ASSUME DocTypeOK, TextOK, NEW w \in Windows, NEW e, Becomes(w, e), draft' = draft,
           win[w].phase # "new" /\ ~Shared(w) => Knows(e, draft[e.doc]),
           win[w].phase = "new" => e.phase # "editing" /\ e.acked = None
    PROVE  TextOK' /\ draft' \in [Docs -> Texts \cup {None}]
<1>1. e.doc \in Docs
  BY DEF Becomes, Formed
<1>2. Drafts(e, draft[e.doc])
  BY <1>1 DEF Drafts, DocTypeOK
<1>3. win[w].phase = "new" \/ ~Shared(w) => Knows(e, draft[e.doc])
  BY DEF Knows
<1> QED  BY <1>2, <1>3, OneText

\* An editor that is not editing knows nothing.
LEMMA IdleKnows ==
    ASSUME NEW e \in Editors, Formed(e), e.phase # "editing", NEW x
    PROVE  Knows(e, x)
BY DEF Formed, Knows

-----------------------------------------------------------------------------
(* The leases change, and the queues stay *)

LeaseStep == lease' \in [Windows -> Leases \cup {None}] /\ LeasesGo /\ StillFrozen

LEMMA LeaseIsNotNone ==
    None \notin Leases
BY DocumentsAssumption

LEMMA LeasesSame ==
    ASSUME DocTypeOK, lease' = lease
    PROVE  LeaseStep
<1>1. \A w \in Windows : Goes(lease[w], lease'[w])
  BY DEF Goes
<1> QED  BY <1>1 DEF LeaseStep, LeasesGo, SameBase, StillFrozen, DocTypeOK

LEMMA LeasesClosed ==
    ASSUME DocTypeOK, NEW ws, lease' = CloseLeases(ws)
    PROVE  LeaseStep
<1>1. ASSUME NEW w \in Windows
      PROVE  /\ lease'[w] \in Leases \cup {None}
             /\ Goes(lease[w], lease'[w])
             /\ lease'[w] # None => lease'[w].base = lease[w].base /\ lease'[w].frozen = lease[w].frozen
  <2>1. lease[w] # None => lease[w] \in Leases
    BY LeaseTyped
  <2>2. lease'[w] = IF w \notin ws \/ lease[w] = None THEN lease[w]
                    ELSE IF lease[w].pending > 0 THEN [lease[w] EXCEPT !.closing = TRUE] ELSE None
    BY DEF CloseLeases
  <2>3. CASE lease'[w] = lease[w]
    BY <2>1, <2>3 DEF Goes
  <2>4. CASE lease'[w] # lease[w]
    <3>1. lease[w] \in Leases /\ (lease[w].pending > 0 \/ lease[w].pending = 0)
      BY <2>1, <2>2, <2>4 DEF Leases
    <3>2. CASE lease[w].pending > 0
      <4>1. lease'[w] = [lease[w] EXCEPT !.closing = TRUE]
        BY <2>2, <2>4, <3>2
      <4>2. lease'[w] \in Leases
        BY <3>1, <4>1 DEF Leases
      <4>3. lease'[w] # None
        BY <4>2, LeaseIsNotNone
      <4>4. lease[w] # None
        BY <3>1, LeaseIsNotNone
      <4> QED  BY <3>1, <3>2, <4>1, <4>2, <4>3, <4>4 DEF Goes, Leases
    <3>3. CASE lease[w].pending = 0
      <4>1. lease'[w] = None
        BY <2>2, <2>4, <3>1, <3>3
      <4> QED  BY <3>3, <4>1 DEF Goes
    <3> QED  BY <3>1, <3>2, <3>3
  <2> QED  BY <2>3, <2>4
<1>2. lease' \in [Windows -> Leases \cup {None}]
  BY <1>1 DEF CloseLeases
<1> QED  BY <1>1, <1>2 DEF LeaseStep, LeasesGo, SameBase, StillFrozen

\* One lease changes nothing but its dirty mark.
LEMMA LeaseReported ==
    ASSUME DocTypeOK, NEW w \in Windows, NEW b \in BOOLEAN, lease' = Reported(w, b)
    PROVE  LeaseStep
<1>1. CASE ~Require(w)
  BY <1>1, LeasesSame DEF Reported
<1>2. CASE Require(w)
  <2>1. lease' = [lease EXCEPT ![w].dirty = b]
    BY <1>2 DEF Reported
  <2>2. lease[w] \in Leases /\ lease[w] # None
    BY <1>2, LeaseTyped DEF Require
  <2>3. PICK m : m = [lease[w] EXCEPT !.dirty = b]
    OBVIOUS
  <2>4. m \in Leases /\ m # None
    BY <2>2, <2>3, LeaseIsNotNone DEF Leases
  <2>5. lease' = [lease EXCEPT ![w] = m]
    BY <2>1, <2>3
  <2>6. lease'[w] = m /\ \A u \in Windows \ {w} : lease'[u] = lease[u]
    BY <2>5 DEF DocTypeOK
  <2>7. lease' \in [Windows -> Leases \cup {None}]
    BY <2>4, <2>5 DEF DocTypeOK
  <2>8. Goes(lease[w], m) /\ m.base = lease[w].base /\ m.frozen = lease[w].frozen
    BY <2>2, <2>3, <2>4 DEF Goes, Leases
  <2>9. \A u \in Windows : Goes(lease[u], lease[u])
    BY DEF Goes
  <2> QED  BY <2>6, <2>7, <2>8, <2>9 DEF LeaseStep, LeasesGo, SameBase, StillFrozen
<1> QED  BY <1>1, <1>2

\* A step on one editor that neither saves nor locks.
LEMMA OneEditor ==
    ASSUME IInv, NEW w \in Windows, NEW e, Becomes(w, e), LeaseStep,
           TextOK', draft' \in [Docs -> Texts \cup {None}],
           UNCHANGED <<root, dir, file, ids, queue, op, gate>>
    PROVE  IInv'
<1>1. DocTypeOK
  BY DEF IInv, TypeOK
<1>2. /\ win' \in [Windows -> Editors] /\ EditorsGo
      /\ \A u \in Windows : Formed(win'[u])
  BY <1>1, EditorBecomes
<1>3. DocTypeOK'
  BY <1>1, <1>2 DEF DocTypeOK, LeaseStep
<1>4. QueueStays
  BY DEF QueueStays
<1>5. Quiet /\ StillFrozen
  BY <1>2, <1>3, <1>4 DEF Quiet, LeaseStep
<1> QED  BY <1>5, QuietInv

\* A step on no editor.
LEMMA NoEditors ==
    ASSUME IInv, LeaseStep, UNCHANGED <<root, dir, file, draft, ids, queue, win, op, gate>>
    PROVE  IInv'
<1>1. DocTypeOK
  BY DEF IInv, TypeOK
<1>2. /\ win' \in [Windows -> Editors] /\ EditorsGo
      /\ \A u \in Windows : Formed(win'[u])
  BY <1>1, EditorsSame
<1>3. DocTypeOK'
  BY <1>1, <1>2 DEF DocTypeOK, LeaseStep
<1>4. QueueStays
  BY DEF QueueStays
<1>5. TextOK'
  BY DEF IInv, TextOK, Shared, Editing
<1>6. Quiet /\ StillFrozen
  BY <1>2, <1>3, <1>4 DEF Quiet, LeaseStep
<1> QED  BY <1>5, <1>6, QuietInv

LEMMA EditorTyped ==
    ASSUME IInv, NEW w \in Windows
    PROVE  DocTypeOK /\ win[w] \in Editors /\ Formed(win[w])
BY DEF IInv, TypeOK, DocTypeOK

LEMMA ClosedEditor ==
    ASSUME NEW e \in Editors, Formed(e), e.phase # "new"
    PROVE  /\ Closed(e) \in Editors /\ Formed(Closed(e)) /\ Grows(e, Closed(e))
           /\ Closed(e).phase = "closed" /\ Closed(e).acked = None /\ Closed(e).doc = e.doc
<1>1. e.doc \in Docs
  BY DEF Formed
<1>2. PICK c : c = Closed(e)
  OBVIOUS
<1>3. c = [phase |-> "closed", native |-> FALSE, root |-> None, doc |-> e.doc,
           text |-> None, saved |-> None, seen |-> {}, dirty |-> FALSE, last |-> None,
           offer |-> None, rev |-> 0, save |-> "none", lock |-> "free", acked |-> None]
  BY <1>2 DEF Closed, NoEditor
<1>4. c \in Editors
  BY <1>1, <1>3 DEF Editors, Phases
<1>5. Formed(c)
  BY <1>1, <1>3 DEF Formed
<1>6. Grows(e, c)
  BY <1>3 DEF Grows
<1> QED  BY <1>2, <1>3, <1>4, <1>5, <1>6

\* An editor goes.
LEMMA EditorCloses ==
    ASSUME IInv, NEW w \in Windows, win[w].phase # "new",
           win' = [win EXCEPT ![w] = Closed(@)], LeaseStep, draft' = draft,
           UNCHANGED <<root, dir, file, ids, queue, op, gate>>
    PROVE  IInv'
<1>1. DocTypeOK /\ win[w] \in Editors /\ Formed(win[w])
  BY EditorTyped
<1>2. PICK e : e = Closed(win[w])
  OBVIOUS
<1>3. /\ e \in Editors /\ Formed(e) /\ Grows(win[w], e)
      /\ e.phase = "closed" /\ e.acked = None
  BY <1>1, <1>2, ClosedEditor
<1>4. win' = [win EXCEPT ![w] = e]
  BY <1>2
<1>5. Becomes(w, e)
  BY <1>3, <1>4 DEF Becomes
<1>6. Knows(e, draft[e.doc])
  BY <1>3, IdleKnows
<1>7. TextOK' /\ draft' \in [Docs -> Texts \cup {None}]
  BY <1>1, <1>5, <1>6, SameText DEF IInv
<1> QED  BY <1>5, <1>7, OneEditor

-----------------------------------------------------------------------------
(* Opening an editor *)

LEMMA AskKeeps ==
    ASSUME IInv, NEW w \in Windows, NEW d \in Docs, Ask(w, d), UNCHANGED lockVars
    PROVE  IInv'
<1>1. DocTypeOK /\ win[w] \in Editors /\ Formed(win[w])
  BY EditorTyped
<1>2. dir \in Roots
  BY DEF IInv, TypeOK, LockTypeOK, Ask
<1>3. PICK e : e = [win[w] EXCEPT !.phase = "asked", !.native = TRUE, !.root = dir, !.doc = d]
  OBVIOUS
<1>4. win[w].phase = "new" /\ win' = [win EXCEPT ![w] = e]
  BY <1>1, <1>3 DEF Ask, DocTypeOK
<1>5. e \in Editors
  BY <1>1, <1>2, <1>3 DEF Editors, Phases
<1>6. Formed(e) /\ e.phase = "asked" /\ e.acked = None
  BY <1>1, <1>2, <1>3, <1>4 DEF Formed, Editors
<1>7. Grows(win[w], e)
  BY <1>4 DEF Grows
<1>8. Becomes(w, e)
  BY <1>4, <1>5, <1>6, <1>7 DEF Becomes
<1>9. UNCHANGED <<root, dir, file, draft, lease, ids, queue, op, gate>>
  BY DEF Ask, disk, broker, lockVars
<1>10. TextOK' /\ draft' \in [Docs -> Texts \cup {None}]
  BY <1>1, <1>4, <1>6, <1>8, <1>9, SameText DEF IInv
<1>11. LeaseStep
  BY <1>1, <1>9, LeasesSame
<1> QED  BY <1>8, <1>9, <1>10, <1>11, OneEditor

\* A lease is new only for a window that had none, that no operation waits for and that has
\* no save in a queue.
LEMMA NewLeaseKeeps ==
    ASSUME IInv, NEW w \in Windows, NEW r \in Roots, NEW d \in Docs, NewLease(w, r, d),
           win[w].phase \in {"new", "asked"}, NEW e, Becomes(w, e),
           e.phase \notin {"new", "asked"}, TextOK', draft' \in [Docs -> Texts \cup {None}],
           UNCHANGED <<root, dir, file, queue, op, gate>>
    PROVE  IInv'
<1>1. DocTypeOK /\ LockTypeOK /\ GateOK /\ ShownOK /\ CountOK /\ WaitOK /\ RunOK
  BY DEF IInv, TypeOK
<1>2. PICK i : i = IF ids[<<r, d>>] = None THEN w ELSE ids[<<r, d>>]
  OBVIOUS
<1>3. <<r, d>> \in Roots \X Docs
  OBVIOUS
<1>4. i \in Windows
  BY <1>1, <1>2, <1>3 DEF DocTypeOK
<1>5. ids' = [ids EXCEPT ![<<r, d>>] = i]
  BY <1>2 DEF NewLease
<1>6. ids' \in [Roots \X Docs -> Windows \cup {None}]
  BY <1>1, <1>4, <1>5 DEF DocTypeOK
<1>7. PICK l : l = [root |-> r, doc |-> d, id |-> i, base |-> file[d].text, rev |-> 1,
                    dirty |-> FALSE, pending |-> 0, closing |-> FALSE, frozen |-> FALSE]
  OBVIOUS
<1>8. file[d].text \in Texts
  BY <1>1 DEF DocTypeOK
<1>9. l \in Leases
  BY <1>4, <1>7, <1>8 DEF Leases
<1>10. lease' = [lease EXCEPT ![w] = l]
  BY <1>2, <1>7 DEF NewLease
<1>11. lease'[w] = l /\ \A u \in Windows \ {w} : lease'[u] = lease[u]
  BY <1>1, <1>10 DEF DocTypeOK
<1>12. lease' \in [Windows -> Leases \cup {None}]
  BY <1>1, <1>9, <1>10 DEF DocTypeOK
<1>13. lease[w] = None
  BY <1>1 DEF WaitOK
<1>14. /\ win' \in [Windows -> Editors] /\ \A u \in Windows : Formed(win'[u])
       /\ win'[w] = e /\ \A u \in Windows \ {w} : win'[u] = win[u]
  BY <1>1, EditorBecomes
<1>15. DocTypeOK' /\ LockTypeOK'
  BY <1>1, <1>6, <1>12, <1>14 DEF DocTypeOK, LockTypeOK
<1>16. ASSUME NEW q \in Windows, NEW n \in DOMAIN queue[q]
       PROVE  queue[q][n].win \in Windows \ {w}
  <2>1. queue[q][n].win \in Windows
    BY <1>1, JobTyped
  <2> QED  BY <1>1, <1>13, <2>1 DEF CountOK
<1>17. CountOK'
  <2>1. ASSUME NEW q \in Windows, NEW n \in DOMAIN queue'[q]
        PROVE  lease'[queue'[q][n].win] # None /\ lease'[queue'[q][n].win].id = q
    BY <1>1, <1>11, <1>16 DEF CountOK
  <2>2. SavesIn(queue[i], w) = {}
    BY <1>4, <1>16 DEF SavesIn
  <2>3. Cardinality(SavesIn(queue[i], w)) = 0
    BY <2>2, FS_EmptySet
  <2>4. /\ l.pending = Cardinality(SavesIn(queue[l.id], w))
        /\ ~l.closing
    BY <1>7, <2>3
  <2>5. ASSUME NEW u \in Windows, lease'[u] # None
        PROVE  /\ lease'[u].pending = Cardinality(SavesIn(queue'[lease'[u].id], u))
               /\ lease'[u].closing => lease'[u].pending > 0
    <3>1. CASE u = w
      BY <1>11, <2>4, <3>1
    <3>2. CASE u # w
      BY <1>1, <1>11, <2>5, <3>2 DEF CountOK
    <3> QED  BY <3>1, <3>2
  <2> QED  BY <2>1, <2>5 DEF CountOK
<1>18. WaitOK'
  <2>1. \A k \in Kinds, u \in Windows : u \in op[k].wait => u # w
    BY <1>1 DEF WaitOK
  <2>2. ASSUME NEW k \in Kinds, NEW u \in Windows, u \in op'[k].wait
        PROVE  win'[u].phase \notin {"new", "asked"} /\ Held(op'[k], lease'[u])
    <3>1. u # w /\ u \in op[k].wait /\ op'[k] = op[k]
      BY <2>1, <2>2
    <3> QED  BY <1>1, <1>11, <1>14, <3>1 DEF WaitOK
  <2>3. \A u \in Windows : lease'[u] # None => win'[u].phase \notin {"new", "asked"}
    BY <1>1, <1>11, <1>14 DEF WaitOK
  <2>4. \A k \in Kinds, u \in Windows : u \in op'[k].tokens => win'[u].phase \notin {"new", "asked"}
    BY <1>1, <1>14 DEF WaitOK
  <2> QED  BY <2>2, <2>3, <2>4 DEF WaitOK
<1>19. RunOK'
  <2>1. ASSUME NEW q \in Windows, NEW n \in DOMAIN queue'[q]
        PROVE  LET j == queue'[q][n]
                   f == file'[lease'[j.win].doc]
               IN  /\ win'[j.win].phase \in {"editing", "closed"}
                   /\ j.running => n = 1
                   /\ j.running /\ f.by = q => f.text = lease'[j.win].base
    <3>1. n \in DOMAIN queue[q] /\ queue'[q][n] = queue[q][n]
      BY <2>1
    <3>2. PICK u \in Windows \ {w} : u = queue[q][n].win
      BY <1>16, <3>1
    <3>3. lease'[u] = lease[u] /\ win'[u] = win[u]
      BY <1>11, <1>14
    <3> QED  BY <1>1, <3>1, <3>2, <3>3 DEF RunOK
  <2> QED  BY <2>1 DEF RunOK
<1>20. ShownOK' /\ GateOK'
  BY <1>1 DEF ShownOK, GateOK, At, Mine
<1> QED  BY <1>15, <1>17, <1>18, <1>19, <1>20 DEF IInv, TypeOK

\* An editor of a window that starts has its content: what it knows of the draft is right.
LEMMA LoadedEditor ==
    ASSUME DocTypeOK, NEW e \in Editors, NEW t \in Texts, NEW v \in Nat,
           e.doc \in Docs, e.root \in Roots, ~e.dirty, e.acked = None
    PROVE  LET f == Loaded(e, t, v)
               x == IF draft[e.doc] = t THEN None ELSE draft[e.doc]
           IN  /\ f \in Editors /\ Formed(f) /\ f.phase = "editing" /\ f.doc = e.doc
               /\ Knows(f, x) /\ x \in Texts \cup {None}
<1>1. PICK x : x = IF draft[e.doc] = t THEN None ELSE draft[e.doc]
  OBVIOUS
<1>2. x \in Texts \cup {None}
  BY <1>1 DEF DocTypeOK
<1>3. PICK f : f = [e EXCEPT !.phase = "editing", !.text = t, !.saved = t, !.seen = {t}, !.rev = v,
                             !.last = x, !.offer = x]
  OBVIOUS
<1>4. f = Loaded(e, t, v)
  BY <1>1, <1>3 DEF Loaded
<1>5. f \in Editors
  BY <1>2, <1>3 DEF Editors, Phases
<1>6. /\ f.phase = "editing" /\ f.doc = e.doc /\ f.root = e.root /\ f.text = t /\ f.seen = {t}
      /\ f.last = x /\ f.offer = x /\ f.dirty = e.dirty /\ f.acked = e.acked
  BY <1>3 DEF Editors
<1>7. Formed(f)
  BY <1>6 DEF Formed
<1>8. Knows(f, x)
  BY <1>6 DEF Knows
<1> QED  BY <1>1, <1>2, <1>4, <1>5, <1>6, <1>7, <1>8

LEMMA OpenPageKeeps ==
    ASSUME IInv, NEW w \in Windows, NEW d \in Docs, OpenPage(w, d), UNCHANGED lockVars
    PROVE  IInv'
<1>1. DocTypeOK /\ win[w] \in Editors /\ Formed(win[w])
  BY EditorTyped
<1>2. dir \in Roots
  BY DEF IInv, TypeOK, LockTypeOK, OpenPage
<1>3. win[w].phase = "new"
  BY DEF OpenPage
<1>4. PICK t \in Texts : t = file[d].text
  BY <1>1 DEF DocTypeOK
<1>5. PICK e : e = [win[w] EXCEPT !.root = dir, !.doc = d]
  OBVIOUS
<1>6. e \in Editors /\ e.doc = d /\ e.root = dir /\ ~e.dirty /\ e.acked = None
  BY <1>1, <1>2, <1>3, <1>5 DEF Editors, Formed
<1>7. PICK f : f = Loaded(e, t, 1)
  OBVIOUS
<1>8. PICK x : x = IF draft[d] = t THEN None ELSE draft[d]
  OBVIOUS
<1>9. f \in Editors /\ Formed(f) /\ f.phase = "editing" /\ f.doc = d /\ Knows(f, x)
      /\ x \in Texts \cup {None}
  BY <1>1, <1>2, <1>6, <1>7, <1>8, LoadedEditor
<1>10. win' = [win EXCEPT ![w] = f]
  BY <1>4, <1>5, <1>7 DEF OpenPage
<1>11. Becomes(w, f)
  BY <1>3, <1>9, <1>10 DEF Becomes, Grows
<1>12. Drafts(f, x)
  BY <1>1, <1>4, <1>8, <1>9 DEF Drafts, OpenPage, DraftAfterLoad
<1>13. TextOK' /\ draft' \in [Docs -> Texts \cup {None}]
  BY <1>1, <1>9, <1>11, <1>12, OneText DEF IInv
<1>14. NewLease(w, dir, d) /\ UNCHANGED <<root, dir, file, queue, op, gate>>
  BY DEF OpenPage, lockVars
<1> QED  BY <1>2, <1>3, <1>9, <1>11, <1>13, <1>14, NewLeaseKeeps

LEMMA OpenWindowKeeps ==
    ASSUME IInv, NEW w \in Windows, OpenWindow(w), UNCHANGED lockVars
    PROVE  IInv'
<1>1. DocTypeOK /\ win[w] \in Editors /\ Formed(win[w]) /\ win[w].phase = "asked"
  BY EditorTyped DEF OpenWindow
<1>2. win[w].root \in Roots /\ win[w].doc \in Docs
  BY <1>1 DEF Formed
<1>3. PICK e : e = [win[w] EXCEPT !.phase = "opening"]
  OBVIOUS
<1>4. win' = [win EXCEPT ![w] = e]
  BY <1>3 DEF OpenWindow
<1>5. e \in Editors
  BY <1>1, <1>3 DEF Editors, Phases
<1>6. Formed(e) /\ e.phase = "opening" /\ e.acked = None /\ e.doc = win[w].doc
  BY <1>1, <1>3 DEF Formed, Editors
<1>7. Becomes(w, e)
  BY <1>1, <1>4, <1>5, <1>6 DEF Becomes, Grows
<1>8. NewLease(w, win[w].root, win[w].doc)
      /\ UNCHANGED <<root, dir, file, draft, queue, op, gate>>
  BY DEF OpenWindow, disk, lockVars
<1>9. Knows(e, draft[e.doc])
  BY <1>5, <1>6, IdleKnows
<1>10. TextOK' /\ draft' \in [Docs -> Texts \cup {None}]
  BY <1>1, <1>7, <1>8, <1>9, SameText DEF IInv
<1>11. e.phase \notin {"new", "asked"}
  BY <1>6
<1> QED  BY <1>1, <1>2, <1>7, <1>8, <1>10, <1>11, NewLeaseKeeps

LEMMA OpenRefusedKeeps ==
    ASSUME IInv, NEW w \in Windows, OpenRefused(w), UNCHANGED lockVars
    PROVE  IInv'
<1>1. UNCHANGED <<root, dir, file, draft, lease, ids, queue, op, gate>>
  BY DEF OpenRefused, disk, broker, lockVars
<1>2. LeaseStep
  BY <1>1, EditorTyped, LeasesSame
<1> QED  BY <1>1, <1>2, EditorCloses DEF OpenRefused

\* The phase of an editor moves on without its text.
LEMMA PhaseMoves ==
    ASSUME IInv, NEW w \in Windows, NEW p \in {"loading", "failed"},
           win[w].phase \in {"opening", "loading"}, win' = [win EXCEPT ![w].phase = p],
           UNCHANGED <<root, dir, file, draft, lease, ids, queue, op, gate>>
    PROVE  IInv'
<1>1. DocTypeOK /\ win[w] \in Editors /\ Formed(win[w])
  BY EditorTyped
<1>2. PICK e : e = [win[w] EXCEPT !.phase = p]
  OBVIOUS
<1>3. win' = [win EXCEPT ![w] = e]
  BY <1>2
<1>4. e \in Editors
  BY <1>1, <1>2 DEF Editors, Phases
<1>5. Formed(e) /\ e.phase = p /\ e.acked = None /\ e.doc = win[w].doc
  BY <1>1, <1>2 DEF Formed, Editors
<1>6. Becomes(w, e)
  BY <1>1, <1>3, <1>4, <1>5 DEF Becomes, Grows
<1>7. Knows(e, draft[e.doc])
  BY <1>4, <1>5, IdleKnows
<1>8. TextOK' /\ draft' \in [Docs -> Texts \cup {None}]
  BY <1>1, <1>6, <1>7, SameText DEF IInv
<1>9. LeaseStep
  BY <1>1, LeasesSame
<1> QED  BY <1>6, <1>8, <1>9, OneEditor

LEMMA WindowStartedKeeps ==
    ASSUME IInv, NEW w \in Windows, WindowStarted(w), UNCHANGED lockVars
    PROVE  IInv'
BY PhaseMoves DEF WindowStarted, disk, broker, lockVars

LEMMA LoadFailsKeeps ==
    ASSUME IInv, NEW w \in Windows, LoadFails(w), UNCHANGED lockVars
    PROVE  IInv'
BY PhaseMoves DEF LoadFails, disk, broker, lockVars

LEMMA WindowFailedKeeps ==
    ASSUME IInv, NEW w \in Windows, WindowFailed(w), UNCHANGED lockVars
    PROVE  IInv'
<1>1. UNCHANGED <<root, dir, file, draft, ids, queue, op, gate>>
  BY DEF WindowFailed, disk, lockVars
<1>2. LeaseStep
  BY EditorTyped, LeasesClosed DEF WindowFailed
<1> QED  BY <1>1, <1>2, EditorCloses DEF WindowFailed

LEMMA LoadKeeps ==
    ASSUME IInv, NEW w \in Windows, Load(w), UNCHANGED lockVars
    PROVE  IInv'
<1>1. /\ DocTypeOK /\ win[w] \in Editors /\ Formed(win[w])
      /\ win[w].phase = "loading" /\ Require(w)
  BY EditorTyped DEF Load
<1>2. win[w].doc \in Docs /\ win[w].root \in Roots /\ ~win[w].dirty /\ win[w].acked = None
  BY <1>1 DEF Formed
<1>3. PICK t \in Texts : t = file[win[w].doc].text
  BY <1>1, <1>2 DEF DocTypeOK
<1>4. lease[w] \in Leases /\ lease[w] # None
  BY <1>1, LeaseTyped DEF Require
<1>5. lease[w].rev + 1 \in Nat
  BY <1>4 DEF Leases
<1>6. PICK f : f = Loaded(win[w], t, lease[w].rev + 1)
  OBVIOUS
<1>7. PICK x : x = IF draft[win[w].doc] = t THEN None ELSE draft[win[w].doc]
  OBVIOUS
<1>8. f \in Editors /\ Formed(f) /\ f.phase = "editing" /\ f.doc = win[w].doc /\ Knows(f, x)
      /\ x \in Texts \cup {None}
  BY <1>1, <1>2, <1>5, <1>6, <1>7, LoadedEditor
<1>9. win' = [win EXCEPT ![w] = f]
  BY <1>3, <1>6 DEF Load
<1>10. Becomes(w, f)
  BY <1>1, <1>8, <1>9 DEF Becomes, Grows
<1>11. Drafts(f, x)
  BY <1>1, <1>2, <1>3, <1>7, <1>8 DEF Drafts, Load, DraftAfterLoad
<1>12. TextOK' /\ draft' \in [Docs -> Texts \cup {None}]
  BY <1>1, <1>8, <1>10, <1>11, OneText DEF IInv
<1>13. LeaseStep
  <2>1. PICK m : m = [lease[w] EXCEPT !.base = t, !.rev = lease[w].rev + 1, !.dirty = FALSE]
    OBVIOUS
  <2>2. m \in Leases
    BY <1>4, <1>5, <2>1 DEF Leases
  <2>3. lease' = [lease EXCEPT ![w] = m]
    BY <1>1, <1>3, <2>1 DEF Load, DocTypeOK
  <2>4. lease'[w] = m /\ \A u \in Windows \ {w} : lease'[u] = lease[u]
    BY <1>1, <2>3 DEF DocTypeOK
  <2>5. lease' \in [Windows -> Leases \cup {None}]
    BY <1>1, <2>2, <2>3 DEF DocTypeOK
  <2>6. Goes(lease[w], m) /\ m.frozen = lease[w].frozen
    BY <1>4, <2>1, <2>2, LeaseIsNotNone DEF Goes, Leases
  <2>7. \A u \in Windows : Goes(lease[u], lease[u])
    BY DEF Goes
  <2> QED  BY <1>1, <2>4, <2>5, <2>6, <2>7 DEF LeaseStep, LeasesGo, SameBase, StillFrozen
<1>14. UNCHANGED <<root, dir, file, ids, queue, op, gate>>
  BY DEF Load, lockVars
<1> QED  BY <1>10, <1>12, <1>13, <1>14, OneEditor

-----------------------------------------------------------------------------
(* Editing *)

\* Typing, undo and a restored draft change neither the draft nor what is known of it.
LEMMA RetypeKeeps ==
    ASSUME IInv, NEW w \in Windows, NEW e \in Editors, Editing(w), Retype(w, e),
           e.phase = "editing", e.doc = win[w].doc, e.root = win[w].root, e.text \in Texts,
           e.offer = None, e.last = win[w].last, e.acked = win[w].acked, UNCHANGED lockVars
    PROVE  IInv'
<1>1. DocTypeOK /\ win[w] \in Editors /\ Formed(win[w]) /\ win[w].phase = "editing"
  BY EditorTyped DEF Editing
<1>2. PICK b \in BOOLEAN : b = (e.text # e.saved)
  OBVIOUS
<1>3. PICK f : f = [e EXCEPT !.dirty = b, !.seen = e.seen \cup {e.text}]
  OBVIOUS
<1>4. win' = [win EXCEPT ![w] = f]
  BY <1>2, <1>3 DEF Retype
<1>5. f \in Editors
  BY <1>3 DEF Editors
<1>6. /\ f.phase = "editing" /\ f.doc = e.doc /\ f.root = e.root /\ f.text = e.text
      /\ f.offer = None /\ f.last = e.last /\ f.acked = e.acked
  BY <1>3 DEF Editors
<1>7. Formed(f)
  BY <1>1, <1>6 DEF Formed
<1>8. Becomes(w, f)
  BY <1>1, <1>4, <1>5, <1>6, <1>7 DEF Becomes, Grows
<1>9. ~Shared(w) => Knows(f, draft[f.doc])
  BY <1>1, <1>6, AloneKnows DEF Knows, IInv
<1>10. UNCHANGED <<root, dir, file, draft, ids, queue, op, gate>>
  BY DEF Retype, disk, lockVars
<1>11. TextOK' /\ draft' \in [Docs -> Texts \cup {None}]
  BY <1>1, <1>8, <1>9, <1>10, SameText DEF IInv
<1>12. LeaseStep
  BY <1>1, <1>2, LeaseReported DEF Retype
<1> QED  BY <1>8, <1>10, <1>11, <1>12, OneEditor

LEMMA EditKeeps ==
    ASSUME IInv, NEW w \in Windows, NEW t \in Texts, Edit(w, t) \/ Undo(w, t), UNCHANGED lockVars
    PROVE  IInv'
<1>1. DocTypeOK /\ win[w] \in Editors /\ Formed(win[w]) /\ Editing(w) /\ win[w].phase = "editing"
  BY EditorTyped DEF Edit, Undo, Editing
<1>2. PICK e : e = [win[w] EXCEPT !.text = t]
  OBVIOUS
<1>3. Retype(w, e)
  BY <1>2 DEF Edit, Undo
<1>4. /\ e \in Editors /\ e.phase = "editing" /\ e.doc = win[w].doc /\ e.root = win[w].root
      /\ e.text = t /\ e.offer = win[w].offer /\ e.last = win[w].last /\ e.acked = win[w].acked
  BY <1>1, <1>2 DEF Editors
<1>5. win[w].offer = None
  <2>1. CASE Edit(w, t)
    BY <2>1 DEF Edit
  <2>2. CASE Undo(w, t)
    <3>1. t \in win[w].seen /\ t # win[w].text
      BY <1>3, <1>4, <2>2 DEF Undo, Retype
    <3> QED  BY <1>1, <3>1 DEF Formed
  <2> QED  BY <2>1, <2>2
<1> QED  BY <1>1, <1>3, <1>4, <1>5, RetypeKeeps

LEMMA RestoreKeeps ==
    ASSUME IInv, NEW w \in Windows, Restore(w), UNCHANGED lockVars
    PROVE  IInv'
<1>1. DocTypeOK /\ win[w] \in Editors /\ Formed(win[w]) /\ Editing(w) /\ win[w].phase = "editing"
  BY EditorTyped DEF Restore, Editing
<1>2. win[w].offer \in Texts
  BY <1>1 DEF Editors, Restore
<1>3. PICK e : e = [win[w] EXCEPT !.text = win[w].offer, !.offer = None]
  OBVIOUS
<1>4. Retype(w, e)
  BY <1>3 DEF Restore
<1>5. /\ e \in Editors /\ e.phase = "editing" /\ e.doc = win[w].doc /\ e.root = win[w].root
      /\ e.text = win[w].offer /\ e.offer = None /\ e.last = win[w].last /\ e.acked = win[w].acked
  BY <1>1, <1>2, <1>3 DEF Editors
<1> QED  BY <1>1, <1>2, <1>4, <1>5, RetypeKeeps

\* An editor whose dialog is up has no unsaved text, so none it answered for.
LEMMA DiscardedEditor ==
    ASSUME NEW e \in Editors, Formed(e), e.phase = "editing", e.offer # None, NEW b \in BOOLEAN
    PROVE  LET f == Discarded(e, b) IN
           /\ f \in Editors /\ Formed(f) /\ f.phase = "editing" /\ f.doc = e.doc
           /\ f.acked = None /\ f.last = IF b THEN None ELSE e.last
<1>1. PICK x : x = IF b THEN None ELSE e.last
  OBVIOUS
<1>2. x \in Texts \cup {None}
  BY <1>1 DEF Editors
<1>3. PICK f : f = [e EXCEPT !.offer = None, !.last = x]
  OBVIOUS
<1>4. f = Discarded(e, b)
  BY <1>1, <1>3 DEF Discarded
<1>5. f \in Editors
  BY <1>2, <1>3 DEF Editors
<1>6. e.acked = None
  BY DEF Formed
<1>7. /\ f.phase = "editing" /\ f.doc = e.doc /\ f.root = e.root /\ f.text = e.text
      /\ f.offer = None /\ f.last = x /\ f.acked = None
  BY <1>3, <1>6 DEF Editors
<1>8. Formed(f)
  BY <1>7 DEF Formed
<1> QED  BY <1>1, <1>4, <1>5, <1>7, <1>8

LEMMA DiscardKeeps ==
    ASSUME IInv, NEW w \in Windows, Discard(w), UNCHANGED lockVars
    PROVE  IInv'
<1>1. /\ DocTypeOK /\ win[w] \in Editors /\ Formed(win[w]) /\ win[w].phase = "editing"
      /\ win[w].offer # None
  BY EditorTyped DEF Discard, Editing
<1>2. PICK b \in BOOLEAN : b <=> CanDraft(w)
  OBVIOUS
<1>3. PICK f : f = Discarded(win[w], b)
  OBVIOUS
<1>4. /\ f \in Editors /\ Formed(f) /\ f.phase = "editing" /\ f.doc = win[w].doc
      /\ f.acked = None /\ f.last = IF b THEN None ELSE win[w].last
  BY <1>1, <1>3, DiscardedEditor
<1>5. win' = [win EXCEPT ![w] = f]
  BY <1>2, <1>3 DEF Discard, Discarded
<1>6. Becomes(w, f)
  BY <1>1, <1>4, <1>5 DEF Becomes, Grows
<1>7. win[w].doc \in Docs
  BY <1>1 DEF Formed
<1>8. PICK x : x = IF b THEN None ELSE draft[win[w].doc]
  OBVIOUS
<1>9. Drafts(f, x)
  BY <1>1, <1>2, <1>4, <1>7, <1>8 DEF Drafts, Discard, DocTypeOK
<1>10. ~Shared(w) => Knows(f, x)
  BY <1>1, <1>4, <1>8, AloneKnows DEF Knows, IInv
<1>11. TextOK' /\ draft' \in [Docs -> Texts \cup {None}]
  BY <1>1, <1>6, <1>9, <1>10, OneText DEF IInv
<1>12. UNCHANGED <<root, dir, file, lease, ids, queue, op, gate>>
  BY DEF Discard, broker, lockVars
<1>13. LeaseStep
  BY <1>1, <1>12, LeasesSame
<1> QED  BY <1>6, <1>11, <1>12, <1>13, OneEditor

LEMMA DraftKeeps ==
    ASSUME IInv, NEW w \in Windows, Draft(w), UNCHANGED lockVars
    PROVE  IInv'
<1>1. DocTypeOK /\ win[w] \in Editors /\ Formed(win[w]) /\ win[w].phase = "editing" /\ win[w].dirty
  BY EditorTyped DEF Draft, Editing
<1>2. win[w].doc \in Docs /\ win[w].text \in Texts /\ win[w].offer = None
  BY <1>1 DEF Formed
<1>3. PICK a : a = IF win[w].acked = None THEN win[w].acked ELSE win[w].text
  OBVIOUS
<1>4. a \in Texts \cup {None} /\ (a # None => a = win[w].text)
  BY <1>1, <1>2, <1>3
<1>5. PICK f : f = [win[w] EXCEPT !.last = win[w].text, !.acked = a]
  OBVIOUS
<1>6. win' = [win EXCEPT ![w] = f]
  BY <1>1, <1>3, <1>5 DEF Draft, DocTypeOK, Editors
<1>7. f \in Editors
  BY <1>1, <1>2, <1>4, <1>5 DEF Editors
<1>8. /\ f.phase = "editing" /\ f.doc = win[w].doc /\ f.root = win[w].root /\ f.text = win[w].text
      /\ f.offer = None /\ f.last = win[w].text /\ f.acked = a
  BY <1>1, <1>2, <1>5 DEF Editors
<1>9. Formed(f)
  BY <1>1, <1>8 DEF Formed
<1>10. Becomes(w, f)
  BY <1>1, <1>6, <1>7, <1>8, <1>9 DEF Becomes, Grows
<1>11. Drafts(f, win[w].text)
  BY <1>2, <1>8 DEF Drafts, Draft
<1>12. Knows(f, win[w].text)
  BY <1>4, <1>8 DEF Knows
<1>13. TextOK' /\ draft' \in [Docs -> Texts \cup {None}]
  BY <1>1, <1>10, <1>11, <1>12, OneText DEF IInv
<1>14. UNCHANGED <<root, dir, file, lease, ids, queue, op, gate>>
  BY DEF Draft, broker, lockVars
<1>15. LeaseStep
  BY <1>1, <1>14, LeasesSame
<1> QED  BY <1>10, <1>13, <1>14, <1>15, OneEditor

LEMMA SaveAnsweredKeeps ==
    ASSUME IInv, NEW w \in Windows, SaveAnswered(w), UNCHANGED lockVars
    PROVE  IInv'
<1>1. DocTypeOK /\ win[w] \in Editors /\ Formed(win[w]) /\ win[w].phase = "editing"
  BY EditorTyped DEF SaveAnswered, Editing
<1>2. win[w].doc \in Docs /\ win[w].text \in Texts
  BY <1>1 DEF Formed
<1>3. UNCHANGED <<root, dir, file, ids, queue, op, gate>>
  BY DEF SaveAnswered, lockVars
<1>4. CASE win' = [win EXCEPT ![w].save = "none"] /\ UNCHANGED <<draft, lease>>
  <2>1. PICK f : f = [win[w] EXCEPT !.save = "none"]
    OBVIOUS
  <2>2. win' = [win EXCEPT ![w] = f]
    BY <1>4, <2>1
  <2>3. f \in Editors
    BY <1>1, <2>1 DEF Editors
  <2>4. /\ f.phase = "editing" /\ f.doc = win[w].doc /\ f.root = win[w].root
        /\ f.text = win[w].text /\ f.offer = win[w].offer /\ f.last = win[w].last
        /\ f.acked = win[w].acked /\ f.dirty = win[w].dirty /\ f.seen = win[w].seen
    BY <1>1, <2>1 DEF Editors
  <2>5. Formed(f)
    BY <1>1, <2>4 DEF Formed
  <2>6. Becomes(w, f)
    BY <1>1, <2>2, <2>3, <2>4, <2>5 DEF Becomes, Grows
  <2>7. ~Shared(w) => Knows(f, draft[f.doc])
    BY <1>1, <2>4, AloneKnows DEF Knows, IInv
  <2>8. TextOK' /\ draft' \in [Docs -> Texts \cup {None}]
    BY <1>1, <1>4, <2>6, <2>7, SameText DEF IInv
  <2>9. LeaseStep
    BY <1>1, <1>4, LeasesSame
  <2> QED  BY <1>3, <2>6, <2>8, <2>9, OneEditor
<1>5. CASE /\ lease' = IF win[w].native THEN Reported(w, FALSE) ELSE lease
           /\ draft' = [draft EXCEPT ![win[w].doc] = IF CanDraft(w) THEN None ELSE @]
           /\ win' = [win EXCEPT ![w].save = "none", ![w].saved = win[w].text, ![w].dirty = FALSE,
                                 ![w].last = IF CanDraft(w) THEN None ELSE @, ![w].acked = None]
  <2>1. PICK b \in BOOLEAN : b <=> CanDraft(w)
    OBVIOUS
  <2>2. PICK y : y = IF b THEN None ELSE win[w].last
    OBVIOUS
  <2>3. y \in Texts \cup {None}
    BY <1>1, <2>2 DEF Editors
  <2>4. PICK f : f = [win[w] EXCEPT !.save = "none", !.saved = win[w].text, !.dirty = FALSE,
                                    !.last = y, !.acked = None]
    OBVIOUS
  <2>5. win' = [win EXCEPT ![w] = f]
    BY <1>1, <1>5, <2>1, <2>2, <2>4 DEF DocTypeOK, Editors
  <2>6. f \in Editors
    BY <1>1, <1>2, <2>3, <2>4 DEF Editors
  <2>7. /\ f.phase = "editing" /\ f.doc = win[w].doc /\ f.root = win[w].root
        /\ f.text = win[w].text /\ f.offer = win[w].offer /\ f.last = y
        /\ f.acked = None /\ ~f.dirty /\ f.seen = win[w].seen
    BY <1>1, <2>4 DEF Editors
  <2>8. Formed(f)
    BY <1>1, <2>7 DEF Formed
  <2>9. Becomes(w, f)
    BY <1>1, <2>5, <2>6, <2>7, <2>8 DEF Becomes, Grows
  <2>10. PICK x : x = IF b THEN None ELSE draft[win[w].doc]
    OBVIOUS
  <2>11. Drafts(f, x)
    BY <1>1, <1>2, <1>5, <2>1, <2>7, <2>10 DEF Drafts, DocTypeOK
  <2>12. ~Shared(w) => Knows(f, x)
    BY <1>1, <2>2, <2>7, <2>10, AloneKnows DEF Knows, IInv
  <2>13. TextOK' /\ draft' \in [Docs -> Texts \cup {None}]
    BY <1>1, <2>9, <2>11, <2>12, OneText DEF IInv
  <2>14. LeaseStep
    BY <1>1, <1>5, LeasesSame, LeaseReported
  <2> QED  BY <1>3, <2>9, <2>13, <2>14, OneEditor
<1> QED  BY <1>4, <1>5 DEF SaveAnswered

\* A save that gives up waiting leaves its place in the queue.
LEMMA SaveTimesOutKeeps ==
    ASSUME IInv, NEW w \in Windows, SaveTimesOut(w), UNCHANGED lockVars
    PROVE  IInv'
<1>1. DocTypeOK /\ win[w] \in Editors /\ Formed(win[w]) /\ win[w].phase = "editing"
  BY EditorTyped DEF SaveTimesOut, Editing
<1>2. UNCHANGED <<root, dir, file, draft, lease, ids, op, gate>>
  BY DEF SaveTimesOut, disk, lockVars
<1>3. PICK f : f = [win[w] EXCEPT !.save = "none"]
  OBVIOUS
<1>4. win' = [win EXCEPT ![w] = f]
  BY <1>3 DEF SaveTimesOut
<1>5. f \in Editors
  BY <1>1, <1>3 DEF Editors
<1>6. /\ f.phase = "editing" /\ f.doc = win[w].doc /\ f.root = win[w].root
      /\ f.text = win[w].text /\ f.offer = win[w].offer /\ f.last = win[w].last
      /\ f.acked = win[w].acked /\ f.dirty = win[w].dirty /\ f.seen = win[w].seen
  BY <1>1, <1>3 DEF Editors
<1>7. Formed(f)
  BY <1>1, <1>6 DEF Formed
<1>8. Becomes(w, f)
  BY <1>1, <1>4, <1>5, <1>6, <1>7 DEF Becomes, Grows
<1>9. ~Shared(w) => Knows(f, draft[f.doc])
  BY <1>1, <1>6, AloneKnows DEF Knows, IInv
<1>10. TextOK' /\ draft' \in [Docs -> Texts \cup {None}]
  BY <1>1, <1>2, <1>8, <1>9, SameText DEF IInv
<1>11. LeaseStep
  BY <1>1, <1>2, LeasesSame
<1>12. ASSUME NEW i \in Windows
       PROVE  /\ queue'[i] \in Seq(Jobs)
              /\ DOMAIN queue'[i] = DOMAIN queue[i]
              /\ \A n \in DOMAIN queue[i] :
                    queue'[i][n].win = queue[i][n].win /\ queue'[i][n].running = queue[i][n].running
  <2>1. queue'[i] = [n \in DOMAIN queue[i] |-> IF queue[i][n].win = w
                        THEN [queue[i][n] EXCEPT !.live = FALSE] ELSE queue[i][n]]
    BY DEF SaveTimesOut
  <2>2. PICK s \in Seq(Jobs) : s = queue[i]
    BY <1>1 DEF DocTypeOK
  <2>3. PICK t : t = queue'[i]
    OBVIOUS
  <2>4. DOMAIN t = 1 .. Len(s) /\ Len(s) \in Nat /\ DOMAIN s = 1 .. Len(s)
    BY <2>1, <2>2, <2>3
  <2>5. ASSUME NEW n \in 1 .. Len(s)
        PROVE  t[n] \in Jobs /\ t[n].win = s[n].win /\ t[n].running = s[n].running
    <3>1. s[n] \in Jobs
      BY <2>4
    <3>2. t[n] = s[n] \/ t[n] = [s[n] EXCEPT !.live = FALSE]
      BY <2>1, <2>2, <2>3, <2>4
    <3> QED  BY <3>1, <3>2 DEF Jobs
  <2>6. t = [n \in 1 .. Len(s) |-> t[n]]
    BY <2>1, <2>2, <2>3, <2>4
  <2>7. t \in [1 .. Len(s) -> Jobs]
    BY <2>5, <2>6
  <2>8. t \in Seq(Jobs)
    BY <2>4, <2>7, SeqDef
  <2> QED  BY <2>2, <2>3, <2>4, <2>5, <2>8
<1>13. queue' \in [Windows -> Seq(Jobs)]
  BY <1>12 DEF SaveTimesOut
<1>14. QueueStays
  BY <1>12 DEF QueueStays
<1>15. /\ win' \in [Windows -> Editors] /\ EditorsGo
       /\ \A u \in Windows : Formed(win'[u])
  BY <1>1, <1>8, EditorBecomes
<1>16. DocTypeOK'
  BY <1>1, <1>2, <1>10, <1>13, <1>15 DEF DocTypeOK
<1>17. Quiet /\ StillFrozen
  BY <1>2, <1>11, <1>14, <1>15, <1>16 DEF Quiet, LeaseStep
<1> QED  BY <1>2, <1>10, <1>17, QuietInv

-----------------------------------------------------------------------------
(* Closing an editor *)

LEMMA UserClosesKeeps ==
    ASSUME IInv, NEW w \in Windows, UserCloses(w), UNCHANGED lockVars
    PROVE  IInv'
<1>1. UNCHANGED <<root, dir, file, draft, lease, ids, queue, op, gate>>
  BY DEF UserCloses, disk, broker, lockVars
<1>2. LeaseStep
  BY <1>1, EditorTyped, LeasesSame
<1>3. win[w].phase # "new" /\ win' = [win EXCEPT ![w] = Closed(@)]
  BY DEF UserCloses
<1> QED  BY <1>1, <1>2, <1>3, EditorCloses

LEMMA LeavePageKeeps ==
    ASSUME IInv, NEW w \in Windows, LeavePage(w), UNCHANGED lockVars
    PROVE  IInv'
<1>1. DocTypeOK /\ win[w] \in Editors /\ Formed(win[w]) /\ win[w].phase = "editing"
  BY EditorTyped DEF LeavePage, Editing
<1>2. PICK e : e = Closed(win[w])
  OBVIOUS
<1>3. /\ e \in Editors /\ Formed(e) /\ Grows(win[w], e)
      /\ e.phase = "closed" /\ e.acked = None /\ e.doc = win[w].doc
  BY <1>1, <1>2, ClosedEditor
<1>4. win' = [win EXCEPT ![w] = e]
  BY <1>2 DEF LeavePage
<1>5. Becomes(w, e)
  BY <1>3, <1>4 DEF Becomes
<1>6. win[w].doc \in Docs
  BY <1>1 DEF Formed
<1>7. PICK x : x = IF win[w].dirty THEN None ELSE draft[win[w].doc]
  OBVIOUS
<1>8. Drafts(e, x)
  BY <1>1, <1>3, <1>6, <1>7 DEF Drafts, LeavePage, DocTypeOK
<1>9. Knows(e, x)
  BY <1>3, IdleKnows
<1>10. TextOK' /\ draft' \in [Docs -> Texts \cup {None}]
  BY <1>1, <1>5, <1>8, <1>9, OneText DEF IInv
<1>11. LeaseStep
  BY <1>1, LeasesClosed DEF LeavePage
<1>12. UNCHANGED <<root, dir, file, ids, queue, op, gate>>
  BY DEF LeavePage, lockVars
<1> QED  BY <1>5, <1>10, <1>11, <1>12, OneEditor

LEMMA ReconcileKeeps ==
    ASSUME IInv, NEW w \in Windows, Reconcile(w), UNCHANGED lockVars
    PROVE  IInv'
<1>1. UNCHANGED <<root, dir, file, draft, ids, queue, win, op, gate>>
  BY DEF Reconcile, disk, lockVars
<1>2. LeaseStep
  BY EditorTyped, LeasesClosed DEF Reconcile
<1> QED  BY <1>1, <1>2, NoEditors

-----------------------------------------------------------------------------
(* The saves of one document *)

\* A save put at the end of a queue is one save more of its window.
LEMMA SavesAppended ==
    ASSUME NEW s \in Seq(Jobs), NEW j \in Jobs, NEW u
    PROVE  Cardinality(SavesIn(Append(s, j), u)) =
                Cardinality(SavesIn(s, u)) + (IF j.win = u THEN 1 ELSE 0)
<1>1. PICK t \in Seq(Jobs) : t = Append(s, j)
  BY AppendProperties
<1>2. /\ Len(s) \in Nat /\ Len(t) = Len(s) + 1 /\ DOMAIN t = 1 .. Len(s) + 1
      /\ DOMAIN s = 1 .. Len(s) /\ t[Len(s) + 1] = j /\ \A n \in 1 .. Len(s) : t[n] = s[n]
  BY <1>1
<1>3. IsFiniteSet(SavesIn(s, u))
  BY SavesFinite
<1>4. Cardinality(SavesIn(s, u)) \in Nat
  BY <1>3, FS_CardinalityType
<1>5. CASE j.win = u
  <2>1. SavesIn(t, u) = SavesIn(s, u) \cup {Len(s) + 1}
    BY <1>2, <1>5 DEF SavesIn
  <2>2. Len(s) + 1 \notin SavesIn(s, u)
    BY <1>2 DEF SavesIn
  <2> QED  BY <1>1, <1>3, <1>5, <2>1, <2>2, FS_AddElement
<1>6. CASE j.win # u
  <2>1. SavesIn(t, u) = SavesIn(s, u)
    BY <1>2, <1>6 DEF SavesIn
  <2> QED  BY <1>1, <1>4, <1>6, <2>1
<1> QED  BY <1>5, <1>6

\* The queue without its first save.
LEMMA WithoutFirst ==
    ASSUME NEW s \in Seq(Jobs), 1 \in DOMAIN s
    PROVE  /\ Without(s, 1) \in Seq(Jobs)
           /\ Len(Without(s, 1)) = Len(s) - 1
           /\ \A n \in 1 .. Len(s) - 1 : Without(s, 1)[n] = s[n + 1]
<1>1. Len(s) \in Nat /\ Len(s) >= 1 /\ DOMAIN s = 1 .. Len(s)
  OBVIOUS
<1>2. PICK a : a = SubSeq(s, 1, 0)
  OBVIOUS
<1>3. PICK b : b = SubSeq(s, 2, Len(s))
  OBVIOUS
<1>4. a \in Seq(Jobs) /\ Len(a) = 0
  BY <1>1, <1>2
<1>5. b \in Seq(Jobs) /\ Len(b) = Len(s) - 1 /\ \A n \in 1 .. Len(s) - 1 : b[n] = s[n + 1]
  BY <1>1, <1>3
<1>6. Without(s, 1) = a \o b
  BY <1>2, <1>3 DEF Without
<1>7. /\ a \o b \in Seq(Jobs) /\ Len(a \o b) = Len(b)
      /\ \A n \in 1 .. Len(b) : (a \o b)[n] = b[n]
  BY <1>4, <1>5
<1> QED  BY <1>1, <1>5, <1>6, <1>7

LEMMA SavesWithoutFirst ==
    ASSUME NEW s \in Seq(Jobs), 1 \in DOMAIN s, NEW u
    PROVE  Cardinality(SavesIn(Without(s, 1), u)) =
                Cardinality(SavesIn(s, u)) - (IF s[1].win = u THEN 1 ELSE 0)
<1>1. PICK t \in Seq(Jobs) : t = Without(s, 1)
  BY WithoutFirst
<1>2. Len(t) = Len(s) - 1 /\ \A n \in 1 .. Len(s) - 1 : t[n] = s[n + 1]
  BY <1>1, WithoutFirst
<1>3. Len(s) \in Nat /\ Len(s) >= 1 /\ DOMAIN s = 1 .. Len(s) /\ DOMAIN t = 1 .. Len(s) - 1
  BY <1>2
<1>4. PICK A : A = SavesIn(t, u)
  OBVIOUS
<1>5. PICK B : B = SavesIn(s, u) \ {1}
  OBVIOUS
<1>6. A = {n \in 1 .. Len(s) - 1 : s[n + 1].win = u}
  BY <1>2, <1>3, <1>4 DEF SavesIn
<1>7. B = {n \in 2 .. Len(s) : s[n].win = u}
  BY <1>3, <1>5 DEF SavesIn
<1>8. IsFiniteSet(A) /\ IsFiniteSet(SavesIn(s, u))
  BY <1>4, SavesFinite
<1>9. ExistsBijection(A, B)
  <2>1. PICK f : f = [n \in A |-> n + 1]
    OBVIOUS
  <2>2. ASSUME NEW n \in A
        PROVE  f[n] = n + 1 /\ n \in Int /\ f[n] \in B
    BY <1>3, <1>6, <1>7, <2>1
  <2>3. f \in [A -> B]
    BY <2>1, <2>2
  <2>4. \A m, n \in A : m # n => f[m] # f[n]
    BY <2>2
  <2>5. ASSUME NEW n \in B
        PROVE  \E m \in A : f[m] = n
    <3>1. n - 1 \in A
      BY <1>3, <1>6, <1>7
    <3>2. f[n - 1] = n
      BY <1>3, <1>7, <2>2, <3>1
    <3> QED  BY <3>1, <3>2
  <2>6. f \in Bijection(A, B)
    BY <2>3, <2>4, <2>5, Fun_IsBij
  <2> QED  BY <2>6 DEF ExistsBijection
<1>10. Cardinality(A) = Cardinality(B)
  BY <1>8, <1>9, FS_Bijection
<1>11. Cardinality(B) = IF 1 \in SavesIn(s, u) THEN Cardinality(SavesIn(s, u)) - 1
                        ELSE Cardinality(SavesIn(s, u))
  BY <1>5, <1>8, FS_RemoveElement
<1>12. 1 \in SavesIn(s, u) <=> s[1].win = u
  BY DEF SavesIn
<1>13. Cardinality(SavesIn(s, u)) \in Nat
  BY <1>8, FS_CardinalityType
<1> QED  BY <1>1, <1>4, <1>10, <1>11, <1>12, <1>13

\* The editor of w has a new save or revision, and nothing else.
LEMMA SaveMarked ==
    ASSUME IInv, NEW w \in Windows, win[w].phase = "editing", draft' = draft,
           NEW p \in {"none", "sent", "saved", "failed"}, NEW v \in Nat,
           win' = [win EXCEPT ![w] = [win[w] EXCEPT !.save = p, !.rev = v]]
    PROVE  /\ win' \in [Windows -> Editors]
           /\ \A u \in Windows : Formed(win'[u])
           /\ EditorsGo
           /\ TextOK'
<1>1. DocTypeOK /\ win[w] \in Editors /\ Formed(win[w])
  BY EditorTyped
<1>2. PICK f : f = [win[w] EXCEPT !.save = p, !.rev = v]
  OBVIOUS
<1>3. win' = [win EXCEPT ![w] = f]
  BY <1>2
<1>4. f \in Editors
  BY <1>1, <1>2 DEF Editors
<1>5. /\ f.phase = "editing" /\ f.doc = win[w].doc /\ f.root = win[w].root
      /\ f.text = win[w].text /\ f.offer = win[w].offer /\ f.last = win[w].last
      /\ f.acked = win[w].acked /\ f.dirty = win[w].dirty /\ f.seen = win[w].seen
  BY <1>1, <1>2 DEF Editors
<1>6. Formed(f)
  BY <1>1, <1>5 DEF Formed
<1>7. Becomes(w, f)
  BY <1>1, <1>3, <1>4, <1>5, <1>6 DEF Becomes, Grows
<1>8. ~Shared(w) => Knows(f, draft[f.doc])
  BY <1>1, <1>5, AloneKnows DEF Knows, IInv
<1>9. TextOK'
  BY <1>1, <1>7, <1>8, SameText DEF IInv
<1> QED  BY <1>1, <1>7, <1>9, EditorBecomes

\* What is left of the invariant when a step keeps the operations and the roots.
LEMMA RestKeeps ==
    ASSUME IInv, UNCHANGED <<root, dir, op, gate>>, DocTypeOK', CountOK', RunOK', TextOK',
           EditorsGo, LeasesHold
    PROVE  IInv'
<1>1. DocTypeOK /\ LockTypeOK
  BY DEF IInv, TypeOK
<1>2. LockTypeOK'
  BY <1>1 DEF LockTypeOK
<1>3. ShownOK'
  BY DEF IInv, ShownOK
<1>4. GateOK'
  BY DEF IInv, GateOK, At, Mine
<1>5. OpsGo
  BY DEF OpsGo
<1>6. op \in [Kinds -> Ops] /\ op' \in [Kinds -> Ops]
  BY <1>1, <1>2 DEF LockTypeOK
<1>7. WaitOK'
  BY <1>1, <1>5, <1>6, QuietWait DEF IInv
<1> QED  BY <1>2, <1>3, <1>4, <1>7 DEF IInv, TypeOK

\* One lease becomes m, and keeps its root and what stops it.
LEMMA OneLeaseHolds ==
    ASSUME DocTypeOK, NEW w \in Windows, lease[w] # None, NEW m,
           lease' = [lease EXCEPT ![w] = m],
           m # None => /\ m.root = lease[w].root /\ m.closing = lease[w].closing
                       /\ m.frozen = lease[w].frozen
    PROVE  /\ LeasesHold
           /\ lease'[w] = m
           /\ \A u \in Windows \ {w} : lease'[u] = lease[u]
<1>1. lease'[w] = m /\ \A u \in Windows \ {w} : lease'[u] = lease[u]
  BY DEF DocTypeOK
<1> QED  BY <1>1 DEF LeasesHold

LEMMA SaveKeeps ==
    ASSUME IInv, NEW w \in Windows, Save(w), UNCHANGED lockVars
    PROVE  IInv'
<1>1. DocTypeOK /\ win[w] \in Editors /\ Formed(win[w]) /\ win[w].phase = "editing"
      /\ CountOK /\ RunOK
  BY EditorTyped DEF Save, Editing, IInv
<1>2. win[w].text \in Texts /\ win[w].rev \in Nat
  BY <1>1 DEF Formed, Editors
<1>3. lease[w] # None /\ lease[w] \in Leases /\ ~lease[w].closing
  BY <1>1, LeaseTyped DEF Save, Require
<1>4. PICK i \in Windows : i = lease[w].id
  BY <1>3 DEF Leases
<1>5. PICK m : m = [lease[w] EXCEPT !.pending = lease[w].pending + 1]
  OBVIOUS
<1>6. m \in Leases /\ m # None
  BY <1>3, <1>5, LeaseIsNotNone DEF Leases
<1>7. /\ m.root = lease[w].root /\ m.doc = lease[w].doc /\ m.id = i /\ m.base = lease[w].base
      /\ m.pending = lease[w].pending + 1 /\ m.closing = lease[w].closing
      /\ m.frozen = lease[w].frozen
  BY <1>3, <1>4, <1>5 DEF Leases
<1>8. lease' = [lease EXCEPT ![w] = m]
  BY <1>5 DEF Save, Accepted
<1>9. LeasesHold /\ lease'[w] = m /\ \A u \in Windows \ {w} : lease'[u] = lease[u]
  BY <1>1, <1>3, <1>7, <1>8, OneLeaseHolds
<1>10. PICK j : j = [win |-> w, text |-> win[w].text, rev |-> win[w].rev,
                     live |-> TRUE, running |-> FALSE]
  OBVIOUS
<1>11. j \in Jobs /\ j.win = w /\ ~j.running
  BY <1>2, <1>10 DEF Jobs
<1>12. PICK s \in Seq(Jobs) : s = queue[i]
  BY <1>1 DEF DocTypeOK
<1>13. queue' = [queue EXCEPT ![i] = Append(s, j)]
  BY <1>4, <1>10, <1>12 DEF Save
<1>14. Append(s, j) \in Seq(Jobs)
  BY <1>11, AppendProperties
<1>15. /\ queue' \in [Windows -> Seq(Jobs)] /\ queue'[i] = Append(s, j)
       /\ \A q \in Windows \ {i} : queue'[q] = queue[q]
  BY <1>1, <1>13, <1>14 DEF DocTypeOK
<1>16. PICK p : p = [win[w] EXCEPT !.save = "sent", !.rev = win[w].rev]
  OBVIOUS
<1>17. p = [win[w] EXCEPT !.save = "sent"]
  BY <1>1, <1>16 DEF Editors
<1>18. win' = [win EXCEPT ![w] = p]
  BY <1>17 DEF Save
<1>19. UNCHANGED <<root, dir, file, draft, ids, op, gate>>
  BY DEF Save, disk, lockVars
<1>20. /\ win' \in [Windows -> Editors] /\ EditorsGo /\ TextOK'
       /\ \A u \in Windows : Formed(win'[u])
  BY <1>1, <1>2, <1>16, <1>18, <1>19, SaveMarked
<1>21. lease' \in [Windows -> Leases \cup {None}]
  BY <1>1, <1>6, <1>8 DEF DocTypeOK
<1>22. DocTypeOK'
  BY <1>1, <1>15, <1>19, <1>20, <1>21 DEF DocTypeOK
<1>23. /\ Len(s) \in Nat /\ DOMAIN s = 1 .. Len(s) /\ DOMAIN Append(s, j) = 1 .. Len(s) + 1
       /\ Append(s, j)[Len(s) + 1] = j /\ \A n \in 1 .. Len(s) : Append(s, j)[n] = s[n]
  BY <1>11, AppendProperties
\* every save of the queues after the step is one of before, or the new one
<1>24. ASSUME NEW q \in Windows, NEW n \in DOMAIN queue'[q]
       PROVE  \/ n \in DOMAIN queue[q] /\ queue'[q][n] = queue[q][n]
              \/ q = i /\ queue'[q][n] = j
  <2>1. CASE q # i
    BY <1>15, <2>1
  <2>2. CASE q = i
    BY <1>12, <1>15, <1>23, <2>2
  <2> QED  BY <2>1, <2>2
<1>25. CountOK'
  <2>1. ASSUME NEW q \in Windows, NEW n \in DOMAIN queue'[q]
        PROVE  lease'[queue'[q][n].win] # None /\ lease'[queue'[q][n].win].id = q
    <3>1. CASE q = i /\ queue'[q][n] = j
      BY <1>6, <1>7, <1>9, <1>11, <3>1
    <3>2. CASE n \in DOMAIN queue[q] /\ queue'[q][n] = queue[q][n]
      <4>1. PICK u \in Windows : u = queue[q][n].win
        BY <1>1, <3>2, JobTyped
      <4>2. lease[u] # None /\ lease[u].id = q
        BY <1>1, <3>2, <4>1 DEF CountOK
      <4> QED  BY <1>4, <1>6, <1>7, <1>9, <3>2, <4>1, <4>2
    <3> QED  BY <1>24, <2>1, <3>1, <3>2
  <2>2. ASSUME NEW u \in Windows, lease'[u] # None
        PROVE  /\ lease'[u].pending = Cardinality(SavesIn(queue'[lease'[u].id], u))
               /\ lease'[u].closing => lease'[u].pending > 0
    <3>1. CASE u = w
      <4>1. Cardinality(SavesIn(Append(s, j), w)) = Cardinality(SavesIn(s, w)) + 1
        BY <1>11, SavesAppended
      <4>2. lease[w].pending = Cardinality(SavesIn(s, w))
        BY <1>1, <1>3, <1>4, <1>12 DEF CountOK
      <4> QED  BY <1>3, <1>7, <1>9, <1>15, <3>1, <4>1, <4>2
    <3>2. CASE u # w
      <4>1. lease'[u] = lease[u] /\ lease[u] # None /\ lease[u].id \in Windows
        BY <1>1, <1>9, <2>2, <3>2, LeaseTyped DEF Leases
      <4>2. lease[u].pending = Cardinality(SavesIn(queue[lease[u].id], u))
            /\ (lease[u].closing => lease[u].pending > 0)
        BY <1>1, <4>1 DEF CountOK
      <4>3. CASE lease[u].id # i
        BY <1>15, <4>1, <4>2, <4>3
      <4>4. CASE lease[u].id = i
        <5>1. Cardinality(SavesIn(Append(s, j), u)) = Cardinality(SavesIn(s, u)) + 0
          BY <1>11, <3>2, SavesAppended
        <5>2. Cardinality(SavesIn(s, u)) \in Nat
          BY SavesFinite, FS_CardinalityType
        <5>3. Cardinality(SavesIn(Append(s, j), u)) = Cardinality(SavesIn(s, u))
          BY <5>1, <5>2
        <5>4. queue'[lease'[u].id] = Append(s, j) /\ queue[lease[u].id] = s
          BY <1>12, <1>15, <4>1, <4>4
        <5> QED  BY <4>1, <4>2, <5>3, <5>4
      <4> QED  BY <4>3, <4>4
    <3> QED  BY <3>1, <3>2
  <2> QED  BY <2>1, <2>2 DEF CountOK
<1>26. RunOK'
  <2>1. ASSUME NEW q \in Windows, NEW n \in DOMAIN queue'[q]
        PROVE  LET h == queue'[q][n]
                   f == file'[lease'[h.win].doc]
               IN  /\ win'[h.win].phase \in {"editing", "closed"}
                   /\ h.running => n = 1
                   /\ h.running /\ f.by = q => f.text = lease'[h.win].base
    <3>1. CASE q = i /\ queue'[q][n] = j
      <4>1. win'[w].phase \in {"editing", "closed"}
        BY <1>1, <1>20 DEF EditorsGo, Grows
      <4> QED  BY <1>11, <3>1, <4>1
    <3>2. CASE n \in DOMAIN queue[q] /\ queue'[q][n] = queue[q][n]
      <4>1. PICK u \in Windows : u = queue[q][n].win
        BY <1>1, <3>2, JobTyped
      <4>2. lease'[u].doc = lease[u].doc /\ lease'[u].base = lease[u].base
        BY <1>7, <1>9
      <4>3. win[u].phase \in {"editing", "closed"}
        BY <1>1, <3>2, <4>1 DEF RunOK
      <4>4. win'[u].phase \in {"editing", "closed"}
        BY <1>20, <4>3 DEF EditorsGo, Grows
      <4> QED  BY <1>1, <1>19, <3>2, <4>1, <4>2, <4>4 DEF RunOK
    <3> QED  BY <1>24, <2>1, <3>1, <3>2
  <2> QED  BY <2>1 DEF RunOK
<1> QED  BY <1>9, <1>19, <1>20, <1>22, <1>25, <1>26, RestKeeps

LEMMA SaveStartsKeeps ==
    ASSUME IInv, NEW i \in Windows, SaveStarts(i), UNCHANGED lockVars
    PROVE  IInv'
<1>1. DocTypeOK /\ CountOK /\ RunOK
  BY DEF IInv, TypeOK
<1>2. /\ 1 \in DOMAIN queue[i] /\ Current(queue[i][1])
      /\ queue' = [queue EXCEPT ![i][1].running = TRUE]
      /\ UNCHANGED <<root, dir, file, draft, lease, ids, win, op, gate>>
  BY DEF SaveStarts, NextOf, disk, lockVars
<1>3. PICK s \in Seq(Jobs) : s = queue[i]
  BY <1>1 DEF DocTypeOK
<1>4. PICK j \in Jobs : j = s[1]
  BY <1>1, <1>2, <1>3, JobTyped
<1>5. PICK h : h = [j EXCEPT !.running = TRUE]
  OBVIOUS
<1>6. h \in Jobs /\ h.win = j.win /\ h.running
  BY <1>5 DEF Jobs
<1>7. PICK t : t = [s EXCEPT ![1] = h]
  OBVIOUS
<1>8. queue' = [queue EXCEPT ![i] = t]
  BY <1>2, <1>3, <1>4, <1>5, <1>7
<1>9. /\ t \in Seq(Jobs) /\ DOMAIN t = DOMAIN s /\ t[1] = h
      /\ \A n \in DOMAIN s : n # 1 => t[n] = s[n]
  BY <1>2, <1>3, <1>6, <1>7
<1>10. /\ queue' \in [Windows -> Seq(Jobs)] /\ queue'[i] = t
       /\ \A q \in Windows \ {i} : queue'[q] = queue[q]
  BY <1>1, <1>8, <1>9 DEF DocTypeOK
<1>11. ASSUME NEW q \in Windows
       PROVE  /\ DOMAIN queue'[q] = DOMAIN queue[q]
              /\ \A n \in DOMAIN queue[q] : queue'[q][n].win = queue[q][n].win
  BY <1>3, <1>4, <1>6, <1>9, <1>10
<1>12. DocTypeOK'
  BY <1>1, <1>2, <1>10 DEF DocTypeOK
<1>13. CountOK'
  <2>1. \A q \in Windows, u \in Windows : SavesIn(queue'[q], u) = SavesIn(queue[q], u)
    BY <1>11 DEF SavesIn
  <2>2. \A u \in Windows : lease[u] # None => lease[u].id \in Windows
    BY <1>1, LeaseTyped DEF Leases
  <2>3. ASSUME NEW q \in Windows, NEW n \in DOMAIN queue'[q]
        PROVE  lease'[queue'[q][n].win] # None /\ lease'[queue'[q][n].win].id = q
    <3>1. n \in DOMAIN queue[q] /\ queue'[q][n].win = queue[q][n].win
      BY <1>11, <2>3
    <3>2. lease[queue[q][n].win] # None /\ lease[queue[q][n].win].id = q
      BY <1>1, <3>1 DEF CountOK
    <3>3. lease' = lease
      BY <1>2
    <3> QED  BY <3>1, <3>2, <3>3
  <2>4. ASSUME NEW u \in Windows, lease'[u] # None
        PROVE  /\ lease'[u].pending = Cardinality(SavesIn(queue'[lease'[u].id], u))
               /\ lease'[u].closing => lease'[u].pending > 0
    <3>1. lease'[u] = lease[u] /\ lease[u] # None /\ lease[u].id \in Windows
      BY <1>2, <2>2, <2>4
    <3>2. SavesIn(queue'[lease[u].id], u) = SavesIn(queue[lease[u].id], u)
      BY <2>1, <3>1
    <3> QED  BY <1>1, <3>1, <3>2 DEF CountOK
  <2> QED  BY <2>3, <2>4 DEF CountOK
<1>14. RunOK'
  <2>1. ASSUME NEW q \in Windows, NEW n \in DOMAIN queue'[q]
        PROVE  LET g == queue'[q][n]
                   f == file'[lease'[g.win].doc]
               IN  /\ win'[g.win].phase \in {"editing", "closed"}
                   /\ g.running => n = 1
                   /\ g.running /\ f.by = q => f.text = lease'[g.win].base
    <3>1. n \in DOMAIN queue[q] /\ queue'[q][n].win = queue[q][n].win
      BY <1>11, <2>1
    <3>2. CASE q = i /\ n = 1
      <4>1. queue'[q][n] = h /\ queue[q][n] = j
        BY <1>3, <1>4, <1>9, <1>10, <3>2
      <4>2. file[lease[j.win].doc].text = lease[j.win].base
        BY <1>2, <1>3, <1>4 DEF Current
      <4> QED  BY <1>1, <1>2, <1>6, <3>1, <3>2, <4>1, <4>2 DEF RunOK
    <3>3. CASE ~(q = i /\ n = 1)
      <4>1. queue'[q][n] = queue[q][n]
        BY <1>3, <1>9, <1>10, <3>1, <3>3
      <4>2. file' = file /\ lease' = lease /\ win' = win
        BY <1>2
      <4> QED  BY <1>1, <3>1, <4>1, <4>2 DEF RunOK
    <3> QED  BY <3>2, <3>3
  <2> QED  BY <2>1 DEF RunOK
<1>15. EditorsGo /\ LeasesHold
  BY <1>1, <1>2, EditorsSame DEF LeasesHold
<1>16. TextOK'
  BY <1>2 DEF IInv, TextOK, Shared, Editing
<1> QED  BY <1>2, <1>12, <1>13, <1>14, <1>15, <1>16, RestKeeps

\* The first save of queue i ends and leaves l as its lease, or no lease when l was closing
\* and this was its last save.
LEMMA SaveEndsKeeps ==
    ASSUME IInv, NEW i \in Windows, 1 \in DOMAIN queue[i], NEW w \in Windows,
           w = queue[i][1].win, NEW l \in Leases,
           /\ l.root = lease[w].root /\ l.doc = lease[w].doc /\ l.id = lease[w].id
           /\ l.pending = lease[w].pending /\ l.closing = lease[w].closing
           /\ l.frozen = lease[w].frozen,
           NEW result \in {"saved", "failed"}, SaveEnds(i, 1, l, result),
           file' \in [Docs -> [text: Texts, by: Windows \cup {None}]],
           \A d \in Docs : file'[d] = file[d] \/ file'[d].by = i,
           UNCHANGED lockVars
    PROVE  IInv'
<1>1. DocTypeOK /\ CountOK /\ RunOK
  BY DEF IInv, TypeOK
<1>2. lease[w] # None /\ lease[w].id = i
  BY <1>1 DEF CountOK
<1>3. PICK s \in Seq(Jobs) : s = queue[i]
  BY <1>1 DEF DocTypeOK
<1>4. PICK j \in Jobs : j = s[1]
  BY <1>1, <1>3, JobTyped
<1>5. PICK t \in Seq(Jobs) : t = Without(s, 1)
  BY <1>3, WithoutFirst
<1>6. /\ Len(s) \in Nat /\ DOMAIN t = 1 .. Len(s) - 1 /\ DOMAIN s = 1 .. Len(s)
      /\ \A n \in DOMAIN t : n \in Nat /\ n + 1 \in DOMAIN s /\ n + 1 # 1 /\ t[n] = s[n + 1]
  <2>1. Len(t) = Len(s) - 1 /\ \A n \in 1 .. Len(s) - 1 : t[n] = s[n + 1]
    BY <1>3, <1>5, WithoutFirst
  <2> QED  BY <2>1
<1>7. queue' = [queue EXCEPT ![i] = t]
  BY <1>3, <1>5 DEF SaveEnds
<1>8. /\ queue' \in [Windows -> Seq(Jobs)] /\ queue'[i] = t
      /\ \A q \in Windows \ {i} : queue'[q] = queue[q]
  BY <1>1, <1>7 DEF DocTypeOK
\* the counts
<1>9. ASSUME NEW u \in Windows
      PROVE  /\ Cardinality(SavesIn(s, u)) \in Nat /\ Cardinality(SavesIn(t, u)) \in Nat
             /\ Cardinality(SavesIn(t, u)) = 0 => SavesIn(t, u) = {}
             /\ u = w => Cardinality(SavesIn(t, u)) = Cardinality(SavesIn(s, u)) - 1
             /\ u # w => Cardinality(SavesIn(t, u)) = Cardinality(SavesIn(s, u))
  <2>1. IsFiniteSet(SavesIn(s, u)) /\ IsFiniteSet(SavesIn(t, u))
    BY SavesFinite
  <2>2. Cardinality(SavesIn(s, u)) \in Nat /\ Cardinality(SavesIn(t, u)) \in Nat
    BY <2>1, FS_CardinalityType
  <2>3. Cardinality(SavesIn(t, u)) = Cardinality(SavesIn(s, u)) - (IF s[1].win = u THEN 1 ELSE 0)
    BY <1>3, <1>5, SavesWithoutFirst
  <2>4. s[1].win = w
    BY <1>3
  <2> QED  BY <2>1, <2>2, <2>3, <2>4, FS_EmptySet
<1>10. l.pending = Cardinality(SavesIn(s, w))
  BY <1>1, <1>2, <1>3 DEF CountOK
<1>11. PICK a : a = [l EXCEPT !.pending = l.pending - 1]
  OBVIOUS
<1>12. l.pending - 1 = Cardinality(SavesIn(t, w)) /\ l.pending - 1 \in Nat
  BY <1>9, <1>10
<1>13. a \in Leases /\ a # None
  BY <1>11, <1>12, LeaseIsNotNone DEF Leases
<1>14. /\ a.root = l.root /\ a.doc = l.doc /\ a.id = i /\ a.closing = l.closing
       /\ a.frozen = l.frozen /\ a.pending = Cardinality(SavesIn(t, w))
  BY <1>2, <1>11, <1>12 DEF Leases
<1>15. PICK m : m = IF a.closing /\ a.pending = 0 THEN None ELSE a
  OBVIOUS
<1>16. lease' = [lease EXCEPT ![w] = m]
  BY <1>11, <1>15 DEF SaveEnds
<1>17. m # None => m = a /\ ~(a.closing /\ a.pending = 0)
  BY <1>15
<1>18. LeasesHold /\ lease'[w] = m /\ \A u \in Windows \ {w} : lease'[u] = lease[u]
  <2>1. a.root = lease[w].root /\ a.closing = lease[w].closing /\ a.frozen = lease[w].frozen
    BY <1>14
  <2>2. m # None => /\ m.root = lease[w].root /\ m.closing = lease[w].closing
                    /\ m.frozen = lease[w].frozen
    BY <1>17, <2>1
  <2> QED  BY <1>1, <1>2, <1>16, <2>2, OneLeaseHolds
<1>19. lease' \in [Windows -> Leases \cup {None}]
  BY <1>1, <1>13, <1>15, <1>16 DEF DocTypeOK
\* the editor
<1>20. UNCHANGED <<root, dir, draft, ids, op, gate>>
  BY DEF SaveEnds, lockVars
<1>21. /\ win' \in [Windows -> Editors] /\ EditorsGo /\ TextOK'
       /\ \A u \in Windows : Formed(win'[u])
  <2>1. CASE win' = win
    <3>1. TextOK'
      BY <1>20, <2>1 DEF IInv, TextOK, Shared, Editing
    <3> QED  BY <1>1, <2>1, <3>1, EditorsSame
  <2>2. CASE win' # win
    <3>1. /\ Editing(w)
          /\ win' = [win EXCEPT ![w].save = result,
                                ![w].rev = IF result = "saved" THEN l.rev ELSE @]
      BY <2>2 DEF SaveEnds
    <3>2. win[w] \in Editors /\ win[w].rev \in Nat /\ win[w].phase = "editing"
      BY <1>1, <3>1 DEF DocTypeOK, Editors, Editing
    <3>3. PICK v \in Nat : v = IF result = "saved" THEN l.rev ELSE win[w].rev
      BY <3>2 DEF Leases
    <3>4. win' = [win EXCEPT ![w] = [win[w] EXCEPT !.save = result, !.rev = v]]
      BY <1>1, <3>1, <3>2, <3>3 DEF DocTypeOK, Editors
    <3>5. result \in {"none", "sent", "saved", "failed"}
      OBVIOUS
    <3> QED  BY <1>20, <3>2, <3>3, <3>4, <3>5, SaveMarked
  <2> QED  BY <2>1, <2>2
<1>22. DocTypeOK'
  BY <1>1, <1>8, <1>19, <1>20, <1>21 DEF DocTypeOK
\* every save of the queues after the step was there before, and of queue i it was not the first
<1>23. ASSUME NEW q \in Windows, NEW n \in DOMAIN queue'[q]
       PROVE  \E k \in DOMAIN queue[q] :
                /\ queue'[q][n] = queue[q][k]
                /\ q = i => k # 1 /\ n \in DOMAIN t /\ queue'[q][n] = t[n]
                /\ q # i => k = n
  <2>1. CASE q # i
    BY <1>8, <2>1
  <2>2. CASE q = i
    BY <1>3, <1>6, <1>8, <2>2
  <2> QED  BY <2>1, <2>2
<1>24. CountOK'
  <2>1. ASSUME NEW q \in Windows, NEW n \in DOMAIN queue'[q]
        PROVE  lease'[queue'[q][n].win] # None /\ lease'[queue'[q][n].win].id = q
    <3>1. PICK k \in DOMAIN queue[q] :
                /\ queue'[q][n] = queue[q][k]
                /\ q = i => n \in DOMAIN t /\ queue'[q][n] = t[n]
      BY <1>23, <2>1
    <3>2. PICK u \in Windows : u = queue[q][k].win
      BY <1>1, JobTyped
    <3>3. lease[u] # None /\ lease[u].id = q
      BY <1>1, <3>2 DEF CountOK
    <3>4. CASE u # w
      BY <1>18, <3>1, <3>2, <3>3, <3>4
    <3>5. CASE u = w
      <4>1. q = i /\ n \in DOMAIN t /\ t[n].win = w
        BY <1>2, <3>1, <3>2, <3>3, <3>5
      <4>2. n \in SavesIn(t, w)
        BY <4>1 DEF SavesIn
      <4>3. a.pending # 0
        BY <1>9, <1>14, <4>2
      <4>4. m = a
        BY <1>15, <4>3
      <4> QED  BY <1>13, <1>14, <1>18, <3>1, <3>2, <3>5, <4>1, <4>4
    <3> QED  BY <3>4, <3>5
  <2>2. ASSUME NEW u \in Windows, lease'[u] # None
        PROVE  /\ lease'[u].pending = Cardinality(SavesIn(queue'[lease'[u].id], u))
               /\ lease'[u].closing => lease'[u].pending > 0
    <3>1. CASE u = w
      <4>1. lease'[u] = a /\ ~(a.closing /\ a.pending = 0)
        BY <1>17, <1>18, <2>2, <3>1
      <4>2. a.pending \in Nat
        BY <1>13 DEF Leases
      <4> QED  BY <1>8, <1>14, <3>1, <4>1, <4>2
    <3>2. CASE u # w
      <4>1. lease'[u] = lease[u] /\ lease[u] # None /\ lease[u].id \in Windows
        BY <1>1, <1>18, <2>2, <3>2, LeaseTyped DEF Leases
      <4>2. lease[u].pending = Cardinality(SavesIn(queue[lease[u].id], u))
            /\ (lease[u].closing => lease[u].pending > 0)
        BY <1>1, <4>1 DEF CountOK
      <4>3. CASE lease[u].id # i
        BY <1>8, <4>1, <4>2, <4>3
      <4>4. CASE lease[u].id = i
        <5>1. Cardinality(SavesIn(t, u)) = Cardinality(SavesIn(s, u))
          BY <1>9, <3>2
        <5>2. queue'[lease'[u].id] = t /\ queue[lease[u].id] = s
          BY <1>3, <1>8, <4>1, <4>4
        <5> QED  BY <4>1, <4>2, <5>1, <5>2
      <4> QED  BY <4>3, <4>4
    <3> QED  BY <3>1, <3>2
  <2> QED  BY <2>1, <2>2 DEF CountOK
<1>25. RunOK'
  <2>1. ASSUME NEW q \in Windows, NEW n \in DOMAIN queue'[q]
        PROVE  LET h == queue'[q][n]
                   f == file'[lease'[h.win].doc]
               IN  /\ win'[h.win].phase \in {"editing", "closed"}
                   /\ h.running => n = 1
                   /\ h.running /\ f.by = q => f.text = lease'[h.win].base
    <3>1. PICK k \in DOMAIN queue[q] :
                /\ queue'[q][n] = queue[q][k]
                /\ q = i => k # 1
                /\ q # i => k = n
      BY <1>23, <2>1
    <3>2. PICK u \in Windows : u = queue[q][k].win
      BY <1>1, JobTyped
    <3>3. /\ win[u].phase \in {"editing", "closed"}
          /\ queue[q][k].running => k = 1
          /\ queue[q][k].running /\ file[lease[u].doc].by = q =>
                file[lease[u].doc].text = lease[u].base
          /\ lease[u] # None /\ lease[u].id = q
      BY <1>1, <3>2 DEF RunOK, CountOK
    <3>4. win'[u].phase \in {"editing", "closed"}
      BY <1>21, <3>3 DEF EditorsGo, Grows
    <3>5. CASE q = i
      BY <3>1, <3>2, <3>3, <3>4, <3>5
    <3>6. CASE q # i
      <4>1. lease'[u] = lease[u]
        BY <1>2, <1>18, <3>3, <3>6
      <4>2. lease[u].doc \in Docs
        BY <1>1, <3>3, LeaseTyped DEF Leases
      <4>3. file'[lease[u].doc].by = q => file'[lease[u].doc] = file[lease[u].doc]
        BY <3>6, <4>2
      <4> QED  BY <3>1, <3>2, <3>3, <3>4, <3>6, <4>1, <4>3
    <3> QED  BY <3>5, <3>6
  <2> QED  BY <2>1 DEF RunOK
<1> QED  BY <1>18, <1>20, <1>21, <1>22, <1>24, <1>25, RestKeeps

LEMMA SaveRefusedKeeps ==
    ASSUME IInv, NEW i \in Windows, SaveRefused(i), UNCHANGED lockVars
    PROVE  IInv'
<1>1. DocTypeOK /\ CountOK
  BY DEF IInv, TypeOK
<1>2. 1 \in DOMAIN queue[i] /\ SaveEnds(i, 1, lease[queue[i][1].win], "failed") /\ file' = file
  BY DEF SaveRefused, NextOf
<1>3. PICK w \in Windows : w = queue[i][1].win
  BY <1>1, <1>2, JobTyped
<1>4. lease[w] # None
  BY <1>1, <1>2, <1>3 DEF CountOK
<1>5. PICK l \in Leases : l = lease[w]
  BY <1>1, <1>4, LeaseTyped
<1>6. SaveEnds(i, 1, l, "failed")
  BY <1>2, <1>3, <1>5
<1>7. file' \in [Docs -> [text: Texts, by: Windows \cup {None}]]
  BY <1>1, <1>2 DEF DocTypeOK
<1> QED  BY <1>2, <1>3, <1>5, <1>6, <1>7, SaveEndsKeeps

LEMMA SaveWritesKeeps ==
    ASSUME IInv, NEW i \in Windows, SaveWrites(i), UNCHANGED lockVars
    PROVE  IInv'
<1>1. DocTypeOK /\ CountOK
  BY DEF IInv, TypeOK
<1>2. 1 \in DOMAIN queue[i]
  BY DEF SaveWrites, NextOf
<1>3. PICK w \in Windows : w = queue[i][1].win
  BY <1>1, <1>2, JobTyped
<1>4. lease[w] # None
  BY <1>1, <1>2, <1>3 DEF CountOK
<1>5. PICK l \in Leases : l = lease[w]
  BY <1>1, <1>4, LeaseTyped
<1>6. PICK j \in Jobs : j = queue[i][1]
  BY <1>1, <1>2, JobTyped
<1>7. CASE file' = file /\ SaveEnds(i, 1, l, "failed")
  <2>1. file' \in [Docs -> [text: Texts, by: Windows \cup {None}]]
    BY <1>1, <1>7 DEF DocTypeOK
  <2> QED  BY <1>2, <1>3, <1>5, <1>7, <2>1, SaveEndsKeeps
<1>8. CASE /\ file' = [file EXCEPT ![l.doc] = [text |-> j.text, by |-> i]]
           /\ SaveEnds(i, 1, [l EXCEPT !.base = j.text, !.rev = l.rev + 1, !.dirty = FALSE], "saved")
  <2>1. PICK m : m = [l EXCEPT !.base = j.text, !.rev = l.rev + 1, !.dirty = FALSE]
    OBVIOUS
  <2>2. j.text \in Texts /\ l.doc \in Docs /\ l.rev + 1 \in Nat
    BY DEF Jobs, Leases
  <2>3. m \in Leases
    BY <2>1, <2>2 DEF Leases
  <2>4. /\ m.root = lease[w].root /\ m.doc = lease[w].doc /\ m.id = lease[w].id
        /\ m.pending = lease[w].pending /\ m.closing = lease[w].closing
        /\ m.frozen = lease[w].frozen
    BY <1>5, <2>1 DEF Leases
  <2>5. SaveEnds(i, 1, m, "saved")
    BY <1>8, <2>1
  <2>6. PICK g : g = [text |-> j.text, by |-> i]
    OBVIOUS
  <2>7. g \in [text: Texts, by: Windows \cup {None}] /\ g.by = i
    BY <2>2, <2>6
  <2>8. file' = [file EXCEPT ![l.doc] = g]
    BY <1>8, <2>6
  <2>9. file \in [Docs -> [text: Texts, by: Windows \cup {None}]]
    BY <1>1 DEF DocTypeOK
  <2>10. /\ file' \in [Docs -> [text: Texts, by: Windows \cup {None}]]
         /\ \A d \in Docs : file'[d] = file[d] \/ file'[d].by = i
    BY <2>2, <2>7, <2>8, <2>9
  <2> QED  BY <1>2, <1>3, <2>3, <2>4, <2>5, <2>10, SaveEndsKeeps
<1> QED  BY <1>3, <1>5, <1>6, <1>7, <1>8 DEF SaveWrites, NextOf

-----------------------------------------------------------------------------
(* The gate *)

Past(k) == op[k].phase \notin {"idle", "queued"}
\* Operation k is the first at the gate of its root.
First(k) == ~At(k, "idle") /\ gate[Mine(k)][1] = k

LEMMA OpTyped ==
    ASSUME IInv, NEW k \in Kinds
    PROVE  /\ op \in [Kinds -> Ops] /\ gate \in [Roots -> Seq(Kinds)]
           /\ op[k] \in Ops
           /\ ~At(k, "idle") => /\ Mine(k) \in Roots
                                /\ \E n \in DOMAIN gate[Mine(k)] : gate[Mine(k)][n] = k
           /\ Past(k) => First(k)
<1>1. op \in [Kinds -> Ops] /\ gate \in [Roots -> Seq(Kinds)]
  BY DEF IInv, TypeOK, LockTypeOK
<1>2. GateOK
  BY DEF IInv
<1> QED  BY <1>1, <1>2 DEF GateOK, Past, First, At

LEMMA AtGateIsFirst ==
    ASSUME IInv, NEW k \in Kinds, AtGate(k)
    PROVE  First(k) /\ ~At(k, "idle")
<1>1. op[k].phase = "queued"
  BY DEF AtGate, At
<1>2. /\ gate \in [Roots -> Seq(Kinds)] /\ Mine(k) \in Roots
      /\ \E n \in DOMAIN gate[Mine(k)] : gate[Mine(k)][n] = k
  BY <1>1, OpTyped DEF At
<1>3. PICK s \in Seq(Kinds) : s = gate[Mine(k)]
  BY <1>2
<1>4. s # << >>
  BY <1>2, <1>3
<1>5. Head(s) = s[1]
  BY <1>4
<1> QED  BY <1>1, <1>3, <1>5 DEF AtGate, First, At

\* Two operations on the same root are not both past its gate.
LEMMA Exclusion ==
    ASSUME IInv, NEW k \in Kinds, NEW m \in Kinds, First(k), First(m), Mine(k) = Mine(m)
    PROVE  k = m
BY DEF First

\* The operations move on, none of them past others at the gate.
LEMMA GateStays ==
    ASSUME IInv, gate' = gate,
           \A k \in Kinds : /\ op'[k].root = op[k].root
                            /\ op'[k].phase # "idle" => op[k].phase # "idle"
                            /\ op'[k].phase \notin {"idle", "queued"} => First(k)
    PROVE  GateOK'
<1> SUFFICES ASSUME NEW k \in Kinds
             PROVE  /\ op'[k].phase # "idle" =>
                            /\ op'[k].root \in Roots
                            /\ \E n \in DOMAIN gate'[op'[k].root] : gate'[op'[k].root][n] = k
                    /\ op'[k].phase \notin {"idle", "queued"} => gate'[op'[k].root][1] = k
  BY DEF GateOK, At, Mine
<1>1. op[k].phase # "idle" => /\ op[k].root \in Roots
                              /\ \E n \in DOMAIN gate[op[k].root] : gate[op[k].root][n] = k
  BY OpTyped DEF At, Mine
<1> QED  BY <1>1 DEF First, Mine

\* The first at a gate leaves; the others move up.
LEMMA GateLeaves ==
    ASSUME IInv, NEW k \in Kinds, First(k), Leave(k)
    PROVE  /\ op' \in [Kinds -> Ops] /\ gate' \in [Roots -> Seq(Kinds)]
           /\ GateOK'
           /\ op'[k] = Idle
           /\ \A m \in Kinds \ {k} : op'[m] = op[m]
<1>1. /\ op \in [Kinds -> Ops] /\ gate \in [Roots -> Seq(Kinds)] /\ Mine(k) \in Roots
      /\ \E n \in DOMAIN gate[Mine(k)] : gate[Mine(k)][n] = k
  BY OpTyped DEF First
<1>2. PICK r \in Roots : r = Mine(k)
  BY <1>1
<1>3. PICK s \in Seq(Kinds) : s = gate[r]
  BY <1>1
<1>4. s # << >> /\ s[1] = k
  BY <1>1, <1>2, <1>3 DEF First
<1>5. /\ Tail(s) \in Seq(Kinds) /\ Len(s) \in Nat /\ DOMAIN s = 1 .. Len(s)
      /\ DOMAIN Tail(s) = 1 .. Len(s) - 1
      /\ \A n \in 1 .. Len(s) - 1 : Tail(s)[n] = s[n + 1]
  BY <1>4
<1>6. Idle \in Ops
  BY DEF Idle, Ops, OpPhases
<1>7. op' = [op EXCEPT ![k] = Idle] /\ gate' = [gate EXCEPT ![r] = Tail(s)]
  BY <1>2, <1>3 DEF Leave
<1>8. op' \in [Kinds -> Ops] /\ op'[k] = Idle /\ \A m \in Kinds \ {k} : op'[m] = op[m]
  BY <1>1, <1>6, <1>7
<1>9. /\ gate' \in [Roots -> Seq(Kinds)] /\ gate'[r] = Tail(s)
      /\ \A q \in Roots \ {r} : gate'[q] = gate[q]
  BY <1>1, <1>5, <1>7
<1>10. ASSUME NEW m \in Kinds, op'[m].phase # "idle"
       PROVE  /\ op'[m].root \in Roots
              /\ \E n \in DOMAIN gate'[op'[m].root] : gate'[op'[m].root][n] = m
              /\ op'[m].phase # "queued" => gate'[op'[m].root][1] = m
  <2>1. m # k
    BY <1>8, <1>10 DEF Idle
  <2>2. op'[m] = op[m]
    BY <1>8, <2>1
  <2>3. /\ op[m].root \in Roots
        /\ \E n \in DOMAIN gate[op[m].root] : gate[op[m].root][n] = m
        /\ op[m].phase # "queued" => gate[op[m].root][1] = m
    BY <1>10, <2>2, OpTyped DEF At, Mine, Past, First
  <2>4. CASE op[m].root # r
    BY <1>9, <2>2, <2>3, <2>4
  <2>5. CASE op[m].root = r
    <3>1. PICK n \in DOMAIN s : s[n] = m
      BY <1>3, <2>3, <2>5
    <3>2. n - 1 \in 1 .. Len(s) - 1 /\ n \in Nat
      BY <1>4, <1>5, <2>1, <3>1
    <3>3. Tail(s)[n - 1] = m /\ n - 1 \in DOMAIN Tail(s)
      BY <1>5, <3>1, <3>2
    <3>4. op[m].phase = "queued"
      BY <1>3, <1>4, <2>1, <2>3, <2>5
    <3> QED  BY <1>9, <2>2, <2>3, <2>5, <3>3, <3>4
  <2> QED  BY <2>4, <2>5
<1>11. GateOK'
  BY <1>10 DEF GateOK, At, Mine
<1> QED  BY <1>8, <1>9, <1>11

\* An operation queues at the end.
LEMMA GateStarts ==
    ASSUME IInv, NEW k \in Kinds, NEW strict \in BOOLEAN, Start(k, strict)
    PROVE  /\ op' \in [Kinds -> Ops] /\ gate' \in [Roots -> Seq(Kinds)]
           /\ GateOK'
           /\ op'[k].wait = {} /\ op'[k].tokens = {}
           /\ \A m \in Kinds \ {k} : op'[m] = op[m]
<1>1. op \in [Kinds -> Ops] /\ gate \in [Roots -> Seq(Kinds)] /\ dir \in Roots
  BY OpTyped DEF Start, IInv, TypeOK, LockTypeOK
<1>2. PICK s \in Seq(Kinds) : s = gate[dir]
  BY <1>1
<1>3. /\ Append(s, k) \in Seq(Kinds) /\ Len(s) \in Nat /\ DOMAIN s = 1 .. Len(s)
      /\ DOMAIN Append(s, k) = 1 .. Len(s) + 1
      /\ Append(s, k)[Len(s) + 1] = k /\ \A n \in 1 .. Len(s) : Append(s, k)[n] = s[n]
  BY AppendProperties
<1>4. PICK o : o = [Idle EXCEPT !.phase = "queued", !.root = dir, !.strict = strict]
  OBVIOUS
<1>5. o \in Ops /\ o.phase = "queued" /\ o.root = dir /\ o.wait = {} /\ o.tokens = {}
  BY <1>1, <1>4 DEF Idle, Ops, OpPhases
<1>6. op' = [op EXCEPT ![k] = o] /\ gate' = [gate EXCEPT ![dir] = Append(s, k)]
  BY <1>2, <1>4 DEF Start
<1>7. op' \in [Kinds -> Ops] /\ op'[k] = o /\ \A m \in Kinds \ {k} : op'[m] = op[m]
  BY <1>1, <1>5, <1>6
<1>8. /\ gate' \in [Roots -> Seq(Kinds)] /\ gate'[dir] = Append(s, k)
      /\ \A q \in Roots \ {dir} : gate'[q] = gate[q]
  BY <1>1, <1>3, <1>6
<1>9. ASSUME NEW m \in Kinds, op'[m].phase # "idle"
      PROVE  /\ op'[m].root \in Roots
             /\ \E n \in DOMAIN gate'[op'[m].root] : gate'[op'[m].root][n] = m
             /\ op'[m].phase # "queued" => gate'[op'[m].root][1] = m
  <2>1. CASE m = k
    <3>1. Len(s) + 1 \in DOMAIN Append(s, k)
      BY <1>3
    <3> QED  BY <1>1, <1>3, <1>5, <1>7, <1>8, <2>1, <3>1
  <2>2. CASE m # k
    <3>1. op'[m] = op[m]
      BY <1>7, <2>2
    <3>2. /\ op[m].root \in Roots
          /\ \E n \in DOMAIN gate[op[m].root] : gate[op[m].root][n] = m
          /\ op[m].phase # "queued" => gate[op[m].root][1] = m
      BY <1>9, <3>1, OpTyped DEF At, Mine, Past, First
    <3>3. CASE op[m].root # dir
      BY <1>8, <3>1, <3>2, <3>3
    <3>4. CASE op[m].root = dir
      <4>1. PICK n \in DOMAIN s : s[n] = m
        BY <1>2, <3>2, <3>4
      <4>2. n \in 1 .. Len(s) /\ 1 \in 1 .. Len(s) /\ n \in 1 .. Len(s) + 1
        BY <1>3, <4>1
      <4>3. Append(s, k)[n] = m /\ Append(s, k)[1] = s[1] /\ n \in DOMAIN Append(s, k)
        BY <1>3, <4>1, <4>2
      <4> QED  BY <1>2, <1>8, <3>1, <3>2, <3>4, <4>3
    <3> QED  BY <3>3, <3>4
  <2> QED  BY <2>1, <2>2
<1>10. GateOK'
  BY <1>9 DEF GateOK, At, Mine
<1> QED  BY <1>5, <1>7, <1>8, <1>10

-----------------------------------------------------------------------------
(* Steps of the lock that leave the documents alone *)

LEMMA DocsSame ==
    ASSUME IInv, UNCHANGED <<file, draft, lease, ids, queue, win>>
    PROVE  DocTypeOK' /\ CountOK' /\ RunOK' /\ TextOK' /\ EditorsGo /\ LeasesHold
<1>1. DocTypeOK /\ CountOK /\ RunOK /\ TextOK
  BY DEF IInv, TypeOK
<1>2. DocTypeOK'
  BY <1>1 DEF DocTypeOK
<1>3. CountOK'
  BY <1>1 DEF CountOK
<1>4. RunOK'
  BY <1>1 DEF RunOK
<1>5. TextOK'
  BY <1>1 DEF TextOK, Shared, Editing
<1>6. EditorsGo
  BY <1>1, EditorsSame
<1>7. LeasesHold
  BY DEF LeasesHold
<1> QED  BY <1>2, <1>3, <1>4, <1>5, <1>6, <1>7

LEMMA RootStep ==
    ASSUME IInv, root' \in [Roots -> RootStates], dir' \in Roots \cup {None}, ShownOK',
           UNCHANGED <<file, draft, lease, ids, queue, win, op, gate>>
    PROVE  IInv'
<1>1. DocTypeOK' /\ CountOK' /\ RunOK' /\ TextOK'
  BY DocsSame
<1>2. LockTypeOK'
  BY DEF IInv, TypeOK, LockTypeOK
<1>3. GateOK'
  BY DEF IInv, GateOK, At, Mine
<1>4. WaitOK'
  BY DEF IInv, WaitOK
<1> QED  BY <1>1, <1>2, <1>3, <1>4 DEF IInv, TypeOK

\* After the directory shown has been replaced no unlock is under way.
LEMMA ReplacedRoots ==
    ASSUME NEW rs \in [Roots -> RootStates]
    PROVE  /\ Replaced(rs) \in [Roots -> RootStates]
           /\ \A r \in Roots : Replaced(rs)[r] # "opening"
<1>1. \A r \in Roots : Replaced(rs)[r] = IF rs[r] = "opening" THEN "stale" ELSE rs[r]
  BY DEF Replaced
<1>2. \A r \in Roots : Replaced(rs)[r] \in RootStates
  BY <1>1 DEF RootStates
<1>3. Replaced(rs) \in [Roots -> RootStates]
  BY <1>2 DEF Replaced
<1> QED  BY <1>1, <1>3

LEMMA UnlockKeeps ==
    ASSUME IInv, NEW r \in Roots, OpenRoot(r) \/ Attach(r) \/ AttachRefused(r) \/ Listed(r)
    PROVE  IInv'
<1>1. root \in [Roots -> RootStates] /\ dir \in Roots \cup {None} /\ ShownOK
  BY DEF IInv, TypeOK, LockTypeOK
<1>2. UNCHANGED <<file, draft, lease, ids, queue, win, op, gate>>
  BY DEF OpenRoot, Attach, AttachRefused, Listed, disk, broker, lockVars
<1>3. CASE OpenRoot(r)
  <2>1. root' \in [Roots -> RootStates] /\ dir' = None
    BY <1>1, <1>3 DEF OpenRoot, RootStates
  <2>2. ShownOK'
    BY <2>1 DEF ShownOK
  <2> QED  BY <1>2, <2>1, <2>2, RootStep
<1>4. CASE Attach(r)
  <2>1. PICK rs : rs = [root EXCEPT ![r] = "loading"]
    OBVIOUS
  <2>2. rs \in [Roots -> RootStates] /\ root' = Replaced(rs) /\ dir' = r
    BY <1>1, <1>4, <2>1 DEF Attach, RootStates
  <2>3. root' \in [Roots -> RootStates] /\ \A q \in Roots : root'[q] # "opening"
    BY <2>2, ReplacedRoots
  <2>4. ShownOK'
    BY <2>3 DEF ShownOK
  <2> QED  BY <1>2, <2>2, <2>3, <2>4, RootStep
<1>5. CASE AttachRefused(r) \/ Listed(r)
  <2>1. PICK p \in {"open", "closed"} : root' = [root EXCEPT ![r] = p]
    BY <1>5 DEF AttachRefused, Listed
  <2>2. root' \in [Roots -> RootStates] /\ \A q \in Roots : root'[q] = "opening" => root[q] = "opening"
    BY <1>1, <2>1 DEF RootStates
  <2>3. dir' = dir
    BY <1>5 DEF AttachRefused, Listed
  <2>4. ShownOK'
    BY <1>1, <2>2, <2>3 DEF ShownOK
  <2> QED  BY <1>1, <1>2, <2>2, <2>3, <2>4, RootStep
<1> QED  BY <1>3, <1>4, <1>5

\* The operations change, the documents and the roots do not.
LEMMA OpStepKeeps ==
    ASSUME IInv, UNCHANGED <<root, dir, file, draft, lease, ids, queue, win>>,
           op' \in [Kinds -> Ops], gate' \in [Roots -> Seq(Kinds)], GateOK',
           \A k \in Kinds : \A w \in op'[k].wait :
                w \in op[k].wait /\ (lease[w] # None => Held(op'[k], lease[w])),
           \A k \in Kinds : \A w \in op'[k].tokens : w \in op[k].tokens \/ lease[w] # None
    PROVE  IInv'
<1>1. DocTypeOK' /\ CountOK' /\ RunOK' /\ TextOK'
  BY DocsSame
<1>2. LockTypeOK'
  BY DEF IInv, TypeOK, LockTypeOK
<1>3. ShownOK'
  BY DEF IInv, ShownOK
<1>4. WaitOK'
  <2>1. ASSUME NEW k \in Kinds, NEW w \in Windows, w \in op'[k].wait
        PROVE  win'[w].phase \notin {"new", "asked"} /\ Held(op'[k], lease'[w])
    <3>1. win[w].phase \notin {"new", "asked"}
      BY <2>1 DEF IInv, WaitOK
    <3>2. CASE lease[w] = None
      BY <3>1, <3>2 DEF Held
    <3>3. CASE lease[w] # None
      BY <2>1, <3>1, <3>3
    <3> QED  BY <3>2, <3>3
  <2>2. ASSUME NEW k \in Kinds, NEW w \in Windows, w \in op'[k].tokens
        PROVE  win'[w].phase \notin {"new", "asked"}
    <3>1. w \in op[k].tokens \/ lease[w] # None
      BY <2>2
    <3> QED  BY <3>1 DEF IInv, WaitOK
  <2>3. \A w \in Windows : lease'[w] # None => win'[w].phase \notin {"new", "asked"}
    BY DEF IInv, WaitOK
  <2> QED  BY <2>1, <2>2, <2>3 DEF WaitOK
<1> QED  BY <1>1, <1>2, <1>3, <1>4 DEF IInv, TypeOK

LEMMA StartKeeps ==
    ASSUME IInv, NEW k \in Kinds, NEW strict \in BOOLEAN, Start(k, strict)
    PROVE  IInv'
<1>1. /\ op' \in [Kinds -> Ops] /\ gate' \in [Roots -> Seq(Kinds)] /\ GateOK'
      /\ op'[k].wait = {} /\ op'[k].tokens = {} /\ \A m \in Kinds \ {k} : op'[m] = op[m]
  BY GateStarts
<1>2. op \in [Kinds -> Ops]
  BY OpTyped
<1>3. UNCHANGED <<root, dir, file, draft, lease, ids, queue, win>>
  BY DEF Start, disk, broker
<1>4. ASSUME NEW m \in Kinds, NEW w \in op'[m].wait
      PROVE  w \in op[m].wait /\ (lease[w] # None => Held(op'[m], lease[w]))
  <2>1. op'[m] = op[m]
    BY <1>1, <1>4
  <2>2. w \in Windows
    BY <1>2, <1>4, <2>1 DEF Ops
  <2> QED  BY <1>4, <2>1, <2>2 DEF IInv, WaitOK
<1>5. \A m \in Kinds : op'[m].tokens \subseteq op[m].tokens
  BY <1>1 DEF Idle
<1> QED  BY <1>1, <1>3, <1>4, <1>5, OpStepKeeps

\* An operation ends without any change of the documents.
LEMMA LeaveKeeps ==
    ASSUME IInv, NEW k \in Kinds, First(k), Leave(k), UNCHANGED docVars
    PROVE  IInv'
<1>1. /\ op' \in [Kinds -> Ops] /\ gate' \in [Roots -> Seq(Kinds)] /\ GateOK'
      /\ op'[k] = Idle /\ \A m \in Kinds \ {k} : op'[m] = op[m]
  BY GateLeaves
<1>2. op \in [Kinds -> Ops]
  BY OpTyped
<1>3. UNCHANGED <<root, dir, file, draft, lease, ids, queue, win>>
  BY DEF docVars
<1>4. ASSUME NEW m \in Kinds, NEW w \in op'[m].wait
      PROVE  w \in op[m].wait /\ (lease[w] # None => Held(op'[m], lease[w]))
  <2>1. op'[m] = op[m]
    BY <1>1, <1>4 DEF Idle
  <2>2. w \in Windows
    BY <1>2, <1>4, <2>1 DEF Ops
  <2> QED  BY <1>4, <2>1, <2>2 DEF IInv, WaitOK
<1>5. \A m \in Kinds : op'[m].tokens \subseteq op[m].tokens
  BY <1>1 DEF Idle
<1> QED  BY <1>1, <1>3, <1>4, <1>5, OpStepKeeps

\* The first at a gate goes on to phase p, with new tokens or answers.
LEMMA MoveKeeps ==
    ASSUME IInv, NEW k \in Kinds, First(k), NEW o \in Ops, op' = [op EXCEPT ![k] = o],
           o.root = op[k].root, o.wait = op[k].wait, o.phase # "idle",
           \A w \in Windows : w \in o.wait /\ lease[w] # None => Held(o, lease[w]),
           \A w \in o.tokens : w \in op[k].tokens \/ lease[w] # None,
           UNCHANGED <<root, dir, file, draft, lease, ids, queue, win, gate>>
    PROVE  IInv'
<1>1. op \in [Kinds -> Ops] /\ gate \in [Roots -> Seq(Kinds)]
  BY OpTyped
<1>2. op' \in [Kinds -> Ops] /\ op'[k] = o /\ \A m \in Kinds \ {k} : op'[m] = op[m]
  BY <1>1
<1>4. GateOK'
  <2>1. ASSUME NEW m \in Kinds
        PROVE  /\ op'[m].root = op[m].root
               /\ op'[m].phase # "idle" => op[m].phase # "idle"
               /\ op'[m].phase \notin {"idle", "queued"} => First(m)
    <3>1. CASE m = k
      BY <1>2, <3>1 DEF First, At
    <3>2. CASE m # k
      BY <1>2, <3>2, OpTyped DEF Past
    <3> QED  BY <3>1, <3>2
  <2> QED  BY <2>1, GateStays
<1>5. ASSUME NEW m \in Kinds, NEW w \in op'[m].wait
      PROVE  w \in op[m].wait /\ (lease[w] # None => Held(op'[m], lease[w]))
  <2>1. w \in Windows
    BY <1>2, <1>5 DEF Ops
  <2>2. CASE m = k
    BY <1>2, <1>5, <2>1, <2>2
  <2>3. CASE m # k
    BY <1>2, <1>5, <2>1, <2>3 DEF IInv, WaitOK
  <2> QED  BY <2>2, <2>3
<1>6. \A m \in Kinds : \A w \in op'[m].tokens : w \in op[m].tokens \/ lease[w] # None
  BY <1>2
<1> QED  BY <1>1, <1>2, <1>4, <1>5, <1>6, OpStepKeeps

\* The same for a new phase alone.
LEMMA GotoKeeps ==
    ASSUME IInv, NEW k \in Kinds, First(k), NEW p \in OpPhases \ {"idle"}, Goto(k, p),
           \A w \in Windows : w \in op[k].wait /\ lease[w] # None =>
                Held([op[k] EXCEPT !.phase = p], lease[w]),
           UNCHANGED <<root, dir, file, draft, lease, ids, queue, win, gate>>
    PROVE  IInv'
<1>1. op[k] \in Ops
  BY OpTyped
<1>2. PICK o : o = [op[k] EXCEPT !.phase = p]
  OBVIOUS
<1>3. o \in Ops /\ o.root = op[k].root /\ o.wait = op[k].wait /\ o.tokens = op[k].tokens
      /\ o.phase = p
  BY <1>1, <1>2 DEF Ops
<1>4. op' = [op EXCEPT ![k] = o]
  BY <1>2 DEF Goto
<1>5. \A w \in Windows : w \in o.wait /\ lease[w] # None => Held(o, lease[w])
  BY <1>2, <1>3
<1>6. o.phase # "idle"
  BY <1>3
<1> QED  BY <1>3, <1>4, <1>5, <1>6, MoveKeeps

\* Before an operation freezes leases it does not wait for any.
LEMMA WaitsForNone ==
    ASSUME IInv, NEW k \in Kinds, op[k].phase \notin {"freeze", "closing", "revoke"},
           NEW w \in Windows, w \in op[k].wait
    PROVE  lease[w] = None
BY DEF IInv, WaitOK, Held

LEMMA SkipKeeps ==
    ASSUME IInv, NEW k \in Kinds, Skip(k)
    PROVE  IInv'
BY AtGateIsFirst, LeaveKeeps DEF Skip

LEMMA CloseFailsKeeps ==
    ASSUME IInv, NEW k \in Kinds, CloseFails(k) \/ GiveUp(k)
    PROVE  IInv'
<1>1. Past(k)
  BY DEF CloseFails, GiveUp, At, Past
<1>2. First(k)
  BY <1>1, OpTyped
<1> QED  BY <1>2, LeaveKeeps DEF CloseFails, GiveUp

LEMMA AskWindowsKeeps ==
    ASSUME IInv, AskWindows
    PROVE  IInv'
<1>1. "auto" \in Kinds
  BY DEF Kinds
<1>2. op["auto"].phase = "yield" /\ First("auto") /\ op["auto"] \in Ops
  BY <1>1, OpTyped DEF AskWindows, At, Past
<1>3. UNCHANGED <<root, dir, file, draft, lease, ids, queue, win, gate>>
  BY DEF AskWindows, docVars
<1>4. \A w \in Windows : w \in op["auto"].wait => lease[w] = None
  BY <1>1, <1>2, WaitsForNone
<1>5. CASE Goto("auto", "finish")
  <2>1. "finish" \in OpPhases \ {"idle"}
    BY DEF OpPhases
  <2> QED  BY <1>1, <1>2, <1>3, <1>4, <1>5, <2>1, GotoKeeps
<1>6. CASE op' = [op EXCEPT !["auto"].phase = "prepare",
                            !["auto"].tokens = NativeOf(Mine("auto"))]
  <2>1. PICK ws : ws = NativeOf(Mine("auto"))
    OBVIOUS
  <2>2. ws \subseteq Windows /\ \A w \in ws : lease[w] # None
    BY <2>1 DEF NativeOf, OfRoot
  <2>3. PICK o : o = [op["auto"] EXCEPT !.phase = "prepare", !.tokens = ws]
    OBVIOUS
  <2>4. /\ o \in Ops /\ o.root = op["auto"].root /\ o.wait = op["auto"].wait
        /\ o.phase # "idle" /\ o.tokens = ws
    BY <1>2, <2>2, <2>3 DEF Ops, OpPhases
  <2>5. op' = [op EXCEPT !["auto"] = o]
    BY <1>1, <1>6, <2>1, <2>3, OpTyped DEF Ops
  <2>6. \A w \in Windows : w \in o.wait /\ lease[w] # None => Held(o, lease[w])
    BY <1>4, <2>4
  <2>7. \A w \in o.tokens : w \in op["auto"].tokens \/ lease[w] # None
    BY <2>2, <2>4
  <2> QED  BY <1>1, <1>2, <1>3, <2>4, <2>5, <2>6, <2>7, MoveKeeps
<1> QED  BY <1>5, <1>6 DEF AskWindows

LEMMA NoAnswerKeeps ==
    ASSUME IInv, NEW w \in Windows, NoAnswer(w)
    PROVE  IInv'
<1>1. "auto" \in Kinds
  BY DEF Kinds
<1>2. op["auto"].phase = "prepare" /\ First("auto") /\ op["auto"] \in Ops
  BY <1>1, OpTyped DEF NoAnswer, Asked, At, Past
<1>3. UNCHANGED <<root, dir, file, draft, lease, ids, queue, win, gate>>
  BY DEF NoAnswer, docVars
<1>4. PICK o : o = [op["auto"] EXCEPT !.no = op["auto"].no \cup {w}]
  OBVIOUS
<1>5. /\ o \in Ops /\ o.root = op["auto"].root /\ o.wait = op["auto"].wait
      /\ o.phase # "idle" /\ o.tokens = op["auto"].tokens
  BY <1>2, <1>4 DEF Ops
<1>6. op' = [op EXCEPT !["auto"] = o]
  BY <1>4 DEF NoAnswer
<1>7. \A u \in Windows : u \in op["auto"].wait => lease[u] = None
  BY <1>1, <1>2, WaitsForNone
<1>8. \A u \in Windows : u \in o.wait /\ lease[u] # None => Held(o, lease[u])
  BY <1>5, <1>7
<1> QED  BY <1>1, <1>2, <1>3, <1>5, <1>6, <1>8, MoveKeeps

\* Once the saves it waits for have ended, the leases an operation revoked are gone: a lease
\* that is closing has a save pending.
LEMMA RevokedKeeps ==
    ASSUME IInv, NEW k \in Kinds, Revoked(k)
    PROVE  IInv'
<1>1. op[k].phase = "revoke" /\ First(k)
  BY OpTyped DEF Revoked, At, Past
<1>2. UNCHANGED <<root, dir, file, draft, lease, ids, queue, win, gate>>
  BY DEF Revoked, disk, broker
<1>3. ASSUME NEW w \in Windows, w \in op[k].wait
      PROVE  lease[w] = None
  <2>1. lease[w] # None => lease[w].pending = 0
    BY <1>3 DEF Revoked, Drained
  <2>2. lease[w] # None => lease[w].closing
    BY <1>1, <1>3 DEF IInv, WaitOK, Held
  <2> QED  BY <2>1, <2>2 DEF IInv, CountOK
<1>4. "finish" \in OpPhases \ {"idle"}
  BY DEF OpPhases
<1>5. Goto(k, "finish")
  BY DEF Revoked
<1> QED  BY <1>1, <1>2, <1>3, <1>4, <1>5, GotoKeeps

\* From freezing to closing: what is frozen is still frozen.
LEMMA ClosingKeeps ==
    ASSUME IInv, NEW k \in Kinds, At(k, "freeze"), Goto(k, "closing"), UNCHANGED <<docVars, gate>>
    PROVE  IInv'
<1>1. op[k].phase = "freeze" /\ First(k) /\ op[k] \in Ops
  BY OpTyped DEF At, Past
<1>2. UNCHANGED <<root, dir, file, draft, lease, ids, queue, win, gate>>
  BY DEF docVars
<1>3. PICK o : o = [op[k] EXCEPT !.phase = "closing"]
  OBVIOUS
<1>4. o.phase = "closing" /\ o.root = op[k].root
  BY <1>1, <1>3 DEF Ops
<1>5. ASSUME NEW w \in Windows, w \in op[k].wait, lease[w] # None
      PROVE  Held(o, lease[w])
  <2>1. Held(op[k], lease[w])
    BY <1>5 DEF IInv, WaitOK
  <2> QED  BY <1>1, <1>4, <1>5, <2>1 DEF Held
<1>6. "closing" \in OpPhases \ {"idle"}
  BY DEF OpPhases
<1> QED  BY <1>1, <1>2, <1>3, <1>5, <1>6, GotoKeeps

\* By hand, without a document open.
LEMMA EndAtOnceKeeps ==
    ASSUME IInv, AtGate("end"), Goto("end", "finish"), UNCHANGED <<docVars, gate>>
    PROVE  IInv'
<1>1. "end" \in Kinds
  BY DEF Kinds
<1>2. op["end"].phase = "queued" /\ First("end")
  BY <1>1, AtGateIsFirst DEF AtGate, At
<1>3. UNCHANGED <<root, dir, file, draft, lease, ids, queue, win, gate>>
  BY DEF docVars
<1>4. \A w \in Windows : w \in op["end"].wait => lease[w] = None
  BY <1>1, <1>2, WaitsForNone
<1>5. "finish" \in OpPhases \ {"idle"}
  BY DEF OpPhases
<1> QED  BY <1>1, <1>2, <1>3, <1>4, <1>5, GotoKeeps

-----------------------------------------------------------------------------
(* The windows prepare *)

\* The answers of the windows are not what an operation waits for.
OpsAnswer ==
    /\ op' \in [Kinds -> Ops]
    /\ \A k \in Kinds : /\ op'[k].phase = op[k].phase /\ op'[k].root = op[k].root
                        /\ op'[k].wait = op[k].wait /\ op'[k].tokens = op[k].tokens

LEMMA OneEditorAnswers ==
    ASSUME IInv, NEW w \in Windows, NEW e, Becomes(w, e), OpsAnswer,
           TextOK', draft' \in [Docs -> Texts \cup {None}],
           UNCHANGED <<root, dir, file, lease, ids, queue, gate>>
    PROVE  IInv'
<1>1. DocTypeOK /\ LockTypeOK /\ CountOK /\ WaitOK /\ RunOK /\ op \in [Kinds -> Ops]
  BY DEF IInv, TypeOK, LockTypeOK
<1>2. /\ win' \in [Windows -> Editors] /\ EditorsGo
      /\ \A u \in Windows : Formed(win'[u])
  BY <1>1, EditorBecomes
<1>3. LeaseStep
  BY <1>1, LeasesSame
<1>4. LeasesGo /\ LeasesHold
  BY <1>3, GoingHolds DEF LeaseStep
<1>5. DocTypeOK'
  BY <1>1, <1>2, <1>3 DEF DocTypeOK, LeaseStep
<1>6. QueueStays
  BY DEF QueueStays
<1>7. CountOK'
  BY <1>1, <1>4, <1>5, <1>6, QuietCount
<1>8. RunOK'
  BY <1>1, <1>2, <1>4, <1>5, <1>6, <1>7, QuietRun
<1>9. OpsGo
  <2>1. ASSUME NEW k \in Kinds, NEW l \in Leases, Held(op[k], l)
        PROVE  Held(op'[k], l)
    BY <2>1 DEF OpsAnswer, Held
  <2> QED  BY <2>1 DEF OpsGo, OpsAnswer
<1>10. WaitOK'
  BY <1>1, <1>2, <1>4, <1>5, <1>9, QuietWait DEF OpsAnswer
<1>11. LockTypeOK'
  BY <1>1 DEF LockTypeOK, OpsAnswer
<1>12. ShownOK'
  BY DEF IInv, ShownOK
<1>13. GateOK'
  <2>1. ASSUME NEW k \in Kinds
        PROVE  /\ op'[k].root = op[k].root
               /\ op'[k].phase # "idle" => op[k].phase # "idle"
               /\ op'[k].phase \notin {"idle", "queued"} => First(k)
    BY OpTyped DEF OpsAnswer, Past
  <2> QED  BY <2>1, GateStays
<1> QED  BY <1>5, <1>7, <1>8, <1>10, <1>11, <1>12, <1>13 DEF IInv, TypeOK

LEMMA AnswersAnswer ==
    ASSUME IInv, NEW w \in Windows, NEW yes \in SUBSET Windows, NEW no \in SUBSET Windows,
           Answers(w, yes, no)
    PROVE  OpsAnswer
<1>1. "auto" \in Kinds
  BY DEF Kinds
<1>2. op \in [Kinds -> Ops] /\ op["auto"] \in Ops
  BY <1>1, OpTyped
<1>3. CASE op' = op
  BY <1>2, <1>3 DEF OpsAnswer
<1>4. CASE op' = [op EXCEPT !["auto"].yes = @ \cup yes, !["auto"].no = @ \cup no]
  <2>1. PICK o : o = [op["auto"] EXCEPT !.yes = op["auto"].yes \cup yes,
                                        !.no = op["auto"].no \cup no]
    OBVIOUS
  <2>2. /\ o \in Ops /\ o.phase = op["auto"].phase /\ o.root = op["auto"].root
        /\ o.wait = op["auto"].wait /\ o.tokens = op["auto"].tokens
    BY <1>2, <2>1 DEF Ops
  <2>3. op' = [op EXCEPT !["auto"] = o]
    BY <1>1, <1>2, <1>4, <2>1 DEF Ops
  <2>4. op' \in [Kinds -> Ops] /\ op'["auto"] = o /\ \A k \in Kinds : k # "auto" => op'[k] = op[k]
    BY <1>1, <1>2, <2>2, <2>3
  <2> QED  BY <2>2, <2>4 DEF OpsAnswer
<1> QED  BY <1>3, <1>4 DEF Answers

\* Only the lock of an editor changes.
LEMMA LockMarked ==
    ASSUME IInv, NEW w \in Windows, Editing(w),
           NEW p \in {"free", "preparing", "prepared", "cancelling"},
           win' = [win EXCEPT ![w].lock = p], OpsAnswer,
           UNCHANGED <<root, dir, file, draft, lease, ids, queue, gate>>
    PROVE  IInv'
<1>1. DocTypeOK /\ win[w] \in Editors /\ Formed(win[w]) /\ win[w].phase = "editing"
  BY EditorTyped DEF Editing
<1>2. PICK f : f = [win[w] EXCEPT !.lock = p]
  OBVIOUS
<1>3. win' = [win EXCEPT ![w] = f]
  BY <1>2
<1>4. f \in Editors
  BY <1>1, <1>2 DEF Editors
<1>5. /\ f.phase = "editing" /\ f.doc = win[w].doc /\ f.root = win[w].root
      /\ f.text = win[w].text /\ f.offer = win[w].offer /\ f.last = win[w].last
      /\ f.acked = win[w].acked /\ f.dirty = win[w].dirty /\ f.seen = win[w].seen
  BY <1>1, <1>2 DEF Editors
<1>6. Formed(f)
  BY <1>1, <1>5 DEF Formed
<1>7. Becomes(w, f)
  BY <1>1, <1>3, <1>4, <1>5, <1>6 DEF Becomes, Grows
<1>8. ~Shared(w) => Knows(f, draft[f.doc])
  BY <1>1, <1>5, AloneKnows DEF Knows, IInv
<1>9. TextOK' /\ draft' \in [Docs -> Texts \cup {None}]
  BY <1>1, <1>7, <1>8, SameText DEF IInv
<1> QED  BY <1>7, <1>9, OneEditorAnswers

LEMMA PrepareKeeps ==
    ASSUME IInv, NEW w \in Windows, Prepare(w)
    PROVE  IInv'
<1>1. UNCHANGED <<root, dir, file, draft, lease, ids, queue, op, gate>>
  BY DEF Prepare, disk, broker, lockVars
<1>2. OpsAnswer
  BY <1>1, OpTyped DEF OpsAnswer, Kinds
<1> QED  BY <1>1, <1>2, LockMarked DEF Prepare

LEMMA PrepareFailsKeeps ==
    ASSUME IInv, NEW w \in Windows, PrepareFails(w)
    PROVE  IInv'
<1>1. UNCHANGED <<root, dir, file, draft, lease, ids, queue, gate>>
  BY DEF PrepareFails, disk, broker
<1>2. OpsAnswer
  BY AnswersAnswer DEF PrepareFails
<1> QED  BY <1>1, <1>2, LockMarked DEF PrepareFails

\* A window that answers has its unsaved text in the draft: it wrote it now, or it is the text
\* of the last draft, which nobody else has changed.
LEMMA PreparedKeeps ==
    ASSUME IInv, NEW w \in Windows, Prepared(w)
    PROVE  IInv'
<1>1. /\ DocTypeOK /\ win[w] \in Editors /\ Formed(win[w]) /\ win[w].phase = "editing"
  BY EditorTyped DEF Prepared, Editing
<1>2. win[w].doc \in Docs /\ win[w].text \in Texts
  BY <1>1 DEF Formed
<1>3. PICK b \in BOOLEAN : b <=> NeedsDraft(win[w])
  OBVIOUS
<1>4. PICK y : y = IF b THEN win[w].text ELSE win[w].last
  OBVIOUS
<1>5. PICK a : a = IF win[w].lock = "preparing" /\ win[w].dirty THEN win[w].text ELSE None
  OBVIOUS
<1>6. PICK p : p = IF win[w].lock = "preparing" THEN "prepared" ELSE "free"
  OBVIOUS
<1>7. y \in Texts \cup {None} /\ a \in Texts \cup {None} /\ p \in {"prepared", "free"}
  BY <1>1, <1>2, <1>4, <1>5, <1>6 DEF Editors
<1>8. PICK f : f = [win[w] EXCEPT !.last = y, !.lock = p, !.acked = a]
  OBVIOUS
<1>9. win' = [win EXCEPT ![w] = f]
  BY <1>1, <1>3, <1>4, <1>5, <1>6, <1>8 DEF Prepared, DocTypeOK, Editors
<1>10. f \in Editors
  BY <1>1, <1>7, <1>8 DEF Editors
<1>11. /\ f.phase = "editing" /\ f.doc = win[w].doc /\ f.root = win[w].root
       /\ f.text = win[w].text /\ f.offer = win[w].offer /\ f.last = y
       /\ f.acked = a /\ f.dirty = win[w].dirty /\ f.seen = win[w].seen
  BY <1>1, <1>8 DEF Editors
<1>12. Formed(f)
  BY <1>1, <1>5, <1>11 DEF Formed
<1>13. Becomes(w, f)
  BY <1>1, <1>9, <1>10, <1>11, <1>12 DEF Becomes, Grows
<1>14. PICK x : x = IF b THEN win[w].text ELSE draft[win[w].doc]
  OBVIOUS
<1>15. Drafts(f, x)
  BY <1>1, <1>2, <1>3, <1>11, <1>14 DEF Drafts, Prepared, DocTypeOK
<1>16. ~Shared(w) => Knows(f, x)
  <2>1. SUFFICES ASSUME ~Shared(w) PROVE Knows(f, x)
    OBVIOUS
  <2>2. draft[win[w].doc] = win[w].last
    BY <1>1, <2>1, AloneKnows DEF Knows, IInv
  <2>3. x = y
    BY <1>4, <1>14, <2>2
  <2>4. a # None => win[w].dirty /\ a = win[w].text
    BY <1>5
  <2>5. a # None => a = y
    BY <1>3, <1>4, <2>4 DEF NeedsDraft
  <2> QED  BY <1>11, <2>3, <2>5 DEF Knows
<1>17. TextOK' /\ draft' \in [Docs -> Texts \cup {None}]
  BY <1>1, <1>13, <1>15, <1>16, OneText DEF IInv
<1>18. OpsAnswer
  BY AnswersAnswer DEF Prepared
<1>19. UNCHANGED <<root, dir, file, lease, ids, queue, gate>>
  BY DEF Prepared, broker
<1> QED  BY <1>13, <1>17, <1>18, <1>19, OneEditorAnswers

-----------------------------------------------------------------------------
(* Hiding, freezing, closing *)

\* What is left of the invariant when a step is quiet, and what it shows of the lock.
LEMMA QuietLock ==
    ASSUME IInv, Quiet, TextOK', LockTypeOK', ShownOK', GateOK',
           (StillFrozen /\ OpsGo) \/ WaitOK'
    PROVE  IInv'
<1>1. DocTypeOK /\ LockTypeOK /\ CountOK /\ WaitOK /\ RunOK
  BY DEF IInv, TypeOK
<1>2. DocTypeOK' /\ file' = file /\ EditorsGo /\ LeasesGo /\ QueueStays
  BY DEF Quiet
<1>3. CountOK'
  BY <1>1, <1>2, QuietCount
<1>4. RunOK'
  BY <1>1, <1>2, <1>3, QuietRun
<1>5. WaitOK'
  <2>1. SUFFICES ASSUME StillFrozen, OpsGo PROVE WaitOK'
    OBVIOUS
  <2>2. op \in [Kinds -> Ops] /\ op' \in [Kinds -> Ops]
    BY <1>1 DEF LockTypeOK
  <2>3. LeasesHold
    BY <1>2, <2>1, GoingHolds
  <2> QED  BY <1>1, <1>2, <2>1, <2>2, <2>3, QuietWait
<1> QED  BY <1>2, <1>3, <1>4, <1>5 DEF IInv, TypeOK

\* What an operation that does not move waits for.
LEMMA OtherWaits ==
    ASSUME IInv, EditorsGo, LeasesHold, NEW k \in Kinds, op'[k] = op[k],
           NEW w \in Windows, w \in op'[k].wait
    PROVE  win'[w].phase \notin {"new", "asked"} /\ Held(op'[k], lease'[w])
<1>1. win[w].phase \notin {"new", "asked"} /\ Held(op[k], lease[w])
  BY DEF IInv, WaitOK
<1>2. win'[w].phase \notin {"new", "asked"}
  BY <1>1 DEF EditorsGo, Grows
<1>3. CASE lease'[w] = None
  BY <1>2, <1>3 DEF Held
<1>4. CASE lease'[w] # None
  <2>1. /\ lease[w] # None /\ lease'[w].root = lease[w].root
        /\ lease[w].closing => lease'[w].closing
        /\ lease[w].frozen => lease'[w].frozen
    BY <1>4 DEF LeasesHold
  <2> QED  BY <1>1, <1>2, <2>1 DEF Held
<1> QED  BY <1>3, <1>4

LEMMA SharedStays ==
    ASSUME EditorsGo, NEW u \in Windows, win[u].phase # "new", Shared(u)
    PROVE  Shared(u)'
<1>1. PICK v \in Windows \ {u} : win[v].phase # "new" /\ win[v].doc = win[u].doc
  BY DEF Shared
<1>2. win'[u].doc = win[u].doc /\ win'[v].phase # "new" /\ win'[v].doc = win[v].doc
  BY <1>1 DEF EditorsGo, Grows
<1> QED  BY <1>1, <1>2 DEF Shared

LEMMA HideKeeps ==
    ASSUME IInv, Hide
    PROVE  IInv'
<1>1. DocTypeOK /\ LockTypeOK /\ TextOK
  BY DEF IInv, TypeOK
<1>2. "auto" \in Kinds
  BY DEF Kinds
<1>3. First("auto") /\ op["auto"].phase = "queued" /\ op["auto"] \in Ops /\ op \in [Kinds -> Ops]
  BY <1>2, AtGateIsFirst, OpTyped DEF Hide, AtGate, At
<1>4. PICK pages : pages = {w \in OfRoot(dir) : Editing(w) /\ ~win[w].native}
  OBVIOUS
<1>5. PICK asking : asking = {w \in pages : win[w].offer # None}
  OBVIOUS
<1>6. /\ win' = [w \in Windows |-> CASE w \in asking -> Discarded(win[w], TRUE)
                                     [] w \in pages \ asking -> Closed(win[w])
                                     [] OTHER -> win[w]]
      /\ lease' = CloseLeases(pages \ asking)
      /\ draft' = [d \in Docs |-> IF \E w \in asking : win[w].doc = d THEN None ELSE draft[d]]
      /\ dir' = None /\ root' = Replaced(root) /\ Goto("auto", "yield")
      /\ UNCHANGED <<file, ids, queue, gate>>
  BY <1>4, <1>5 DEF Hide
<1>7. \A w \in pages : w \in Windows /\ win[w].phase = "editing"
  BY <1>4 DEF OfRoot, Editing
<1>8. \A w \in asking : w \in pages /\ w \in Windows /\ win[w].phase = "editing" /\ win[w].offer # None
  BY <1>5, <1>7
\* the editors
<1>9. ASSUME NEW w \in Windows
      PROVE  /\ win'[w] \in Editors /\ Formed(win'[w]) /\ Grows(win[w], win'[w])
             /\ w \in asking => /\ win'[w].phase = "editing" /\ win'[w].doc = win[w].doc
                                /\ win'[w].last = None /\ win'[w].acked = None
             /\ w \in pages \ asking => win'[w].phase = "closed" /\ win'[w].acked = None
             /\ w \notin pages => win'[w] = win[w]
  <2>1. win[w] \in Editors /\ Formed(win[w])
    BY <1>1 DEF DocTypeOK
  <2>2. CASE w \in asking
    <3>1. win'[w] = Discarded(win[w], TRUE)
      BY <1>6, <2>2
    <3>2. PICK f : f = Discarded(win[w], TRUE)
      OBVIOUS
    <3>3. /\ f \in Editors /\ Formed(f) /\ f.phase = "editing" /\ f.doc = win[w].doc
          /\ f.acked = None /\ f.last = None
      BY <1>8, <2>1, <2>2, <3>2, DiscardedEditor
    <3>4. Grows(win[w], f)
      BY <1>8, <2>2, <3>3 DEF Grows
    <3> QED  BY <1>8, <2>2, <3>1, <3>2, <3>3, <3>4
  <2>3. CASE w \in pages \ asking
    <3>1. win'[w] = Closed(win[w])
      BY <1>6, <2>3
    <3>2. win[w].phase # "new"
      BY <1>7, <2>3
    <3> QED  BY <2>1, <2>3, <3>1, <3>2, ClosedEditor
  <2>4. CASE w \notin pages
    <3>1. win'[w] = win[w]
      BY <1>6, <1>8, <2>4
    <3>2. Grows(win[w], win[w])
      BY DEF Grows
    <3> QED  BY <1>8, <2>1, <2>4, <3>1, <3>2
  <2> QED  BY <2>2, <2>3, <2>4
<1>10. win' \in [Windows -> Editors] /\ \A w \in Windows : Formed(win'[w])
  BY <1>6, <1>9
<1>11. EditorsGo
  BY <1>9 DEF EditorsGo
<1>12. draft' \in [Docs -> Texts \cup {None}]
  BY <1>1, <1>6 DEF DocTypeOK
<1>13. LeaseStep
  BY <1>1, <1>6, LeasesClosed
<1>14. DocTypeOK'
  BY <1>1, <1>6, <1>10, <1>12, <1>13 DEF DocTypeOK, LeaseStep
<1>15. Quiet /\ StillFrozen
  BY <1>6, <1>11, <1>13, <1>14 DEF Quiet, LeaseStep, QueueStays
<1>16. TextOK'
  <2>1. SUFFICES ASSUME NEW u \in Windows, ~Shared(u)', win'[u].phase = "editing" \/ win'[u].acked # None
                 PROVE  Knows(win'[u], draft'[win'[u].doc])
    BY DEF TextOK, Knows, Editing
  <2>2. win'[u].doc \in Docs
    BY <1>10, <2>1 DEF Formed
  <2>3. CASE u \in asking
    <3>1. draft'[win[u].doc] = None
      BY <1>6, <1>9, <2>2, <2>3
    <3> QED  BY <1>9, <2>3, <3>1 DEF Knows
  <2>4. CASE u \notin asking
    <3>1. u \notin pages
      BY <1>9, <2>1, <2>4
    <3>2. win'[u] = win[u]
      BY <1>9, <3>1
    <3>3. ~\E w \in asking : win[w].doc = win[u].doc
      <4>1. SUFFICES ASSUME NEW w \in asking, win[w].doc = win[u].doc PROVE FALSE
        OBVIOUS
      <4>2. w \in Windows \ {u} /\ win'[w].phase = "editing" /\ win'[w].doc = win[w].doc
        BY <1>8, <1>9, <2>4
      <4> QED  BY <2>1, <3>2, <4>1, <4>2 DEF Shared
    <3>4. draft'[win'[u].doc] = draft[win[u].doc]
      BY <1>6, <2>2, <3>2, <3>3
    <3>5. win[u].phase # "new"
      BY <1>1, <2>1, <3>2 DEF DocTypeOK, Formed
    <3>6. ~Shared(u)
      BY <1>11, <2>1, <3>5, SharedStays
    <3>7. Knows(win[u], draft[win[u].doc])
      BY <1>1, <3>6, AloneKnows
    <3> QED  BY <3>2, <3>4, <3>7
  <2> QED  BY <2>3, <2>4
\* the lock
<1>17. root' \in [Roots -> RootStates] /\ \A r \in Roots : root'[r] # "opening"
  BY <1>1, <1>6, ReplacedRoots DEF LockTypeOK
<1>18. PICK o : o = [op["auto"] EXCEPT !.phase = "yield"]
  OBVIOUS
<1>19. /\ o \in Ops /\ o.phase = "yield" /\ o.root = op["auto"].root
       /\ o.wait = op["auto"].wait /\ o.tokens = op["auto"].tokens
  BY <1>3, <1>18 DEF Ops, OpPhases
<1>20. op' = [op EXCEPT !["auto"] = o]
  BY <1>6, <1>18 DEF Goto
<1>21. op' \in [Kinds -> Ops] /\ op'["auto"] = o /\ \A k \in Kinds : k # "auto" => op'[k] = op[k]
  BY <1>2, <1>3, <1>19, <1>20
<1>22. LockTypeOK' /\ ShownOK'
  BY <1>1, <1>6, <1>17, <1>21 DEF LockTypeOK, ShownOK
<1>23. GateOK'
  <2>1. ASSUME NEW m \in Kinds
        PROVE  /\ op'[m].root = op[m].root
               /\ op'[m].phase # "idle" => op[m].phase # "idle"
               /\ op'[m].phase \notin {"idle", "queued"} => First(m)
    <3>1. CASE m = "auto"
      BY <1>3, <1>19, <1>21, <3>1
    <3>2. CASE m # "auto"
      BY <1>21, <3>2, OpTyped DEF Past
    <3> QED  BY <3>1, <3>2
  <2>2. gate' = gate
    BY <1>6
  <2> QED  BY <2>1, <2>2, GateStays
<1>24. OpsGo
  <2>1. ASSUME NEW l \in Leases
        PROVE  ~Held(op["auto"], l)
    BY <1>3, LeaseIsNotNone DEF Held
  <2> QED  BY <1>19, <1>21, <2>1 DEF OpsGo
<1> QED  BY <1>15, <1>16, <1>22, <1>23, <1>24, QuietLock

\* The leases of root r are frozen, or set free.
LEMMA FrozenLeases ==
    ASSUME DocTypeOK, NEW r, NEW b \in BOOLEAN, lease' = Frozen(r, b)
    PROVE  /\ lease' \in [Windows -> Leases \cup {None}]
           /\ LeasesGo
           /\ b => StillFrozen
           /\ \A w \in Windows : w \notin OfRoot(r) => lease'[w] = lease[w]
           /\ \A w \in OfRoot(r) : lease'[w] # None /\ lease'[w].root = r /\ lease'[w].frozen = b
           /\ \A w \in Windows : lease[w] # None => lease'[w].closing = lease[w].closing
<1>1. ASSUME NEW w \in Windows
      PROVE  /\ lease'[w] \in Leases \cup {None}
             /\ Goes(lease[w], lease'[w])
             /\ lease'[w] # None => lease'[w].base = lease[w].base
             /\ w \notin OfRoot(r) => lease'[w] = lease[w]
             /\ w \in OfRoot(r) => lease'[w] # None /\ lease'[w].root = r /\ lease'[w].frozen = b
             /\ lease[w] # None => lease'[w].closing = lease[w].closing
  <2>1. lease'[w] = IF w \in OfRoot(r) THEN [lease[w] EXCEPT !.frozen = b] ELSE lease[w]
    BY DEF Frozen
  <2>2. CASE w \notin OfRoot(r)
    BY <2>1, <2>2 DEF Goes, DocTypeOK
  <2>3. CASE w \in OfRoot(r)
    <3>1. lease[w] # None /\ lease[w].root = r
      BY <2>3 DEF OfRoot
    <3>2. lease[w] \in Leases
      BY <3>1, LeaseTyped
    <3>3. PICK m : m = [lease[w] EXCEPT !.frozen = b]
      OBVIOUS
    <3>4. m \in Leases /\ m # None
      BY <3>2, <3>3, LeaseIsNotNone DEF Leases
    <3>5. /\ m.root = r /\ m.doc = lease[w].doc /\ m.id = lease[w].id /\ m.base = lease[w].base
          /\ m.pending = lease[w].pending /\ m.closing = lease[w].closing /\ m.frozen = b
      BY <3>1, <3>2, <3>3 DEF Leases
    <3>6. Goes(lease[w], m)
      BY <3>1, <3>4, <3>5 DEF Goes
    <3> QED  BY <2>1, <2>3, <3>3, <3>4, <3>5, <3>6
  <2> QED  BY <2>2, <2>3
<1>2. lease' \in [Windows -> Leases \cup {None}]
  BY <1>1 DEF Frozen
<1>3. LeasesGo
  BY <1>1 DEF LeasesGo, SameBase
<1>4. b => StillFrozen
  BY <1>1 DEF StillFrozen
<1>5. \A w \in OfRoot(r) : w \in Windows
  BY DEF OfRoot
<1> QED  BY <1>1, <1>2, <1>3, <1>4, <1>5

LEMMA FreezeKeeps ==
    ASSUME IInv, NEW k \in Kinds, First(k), NEW tokens \in SUBSET Windows, Freeze(k, tokens),
           \A w \in tokens : w \in op[k].tokens \/ lease[w] # None
    PROVE  IInv'
<1>1. DocTypeOK /\ LockTypeOK /\ WaitOK
  BY DEF IInv, TypeOK
<1>2. op[k] \in Ops /\ op \in [Kinds -> Ops]
  BY OpTyped
<1>3. PICK r : r = Mine(k)
  OBVIOUS
<1>4. lease' = Frozen(r, TRUE) /\ UNCHANGED <<root, dir, file, draft, ids, queue, win, gate>>
  BY <1>3 DEF Freeze, disk
<1>5. /\ lease' \in [Windows -> Leases \cup {None}] /\ LeasesGo /\ StillFrozen
      /\ \A w \in OfRoot(r) : lease'[w] # None /\ lease'[w].root = r /\ lease'[w].frozen
  BY <1>1, <1>4, FrozenLeases
<1>6. LeasesHold
  BY <1>5, GoingHolds
<1>7. EditorsGo
  BY <1>1, <1>4, EditorsSame
<1>8. DocTypeOK'
  BY <1>1, <1>4, <1>5 DEF DocTypeOK
<1>9. Quiet
  BY <1>4, <1>5, <1>7, <1>8 DEF Quiet, QueueStays
<1>10. TextOK'
  BY <1>4 DEF IInv, TextOK, Shared, Editing
<1>11. OfRoot(r) \in SUBSET Windows /\ \A w \in OfRoot(r) : lease[w] # None
  BY DEF OfRoot
<1>12. PICK o : o = [op[k] EXCEPT !.phase = "freeze", !.tokens = tokens, !.wait = OfRoot(r)]
  OBVIOUS
<1>13. /\ o \in Ops /\ o.phase = "freeze" /\ o.root = r /\ o.tokens = tokens
       /\ o.wait = OfRoot(r)
  BY <1>2, <1>3, <1>11, <1>12 DEF Ops, OpPhases, Mine
<1>14. op' = [op EXCEPT ![k] = o]
  BY <1>2, <1>3, <1>12 DEF Freeze, Ops
<1>15. op' \in [Kinds -> Ops] /\ op'[k] = o /\ \A m \in Kinds \ {k} : op'[m] = op[m]
  BY <1>2, <1>13, <1>14
<1>16. LockTypeOK' /\ ShownOK'
  BY <1>1, <1>4, <1>15 DEF LockTypeOK, ShownOK, IInv
<1>17. GateOK'
  <2>1. ASSUME NEW m \in Kinds
        PROVE  /\ op'[m].root = op[m].root
               /\ op'[m].phase # "idle" => op[m].phase # "idle"
               /\ op'[m].phase \notin {"idle", "queued"} => First(m)
    <3>1. CASE m = k
      BY <1>3, <1>13, <1>15, <3>1 DEF Mine, First, At
    <3>2. CASE m # k
      BY <1>15, <3>2, OpTyped DEF Past
    <3> QED  BY <3>1, <3>2
  <2>2. gate' = gate
    BY <1>4
  <2> QED  BY <2>1, <2>2, GateStays
<1>18. WaitOK'
  <2>1. \A w \in Windows : lease'[w] # None => win'[w].phase \notin {"new", "asked"}
    BY <1>1, <1>4, <1>6 DEF WaitOK, LeasesHold
  <2>2. ASSUME NEW m \in Kinds, NEW w \in Windows, w \in op'[m].wait
        PROVE  win'[w].phase \notin {"new", "asked"} /\ Held(op'[m], lease'[w])
    <3>1. CASE m = k
      <4>1. w \in OfRoot(r)
        BY <1>13, <1>15, <2>2, <3>1
      <4>2. lease'[w].root = r /\ lease'[w].frozen
        BY <1>5, <4>1
      <4>3. Held(o, lease'[w])
        BY <1>13, <4>2 DEF Held
      <4>4. win[w].phase \notin {"new", "asked"}
        BY <1>1, <1>11, <4>1 DEF WaitOK
      <4> QED  BY <1>4, <1>15, <3>1, <4>3, <4>4
    <3>2. CASE m # k
      BY <1>6, <1>7, <1>15, <2>2, <3>2, OtherWaits
    <3> QED  BY <3>1, <3>2
  <2>3. ASSUME NEW m \in Kinds, NEW w \in Windows, w \in op'[m].tokens
        PROVE  win'[w].phase \notin {"new", "asked"}
    <3>1. w \in op[m].tokens \/ lease[w] # None
      BY <1>13, <1>15, <2>3
    <3> QED  BY <1>1, <1>4, <3>1 DEF WaitOK
  <2> QED  BY <2>1, <2>2, <2>3 DEF WaitOK
<1> QED  BY <1>9, <1>10, <1>16, <1>17, <1>18, QuietLock

\* Windows whose preparation is cancelled have nothing to answer for any more.
LEMMA CancelledEditors ==
    ASSUME IInv, NEW ws, win' = Cancelled(ws), draft' = draft
    PROVE  /\ win' \in [Windows -> Editors] /\ \A w \in Windows : Formed(win'[w])
           /\ EditorsGo /\ TextOK'
<1>1. DocTypeOK /\ TextOK
  BY DEF IInv, TypeOK
<1>2. ASSUME NEW w \in Windows
      PROVE  /\ win'[w] \in Editors /\ Formed(win'[w]) /\ Grows(win[w], win'[w])
             /\ win'[w].phase = win[w].phase /\ win'[w].doc = win[w].doc
             /\ win'[w].last = win[w].last
             /\ win'[w].acked = win[w].acked \/ win'[w].acked = None
  <2>1. win[w] \in Editors /\ Formed(win[w])
    BY <1>1 DEF DocTypeOK
  <2>2. \/ win'[w] = win[w]
        \/ win'[w] = [win[w] EXCEPT !.lock = "free", !.acked = None]
        \/ win'[w] = [win[w] EXCEPT !.lock = "cancelling"]
    BY DEF Cancelled
  <2>3. PICK f : f = win'[w]
    OBVIOUS
  <2>4. f \in Editors
    BY <2>1, <2>2, <2>3 DEF Editors
  <2>5. /\ f.phase = win[w].phase /\ f.doc = win[w].doc /\ f.root = win[w].root
        /\ f.text = win[w].text /\ f.offer = win[w].offer /\ f.last = win[w].last
        /\ f.acked = win[w].acked \/ f.acked = None
        /\ f.dirty = win[w].dirty /\ f.seen = win[w].seen
    BY <2>1, <2>2, <2>3 DEF Editors
  <2>6. Formed(f)
    BY <2>1, <2>5 DEF Formed
  <2>7. Grows(win[w], f)
    BY <2>5 DEF Grows
  <2> QED  BY <2>3, <2>4, <2>5, <2>6, <2>7
<1>3. win' \in [Windows -> Editors]
  BY <1>2 DEF Cancelled
<1>4. EditorsGo
  BY <1>2 DEF EditorsGo
<1>5. TextOK'
  <2>1. ASSUME NEW u \in Windows
        PROVE  Shared(u)' <=> Shared(u)
    BY <1>2 DEF Shared
  <2>2. ASSUME NEW u \in Windows, ~Shared(u)
        PROVE  Knows(win'[u], draft[win[u].doc])
    <3>1. Knows(win[u], draft[win[u].doc])
      BY <1>1, <2>2, AloneKnows
    <3> QED  BY <1>2, <3>1 DEF Knows
  <2> QED  BY <1>2, <2>1, <2>2 DEF TextOK, Knows, Editing
<1> QED  BY <1>2, <1>3, <1>4, <1>5

\* An operation that is given up sets the leases of its root free; another one past the gate of
\* the same root does not exist.
LEMMA AbortKeeps ==
    ASSUME IInv, NEW k \in Kinds, First(k), Abort(k)
    PROVE  IInv'
<1>1. DocTypeOK /\ LockTypeOK /\ WaitOK
  BY DEF IInv, TypeOK
<1>2. PICK r : r = Mine(k)
  OBVIOUS
<1>3. /\ lease' = Frozen(r, FALSE) /\ UNCHANGED <<root, dir, file, draft, ids, queue>>
      /\ Leave(k)
  BY <1>2 DEF Abort, disk
<1>4. /\ lease' \in [Windows -> Leases \cup {None}] /\ LeasesGo
      /\ \A w \in Windows : w \notin OfRoot(r) => lease'[w] = lease[w]
      /\ \A w \in Windows : lease[w] # None => lease'[w].closing = lease[w].closing
  BY <1>1, <1>3, FrozenLeases
<1>5. /\ win' \in [Windows -> Editors] /\ \A w \in Windows : Formed(win'[w])
      /\ EditorsGo /\ TextOK'
  <2>1. CASE win' = win
    <3>1. TextOK'
      BY <1>3, <2>1 DEF IInv, TextOK, Shared, Editing
    <3> QED  BY <1>1, <2>1, <3>1, EditorsSame
  <2>2. CASE win' = Cancelled(op[k].tokens)
    BY <1>3, <2>2, CancelledEditors
  <2> QED  BY <2>1, <2>2 DEF Abort
<1>6. DocTypeOK'
  BY <1>1, <1>3, <1>4, <1>5 DEF DocTypeOK
<1>7. Quiet
  BY <1>3, <1>4, <1>5, <1>6 DEF Quiet, QueueStays
<1>8. /\ op' \in [Kinds -> Ops] /\ gate' \in [Roots -> Seq(Kinds)] /\ GateOK'
      /\ op'[k] = Idle /\ \A m \in Kinds \ {k} : op'[m] = op[m]
  BY <1>3, GateLeaves
<1>9. LockTypeOK' /\ ShownOK'
  BY <1>1, <1>3, <1>8 DEF LockTypeOK, ShownOK, IInv
<1>10. WaitOK'
  <2>1. ASSUME NEW w \in Windows, lease'[w] # None
        PROVE  win'[w].phase \notin {"new", "asked"}
    <3>1. lease[w] # None
      BY <1>4, <2>1 DEF LeasesGo, Goes
    <3> QED  BY <1>1, <1>5, <3>1 DEF WaitOK, EditorsGo, Grows
  <2>2. ASSUME NEW m \in Kinds, NEW w \in Windows, w \in op'[m].wait
        PROVE  win'[w].phase \notin {"new", "asked"} /\ Held(op'[m], lease'[w])
    <3>1. m # k /\ op'[m] = op[m]
      BY <1>8, <2>2 DEF Idle
    <3>2. win[w].phase \notin {"new", "asked"} /\ Held(op[m], lease[w])
      BY <1>1, <2>2, <3>1 DEF WaitOK
    <3>3. win'[w].phase \notin {"new", "asked"}
      BY <1>5, <3>2 DEF EditorsGo, Grows
    <3>4. CASE lease'[w] = None
      BY <3>3, <3>4 DEF Held
    <3>5. CASE lease'[w] # None /\ op[m].phase \in {"freeze", "closing"}
      <4>1. lease[w] # None /\ lease[w].root = op[m].root
        BY <1>4, <3>2, <3>5 DEF LeasesGo, Goes, Held
      <4>2. First(m)
        BY <3>5, OpTyped DEF Past
      <4>3. op[m].root # r
        BY <1>2, <3>1, <4>2, Exclusion DEF Mine
      <4>4. w \notin OfRoot(r)
        BY <4>1, <4>3 DEF OfRoot
      <4> QED  BY <1>4, <3>1, <3>2, <3>3, <4>4
    <3>6. CASE lease'[w] # None /\ op[m].phase \notin {"freeze", "closing"}
      <4>1. lease[w] # None
        BY <1>4, <3>6 DEF LeasesGo, Goes
      <4>2. op[m].phase = "revoke" /\ lease[w].closing
        BY <3>2, <3>6, <4>1 DEF Held
      <4>3. lease'[w].closing
        BY <1>4, <4>1, <4>2
      <4> QED  BY <3>1, <3>3, <4>2, <4>3 DEF Held
    <3> QED  BY <3>4, <3>5, <3>6
  <2>3. ASSUME NEW m \in Kinds, NEW w \in Windows, w \in op'[m].tokens
        PROVE  win'[w].phase \notin {"new", "asked"}
    <3>1. w \in op[m].tokens
      BY <1>8, <2>3 DEF Idle
    <3> QED  BY <1>1, <1>5, <3>1 DEF WaitOK, EditorsGo, Grows
  <2> QED  BY <2>1, <2>2, <2>3 DEF WaitOK
<1> QED  BY <1>5, <1>7, <1>8, <1>9, <1>10, QuietLock

LEMMA EndDecidesKeeps ==
    ASSUME IInv, EndDecides
    PROVE  IInv'
<1>1. "end" \in Kinds /\ AtGate("end")
  BY DEF Kinds, EndDecides
<1>2. First("end")
  BY <1>1, AtGateIsFirst
<1>3. CASE Goto("end", "finish") /\ UNCHANGED <<docVars, gate>>
  BY <1>1, <1>3, EndAtOnceKeeps
<1>4. CASE Freeze("end", NativeOf(dir))
  <2>1. NativeOf(dir) \in SUBSET Windows /\ \A w \in NativeOf(dir) : lease[w] # None
    BY DEF NativeOf, OfRoot
  <2> QED  BY <1>1, <1>2, <1>4, <2>1, FreezeKeeps
<1> QED  BY <1>3, <1>4 DEF EndDecides

LEMMA EvaluateKeeps ==
    ASSUME IInv, Evaluate
    PROVE  IInv'
<1>1. "auto" \in Kinds
  BY DEF Kinds
<1>2. First("auto") /\ op["auto"] \in Ops
  BY <1>1, OpTyped DEF Evaluate, At, Past
<1>3. op["auto"].tokens \in SUBSET Windows
  BY <1>2 DEF Ops
<1>4. CASE Freeze("auto", op["auto"].tokens)
  BY <1>1, <1>2, <1>3, <1>4, FreezeKeeps
<1>5. CASE Abort("auto")
  BY <1>1, <1>2, <1>5, AbortKeeps
<1> QED  BY <1>4, <1>5 DEF Evaluate

LEMMA FreezesKeeps ==
    ASSUME IInv, NEW k \in Kinds, Freezes(k)
    PROVE  IInv'
<1>1. First(k) /\ At(k, "freeze")
  BY OpTyped DEF Freezes, At, Past
<1>2. CASE Goto(k, "closing") /\ UNCHANGED <<docVars, gate>>
  BY <1>1, <1>2, ClosingKeeps
<1>3. CASE Abort(k)
  BY <1>1, <1>3, AbortKeeps
<1> QED  BY <1>2, <1>3 DEF Freezes

LEMMA CloseWindowFailsKeeps ==
    ASSUME IInv, NEW k \in Kinds, CloseWindowFails(k)
    PROVE  IInv'
<1>1. First(k)
  BY OpTyped DEF CloseWindowFails, At, Past
<1> QED  BY <1>1, AbortKeeps DEF CloseWindowFails

LEMMA CloseWindowKeeps ==
    ASSUME IInv, NEW k \in Kinds, NEW w \in Windows, CloseWindow(k, w)
    PROVE  IInv'
<1>1. UNCHANGED <<root, dir, file, draft, lease, ids, queue, op, gate>>
  BY DEF CloseWindow, disk, broker, lockVars
<1>2. LeaseStep
  BY <1>1, EditorTyped, LeasesSame
<1>3. win[w].phase # "new"
  BY DEF CloseWindow, IInv, WaitOK
<1>4. win' = [win EXCEPT ![w] = Closed(@)]
  BY DEF CloseWindow
<1> QED  BY <1>1, <1>2, <1>3, <1>4, EditorCloses

\* The document ids of a root are dropped.
LEMMA DroppedIds ==
    ASSUME DocTypeOK, NEW r, ids' = DropIds(r)
    PROVE  ids' \in [Roots \X Docs -> Windows \cup {None}]
<1>1. ids \in [Roots \X Docs -> Windows \cup {None}]
  BY DEF DocTypeOK
<1>2. \A x \in Roots \X Docs : (IF x[1] = r THEN None ELSE ids[x]) \in Windows \cup {None}
  BY <1>1
<1> QED  BY <1>2 DEF DropIds

LEMMA RevokeKeeps ==
    ASSUME IInv, NEW k \in Kinds, Revoke(k)
    PROVE  IInv'
<1>1. DocTypeOK /\ LockTypeOK /\ WaitOK
  BY DEF IInv, TypeOK
<1>2. First(k) /\ op[k] \in Ops /\ op \in [Kinds -> Ops]
  BY OpTyped DEF Revoke, At, Past
<1>3. PICK r : r = Mine(k)
  OBVIOUS
<1>4. /\ lease' = CloseLeases(OfRoot(r)) /\ ids' = DropIds(r)
      /\ UNCHANGED <<root, dir, file, draft, queue, win, gate>>
  BY <1>3 DEF Revoke, disk
<1>5. LeaseStep
  BY <1>1, <1>4, LeasesClosed
<1>6. LeasesHold
  BY <1>5, GoingHolds DEF LeaseStep
<1>7. EditorsGo
  BY <1>1, <1>4, EditorsSame
<1>8. DocTypeOK'
  BY <1>1, <1>4, <1>5, DroppedIds DEF DocTypeOK, LeaseStep
<1>9. Quiet
  BY <1>4, <1>5, <1>7, <1>8 DEF Quiet, QueueStays, LeaseStep
<1>10. TextOK'
  BY <1>4 DEF IInv, TextOK, Shared, Editing
<1>11. OfRoot(r) \in SUBSET Windows /\ \A w \in OfRoot(r) : lease[w] # None
  BY DEF OfRoot
<1>12. PICK o : o = [op[k] EXCEPT !.phase = "revoke", !.wait = OfRoot(r)]
  OBVIOUS
<1>13. /\ o \in Ops /\ o.phase = "revoke" /\ o.root = r /\ o.tokens = op[k].tokens
       /\ o.wait = OfRoot(r)
  BY <1>2, <1>3, <1>11, <1>12 DEF Ops, OpPhases, Mine
<1>14. op' = [op EXCEPT ![k] = o]
  BY <1>2, <1>3, <1>12 DEF Revoke, Ops
<1>15. op' \in [Kinds -> Ops] /\ op'[k] = o /\ \A m \in Kinds \ {k} : op'[m] = op[m]
  BY <1>2, <1>13, <1>14
<1>16. LockTypeOK' /\ ShownOK'
  BY <1>1, <1>4, <1>15 DEF LockTypeOK, ShownOK, IInv
<1>17. GateOK'
  <2>1. ASSUME NEW m \in Kinds
        PROVE  /\ op'[m].root = op[m].root
               /\ op'[m].phase # "idle" => op[m].phase # "idle"
               /\ op'[m].phase \notin {"idle", "queued"} => First(m)
    <3>1. CASE m = k
      BY <1>2, <1>3, <1>13, <1>15, <3>1 DEF Mine, First, At
    <3>2. CASE m # k
      BY <1>15, <3>2, OpTyped DEF Past
    <3> QED  BY <3>1, <3>2
  <2>2. gate' = gate
    BY <1>4
  <2> QED  BY <2>1, <2>2, GateStays
<1>18. WaitOK'
  <2>1. \A w \in Windows : lease'[w] # None => win'[w].phase \notin {"new", "asked"}
    BY <1>1, <1>4, <1>6 DEF WaitOK, LeasesHold
  <2>2. ASSUME NEW m \in Kinds, NEW w \in Windows, w \in op'[m].wait
        PROVE  win'[w].phase \notin {"new", "asked"} /\ Held(op'[m], lease'[w])
    <3>1. CASE m = k
      <4>1. w \in OfRoot(r) /\ lease[w] # None
        BY <1>11, <1>13, <1>15, <2>2, <3>1
      <4>2. lease[w] \in Leases
        BY <1>1, <4>1, LeaseTyped
      <4>3. lease'[w] = IF lease[w].pending > 0 THEN [lease[w] EXCEPT !.closing = TRUE] ELSE None
        BY <1>4, <4>1 DEF CloseLeases
      <4>4. lease'[w] = None \/ lease'[w].closing
        BY <4>2, <4>3 DEF Leases
      <4>5. Held(o, lease'[w])
        BY <1>13, <4>4 DEF Held
      <4>6. win[w].phase \notin {"new", "asked"}
        BY <1>1, <4>1 DEF WaitOK
      <4> QED  BY <1>4, <1>15, <3>1, <4>5, <4>6
    <3>2. CASE m # k
      BY <1>6, <1>7, <1>15, <2>2, <3>2, OtherWaits
    <3> QED  BY <3>1, <3>2
  <2>3. ASSUME NEW m \in Kinds, NEW w \in Windows, w \in op'[m].tokens
        PROVE  win'[w].phase \notin {"new", "asked"}
    <3>1. w \in op[m].tokens
      BY <1>13, <1>15, <2>3
    <3> QED  BY <1>1, <1>4, <3>1 DEF WaitOK
  <2> QED  BY <2>1, <2>2, <2>3 DEF WaitOK
<1> QED  BY <1>9, <1>10, <1>16, <1>17, <1>18, QuietLock

LEMMA CloseKeeps ==
    ASSUME IInv, NEW k \in Kinds, Close(k)
    PROVE  IInv'
<1>1. DocTypeOK /\ LockTypeOK /\ WaitOK
  BY DEF IInv, TypeOK
<1>2. First(k) /\ Mine(k) \in Roots
  BY OpTyped DEF Close, At, Past, First
<1>3. PICK r \in Roots : r = Mine(k)
  BY <1>2
<1>4. /\ lease' = CloseLeases(OfRoot(r)) /\ ids' = DropIds(r) /\ Leave(k)
      /\ root' = Replaced([root EXCEPT ![r] = "closed"]) /\ dir' = None
      /\ UNCHANGED <<file, draft, queue, win>>
  BY <1>3 DEF Close, disk
<1>5. LeaseStep
  BY <1>1, <1>4, LeasesClosed
<1>6. EditorsGo
  BY <1>1, <1>4, EditorsSame
<1>7. DocTypeOK'
  BY <1>1, <1>4, <1>5, DroppedIds DEF DocTypeOK, LeaseStep
<1>8. Quiet /\ StillFrozen
  BY <1>4, <1>5, <1>6, <1>7 DEF Quiet, QueueStays, LeaseStep
<1>9. TextOK'
  BY <1>4 DEF IInv, TextOK, Shared, Editing
<1>10. /\ op' \in [Kinds -> Ops] /\ gate' \in [Roots -> Seq(Kinds)] /\ GateOK'
       /\ op'[k] = Idle /\ \A m \in Kinds \ {k} : op'[m] = op[m]
  BY <1>2, <1>4, GateLeaves
<1>11. PICK rs : rs = [root EXCEPT ![r] = "closed"]
  OBVIOUS
<1>12. rs \in [Roots -> RootStates]
  BY <1>1, <1>11 DEF LockTypeOK, RootStates
<1>13. root' \in [Roots -> RootStates] /\ \A q \in Roots : root'[q] # "opening"
  BY <1>4, <1>11, <1>12, ReplacedRoots
<1>14. LockTypeOK' /\ ShownOK'
  BY <1>4, <1>10, <1>13 DEF LockTypeOK, ShownOK
<1>15. WaitOK'
  <2>1. LeasesHold
    BY <1>5, GoingHolds DEF LeaseStep
  <2>2. \A w \in Windows : lease'[w] # None => win'[w].phase \notin {"new", "asked"}
    BY <1>1, <1>4, <2>1 DEF WaitOK, LeasesHold
  <2>3. ASSUME NEW m \in Kinds, NEW w \in Windows, w \in op'[m].wait
        PROVE  win'[w].phase \notin {"new", "asked"} /\ Held(op'[m], lease'[w])
    <3>1. op'[m] = op[m]
      BY <1>10, <2>3 DEF Idle
    <3> QED  BY <1>6, <2>1, <2>3, <3>1, OtherWaits
  <2>4. ASSUME NEW m \in Kinds, NEW w \in Windows, w \in op'[m].tokens
        PROVE  win'[w].phase \notin {"new", "asked"}
    <3>1. w \in op[m].tokens
      BY <1>10, <2>4 DEF Idle
    <3> QED  BY <1>1, <1>4, <3>1 DEF WaitOK
  <2> QED  BY <2>2, <2>3, <2>4 DEF WaitOK
<1> QED  BY <1>8, <1>9, <1>10, <1>14, <1>15, QuietLock

-----------------------------------------------------------------------------
(* The theorems *)

LEMMA InitOK ==
    ASSUME Init
    PROVE  IInv
<1>1. DocInit /\ op = [k \in Kinds |-> Idle] /\ gate = [r \in Roots |-> <<>>]
  BY DEF Init
<1>2. NoEditor \in Editors /\ Formed(NoEditor)
  BY DEF NoEditor, Editors, Phases, Formed
<1>3. \A w \in Windows : win[w] = NoEditor /\ lease[w] = None /\ queue[w] = <<>>
  BY <1>1 DEF DocInit
<1>4. DocTypeOK
  <2>1. file \in [Docs -> [text: Texts, by: Windows \cup {None}]]
    BY <1>1 DEF DocInit
  <2>2. win \in [Windows -> Editors] /\ \A w \in Windows : Formed(win[w])
    BY <1>1, <1>2 DEF DocInit
  <2>3. queue \in [Windows -> Seq(Jobs)]
    BY <1>1 DEF DocInit
  <2>4. ids \in [Roots \X Docs -> Windows \cup {None}]
    BY <1>1 DEF DocInit
  <2> QED  BY <1>1, <2>1, <2>2, <2>3, <2>4 DEF DocInit, DocTypeOK
<1>5. Idle \in Ops /\ Idle.phase = "idle" /\ Idle.wait = {} /\ Idle.tokens = {}
  BY DEF Idle, Ops, OpPhases
<1>6. LockTypeOK
  BY <1>1, <1>5 DEF DocInit, LockTypeOK, RootStates
<1>7. ShownOK /\ GateOK
  BY <1>1, <1>5 DEF DocInit, ShownOK, GateOK, At
<1>8. CountOK
  BY <1>3 DEF CountOK
<1>9. WaitOK
  BY <1>1, <1>3, <1>5 DEF WaitOK
<1>10. RunOK
  BY <1>3 DEF RunOK
<1>11. TextOK
  BY <1>3 DEF TextOK, Editing, NoEditor
<1> QED  BY <1>4, <1>6, <1>7, <1>8, <1>9, <1>10, <1>11 DEF IInv, TypeOK

LEMMA DocNextKeeps ==
    ASSUME IInv, DocNext, UNCHANGED lockVars
    PROVE  IInv'
<1>1. ASSUME NEW i \in Windows, SaveStarts(i) \/ SaveRefused(i) \/ SaveWrites(i)
      PROVE  IInv'
  BY <1>1, SaveStartsKeeps, SaveRefusedKeeps, SaveWritesKeeps
<1>2. ASSUME NEW w \in Windows, NEW d \in Docs, Ask(w, d) \/ OpenPage(w, d)
      PROVE  IInv'
  BY <1>2, AskKeeps, OpenPageKeeps
<1>3. ASSUME NEW w \in Windows, OpenWindow(w) \/ OpenRefused(w) \/ WindowStarted(w)
                                \/ WindowFailed(w) \/ Load(w) \/ LoadFails(w)
      PROVE  IInv'
  BY <1>3, OpenWindowKeeps, OpenRefusedKeeps, WindowStartedKeeps, WindowFailedKeeps, LoadKeeps,
     LoadFailsKeeps
<1>4. ASSUME NEW w \in Windows, NEW t \in Texts, Edit(w, t) \/ Undo(w, t)
      PROVE  IInv'
  BY <1>4, EditKeeps
<1>5. ASSUME NEW w \in Windows, Restore(w) \/ Discard(w) \/ Draft(w) \/ Save(w)
                                \/ SaveTimesOut(w) \/ SaveAnswered(w)
      PROVE  IInv'
  BY <1>5, RestoreKeeps, DiscardKeeps, DraftKeeps, SaveKeeps, SaveTimesOutKeeps, SaveAnsweredKeeps
<1>6. ASSUME NEW w \in Windows, UserCloses(w) \/ LeavePage(w) \/ Reconcile(w)
      PROVE  IInv'
  BY <1>6, UserClosesKeeps, LeavePageKeeps, ReconcileKeeps
<1> QED  BY <1>1, <1>2, <1>3, <1>4, <1>5, <1>6 DEF DocNext, BrokerStep

LEMMA NextOK ==
    ASSUME IInv, [Next]_vars
    PROVE  IInv'
<1>1. CASE DocNext /\ UNCHANGED lockVars
  BY <1>1, DocNextKeeps
<1>2. ASSUME NEW r \in Roots, OpenRoot(r) \/ Attach(r) \/ AttachRefused(r) \/ Listed(r)
      PROVE  IInv'
  BY <1>2, UnlockKeeps
<1>3. CASE StartAuto
  BY <1>3, StartKeeps DEF StartAuto, Kinds
<1>4. ASSUME NEW strict \in BOOLEAN, StartEnd(strict)
      PROVE  IInv'
  BY <1>4, StartKeeps DEF StartEnd, Kinds
<1>5. CASE Hide \/ AskWindows \/ EndDecides \/ Evaluate
  BY <1>5, HideKeeps, AskWindowsKeeps, EndDecidesKeeps, EvaluateKeeps
<1>6. ASSUME NEW k \in Kinds, OpStep(k)
      PROVE  IInv'
  BY <1>6, SkipKeeps, FreezesKeeps, CloseWindowFailsKeeps, RevokeKeeps, RevokedKeeps, CloseKeeps,
     CloseFailsKeeps, CloseWindowKeeps DEF OpStep
<1>7. ASSUME NEW w \in Windows, WindowStep(w)
      PROVE  IInv'
  BY <1>7, PrepareKeeps, PreparedKeeps, PrepareFailsKeeps, NoAnswerKeeps DEF WindowStep
<1>8. CASE UNCHANGED vars
  <2>1. UNCHANGED <<root, dir, file, draft, lease, ids, queue, win, op, gate>>
    BY <1>8 DEF vars, docVars, lockVars
  <2>2. LeaseStep
    BY <2>1, LeasesSame DEF IInv, TypeOK
  <2> QED  BY <2>1, <2>2, NoEditors
<1> QED  BY <1>1, <1>2, <1>3, <1>4, <1>5, <1>6, <1>7, <1>8 DEF Next, HostStep

\* The inductive invariant holds in every reachable state, for any number of sessions, editors,
\* documents and texts and any bounds on what users do.
THEOREM Invariant == Spec => []IInv
<1>1. Init => IInv
  BY InitOK
<1>2. IInv /\ [Next]_vars => IInv'
  BY NextOK
<1> QED  BY <1>1, <1>2, PTL DEF Spec

\* freezeRootSessions: no lease that an operation has frozen takes calls again while it closes
\* the windows.  An operation that is given up sets free the leases of its root only, and the
\* gate lets one operation past for each root.
THEOREM Frozenness == Spec => []FrozenWhileClosing
<1>1. IInv => FrozenWhileClosing
  <2>1. SUFFICES ASSUME IInv, NEW k \in Kinds, At(k, "closing"), NEW w \in op[k].wait
                 PROVE  ~Require(w)
    BY DEF FrozenWhileClosing
  <2>2. op[k].phase = "closing" /\ w \in Windows
    BY <2>1, OpTyped DEF At, Ops
  <2>3. Held(op[k], lease[w])
    BY <2>1, <2>2 DEF IInv, WaitOK
  <2> QED  BY <2>2, <2>3 DEF Held, Require
<1> QED  BY <1>1, Invariant, PTL

\* revokeRootSessions: the native root is closed only after the last save of every lease the
\* operation revoked: a lease that is closing counts a save that is still in the queue.
THEOREM SavesDrained == Spec => []DrainedBeforeClose
<1>1. IInv => DrainedBeforeClose
  <2>1. SUFFICES ASSUME IInv, NEW k \in Kinds, At(k, "finish"), NEW w \in op[k].wait
                 PROVE  lease[w] = None
    BY DEF DrainedBeforeClose
  <2>2. op[k].phase = "finish" /\ w \in Windows
    BY <2>1, OpTyped DEF At, Ops
  <2> QED  BY <2>1, <2>2, WaitsForNone
<1> QED  BY <1>1, Invariant, PTL

\* prepareForLock: the unsaved text a window answered for stays in the draft of its document as
\* long as nobody else has that document open.
THEOREM AckedText == Spec => []AckedTextKept
<1>1. IInv => AckedTextKept
  BY DEF IInv, TextOK, Shared, AckedTextKept
<1> QED  BY <1>1, Invariant, PTL

\* The editors and the broker leave the session shown alone, and a document on disk changes
\* only when a save is written.
LEMMA DocNextFrame ==
    ASSUME DocNext
    PROVE  dir' = dir /\ (file' = file \/ \E i \in Windows : SaveWrites(i))
<1>1. ASSUME NEW i \in Windows, SaveStarts(i) \/ SaveRefused(i) \/ SaveWrites(i)
      PROVE  dir' = dir /\ (file' = file \/ SaveWrites(i))
  <2>1. CASE SaveStarts(i)
    BY <2>1 DEF SaveStarts, disk
  <2>2. CASE SaveRefused(i)
    BY <2>2 DEF SaveRefused, SaveEnds
  <2>3. CASE SaveWrites(i)
    BY <2>3 DEF SaveWrites, SaveEnds
  <2> QED  BY <1>1, <2>1, <2>2, <2>3
<1>2. ASSUME NEW w \in Windows, NEW d \in Docs, Ask(w, d) \/ OpenPage(w, d)
      PROVE  dir' = dir /\ file' = file
  BY <1>2 DEF Ask, OpenPage, disk
<1>3. ASSUME NEW w \in Windows, OpenWindow(w) \/ OpenRefused(w) \/ WindowStarted(w)
                                \/ WindowFailed(w) \/ Load(w) \/ LoadFails(w)
      PROVE  dir' = dir /\ file' = file
  BY <1>3 DEF OpenWindow, OpenRefused, WindowStarted, WindowFailed, Load, LoadFails, disk
<1>4. ASSUME NEW w \in Windows, NEW t \in Texts, Edit(w, t) \/ Undo(w, t)
      PROVE  dir' = dir /\ file' = file
  BY <1>4 DEF Edit, Undo, Retype, disk
<1>5. ASSUME NEW w \in Windows, Restore(w) \/ Discard(w) \/ Draft(w) \/ Save(w)
                                \/ SaveTimesOut(w) \/ SaveAnswered(w)
      PROVE  dir' = dir /\ file' = file
  BY <1>5 DEF Restore, Retype, Discard, Draft, Save, SaveTimesOut, SaveAnswered, disk
<1>6. ASSUME NEW w \in Windows, UserCloses(w) \/ LeavePage(w) \/ Reconcile(w)
      PROVE  dir' = dir /\ file' = file
  BY <1>6 DEF UserCloses, LeavePage, Reconcile, disk
<1> QED  BY <1>1, <1>2, <1>3, <1>4, <1>5, <1>6 DEF DocNext, BrokerStep

LEMMA FileStep ==
    ASSUME Next
    PROVE  file' = file \/ \E i \in Windows : SaveWrites(i)
<1>1. CASE DocNext
  BY <1>1, DocNextFrame
<1>2. ASSUME NEW r \in Roots, OpenRoot(r) \/ Attach(r) \/ AttachRefused(r) \/ Listed(r)
      PROVE  file' = file
  BY <1>2 DEF OpenRoot, Attach, AttachRefused, Listed, disk
<1>3. ASSUME StartAuto \/ \E strict \in BOOLEAN : StartEnd(strict)
      PROVE  file' = file
  BY <1>3 DEF StartAuto, StartEnd, Start, disk
<1>4. ASSUME Hide \/ AskWindows \/ EndDecides \/ Evaluate
      PROVE  file' = file
  BY <1>4 DEF Hide, AskWindows, EndDecides, Evaluate, Freeze, Abort, docVars, disk
<1>5. ASSUME NEW k \in Kinds, OpStep(k)
      PROVE  file' = file
  BY <1>5 DEF OpStep, Skip, Freezes, CloseWindowFails, Revoke, Revoked, Close, CloseFails, GiveUp,
     CloseWindow, Abort, docVars, disk
<1>6. ASSUME NEW w \in Windows, WindowStep(w)
      PROVE  file' = file
  BY <1>6 DEF WindowStep, Prepare, Prepared, PrepareFails, NoAnswer, docVars, disk
<1> QED  BY <1>1, <1>2, <1>3, <1>4, <1>5, <1>6 DEF Next, HostStep

\* DocumentSessionBroker: a save never replaces a text written through its own document id that
\* its editor has not seen.
THEOREM Overwrites == Spec => NoSilentOverwrite
<1> DEFINE Seen(i, d) ==
        file'[d] # file[d] /\ file'[d].by = i =>
            \/ file[d].by # i
            \/ \E n \in DOMAIN queue[i] :
                /\ queue[i][n].running /\ file'[d].text = queue[i][n].text
                /\ file[d].text = lease[queue[i][n].win].base
<1>1. ASSUME IInv, [Next]_vars, NEW i \in Windows, NEW d \in Docs,
             file'[d] # file[d], file'[d].by = i, file[d].by = i
      PROVE  \E n \in DOMAIN queue[i] :
                /\ queue[i][n].running /\ file'[d].text = queue[i][n].text
                /\ file[d].text = lease[queue[i][n].win].base
  <2>1. DocTypeOK /\ CountOK /\ RunOK
    BY <1>1 DEF IInv, TypeOK
  <2>2. file' # file
    BY <1>1
  <2>3. Next
    BY <1>1, <2>2 DEF vars, docVars
  <2>4. PICK q \in Windows : SaveWrites(q)
    BY <2>2, <2>3, FileStep
  <2>5. 1 \in DOMAIN queue[q]
    BY <2>4 DEF SaveWrites, NextOf
  <2>6. PICK j \in Jobs : j = queue[q][1]
    BY <2>1, <2>5, JobTyped
  <2>7. PICK w \in Windows : w = j.win
    BY DEF Jobs
  <2>8. PICK l : l = lease[w]
    OBVIOUS
  <2>9. j.running /\ file' = [file EXCEPT ![l.doc] = [text |-> j.text, by |-> q]]
    BY <2>2, <2>4, <2>6, <2>7, <2>8 DEF SaveWrites, NextOf
  <2>10. lease[w] # None
    BY <2>1, <2>5, <2>6, <2>7 DEF CountOK
  <2>11. l.doc \in Docs
    BY <2>1, <2>8, <2>10, LeaseTyped DEF Leases
  <2>12. file \in [Docs -> [text: Texts, by: Windows \cup {None}]]
    BY <2>1 DEF DocTypeOK
  <2>13. d = l.doc /\ file'[d] = [text |-> j.text, by |-> q]
    BY <1>1, <2>9, <2>11, <2>12
  <2>14. q = i /\ file'[d].text = j.text
    BY <1>1, <2>13
  <2>15. file[d].text = l.base
    BY <1>1, <2>1, <2>5, <2>6, <2>7, <2>8, <2>9, <2>13, <2>14 DEF RunOK
  <2> QED  BY <2>5, <2>6, <2>7, <2>8, <2>9, <2>14, <2>15
<1>2. IInv /\ [Next]_vars => [\A i \in Windows, d \in Docs : Seen(i, d)]_vars
  BY <1>1
<1> QED  BY <1>2, Invariant, PTL DEF Spec, NoSilentOverwrite

\* isCurrentDirectorySession: only an operation started for the session shown takes it away; an
\* unlock that ends later finds the directory without a session.
THEOREM OwnSession == Spec => OnlyOwnSessionHidden
<1>1. ASSUME IInv, [Next]_vars, dir # None, dir' # dir
      PROVE  \E k \in Kinds : Mine(k) = dir
  <2>1. Next
    BY <1>1 DEF vars, docVars
  <2>2. CASE DocNext
    BY <1>1, <2>2, DocNextFrame
  <2>3. ASSUME NEW r \in Roots, OpenRoot(r) \/ Attach(r) \/ AttachRefused(r) \/ Listed(r)
        PROVE  FALSE
    BY <1>1, <2>3 DEF OpenRoot, Attach, AttachRefused, Listed, IInv, ShownOK
  <2>4. ASSUME StartAuto \/ \E strict \in BOOLEAN : StartEnd(strict)
        PROVE  FALSE
    BY <1>1, <2>4 DEF StartAuto, StartEnd, Start
  <2>5. CASE Hide \/ AskWindows \/ EndDecides \/ Evaluate
    BY <1>1, <2>5 DEF Hide, AskWindows, EndDecides, Evaluate, Freeze, Abort, docVars, Kinds
  <2>6. ASSUME NEW k \in Kinds, OpStep(k)
        PROVE  Mine(k) = dir
    BY <1>1, <2>6 DEF OpStep, Skip, Freezes, CloseWindowFails, Revoke, Revoked, Close, StillMine,
       CloseFails, GiveUp, CloseWindow, Abort, docVars
  <2>7. ASSUME NEW w \in Windows, WindowStep(w)
        PROVE  FALSE
    BY <1>1, <2>7 DEF WindowStep, Prepare, Prepared, PrepareFails, NoAnswer, docVars
  <2> QED  BY <2>1, <2>2, <2>3, <2>4, <2>5, <2>6, <2>7 DEF Next, HostStep
<1>2. IInv /\ [Next]_vars => [dir # None /\ dir' # dir => \E k \in Kinds : Mine(k) = dir]_vars
  BY <1>1
<1> QED  BY <1>2, Invariant, PTL DEF Spec, OnlyOwnSessionHidden

=============================================================================
