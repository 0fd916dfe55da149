--------------------------- MODULE HandlesProofs ---------------------------
(* Proofs about Handles, for any threads, roots, files, cursors, names of    *)
(* operations and bounds.                                                    *)
EXTENDS Handles, TLAPS

-----------------------------------------------------------------------------
(* The inductive invariant *)

\* The places a call of each kind comes through.
Flow == [none      |-> {"idle", "cancel"},
         stat      |-> {"lock", "check", "using"},
         rename    |-> {"lock", "drain", "check", "using"},
         open      |-> {"lock", "check", "again", "using"},
         openFile  |-> {"lock", "check", "using", "addFile"},
         readDir   |-> {"lock", "check", "using", "walk"},
         quick     |-> {"lock", "check", "using", "quick"},
         cursor    |-> {"latch", "lock", "check", "using", "addCursor", "unlatch"},
         closeRoot |-> {"latch", "take", "closeTaken", "lock", "drain", "check", "unlist", "unlatch"},
         transfer  |-> {"run", "held", "lock", "check", "using", "release", "runEnd"},
         io        |-> {"io", "data"},
         close     |-> {"close", "removeFile"},
         page      |-> {"page", "next", "drop", "closeCursor"},
         drop      |-> {"drop", "closeCursor"}]

Pcs == {"idle", "cancel", "lock", "drain", "check", "again", "using", "addFile", "walk", "quick",
        "latch", "addCursor", "unlatch", "take", "closeTaken", "unlist", "run", "held",
        "release", "runEnd", "io", "data", "close", "removeFile", "page", "next", "drop",
        "closeCursor"}

CallSet == [pc : Pcs, op : DOMAIN Flow, r : Roots, f : Files \cup {NoCall.f},
            c : Cursors \cup {NoCall.c}, id : OpIds \cup {NoCall.id},
            todo : SUBSET (Cursors \cup (Procs \X Nat)), ticket : Nat, cancelled : BOOLEAN]

RootSet == [known : BOOLEAN, listed : BOOLEAN, closed : BOOLEAN,
            writer : Procs \cup {NoProc}, reads : [Procs -> Nat]]

CursorSet == [known : BOOLEAN, listed : BOOLEAN, open : BOOLEAN, root : Roots,
              by : Procs \cup {NoProc}]

TypeOK ==
    /\ call \in [Procs -> CallSet]
    /\ root \in [Roots -> RootSet]
    /\ cursor \in [Cursors -> CursorSet]
    /\ lifecycle \in Procs \cup {NoProc}
    /\ running \in [OpIds -> Procs \cup {NoProc}]
    /\ calls \in Nat

FlowOK == \A p \in Procs : call[p].pc \in Flow[call[p].op]

\* The RWMutex: who has it is at the places that hold it, and nowhere else, and a
\* writer past its wait is alone.
Holding == {"check", "using", "again"}

LockInv ==
    \A r \in Roots, p \in Procs :
        /\ root[r].writer = p <=>
              call[p].r = r /\ Writes(p) /\ call[p].pc \in Holding \cup {"drain"}
        /\ root[r].reads[p] > 0 <=>
              call[p].r = r /\ ~Writes(p) /\ call[p].pc \in Holding
        /\ root[r].writer = p /\ call[p].pc # "drain" => \A q \in Procs : root[r].reads[q] = 0

\* A method past its check has found the root open.
OpenInv == \A p \in Procs : call[p].pc \in {"using", "again"} => ~root[call[p].r].closed

\* Opening a cursor and closing a root exclude each other.
Latched(p) == call[p].op \in {"cursor", "closeRoot"} /\ call[p].pc # "latch"

LatchInv == \A p \in Procs : Latched(p) => lifecycle = p

\* Nobody gets at a cursor that is about to be closed, and a root is closed after
\* its cursors were taken from the store.
CursorInv ==
    /\ \A c \in Cursors : cursor[c].listed => cursor[c].known
    /\ \A p \in Procs :
         LET k == call[p] IN
         /\ k.op \in {"page", "drop"} => k.c \in Cursors /\ cursor[k.c].known
         /\ k.pc = "closeCursor" => ~cursor[k.c].listed
         /\ k.pc = "closeTaken" =>
               \A c \in k.todo : c \in Cursors /\ cursor[c].known /\ ~cursor[c].listed
         /\ k.pc = "addCursor" => ~root[k.r].closed
         /\ k.op = "closeRoot" /\ k.pc \in {"closeTaken", "lock", "drain", "check"} =>
               \A c \in Cursors : cursor[c].listed => cursor[c].root # k.r

\* A cancellation in progress was recorded.
AskInv == \A p \in Procs : call[p].pc = "cancel" => \A x \in call[p].todo : x[2] \in asked

IInv == /\ TypeOK /\ FlowOK /\ LockInv /\ OpenInv /\ LatchInv /\ CursorInv /\ AskInv
        /\ ListedCursorsLive /\ CancelledWereAsked

-----------------------------------------------------------------------------
(* Calls *)

(* The call of an idle thread. *)
LEMMA NoCallFields ==
    /\ NoCall \in CallSet /\ NoCall.pc = "idle" /\ NoCall.op = "none"
    /\ NoCall.todo = {} /\ NoCall.cancelled = FALSE
<1>1. (CHOOSE r \in Roots : TRUE) \in Roots
  BY HandlesAssumption
<1> DEFINE r0 == CHOOSE r \in Roots : TRUE
           f0 == CHOOSE f \in Files : TRUE
           c0 == CHOOSE c \in Cursors : TRUE
           i0 == CHOOSE i \in OpIds : TRUE
<1>2. NoCall = [pc |-> "idle", op |-> "none", r |-> r0, f |-> f0, c |-> c0, id |-> i0,
                todo |-> {}, ticket |-> 0, cancelled |-> FALSE]
  BY DEF NoCall
<1>3. r0 \in Roots
  BY <1>1
<1> HIDE DEF r0, f0, c0, i0
<1>4. NoCall.f = f0 /\ NoCall.c = c0 /\ NoCall.id = i0
  BY <1>2
<1>5. "none" \in DOMAIN Flow
  BY DEF Flow
<1>6. NoCall.f \in Files \cup {f0} /\ NoCall.c \in Cursors \cup {c0} /\ NoCall.id \in OpIds \cup {i0}
  BY <1>4
<1>7. NoCall \in [pc : Pcs, op : DOMAIN Flow, r : Roots, f : Files \cup {f0},
                  c : Cursors \cup {c0}, id : OpIds \cup {i0},
                  todo : SUBSET (Cursors \cup (Procs \X Nat)), ticket : Nat, cancelled : BOOLEAN]
  <2>1. "idle" \in Pcs
    BY DEF Pcs
  <2>2. f0 \in Files \cup {f0} /\ c0 \in Cursors \cup {c0} /\ i0 \in OpIds \cup {i0}
    OBVIOUS
  <2>3. {} \in SUBSET (Cursors \cup (Procs \X Nat))
    OBVIOUS
  <2> QED
    BY <1>2, <1>3, <1>5, <2>1, <2>2, <2>3
<1> QED
  BY <1>2, <1>4, <1>7 DEF CallSet

(* Going on changes the place in the call, and nothing else of it. *)
LEMMA GoesCall ==
    ASSUME TypeOK, NEW p \in Procs, NEW l \in Pcs, Goes(p, l)
    PROVE  /\ call' \in [Procs -> CallSet]
           /\ call'[p].pc = l /\ call'[p].op = call[p].op /\ call'[p].r = call[p].r
           /\ call'[p].c = call[p].c /\ call'[p].todo = call[p].todo
           /\ call'[p].ticket = call[p].ticket /\ call'[p].cancelled = call[p].cancelled
           /\ \A q \in Procs : q # p => call'[q] = call[q]
BY DEF TypeOK, Goes, CallSet

(* Returning leaves the thread idle. *)
LEMMA ReturnsCall ==
    ASSUME TypeOK, NEW p \in Procs, Returns(p)
    PROVE  /\ call' \in [Procs -> CallSet]
           /\ call'[p].pc = "idle" /\ call'[p].op = "none"
           /\ call'[p].todo = {} /\ call'[p].cancelled = FALSE
           /\ \A q \in Procs : q # p => call'[q] = call[q]
BY NoCallFields DEF TypeOK, Returns

(* A call starts in a thread that has none; it is not cancelled. *)
LEMMA StartsCall ==
    ASSUME TypeOK, NEW p \in Procs, NEW k \in CallSet, Starts(p, k)
    PROVE  /\ call' \in [Procs -> CallSet] /\ calls' \in Nat
           /\ call'[p].pc = k.pc /\ call'[p].op = k.op /\ call'[p].r = k.r
           /\ call'[p].c = k.c /\ call'[p].todo = k.todo
           /\ call'[p].cancelled = k.cancelled
           /\ \A q \in Procs : q # p => call'[q] = call[q]
           /\ call[p].pc = "idle"
<1> DEFINE k1 == [k EXCEPT !.ticket = calls']
<1>1. calls' \in Nat /\ call[p].pc = "idle" /\ call' = [call EXCEPT ![p] = k1]
  BY DEF TypeOK, Starts, At
<1>2. /\ k1 \in CallSet /\ k1.pc = k.pc /\ k1.op = k.op /\ k1.r = k.r /\ k1.c = k.c
      /\ k1.todo = k.todo /\ k1.cancelled = k.cancelled
  <2>1. ASSUME NEW n \in Nat
        PROVE  LET j == [k EXCEPT !.ticket = n] IN
               /\ j \in CallSet /\ j.pc = k.pc /\ j.op = k.op /\ j.r = k.r /\ j.c = k.c
               /\ j.todo = k.todo /\ j.cancelled = k.cancelled
    BY DEF CallSet
  <2> QED
    BY <1>1, <2>1
<1> HIDE DEF k1
<1> QED
  BY <1>1, <1>2 DEF TypeOK

-----------------------------------------------------------------------------
(* What most steps have in common *)

\* Only p's call changes.
Alone(p) == /\ call' \in [Procs -> CallSet]
            /\ \A q \in Procs : q # p => call'[q] = call[q]

\* No root is closed, no cursor opened, closed, listed or dropped.
RootsStay == \A r \in Roots : root'[r].closed = root[r].closed
CursorsStay == \A c \in Cursors : /\ cursor'[c].listed = cursor[c].listed
                                  /\ cursor'[c].known = cursor[c].known
                                  /\ cursor'[c].open = cursor[c].open
                                  /\ cursor'[c].root = cursor[c].root
LocksStay == \A r \in Roots : root'[r].writer = root[r].writer /\ root'[r].reads = root[r].reads

\* What the invariant asks of the place p comes to.
ArrivalOK(p) ==
    LET k == call'[p] IN
    /\ k.pc \in Flow[k.op]
    /\ k.op \in {"page", "drop"} => k.c \in Cursors /\ cursor[k.c].known
    /\ k.pc \notin {"closeCursor", "closeTaken", "addCursor"}
    /\ k.op = "closeRoot" /\ k.pc \in {"lock", "drain", "check"} =>
           /\ call[p].op = "closeRoot" /\ call[p].r = k.r
           /\ call[p].pc \in {"closeTaken", "lock", "drain", "check"}
    /\ k.pc = "cancel" => \A x \in k.todo : x[2] \in asked'
    /\ k.cancelled => call[p].cancelled /\ k.ticket = call[p].ticket

(* The cursors' part of the invariant, when roots and cursors stay as they are. *)
LEMMA CursorsKept ==
    ASSUME IInv, NEW p \in Procs, Alone(p), RootsStay, CursorsStay, ArrivalOK(p)
    PROVE  CursorInv' /\ ListedCursorsLive'
<1>1. /\ \A c \in Cursors : cursor'[c].listed => cursor'[c].known
      /\ ListedCursorsLive'
  BY DEF IInv, CursorInv, ListedCursorsLive, RootsStay, CursorsStay, TypeOK, CursorSet
<1>2. ASSUME NEW q \in Procs, q # p
      PROVE  LET k == call'[q] IN
             /\ k.op \in {"page", "drop"} => k.c \in Cursors /\ cursor'[k.c].known
             /\ k.pc = "closeCursor" => ~cursor'[k.c].listed
             /\ k.pc = "closeTaken" =>
                   \A c \in k.todo : c \in Cursors /\ cursor'[c].known /\ ~cursor'[c].listed
             /\ k.pc = "addCursor" => ~root'[k.r].closed
             /\ k.op = "closeRoot" /\ k.pc \in {"closeTaken", "lock", "drain", "check"} =>
                   \A c \in Cursors : cursor'[c].listed => cursor'[c].root # k.r
  <2>1. call'[q] = call[q] /\ call[q] \in CallSet /\ call[q].r \in Roots /\ call[q].pc \in Flow[call[q].op]
    BY <1>2 DEF Alone, IInv, TypeOK, CallSet, FlowOK
  <2>2. call[q].pc = "closeCursor" => call[q].op \in {"page", "drop"}
    BY <2>1 DEF Flow, CallSet
  <2> QED
    BY <2>1, <2>2, <1>2 DEF IInv, CursorInv, RootsStay, CursorsStay
<1>3. LET k == call'[p] IN
             /\ k.op \in {"page", "drop"} => k.c \in Cursors /\ cursor'[k.c].known
             /\ k.pc \notin {"closeCursor", "closeTaken", "addCursor"}
             /\ k.op = "closeRoot" /\ k.pc \in {"closeTaken", "lock", "drain", "check"} =>
                   \A c \in Cursors : cursor'[c].listed => cursor'[c].root # k.r
  BY DEF IInv, CursorInv, CursorsStay, ArrivalOK
<1> QED
  BY <1>1, <1>2, <1>3 DEF CursorInv

(* A step that closes no root and touches no cursor: what is left to show. *)
LEMMA StepInv ==
    ASSUME IInv, NEW p \in Procs, Alone(p), RootsStay, CursorsStay, ArrivalOK(p),
           root' \in [Roots -> RootSet], cursor' \in [Cursors -> CursorSet],
           lifecycle' \in Procs \cup {NoProc}, running' \in [OpIds -> Procs \cup {NoProc}],
           calls' \in Nat, asked \subseteq asked',
           LockInv', OpenInv', LatchInv'
    PROVE  IInv'
<1>1. TypeOK'
  BY DEF TypeOK, Alone
<1>2. FlowOK'
  BY DEF IInv, FlowOK, Alone, ArrivalOK
<1>3. CursorInv' /\ ListedCursorsLive'
  BY CursorsKept
<1>4. AskInv'
  BY DEF IInv, AskInv, Alone, ArrivalOK
<1>5. CancelledWereAsked'
  BY DEF IInv, CancelledWereAsked, Alone, ArrivalOK
<1> QED
  BY <1>1, <1>2, <1>3, <1>4, <1>5 DEF IInv

(* A step outside the sections leaves their part of the invariant alone. *)
LEMMA OutsideInv ==
    ASSUME IInv, NEW p \in Procs, Alone(p), RootsStay, LocksStay,
           call[p].pc \notin Holding \cup {"drain"}, call'[p].pc \notin Holding \cup {"drain"}
    PROVE  LockInv' /\ OpenInv'
<1>1. \A q \in Procs : /\ call'[q].pc \in Holding \cup {"drain"} => call'[q] = call[q]
                       /\ call[q].pc \in Holding \cup {"drain"} => call'[q] = call[q]
                       /\ call[q].r \in Roots
  BY DEF Alone, IInv, TypeOK, CallSet
<1>2. LockInv'
  BY <1>1 DEF IInv, LockInv, LocksStay, Writes, Holding
<1>3. OpenInv'
  BY <1>1 DEF IInv, OpenInv, RootsStay, Holding
<1> QED
  BY <1>2, <1>3

-----------------------------------------------------------------------------
(* Steps outside the sections *)

(* A call that ends outside the sections, whatever else it changes of files,
   names and lock files. *)
LEMMA EndsOutside ==
    ASSUME IInv, NEW p \in Procs, Returns(p), call[p].pc \notin Holding \cup {"drain"},
           UNCHANGED <<root, lifecycle, cursor, calls, asked>>,
           running' \in [OpIds -> Procs \cup {NoProc}]
    PROVE  IInv'
<1>1. /\ Alone(p) /\ call'[p].pc = "idle" /\ call'[p].op = "none" /\ ~call'[p].cancelled
  BY ReturnsCall DEF Alone, IInv
<1>2. RootsStay /\ CursorsStay /\ LocksStay
  BY DEF RootsStay, CursorsStay, LocksStay
<1>3. ArrivalOK(p)
  BY <1>1 DEF ArrivalOK, Flow
<1>4. LockInv' /\ OpenInv'
  BY <1>1, <1>2, OutsideInv DEF Holding
<1>5. LatchInv'
  BY <1>1 DEF IInv, LatchInv, Latched, Alone
<1> QED
  BY <1>1, <1>2, <1>3, <1>4, <1>5, StepInv DEF IInv, TypeOK

(* A call that goes on outside the sections, towards no closing. *)
LEMMA GoesOnOutside ==
    ASSUME IInv, NEW p \in Procs, NEW l \in Pcs, Goes(p, l),
           call[p].pc \notin Holding \cup {"drain", "latch"}, l \notin Holding \cup {"drain"},
           l \in Flow[call[p].op],
           l \notin {"closeCursor", "closeTaken", "addCursor", "cancel"},
           call[p].op = "closeRoot" => l # "lock",
           RootsStay, LocksStay, CursorsStay,
           root' \in [Roots -> RootSet], cursor' \in [Cursors -> CursorSet],
           UNCHANGED <<lifecycle, running, calls, asked>>
    PROVE  IInv'
<1>1. /\ Alone(p) /\ call'[p].pc = l /\ call'[p].op = call[p].op /\ call'[p].r = call[p].r
      /\ call'[p].c = call[p].c
      /\ call'[p].ticket = call[p].ticket /\ call'[p].cancelled = call[p].cancelled
  BY GoesCall DEF Alone, IInv
<1>3. ArrivalOK(p)
  BY <1>1 DEF ArrivalOK, IInv, CursorInv, Holding
<1>4. LockInv' /\ OpenInv'
  BY <1>1, OutsideInv
<1>5. LatchInv'
  BY <1>1 DEF IInv, LatchInv, Latched, Alone
<1> QED
  BY <1>1, <1>3, <1>4, <1>5, StepInv DEF IInv, TypeOK

(* A call that starts, at a place outside the sections. *)
LEMMA StartsOutside ==
    ASSUME IInv, NEW p \in Procs, NEW k \in CallSet, Starts(p, k),
           k.pc \notin Holding \cup {"drain"}, k.pc \in Flow[k.op],
           k.pc \notin {"closeCursor", "closeTaken", "addCursor"},
           k.op \in {"cursor", "closeRoot"} => k.pc = "latch",
           k.op \in {"page", "drop"} => k.c \in Cursors /\ cursor[k.c].known,
           k.pc = "cancel" => \A x \in k.todo : x[2] \in asked',
           ~k.cancelled,
           RootsStay, LocksStay, root' \in [Roots -> RootSet],
           UNCHANGED <<lifecycle, cursor>>, asked \subseteq asked',
           running' \in [OpIds -> Procs \cup {NoProc}]
    PROVE  IInv'
<1>1. /\ Alone(p) /\ call'[p].pc = k.pc /\ call'[p].op = k.op /\ call'[p].c = k.c
      /\ call'[p].todo = k.todo /\ ~call'[p].cancelled /\ call[p].pc = "idle" /\ calls' \in Nat
  BY StartsCall DEF Alone, IInv
<1>2. CursorsStay
  BY DEF CursorsStay
<1>3. ArrivalOK(p)
  BY <1>1 DEF ArrivalOK
<1>4. LockInv' /\ OpenInv'
  BY <1>1, OutsideInv DEF Holding
<1>5. LatchInv'
  BY <1>1 DEF IInv, LatchInv, Latched, Alone
<1> QED
  BY <1>1, <1>2, <1>3, <1>4, <1>5, StepInv DEF IInv, TypeOK

-----------------------------------------------------------------------------
(* One lemma per action: new calls *)

(* OpenRoot keeps the invariant. *)
LEMMA OpenRootInv == ASSUME IInv, NEW p \in Procs, NEW r \in Roots, OpenRoot(p, r) PROVE IInv'
<1>1. /\ RootsStay /\ LocksStay /\ root' \in [Roots -> RootSet]
  BY DEF OpenRoot, RootsStay, LocksStay, IInv, TypeOK, RootSet
<1> QED
  BY <1>1, NoCallFields, StartsOutside DEF OpenRoot, Holding, Flow, IInv, TypeOK

(* RootCall keeps the invariant. *)
LEMMA RootCallInv ==
    ASSUME IInv, NEW p \in Procs, NEW r \in Roots, NEW op \in RootOps, RootCall(p, r, op)
    PROVE  IInv'
<1> DEFINE k == [NoCall EXCEPT !.pc = "lock", !.op = op, !.r = r]
<1>1. op \in AllRootOps /\ op \in DOMAIN Flow
  BY HandlesAssumption DEF AllRootOps, Flow
<1>2. k \in CallSet /\ k.pc = "lock" /\ k.op = op /\ ~k.cancelled
  BY <1>1, NoCallFields DEF CallSet, Pcs
<1>3. Starts(p, k) /\ UNCHANGED <<root, lifecycle, cursor, running, asked>>
  BY DEF RootCall
<1> HIDE DEF k
<1>4. k.pc \in Flow[k.op]
  BY <1>1, <1>2 DEF Flow, AllRootOps
<1>5. RootsStay /\ LocksStay
  BY <1>3 DEF RootsStay, LocksStay
<1> QED
  BY <1>1, <1>2, <1>3, <1>4, <1>5, StartsOutside DEF Holding, AllRootOps, IInv, TypeOK

(* LifecycleCall keeps the invariant. *)
LEMMA LifecycleCallInv ==
    ASSUME IInv, NEW p \in Procs, NEW r \in Roots, NEW op \in {"cursor", "closeRoot"},
           LifecycleCall(p, r, op)
    PROVE  IInv'
<1> DEFINE k == [NoCall EXCEPT !.pc = "latch", !.op = op, !.r = r]
<1>1. op \in DOMAIN Flow
  BY DEF Flow
<1>2. k \in CallSet /\ k.pc = "latch" /\ k.op = op /\ ~k.cancelled
  BY <1>1, NoCallFields DEF CallSet, Pcs
<1>3. Starts(p, k) /\ UNCHANGED <<root, lifecycle, cursor, running, asked>>
  BY DEF LifecycleCall
<1> HIDE DEF k
<1>4. k.pc \in Flow[k.op]
  BY <1>1, <1>2 DEF Flow
<1>5. RootsStay /\ LocksStay
  BY <1>3 DEF RootsStay, LocksStay
<1> QED
  BY <1>1, <1>2, <1>3, <1>4, <1>5, StartsOutside DEF Holding, IInv, TypeOK

(* RunCall keeps the invariant. *)
LEMMA RunCallInv == ASSUME IInv, NEW p \in Procs, NEW r \in Roots, RunCall(p, r) PROVE IInv'
<1> DEFINE free == {i \in OpIds : running[i] = NoProc}
           i == CHOOSE i \in free : TRUE
           k == [NoCall EXCEPT !.pc = "run", !.op = "transfer", !.r = r, !.id = i]
<1>1. free # {} /\ Starts(p, k) /\ running' = [running EXCEPT ![i] = p]
      /\ UNCHANGED <<root, lifecycle, cursor, asked>>
  BY DEF RunCall
<1>2. i \in OpIds
  BY <1>1
<1>3. "transfer" \in DOMAIN Flow /\ "run" \in Flow["transfer"]
  BY DEF Flow
<1> HIDE DEF i
<1>4. k \in CallSet /\ k.pc = "run" /\ k.op = "transfer" /\ ~k.cancelled
  BY <1>2, <1>3, NoCallFields DEF CallSet, Pcs
<1> HIDE DEF k
<1>5. RootsStay /\ LocksStay
  BY <1>1 DEF RootsStay, LocksStay
<1>6. running' \in [OpIds -> Procs \cup {NoProc}]
  BY <1>1 DEF IInv, TypeOK
<1> QED
  BY <1>1, <1>3, <1>4, <1>5, <1>6, StartsOutside DEF Holding, IInv, TypeOK

(* FileCall keeps the invariant. *)
LEMMA FileCallInv ==
    ASSUME IInv, NEW p \in Procs, NEW f \in Files, NEW op \in {"io", "close"}, FileCall(p, f, op)
    PROVE  IInv'
<1> DEFINE k == [NoCall EXCEPT !.pc = op, !.op = op, !.f = f]
<1>1. op \in DOMAIN Flow /\ op \in Flow[op] /\ op \in Pcs
  BY DEF Flow, Pcs
<1>2. k \in CallSet /\ k.pc = op /\ k.op = op /\ ~k.cancelled
  BY <1>1, NoCallFields DEF CallSet
<1>3. Starts(p, k) /\ UNCHANGED <<root, lifecycle, cursor, running, asked>>
  BY DEF FileCall
<1> HIDE DEF k
<1>5. RootsStay /\ LocksStay
  BY <1>3 DEF RootsStay, LocksStay
<1> QED
  BY <1>1, <1>2, <1>3, <1>5, StartsOutside DEF Holding, IInv, TypeOK

(* CursorCall keeps the invariant. *)
LEMMA CursorCallInv ==
    ASSUME IInv, NEW p \in Procs, NEW c \in Cursors, NEW op \in {"page", "drop"}, CursorCall(p, c, op)
    PROVE  IInv'
<1> DEFINE k == [NoCall EXCEPT !.pc = op, !.op = op, !.c = c]
<1>1. op \in DOMAIN Flow /\ op \in Flow[op] /\ op \in Pcs
  BY DEF Flow, Pcs
<1>2. k \in CallSet /\ k.pc = op /\ k.op = op /\ k.c = c /\ ~k.cancelled
  BY <1>1, NoCallFields DEF CallSet
<1>3. Starts(p, k) /\ UNCHANGED <<root, lifecycle, cursor, running, asked>> /\ cursor[c].known
  BY DEF CursorCall, IInv, CursorInv
<1> HIDE DEF k
<1>5. RootsStay /\ LocksStay
  BY <1>3 DEF RootsStay, LocksStay
<1> QED
  BY <1>1, <1>2, <1>3, <1>5, StartsOutside DEF Holding, IInv, TypeOK

(* CancelCall keeps the invariant: what it found is recorded. *)
LEMMA CancelCallInv == ASSUME IInv, NEW p \in Procs, NEW i \in OpIds, CancelCall(p, i) PROVE IInv'
<1> DEFINE t == call[running[i]].ticket
           x == <<running[i], t>>
           k == [NoCall EXCEPT !.pc = "cancel", !.id = i, !.todo = {x}]
<1>1. running[i] \in Procs /\ call[running[i]] \in CallSet
  BY DEF CancelCall, IInv, TypeOK
<1>2. t \in Nat
  BY <1>1 DEF CallSet
<1>3. Starts(p, k) /\ asked' = asked \cup {t} /\ UNCHANGED <<root, lifecycle, cursor, running>>
  BY DEF CancelCall
<1> HIDE DEF t
<1>4. x \in Procs \X Nat /\ x[2] \in asked'
  BY <1>1, <1>2, <1>3
<1> HIDE DEF x
<1>5. k \in CallSet /\ k.pc = "cancel" /\ k.op = "none" /\ ~k.cancelled /\ k.todo = {x}
  BY <1>4, NoCallFields DEF CallSet, Pcs
<1> HIDE DEF k
<1>6. k.pc \in Flow[k.op]
  BY <1>5 DEF Flow
<1>7. RootsStay /\ LocksStay
  BY <1>3 DEF RootsStay, LocksStay
<1> QED
  BY <1>3, <1>4, <1>5, <1>6, <1>7, StartsOutside DEF Holding, IInv, TypeOK

-----------------------------------------------------------------------------
(* One lemma per action: steps outside the sections *)

(* Where a step outside the sections may be. *)
LEMMA StepFacts ==
    ASSUME IInv, NEW p \in Procs
    PROVE  /\ TypeOK /\ call[p] \in CallSet /\ call[p].r \in Roots /\ call[p].op \in DOMAIN Flow
           /\ call[p].pc \in Flow[call[p].op] /\ p # NoProc
           /\ root \in [Roots -> RootSet] /\ cursor \in [Cursors -> CursorSet]
           /\ running \in [OpIds -> Procs \cup {NoProc}]
BY HandlesAssumption DEF IInv, TypeOK, FlowOK, CallSet

(* The last steps of methods that work without the root's lock. *)
LEMMA EndingsInv ==
    ASSUME IInv, NEW p \in Procs,
           Walk(p) \/ AddFile(p) \/ FileData(p) \/ RemoveFile(p) \/ RunEnd(p)
    PROVE  IInv'
<1>1. Returns(p) /\ UNCHANGED <<root, lifecycle, cursor, calls, asked>>
      /\ call[p].pc \notin Holding \cup {"drain"}
  BY DEF Walk, AddFile, FileData, RemoveFile, RunEnd, At, Holding
<1>2. running' \in [OpIds -> Procs \cup {NoProc}]
  BY StepFacts DEF Walk, AddFile, FileData, RemoveFile, RunEnd
<1> QED
  BY <1>1, <1>2, EndsOutside

(* A step that leaves roots and cursors alone lets them stay. *)
LEMMA NothingMoves ==
    ASSUME IInv, UNCHANGED <<root, cursor>>
    PROVE  /\ RootsStay /\ LocksStay /\ CursorsStay
           /\ root' \in [Roots -> RootSet] /\ cursor' \in [Cursors -> CursorSet]
BY DEF RootsStay, LocksStay, CursorsStay, IInv, TypeOK

(* FileIo and FileClose keep the invariant. *)
LEMMA FileStepsInv == ASSUME IInv, NEW p \in Procs, FileIo(p) \/ FileClose(p) PROVE IInv'
<1>1. /\ UNCHANGED <<root, lifecycle, cursor, running, calls, asked>>
      /\ call[p].pc \in {"io", "close"}
      /\ \/ Returns(p)
         \/ call[p].pc = "io" /\ Goes(p, "data")
         \/ call[p].pc = "close" /\ Goes(p, "removeFile")
  BY DEF FileIo, FileClose, At
<1>2. call[p].pc = "io" => call[p].op = "io"
  BY <1>1, StepFacts DEF Flow
<1>3. call[p].pc = "close" => call[p].op = "close"
  BY <1>1, StepFacts DEF Flow
<1>4. CASE Returns(p)
  BY <1>1, <1>4, StepFacts, EndsOutside DEF Holding
<1>5. CASE call[p].pc = "io" /\ Goes(p, "data")
  BY <1>1, <1>2, <1>5, NothingMoves, GoesOnOutside DEF Holding, Flow, Pcs
<1>6. CASE call[p].pc = "close" /\ Goes(p, "removeFile")
  BY <1>1, <1>3, <1>6, NothingMoves, GoesOnOutside DEF Holding, Flow, Pcs
<1> QED
  BY <1>1, <1>4, <1>5, <1>6

(* The steps of a transfer around its lock file keep the invariant. *)
LEMMA TransferStepsInv ==
    ASSUME IInv, NEW p \in Procs,
           OperationLock(p) \/ OperationGivesUp(p) \/ Run(p) \/ Release(p)
    PROVE  IInv'
<1>1. /\ UNCHANGED <<root, lifecycle, cursor, running, calls, asked>>
      /\ call[p].pc \in {"run", "held", "release"}
      /\ \E l \in {"held", "runEnd", "release", "lock"} : Goes(p, l)
  BY DEF OperationLock, OperationGivesUp, Run, Release, At
<1>2. call[p].op = "transfer"
  BY <1>1, StepFacts DEF Flow
<1>3. PICK l \in {"held", "runEnd", "release", "lock"} : Goes(p, l)
  BY <1>1
<1>4. l \in Pcs /\ l \in Flow[call[p].op]
  BY <1>2 DEF Flow, Pcs
<1> QED
  BY <1>1, <1>2, <1>3, <1>4, NothingMoves, GoesOnOutside DEF Holding

(* Page and NextPage keep the invariant. *)
LEMMA PageInv == ASSUME IInv, NEW p \in Procs, Page(p) \/ NextPage(p) PROVE IInv'
<1>1. /\ UNCHANGED <<root, lifecycle, running, calls, asked>>
      /\ call[p].pc \in {"page", "next"}
      /\ Returns(p) \/ \E l \in {"next", "drop"} : Goes(p, l)
  BY DEF Page, NextPage, At
<1>2. call[p].op = "page"
  BY <1>1, StepFacts DEF Flow
<1>3. PICK b \in Procs \cup {NoProc} : cursor' = [cursor EXCEPT ![call[p].c].by = b]
  BY DEF Page, NextPage
<1>4. CursorsStay /\ cursor' \in [Cursors -> CursorSet]
  BY <1>3, StepFacts DEF CursorsStay, CursorSet
<1>5. RootsStay /\ LocksStay /\ root' \in [Roots -> RootSet]
  BY <1>1, StepFacts DEF RootsStay, LocksStay
<1>6. CASE Returns(p)
  <2>1. /\ Alone(p) /\ call'[p].pc = "idle" /\ call'[p].op = "none" /\ ~call'[p].cancelled
    BY <1>6, ReturnsCall DEF Alone, IInv
  <2>2. ArrivalOK(p)
    BY <2>1 DEF ArrivalOK, Flow
  <2>3. LockInv' /\ OpenInv'
    BY <1>1, <1>5, <2>1, OutsideInv DEF Holding
  <2>4. LatchInv'
    BY <1>1, <2>1 DEF IInv, LatchInv, Latched, Alone
  <2> QED
    BY <1>1, <1>4, <1>5, <2>1, <2>2, <2>3, <2>4, StepInv DEF IInv, TypeOK
<1>7. CASE \E l \in {"next", "drop"} : Goes(p, l)
  <2>1. PICK l \in {"next", "drop"} : Goes(p, l)
    BY <1>7
  <2>2. l \in Pcs /\ l \in Flow[call[p].op]
    BY <1>2 DEF Flow, Pcs
  <2> QED
    BY <1>1, <1>2, <1>4, <1>5, <2>1, <2>2, GoesOnOutside DEF Holding
<1> QED
  BY <1>1, <1>6, <1>7

(* Latch keeps the invariant: nobody else is between latch and unlatch. *)
LEMMA LatchStepInv == ASSUME IInv, NEW p \in Procs, Latch(p) PROVE IInv'
<1>1. /\ UNCHANGED <<root, cursor, running, calls, asked>>
      /\ call[p].pc = "latch" /\ lifecycle = NoProc /\ lifecycle' = p
      /\ \E l \in {"lock", "take", "unlatch"} :
            Goes(p, l) /\ (l = "lock" => call[p].op = "cursor") /\ (l = "take" => call[p].op # "cursor")
  BY DEF Latch, At
<1>2. PICK l \in {"lock", "take", "unlatch"} :
         Goes(p, l) /\ (l = "lock" => call[p].op = "cursor") /\ (l = "take" => call[p].op # "cursor")
  BY <1>1
<1>3. call[p].op \in {"cursor", "closeRoot"}
  BY <1>1, StepFacts DEF Flow
<1>4. l \in Pcs /\ l \in Flow[call[p].op]
  BY <1>2, <1>3 DEF Flow, Pcs
<1>5. /\ Alone(p) /\ call'[p].pc = l /\ call'[p].op = call[p].op /\ call'[p].r = call[p].r
      /\ call'[p].c = call[p].c
      /\ call'[p].ticket = call[p].ticket /\ call'[p].cancelled = call[p].cancelled
  BY <1>2, <1>4, GoesCall DEF Alone, IInv
<1>6. ArrivalOK(p)
  BY <1>2, <1>3, <1>4, <1>5 DEF ArrivalOK
<1>7. LockInv' /\ OpenInv'
  BY <1>1, <1>5, NothingMoves, OutsideInv DEF Holding
<1>8. LatchInv'
  BY <1>1, <1>5, HandlesAssumption DEF IInv, LatchInv, Latched, Alone
<1> QED
  BY <1>1, <1>5, <1>6, <1>7, <1>8, NothingMoves, StepInv DEF IInv, TypeOK

(* Unlatch keeps the invariant. *)
LEMMA UnlatchInv == ASSUME IInv, NEW p \in Procs, Unlatch(p) PROVE IInv'
<1>1. /\ UNCHANGED <<root, cursor, running, calls, asked>>
      /\ call[p].pc = "unlatch" /\ Returns(p)
      /\ lifecycle' = IF lifecycle = p THEN NoProc ELSE lifecycle
  BY DEF Unlatch, At
<1>2. call[p].op \in {"cursor", "closeRoot"}
  BY <1>1, StepFacts DEF Flow
<1>3. lifecycle = p
  BY <1>1, <1>2 DEF IInv, LatchInv, Latched
<1>4. /\ Alone(p) /\ call'[p].pc = "idle" /\ call'[p].op = "none" /\ ~call'[p].cancelled
  BY <1>1, ReturnsCall DEF Alone, IInv
<1>5. ArrivalOK(p)
  BY <1>4 DEF ArrivalOK, Flow
<1>6. LockInv' /\ OpenInv'
  BY <1>1, <1>4, NothingMoves, OutsideInv DEF Holding
<1>7. LatchInv'
  BY <1>3, <1>4 DEF IInv, LatchInv, Latched, Alone
<1> QED
  BY <1>1, <1>4, <1>5, <1>6, <1>7, NothingMoves, StepInv DEF IInv, TypeOK

(* Unlist keeps the invariant. *)
LEMMA UnlistInv == ASSUME IInv, NEW p \in Procs, Unlist(p) PROVE IInv'
<1>1. /\ RootsStay /\ LocksStay /\ root' \in [Roots -> RootSet]
  BY StepFacts DEF Unlist, RootsStay, LocksStay, RootSet
<1>2. CursorsStay
  BY DEF Unlist, CursorsStay
<1>3. call[p].pc = "unlist" /\ call[p].op = "closeRoot"
  BY StepFacts DEF Flow, Unlist, At
<1>4. "unlatch" \in Pcs /\ "unlatch" \in Flow[call[p].op]
  BY <1>3 DEF Flow, Pcs
<1> QED
  BY <1>1, <1>2, <1>3, <1>4, StepFacts, GoesOnOutside DEF Unlist, Holding

-----------------------------------------------------------------------------
(* One lemma per action: the lock of a root *)

(* Taking the read lock changes one counter. *)
LEMMA LockedRoot ==
    ASSUME root \in [Roots -> RootSet], NEW r \in Roots, NEW p \in Procs, root' = Locked(r, p)
    PROVE  /\ root' \in [Roots -> RootSet] /\ RootsStay
           /\ \A s \in Roots : /\ root'[s].writer = root[s].writer
                                /\ \A q \in Procs : s # r \/ q # p => root'[s].reads[q] = root[s].reads[q]
           /\ root'[r].reads[p] > 0
<1> DEFINE rd == [root[r].reads EXCEPT ![p] = @ + 1]
           new == [root[r] EXCEPT !.reads = rd]
<1>1. root[r] \in RootSet /\ root[r].reads \in [Procs -> Nat]
  BY DEF RootSet
<1>2. rd \in [Procs -> Nat] /\ rd[p] > 0 /\ \A q \in Procs : q # p => rd[q] = root[r].reads[q]
  BY <1>1
<1>3. root' = [root EXCEPT ![r] = new]
  BY DEF Locked
<1> HIDE DEF rd
<1>4. new \in RootSet /\ new.reads = rd /\ new.writer = root[r].writer /\ new.closed = root[r].closed
  BY <1>1, <1>2 DEF RootSet
<1> HIDE DEF new
<1> QED
  BY <1>2, <1>3, <1>4 DEF RootsStay

(* RLock keeps the invariant. *)
LEMMA RLockInv == ASSUME IInv, NEW p \in Procs, RLock(p) PROVE IInv'
<1> DEFINE r == call[p].r
<1>1. /\ call[p].pc = "lock" /\ ~Writes(p) /\ root[r].writer = NoProc /\ r \in Roots
      /\ call[p].op # "closeRoot"
      /\ UNCHANGED <<cursor, lifecycle, running, calls, asked>> /\ root' = Locked(r, p)
  BY StepFacts DEF RLock, At, Free, Writes
<1>2. "check" \in Pcs /\ "check" \in Flow[call[p].op]
  BY <1>1, StepFacts DEF Flow, Pcs
<1>3. /\ Alone(p) /\ call'[p].pc = "check" /\ call'[p].op = call[p].op /\ call'[p].r = r
      /\ call'[p].c = call[p].c /\ call'[p].ticket = call[p].ticket
      /\ call'[p].cancelled = call[p].cancelled
  BY <1>2, GoesCall DEF RLock, IInv, Alone
<1>4. /\ root' \in [Roots -> RootSet] /\ RootsStay
      /\ \A s \in Roots : /\ root'[s].writer = root[s].writer
                           /\ \A q \in Procs : s # r \/ q # p => root'[s].reads[q] = root[s].reads[q]
      /\ root'[r].reads[p] > 0
  BY <1>1, StepFacts, LockedRoot
<1> HIDE DEF r
<1>5. LockInv'
  BY <1>1, <1>3, <1>4, HandlesAssumption DEF LockInv, IInv, Writes, Holding, Alone
<1>6. OpenInv'
  BY <1>3, <1>4 DEF IInv, OpenInv, RootsStay, Alone, TypeOK, CallSet
<1>7. LatchInv'
  BY <1>1, <1>3 DEF IInv, LatchInv, Latched, Alone
<1>8. ArrivalOK(p) /\ CursorsStay
  BY <1>1, <1>2, <1>3 DEF ArrivalOK, CursorsStay, IInv, CursorInv
<1> QED
  BY <1>1, <1>3, <1>4, <1>5, <1>6, <1>7, <1>8, StepInv DEF IInv, TypeOK

(* RLockAgain keeps the invariant. *)
LEMMA RLockAgainInv == ASSUME IInv, NEW p \in Procs, RLockAgain(p) PROVE IInv'
<1> DEFINE r == call[p].r
<1>1. /\ call[p].pc = "again" /\ call[p].op = "open" /\ root[r].writer = NoProc /\ r \in Roots
      /\ UNCHANGED <<cursor, lifecycle, running, calls, asked>> /\ root' = Locked(r, p)
  BY StepFacts DEF RLockAgain, At, Free, Flow
<1>2. "using" \in Pcs /\ "using" \in Flow[call[p].op]
  BY <1>1 DEF Flow, Pcs
<1>3. /\ Alone(p) /\ call'[p].pc = "using" /\ call'[p].op = call[p].op /\ call'[p].r = r
      /\ call'[p].c = call[p].c /\ call'[p].ticket = call[p].ticket
      /\ call'[p].cancelled = call[p].cancelled
  BY <1>2, GoesCall DEF RLockAgain, IInv, Alone
<1>4. /\ root' \in [Roots -> RootSet] /\ RootsStay
      /\ \A s \in Roots : /\ root'[s].writer = root[s].writer
                           /\ \A q \in Procs : s # r \/ q # p => root'[s].reads[q] = root[s].reads[q]
      /\ root'[r].reads[p] > 0
  BY <1>1, StepFacts, LockedRoot
<1> HIDE DEF r
<1>5. LockInv'
  <2>1. root[r].reads[p] > 0
    BY <1>1 DEF LockInv, IInv, Writes, Holding, r
  <2>2. \A s \in Roots, q \in Procs : root'[s].reads[q] > 0 <=> root[s].reads[q] > 0
    BY <1>4, <2>1
  <2>3. \A q \in Procs : root'[r].writer # q
    BY <1>1, <1>4, HandlesAssumption
  <2>4. \A s \in Roots : s # r => \A q \in Procs : root'[s].reads[q] = root[s].reads[q]
    BY <1>4
  <2> QED
    BY <1>1, <1>3, <1>4, <2>1, <2>2, <2>3, <2>4 DEF LockInv, IInv, Writes, Holding, Alone
<1>6. OpenInv'
  BY <1>1, <1>3, <1>4 DEF IInv, OpenInv, RootsStay, Alone, TypeOK, CallSet, r
<1>7. LatchInv'
  BY <1>1, <1>3 DEF IInv, LatchInv, Latched, Alone
<1>8. ArrivalOK(p) /\ CursorsStay
  BY <1>1, <1>2, <1>3 DEF ArrivalOK, CursorsStay, IInv, CursorInv
<1> QED
  BY <1>1, <1>3, <1>4, <1>5, <1>6, <1>7, <1>8, StepInv DEF IInv, TypeOK

(* Announce keeps the invariant. *)
LEMMA AnnounceInv == ASSUME IInv, NEW p \in Procs, Announce(p) PROVE IInv'
<1> DEFINE r == call[p].r
<1>1. /\ call[p].pc = "lock" /\ Writes(p) /\ root[r].writer = NoProc /\ r \in Roots
      /\ call[p].op \in {"rename", "closeRoot"}
      /\ UNCHANGED <<cursor, lifecycle, running, calls, asked>>
      /\ root' = [root EXCEPT ![r].writer = p]
  BY StepFacts DEF Announce, At, Free, Writes
<1>2. "drain" \in Pcs /\ "drain" \in Flow[call[p].op]
  BY <1>1 DEF Flow, Pcs
<1>3. /\ Alone(p) /\ call'[p].pc = "drain" /\ call'[p].op = call[p].op /\ call'[p].r = r
      /\ call'[p].c = call[p].c /\ call'[p].ticket = call[p].ticket
      /\ call'[p].cancelled = call[p].cancelled
  BY <1>2, GoesCall DEF Announce, IInv, Alone
<1>4. /\ root' \in [Roots -> RootSet] /\ RootsStay
      /\ \A s \in Roots : /\ root'[s].reads = root[s].reads
                           /\ root'[s].writer = IF s = r THEN p ELSE root[s].writer
  BY <1>1, StepFacts DEF RootsStay, RootSet
<1> HIDE DEF r
<1>5. LockInv'
  BY <1>1, <1>3, <1>4, HandlesAssumption DEF LockInv, IInv, Writes, Holding, Alone
<1>6. OpenInv'
  BY <1>3, <1>4 DEF IInv, OpenInv, RootsStay, Alone, TypeOK, CallSet
<1>7. LatchInv'
  BY <1>1, <1>3 DEF IInv, LatchInv, Latched, Alone
<1>8. ArrivalOK(p) /\ CursorsStay
  BY <1>1, <1>2, <1>3 DEF ArrivalOK, CursorsStay, IInv, CursorInv, r
<1> QED
  BY <1>1, <1>3, <1>4, <1>5, <1>6, <1>7, <1>8, StepInv DEF IInv, TypeOK

(* Drain keeps the invariant. *)
LEMMA DrainInv == ASSUME IInv, NEW p \in Procs, Drain(p) PROVE IInv'
<1>1. /\ call[p].pc = "drain" /\ call[p].op \in {"rename", "closeRoot"} /\ call[p].r \in Roots
      /\ UNCHANGED <<root, cursor, lifecycle, running, calls, asked>>
      /\ Readers(call[p].r) = {}
  BY StepFacts DEF Drain, At, Flow
<1>2. "check" \in Pcs /\ "check" \in Flow[call[p].op]
  BY <1>1 DEF Flow, Pcs
<1>3. /\ Alone(p) /\ call'[p].pc = "check" /\ call'[p].op = call[p].op /\ call'[p].r = call[p].r
      /\ call'[p].c = call[p].c /\ call'[p].ticket = call[p].ticket
      /\ call'[p].cancelled = call[p].cancelled
  BY <1>2, GoesCall DEF Drain, IInv, Alone
<1>4. \A q \in Procs : root[call[p].r].reads[q] = 0
  <2>1. \A q \in Procs : root[call[p].r].reads[q] \in Nat
    BY <1>1, StepFacts DEF RootSet
  <2> QED
    BY <1>1, <2>1 DEF Readers
<1>5. LockInv'
  BY <1>1, <1>3, <1>4 DEF LockInv, IInv, Writes, Holding, Alone
<1>6. OpenInv'
  BY <1>1, <1>3 DEF IInv, OpenInv, Alone
<1>7. LatchInv'
  BY <1>1, <1>3 DEF IInv, LatchInv, Latched, Alone
<1>8. ArrivalOK(p)
  BY <1>1, <1>2, <1>3 DEF ArrivalOK, IInv, CursorInv
<1> QED
  BY <1>1, <1>3, <1>5, <1>6, <1>7, <1>8, NothingMoves, StepInv DEF IInv, TypeOK

(* Giving the lock of a root back, for reading or for writing. *)
LEMMA UnlockedRoot ==
    ASSUME root \in [Roots -> RootSet], NEW r \in Roots, NEW p \in Procs,
           root' = [RUnlocked(r, p) EXCEPT ![r].writer = IF @ = p THEN NoProc ELSE @]
    PROVE  /\ root' \in [Roots -> RootSet] /\ RootsStay
           /\ \A s \in Roots : s # r => root'[s] = root[s]
           /\ root'[r].writer = IF root[r].writer = p THEN NoProc ELSE root[r].writer
           /\ root'[r].reads[p] = 0
           /\ \A q \in Procs : q # p => root'[r].reads[q] = root[r].reads[q]
<1> DEFINE rd == [root[r].reads EXCEPT ![p] = 0]
           w == IF root[r].writer = p THEN NoProc ELSE root[r].writer
           new == [root[r] EXCEPT !.reads = rd, !.writer = w]
<1>1. root[r] \in RootSet /\ root[r].reads \in [Procs -> Nat] /\ root[r].writer \in Procs \cup {NoProc}
  BY DEF RootSet
<1>2. rd \in [Procs -> Nat] /\ rd[p] = 0 /\ \A q \in Procs : q # p => rd[q] = root[r].reads[q]
  BY <1>1
<1>3. w \in Procs \cup {NoProc}
  BY <1>1
<1>4. root' = [root EXCEPT ![r] = new]
  <2>1. RUnlocked(r, p) = [root EXCEPT ![r] = [root[r] EXCEPT !.reads = rd]]
    BY DEF RUnlocked
  <2> HIDE DEF rd
  <2>2. RUnlocked(r, p) \in [Roots -> RootSet] /\ RUnlocked(r, p)[r] = [root[r] EXCEPT !.reads = rd]
        /\ RUnlocked(r, p)[r].writer = root[r].writer
    BY <1>1, <1>2, <2>1 DEF RootSet
  <2>3. root' = [RUnlocked(r, p) EXCEPT ![r] = [RUnlocked(r, p)[r] EXCEPT !.writer = w]]
    BY <2>2
  <2> QED
    BY <2>1, <2>2, <2>3, <1>1 DEF RootSet
<1> HIDE DEF rd, w
<1>5. new \in RootSet /\ new.reads = rd /\ new.writer = w /\ new.closed = root[r].closed
  BY <1>1, <1>2, <1>3 DEF RootSet
<1> HIDE DEF new
<1> QED
  <2>1. root'[r] = new /\ \A s \in Roots : s # r => root'[s] = root[s]
    BY <1>4
  <2>2. root' \in [Roots -> RootSet]
    BY <1>4, <1>5
  <2>3. RootsStay
    BY <1>5, <2>1 DEF RootsStay
  <2> QED
    BY <1>2, <1>5, <2>1, <2>2, <2>3 DEF w

(* Who leaves a section leaves it to the others as it was for them. *)
LEMMA LeavesSection ==
    ASSUME IInv, NEW p \in Procs, Alone(p), call[p].pc \in Holding,
           call'[p].pc \notin Holding \cup {"drain"},
           root' = [RUnlocked(call[p].r, p) EXCEPT ![call[p].r].writer = IF @ = p THEN NoProc ELSE @]
    PROVE  LockInv' /\ OpenInv' /\ RootsStay /\ root' \in [Roots -> RootSet]
<1> DEFINE r == call[p].r
<1>1. r \in Roots /\ p # NoProc
  BY StepFacts
<1>2. /\ root' \in [Roots -> RootSet] /\ RootsStay
      /\ \A s \in Roots : s # r => root'[s] = root[s]
      /\ root'[r].writer = IF root[r].writer = p THEN NoProc ELSE root[r].writer
      /\ root'[r].reads[p] = 0
      /\ \A q \in Procs : q # p => root'[r].reads[q] = root[r].reads[q]
  BY <1>1, StepFacts, UnlockedRoot
<1>3. \A s \in Roots, q \in Procs : root[s].reads[q] \in Nat
  BY DEF IInv, TypeOK, RootSet
<1>4. LockInv'
  <2>1. ASSUME NEW s \in Roots, NEW q \in Procs
        PROVE  /\ root'[s].writer = q <=> q # p /\ root[s].writer = q
               /\ root'[s].reads[q] > 0 <=> q # p /\ root[s].reads[q] > 0
    <3>1. CASE s = r
      BY <1>1, <1>2, <1>3, <3>1, HandlesAssumption
    <3>2. CASE s # r
      <4>1. root[s].writer # p /\ ~(root[s].reads[p] > 0)
        BY <3>2 DEF IInv, LockInv, r
      <4> QED
        BY <1>2, <3>2, <4>1
    <3> QED
      BY <3>1, <3>2
  <2>2. ASSUME NEW s \in Roots, root[s].writer \in Procs, \A q \in Procs : root[s].reads[q] = 0
        PROVE  \A q \in Procs : root'[s].reads[q] = 0
    <3>1. CASE s = r
      BY <1>2, <2>2, <3>1
    <3>2. CASE s # r
      BY <1>2, <2>2, <3>2
    <3> QED
      BY <3>1, <3>2
  <2> QED
    BY <2>1, <2>2 DEF IInv, LockInv, Alone, Writes, Holding
<1>5. OpenInv'
  BY <1>2 DEF IInv, OpenInv, RootsStay, Alone, TypeOK, CallSet, Holding
<1> QED
  BY <1>2, <1>4, <1>5

(* Use keeps the invariant. *)
LEMMA UseInv == ASSUME IInv, NEW p \in Procs, Use(p) PROVE IInv'
<1> DEFINE r == call[p].r
<1>1. /\ call[p].pc = "using" /\ call[p].pc \in Holding
      /\ UNCHANGED <<cursor, lifecycle, running, calls, asked>>
      /\ root' = [RUnlocked(r, p) EXCEPT ![r].writer = IF @ = p THEN NoProc ELSE @]
      /\ IF call[p].op \in DOMAIN AfterRoot THEN Goes(p, AfterRoot[call[p].op]) ELSE Returns(p)
  BY DEF Use, At, Holding
<1>2. CursorsStay /\ cursor' \in [Cursors -> CursorSet]
  BY <1>1, StepFacts DEF CursorsStay
<1>3. CASE call[p].op \in DOMAIN AfterRoot
  <2> DEFINE l == AfterRoot[call[p].op]
  <2>1. /\ l \in Pcs /\ l \in Flow[call[p].op] /\ l \notin Holding \cup {"drain"}
        /\ l \in {"addFile", "walk", "quick", "addCursor", "release"}
        /\ l = "addCursor" => call[p].op = "cursor"
    BY <1>3 DEF AfterRoot, Flow, Pcs, Holding
  <2>2. Goes(p, l)
    BY <1>1, <1>3
  <2> HIDE DEF l
  <2>3. /\ Alone(p) /\ call'[p].pc = l /\ call'[p].op = call[p].op /\ call'[p].r = r
        /\ call'[p].c = call[p].c /\ call'[p].ticket = call[p].ticket
        /\ call'[p].cancelled = call[p].cancelled
    BY <2>1, <2>2, GoesCall DEF IInv, Alone
  <2>4. LockInv' /\ OpenInv' /\ RootsStay /\ root' \in [Roots -> RootSet]
    BY <1>1, <2>1, <2>3, LeavesSection
  <2>5. LatchInv'
    BY <1>1, <2>3 DEF IInv, LatchInv, Latched, Alone
  <2>6. CASE l # "addCursor"
    <3>1. ArrivalOK(p)
      BY <2>1, <2>3, <2>6 DEF ArrivalOK, IInv, CursorInv
    <3> QED
      BY <1>1, <1>2, <2>3, <2>4, <2>5, <3>1, StepInv DEF IInv, TypeOK
  <2>7. CASE l = "addCursor"
    <3>1. ~root[r].closed
      BY <1>1 DEF IInv, OpenInv
    <3>2. r \in Roots
      BY StepFacts
    <3>3. CursorInv' /\ ListedCursorsLive'
      <4>1. /\ \A c \in Cursors : cursor'[c].listed => cursor'[c].known
            /\ ListedCursorsLive'
        BY <1>1, <2>4 DEF IInv, CursorInv, ListedCursorsLive, RootsStay, TypeOK, CursorSet
      <4>2. call'[p].pc = "addCursor" /\ call'[p].op = "cursor" /\ ~root'[call'[p].r].closed
        BY <2>1, <2>3, <2>4, <2>7, <3>1, <3>2 DEF RootsStay
      <4>3. \A q \in Procs : q # p => call'[q] = call[q] /\ root'[call[q].r].closed = root[call[q].r].closed
        BY <2>3, <2>4, StepFacts DEF Alone, RootsStay
      <4> QED
        BY <1>1, <4>1, <4>2, <4>3 DEF IInv, CursorInv
    <3>4. TypeOK'
      BY <1>1, <2>3, <2>4 DEF IInv, TypeOK, Alone
    <3>5. FlowOK' /\ AskInv'
      BY <1>1, <2>1, <2>3, <2>7 DEF IInv, FlowOK, AskInv, Alone
    <3>6. CancelledWereAsked'
      BY <1>1, <2>3 DEF IInv, CancelledWereAsked, Alone
    <3> QED
      BY <2>4, <2>5, <3>3, <3>4, <3>5, <3>6 DEF IInv
  <2> QED
    BY <2>6, <2>7
<1>4. CASE call[p].op \notin DOMAIN AfterRoot
  <2>1. /\ Alone(p) /\ call'[p].pc = "idle" /\ call'[p].op = "none" /\ ~call'[p].cancelled
    BY <1>1, <1>4, ReturnsCall DEF Alone, IInv
  <2>2. ArrivalOK(p)
    BY <2>1 DEF ArrivalOK, Flow
  <2>3. LockInv' /\ OpenInv' /\ RootsStay /\ root' \in [Roots -> RootSet]
    BY <1>1, <2>1, LeavesSection DEF Holding
  <2>4. LatchInv'
    BY <1>1, <2>1 DEF IInv, LatchInv, Latched, Alone
  <2> QED
    BY <1>1, <1>2, <2>1, <2>2, <2>3, <2>4, StepInv DEF IInv, TypeOK
<1> QED
  BY <1>3, <1>4

(* Check keeps the invariant. *)
LEMMA CheckInv == ASSUME IInv, NEW p \in Procs, Check(p) PROVE IInv'
<1> DEFINE r == call[p].r
           refused == CASE call[p].op = "cursor" -> "unlatch" [] call[p].op = "transfer" -> "release"
                        [] OTHER -> "idle"
<1>1. /\ call[p].pc = "check" /\ call[p].pc \in Holding /\ call[p].op # "closeRoot"
      /\ UNCHANGED <<cursor, lifecycle, running, calls, asked>> /\ r \in Roots
  BY StepFacts DEF Check, At, Holding
<1>2. CursorsStay /\ cursor' \in [Cursors -> CursorSet]
  BY <1>1, StepFacts DEF CursorsStay
<1>3. CASE root[r].closed
  <2>1. root' = [RUnlocked(r, p) EXCEPT ![r].writer = IF @ = p THEN NoProc ELSE @]
    BY <1>3 DEF Check
  <2>2. \/ refused = "idle" /\ Returns(p)
        \/ refused # "idle" /\ Goes(p, refused)
    BY <1>3 DEF Check, Returns, Goes
  <2>3. CASE refused = "idle" /\ Returns(p)
    <3>1. /\ Alone(p) /\ call'[p].pc = "idle" /\ call'[p].op = "none" /\ ~call'[p].cancelled
      BY <2>3, ReturnsCall DEF Alone, IInv
    <3>2. ArrivalOK(p)
      BY <3>1 DEF ArrivalOK, Flow
    <3>3. LockInv' /\ OpenInv' /\ RootsStay /\ root' \in [Roots -> RootSet]
      BY <1>1, <2>1, <3>1, LeavesSection DEF Holding
    <3>4. LatchInv'
      BY <1>1, <3>1 DEF IInv, LatchInv, Latched, Alone
    <3> QED
      BY <1>1, <1>2, <3>1, <3>2, <3>3, <3>4, StepInv DEF IInv, TypeOK
  <2>4. CASE refused # "idle" /\ Goes(p, refused)
    <3>1. /\ refused \in {"unlatch", "release"} /\ refused \in Pcs
          /\ refused \notin Holding \cup {"drain"} /\ refused \in Flow[call[p].op]
      BY <2>4 DEF Pcs, Holding, Flow
    <3> HIDE DEF refused
    <3>2. /\ Alone(p) /\ call'[p].pc = refused /\ call'[p].op = call[p].op /\ call'[p].r = r
          /\ call'[p].c = call[p].c /\ call'[p].ticket = call[p].ticket
          /\ call'[p].cancelled = call[p].cancelled
      BY <2>4, <3>1, GoesCall DEF IInv, Alone
    <3>3. LockInv' /\ OpenInv' /\ RootsStay /\ root' \in [Roots -> RootSet]
      BY <1>1, <2>1, <3>1, <3>2, LeavesSection
    <3>4. LatchInv'
      BY <1>1, <3>2 DEF IInv, LatchInv, Latched, Alone
    <3>5. ArrivalOK(p)
      BY <1>1, <3>1, <3>2 DEF ArrivalOK, IInv, CursorInv
    <3> QED
      BY <1>1, <1>2, <3>2, <3>3, <3>4, <3>5, StepInv DEF IInv, TypeOK
  <2> QED
    BY <2>2, <2>3, <2>4
<1>4. CASE ~root[r].closed
  <2> DEFINE l == IF call[p].op = "open" THEN "again" ELSE "using"
  <2>1. Goes(p, l) /\ UNCHANGED root
    BY <1>4 DEF Check
  <2>2. l \in Pcs /\ l \in Holding /\ l \in {"again", "using"} /\ l \in Flow[call[p].op]
    BY <1>1, StepFacts DEF Pcs, Holding, Flow
  <2> HIDE DEF l
  <2>3. /\ Alone(p) /\ call'[p].pc = l /\ call'[p].op = call[p].op /\ call'[p].r = r
        /\ call'[p].c = call[p].c /\ call'[p].ticket = call[p].ticket
        /\ call'[p].cancelled = call[p].cancelled
    BY <2>1, <2>2, GoesCall DEF IInv, Alone
  <2>4. LockInv'
    BY <1>1, <2>1, <2>2, <2>3 DEF IInv, LockInv, Alone, Writes, Holding
  <2>5. OpenInv'
    BY <1>4, <2>1, <2>3 DEF IInv, OpenInv, Alone
  <2>6. LatchInv'
    BY <1>1, <2>3 DEF IInv, LatchInv, Latched, Alone
  <2>7. ArrivalOK(p)
    BY <1>1, <2>2, <2>3 DEF ArrivalOK, IInv, CursorInv
  <2> QED
    BY <1>1, <2>1, <2>3, <2>4, <2>5, <2>6, <2>7, NothingMoves, StepInv DEF IInv, TypeOK
<1> QED
  BY <1>3, <1>4

-----------------------------------------------------------------------------
(* One lemma per action: cursors and the closing of roots *)

(* The part of the invariant that a step of cursors cannot disturb. *)
LEMMA CursorStepInv ==
    ASSUME IInv, NEW p \in Procs, Alone(p), UNCHANGED <<root, lifecycle, running, calls, asked>>,
           call[p].pc \notin Holding \cup {"drain", "latch"}, call'[p].pc \notin Holding \cup {"drain"},
           call'[p].pc # "cancel", call'[p].pc \in Flow[call'[p].op],
           call'[p].op \in {call[p].op, "none"},
           call'[p].cancelled => call[p].cancelled /\ call'[p].ticket = call[p].ticket,
           cursor' \in [Cursors -> CursorSet], CursorInv', ListedCursorsLive'
    PROVE  IInv'
<1>1. RootsStay /\ LocksStay
  BY NothingMoves DEF RootsStay, LocksStay
<1>2. LockInv' /\ OpenInv'
  BY <1>1, OutsideInv
<1>3. LatchInv'
  BY DEF IInv, LatchInv, Latched, Alone
<1>4. TypeOK'
  BY DEF IInv, TypeOK, Alone
<1>5. FlowOK' /\ AskInv'
  BY DEF IInv, FlowOK, AskInv, Alone
<1>6. CancelledWereAsked'
  BY DEF IInv, CancelledWereAsked, Alone
<1> QED
  BY <1>2, <1>3, <1>4, <1>5, <1>6 DEF IInv

\* What CursorInv says of one call.
CallCursors(k) ==
    /\ k.op \in {"page", "drop"} => k.c \in Cursors /\ cursor[k.c].known
    /\ k.pc = "closeCursor" => ~cursor[k.c].listed
    /\ k.pc = "closeTaken" =>
          \A c \in k.todo : c \in Cursors /\ cursor[c].known /\ ~cursor[c].listed
    /\ k.pc = "addCursor" => ~root[k.r].closed
    /\ k.op = "closeRoot" /\ k.pc \in {"closeTaken", "lock", "drain", "check"} =>
          \A c \in Cursors : cursor[c].listed => cursor[c].root # k.r

(* CursorInv call by call; a call that closes a cursor has one. *)
LEMMA CallCursorsOf ==
    ASSUME IInv, NEW q \in Procs
    PROVE  /\ CallCursors(call[q])
           /\ call[q].pc = "closeCursor" => call[q].op \in {"page", "drop"}
<1>1. call[q].pc = "closeCursor" => call[q].op \in {"page", "drop"}
  BY StepFacts DEF Flow
<1>2. CallCursors(call[q])
  BY DEF IInv, CursorInv, CallCursors
<1> QED
  BY <1>1, <1>2

(* AddCursor keeps the invariant: its root cannot have been closed since. *)
LEMMA AddCursorInv == ASSUME IInv, NEW p \in Procs, AddCursor(p) PROVE IInv'
<1>1. PICK c \in Cursors :
         /\ ~cursor[c].known
         /\ cursor' = [cursor EXCEPT ![c] = [known |-> TRUE, listed |-> TRUE, open |-> TRUE,
                                             root |-> call[p].r, by |-> NoProc]]
  BY DEF AddCursor
<1>2. /\ call[p].pc = "addCursor" /\ call[p].r \in Roots /\ call[p].op = "cursor"
      /\ UNCHANGED <<root, lifecycle, running, calls, asked>>
  BY StepFacts DEF AddCursor, At, Flow
<1>3. "unlatch" \in Pcs /\ "unlatch" \in Flow[call[p].op]
  BY <1>2 DEF Pcs, Flow
<1>4. /\ Alone(p) /\ call'[p].pc = "unlatch" /\ call'[p].op = "cursor"
      /\ call'[p].ticket = call[p].ticket /\ call'[p].cancelled = call[p].cancelled
  BY <1>2, <1>3, GoesCall DEF AddCursor, IInv, Alone
<1>5. /\ cursor' \in [Cursors -> CursorSet]
      /\ cursor'[c].known /\ cursor'[c].listed /\ cursor'[c].open /\ cursor'[c].root = call[p].r
      /\ \A d \in Cursors : d # c => cursor'[d] = cursor[d]
  BY <1>1, <1>2, StepFacts DEF CursorSet
<1>6. ~root[call[p].r].closed
  BY <1>2 DEF IInv, CursorInv
<1>7. lifecycle = p /\ \A q \in Procs : q # p => ~Latched(q)
  BY <1>2 DEF IInv, LatchInv, Latched
<1>8. ListedCursorsLive'
  BY <1>2, <1>5, <1>6 DEF IInv, ListedCursorsLive
<1>9. ASSUME NEW q \in Procs, q # p
      PROVE  CallCursors(call[q])'
  <2>1. call'[q] = call[q] /\ CallCursors(call[q])
        /\ (call[q].pc = "closeCursor" => call[q].op \in {"page", "drop"})
    BY <1>9, <1>4, CallCursorsOf DEF Alone
  <2>2. call[q].op = "closeRoot" => call[q].pc = "latch"
    BY <1>7, <1>9 DEF Latched
  <2> QED
    BY <1>1, <1>2, <1>5, <2>1, <2>2 DEF CallCursors
<1>10. CursorInv'
  <2>1. CallCursors(call[p])'
    BY <1>4 DEF CallCursors
  <2>2. \A d \in Cursors : cursor'[d].listed => cursor'[d].known
    BY <1>5 DEF IInv, CursorInv
  <2> QED
    BY <1>9, <2>1, <2>2 DEF CursorInv, CallCursors
<1> QED
  BY <1>2, <1>3, <1>4, <1>5, <1>8, <1>10, CursorStepInv DEF Holding

(* DropCursor keeps the invariant. *)
LEMMA DropCursorInv == ASSUME IInv, NEW p \in Procs, DropCursor(p) PROVE IInv'
<1> DEFINE c == call[p].c
<1>1. /\ call[p].pc = "drop" /\ call[p].op \in {"page", "drop"}
      /\ cursor' = [cursor EXCEPT ![c].listed = FALSE]
      /\ UNCHANGED <<root, lifecycle, running, calls, asked>>
  BY StepFacts DEF DropCursor, At, Flow
<1>2. "closeCursor" \in Pcs /\ "closeCursor" \in Flow[call[p].op]
  BY <1>1 DEF Pcs, Flow
<1>3. /\ Alone(p) /\ call'[p].pc = "closeCursor" /\ call'[p].op = call[p].op /\ call'[p].c = c
      /\ call'[p].ticket = call[p].ticket /\ call'[p].cancelled = call[p].cancelled
  BY <1>2, GoesCall DEF DropCursor, IInv, Alone
<1>4. c \in Cursors /\ cursor[c].known
  BY <1>1 DEF IInv, CursorInv
<1> HIDE DEF c
<1>5. /\ cursor' \in [Cursors -> CursorSet]
      /\ ~cursor'[c].listed /\ cursor'[c].known
      /\ \A d \in Cursors : d # c => cursor'[d] = cursor[d]
  BY <1>1, <1>4, StepFacts DEF CursorSet
<1>6. ListedCursorsLive'
  BY <1>1, <1>5 DEF IInv, ListedCursorsLive
<1>7. ASSUME NEW q \in Procs, q # p
      PROVE  CallCursors(call[q])'
  <2>1. call'[q] = call[q] /\ CallCursors(call[q])
        /\ (call[q].pc = "closeCursor" => call[q].op \in {"page", "drop"})
    BY <1>3, <1>7, CallCursorsOf DEF Alone
  <2> QED
    BY <1>1, <1>5, <2>1 DEF CallCursors
<1>8. CursorInv'
  <2>1. CallCursors(call[p])'
    BY <1>1, <1>3, <1>4, <1>5 DEF CallCursors
  <2>2. \A d \in Cursors : cursor'[d].listed => cursor'[d].known
    BY <1>5 DEF IInv, CursorInv
  <2> QED
    BY <1>7, <2>1, <2>2 DEF CursorInv, CallCursors
<1> QED
  BY <1>1, <1>2, <1>3, <1>5, <1>6, <1>8, CursorStepInv DEF Holding

(* Closing a cursor that is not listed disturbs nothing that is said of cursors. *)
LEMMA ClosesUnlisted ==
    ASSUME IInv, NEW c \in Cursors, ~cursor[c].listed, cursor' = [cursor EXCEPT ![c].open = FALSE],
           UNCHANGED root
    PROVE  /\ cursor' \in [Cursors -> CursorSet] /\ ListedCursorsLive'
           /\ \A d \in Cursors : /\ cursor'[d].listed = cursor[d].listed
                                  /\ cursor'[d].known = cursor[d].known
                                  /\ cursor'[d].root = cursor[d].root
<1>1. /\ cursor' \in [Cursors -> CursorSet]
      /\ \A d \in Cursors : /\ cursor'[d].listed = cursor[d].listed
                             /\ cursor'[d].known = cursor[d].known
                             /\ cursor'[d].root = cursor[d].root
                             /\ d # c => cursor'[d] = cursor[d]
  BY DEF IInv, TypeOK, CursorSet
<1>2. ListedCursorsLive'
  BY <1>1 DEF IInv, ListedCursorsLive
<1> QED
  BY <1>1, <1>2

(* CloseCursor keeps the invariant. *)
LEMMA CloseCursorInv == ASSUME IInv, NEW p \in Procs, CloseCursor(p) PROVE IInv'
<1> DEFINE c == call[p].c
<1>1. /\ call[p].pc = "closeCursor" /\ cursor' = [cursor EXCEPT ![c].open = FALSE] /\ Returns(p)
      /\ UNCHANGED <<root, lifecycle, running, calls, asked>>
  BY DEF CloseCursor, At
<1>2. c \in Cursors /\ ~cursor[c].listed
  BY <1>1, CallCursorsOf DEF CallCursors
<1>3. /\ Alone(p) /\ call'[p].pc = "idle" /\ call'[p].op = "none" /\ ~call'[p].cancelled
  BY <1>1, ReturnsCall DEF Alone, IInv
<1> HIDE DEF c
<1>4. /\ cursor' \in [Cursors -> CursorSet] /\ ListedCursorsLive'
      /\ \A d \in Cursors : /\ cursor'[d].listed = cursor[d].listed
                             /\ cursor'[d].known = cursor[d].known
                             /\ cursor'[d].root = cursor[d].root
  BY <1>1, <1>2, ClosesUnlisted
<1>5. ASSUME NEW q \in Procs, q # p
      PROVE  CallCursors(call[q])'
  <2>1. call'[q] = call[q] /\ CallCursors(call[q])
        /\ (call[q].pc = "closeCursor" => call[q].op \in {"page", "drop"})
    BY <1>3, <1>5, CallCursorsOf DEF Alone
  <2> QED
    BY <1>1, <1>4, <2>1 DEF CallCursors
<1>6. CursorInv'
  <2>1. CallCursors(call[p])'
    BY <1>3 DEF CallCursors
  <2>2. \A d \in Cursors : cursor'[d].listed => cursor'[d].known
    BY <1>4 DEF IInv, CursorInv
  <2> QED
    BY <1>5, <2>1, <2>2 DEF CursorInv, CallCursors
<1>7. "idle" \in Flow["none"]
  BY DEF Flow
<1> QED
  BY <1>1, <1>3, <1>4, <1>6, <1>7, CursorStepInv DEF Holding

(* TakeCursors keeps the invariant. *)
LEMMA TakeCursorsInv == ASSUME IInv, NEW p \in Procs, TakeCursors(p) PROVE IInv'
<1> DEFINE mine == {c \in Cursors : cursor[c].listed /\ cursor[c].root = call[p].r}
<1>0. call[p].pc = "take" /\ call[p].op = "closeRoot"
  <2>1. call[p].pc = "take"
    BY DEF TakeCursors, At
  <2> QED
    BY <2>1, StepFacts DEF Flow
<1>1. /\ call[p].pc = "take" /\ call[p].op = "closeRoot" /\ call[p].r \in Roots
      /\ cursor' = [c \in Cursors |-> IF c \in mine THEN [cursor[c] EXCEPT !.listed = FALSE]
                                      ELSE cursor[c]]
      /\ call' = [call EXCEPT ![p].pc = "closeTaken", ![p].todo = mine]
      /\ UNCHANGED <<root, lifecycle, running, calls, asked>>
  BY <1>0, StepFacts DEF TakeCursors
<1>2. mine \subseteq Cursors /\ \A c \in mine : cursor[c].known
  BY DEF IInv, CursorInv
<1>3. "closeTaken" \in Pcs /\ "closeTaken" \in Flow["closeRoot"]
  BY DEF Pcs, Flow
<1>4. /\ cursor' \in [Cursors -> CursorSet]
      /\ \A c \in Cursors : c \in mine => ~cursor'[c].listed /\ cursor'[c].known = cursor[c].known
      /\ \A c \in Cursors : c \notin mine => cursor'[c] = cursor[c]
  BY <1>1, StepFacts DEF CursorSet
<1>5. \A c \in Cursors : cursor'[c].listed => cursor'[c].root # call[p].r
  BY <1>4
<1> HIDE DEF mine
<1>6. /\ Alone(p) /\ call'[p].pc = "closeTaken" /\ call'[p].op = "closeRoot" /\ call'[p].r = call[p].r
      /\ call'[p].todo = mine
      /\ call'[p].ticket = call[p].ticket /\ call'[p].cancelled = call[p].cancelled
  <2> DEFINE k == [call[p] EXCEPT !.pc = "closeTaken", !.todo = mine]
  <2>1. mine \in SUBSET (Cursors \cup (Procs \X Nat))
    BY <1>2
  <2>2. /\ k \in CallSet /\ k.pc = "closeTaken" /\ k.op = call[p].op /\ k.r = call[p].r
        /\ k.todo = mine /\ k.ticket = call[p].ticket /\ k.cancelled = call[p].cancelled
    BY <1>3, <2>1, StepFacts DEF CallSet
  <2>3. call' = [call EXCEPT ![p] = k]
    BY <1>1, StepFacts DEF TypeOK, CallSet
  <2> HIDE DEF k
  <2> QED
    BY <1>1, <2>2, <2>3 DEF Alone, IInv, TypeOK
<1>7. ListedCursorsLive'
  BY <1>1, <1>4 DEF IInv, ListedCursorsLive
<1>8. ASSUME NEW q \in Procs, q # p
      PROVE  CallCursors(call[q])'
  <2>1. call'[q] = call[q] /\ CallCursors(call[q])
        /\ (call[q].pc = "closeCursor" => call[q].op \in {"page", "drop"})
    BY <1>6, <1>8, CallCursorsOf DEF Alone
  <2>2. \A c \in Cursors : /\ cursor[c].known => cursor'[c].known
                           /\ cursor'[c].listed => cursor[c].listed /\ cursor'[c] = cursor[c]
    BY <1>4
  <2> QED
    BY <1>1, <2>1, <2>2 DEF CallCursors
<1>9. CursorInv'
  <2>1. CallCursors(call[p])'
    BY <1>2, <1>4, <1>5, <1>6 DEF CallCursors
  <2>2. \A d \in Cursors : cursor'[d].listed => cursor'[d].known
    BY <1>4 DEF IInv, CursorInv
  <2> QED
    BY <1>8, <2>1, <2>2 DEF CursorInv, CallCursors
<1> QED
  BY <1>1, <1>3, <1>4, <1>6, <1>7, <1>9, CursorStepInv DEF Holding

(* CloseTaken keeps the invariant. *)
LEMMA CloseTakenInv == ASSUME IInv, NEW p \in Procs, CloseTaken(p) PROVE IInv'
<1>1. /\ call[p].pc = "closeTaken" /\ call[p].op = "closeRoot" /\ call[p].r \in Roots
      /\ UNCHANGED <<root, lifecycle, running, calls, asked>>
  BY StepFacts DEF CloseTaken, At, Flow
<1>2. CASE \E c \in call[p].todo : /\ cursor' = [cursor EXCEPT ![c].open = FALSE]
                                    /\ call' = [call EXCEPT ![p].todo = @ \ {c}]
  <2>1. PICK c \in call[p].todo : /\ cursor' = [cursor EXCEPT ![c].open = FALSE]
                                  /\ call' = [call EXCEPT ![p].todo = @ \ {c}]
    BY <1>2
  <2>2. c \in Cursors /\ ~cursor[c].listed
    BY <1>1, CallCursorsOf DEF CallCursors
  <2>3. /\ cursor' \in [Cursors -> CursorSet] /\ ListedCursorsLive'
        /\ \A d \in Cursors : /\ cursor'[d].listed = cursor[d].listed
                               /\ cursor'[d].known = cursor[d].known
                               /\ cursor'[d].root = cursor[d].root
    BY <1>1, <2>1, <2>2, ClosesUnlisted
  <2>4. /\ Alone(p) /\ call'[p].pc = "closeTaken" /\ call'[p].op = "closeRoot"
        /\ call'[p].r = call[p].r /\ call'[p].todo = call[p].todo \ {c}
        /\ call'[p].ticket = call[p].ticket /\ call'[p].cancelled = call[p].cancelled
    <3> DEFINE k == [call[p] EXCEPT !.todo = @ \ {c}]
    <3>1. /\ k \in CallSet /\ k.pc = call[p].pc /\ k.op = call[p].op /\ k.r = call[p].r
          /\ k.todo = call[p].todo \ {c} /\ k.ticket = call[p].ticket /\ k.cancelled = call[p].cancelled
      BY StepFacts DEF CallSet
    <3>2. call' = [call EXCEPT ![p] = k]
      BY <2>1
    <3> HIDE DEF k
    <3> QED
      BY <1>1, <3>1, <3>2 DEF Alone, IInv, TypeOK
  <2>5. ASSUME NEW q \in Procs, q # p
        PROVE  CallCursors(call[q])'
    <3>1. call'[q] = call[q] /\ CallCursors(call[q])
          /\ (call[q].pc = "closeCursor" => call[q].op \in {"page", "drop"})
      BY <2>4, <2>5, CallCursorsOf DEF Alone
    <3> QED
      BY <1>1, <2>3, <3>1 DEF CallCursors
  <2>6. CursorInv'
    <3>1. CallCursors(call[p])'
      BY <1>1, <2>3, <2>4, CallCursorsOf DEF CallCursors
    <3>2. \A d \in Cursors : cursor'[d].listed => cursor'[d].known
      BY <2>3 DEF IInv, CursorInv
    <3> QED
      BY <2>5, <3>1, <3>2 DEF CursorInv, CallCursors
  <2>7. "closeTaken" \in Flow["closeRoot"]
    BY DEF Flow
  <2> QED
    BY <1>1, <2>3, <2>4, <2>6, <2>7, CursorStepInv DEF Holding
<1>3. CASE Goes(p, "lock") /\ UNCHANGED cursor
  <2>1. "lock" \in Pcs /\ "lock" \in Flow["closeRoot"]
    BY DEF Pcs, Flow
  <2>2. /\ Alone(p) /\ call'[p].pc = "lock" /\ call'[p].op = call[p].op /\ call'[p].r = call[p].r
        /\ call'[p].c = call[p].c
        /\ call'[p].ticket = call[p].ticket /\ call'[p].cancelled = call[p].cancelled
    BY <1>3, <2>1, GoesCall DEF Alone, IInv
  <2>3. ArrivalOK(p)
    BY <1>1, <2>1, <2>2 DEF ArrivalOK
  <2>4. LockInv' /\ OpenInv'
    BY <1>1, <1>3, <2>2, NothingMoves, OutsideInv DEF Holding
  <2>5. LatchInv'
    BY <1>1, <2>2 DEF IInv, LatchInv, Latched, Alone
  <2> QED
    BY <1>1, <1>3, <2>2, <2>3, <2>4, <2>5, NothingMoves, StepInv DEF IInv, TypeOK
<1> QED
  BY <1>2, <1>3 DEF CloseTaken

(* CloseRoot keeps the invariant: nobody is in a section of the root, and none of
   its cursors is listed. *)
LEMMA CloseRootInv == ASSUME IInv, NEW p \in Procs, CloseRoot(p) PROVE IInv'
<1> DEFINE r == call[p].r
<1>1. /\ call[p].pc = "check" /\ call[p].op = "closeRoot" /\ r \in Roots
      /\ root' = [root EXCEPT ![r].closed = TRUE, ![r].writer = IF @ = p THEN NoProc ELSE @]
      /\ UNCHANGED <<cursor, lifecycle, running, calls, asked>>
  BY StepFacts DEF CloseRoot, At
<1>2. root[r].writer = p /\ \A q \in Procs : root[r].reads[q] = 0
  BY <1>1 DEF IInv, LockInv, Writes, Holding
<1>3. /\ root' \in [Roots -> RootSet] /\ root'[r].closed /\ root'[r].writer = NoProc
      /\ root'[r].reads = root[r].reads
      /\ \A s \in Roots : s # r => root'[s] = root[s]
  BY <1>1, <1>2, StepFacts DEF RootSet
<1>4. "unlist" \in Pcs /\ "unlist" \in Flow["closeRoot"]
  BY DEF Pcs, Flow
<1>5. /\ Alone(p) /\ call'[p].pc = "unlist" /\ call'[p].op = "closeRoot" /\ call'[p].r = r
      /\ call'[p].c = call[p].c
      /\ call'[p].ticket = call[p].ticket /\ call'[p].cancelled = call[p].cancelled
  BY <1>1, <1>4, GoesCall DEF CloseRoot, IInv, Alone
<1>6. \A c \in Cursors : cursor[c].listed => cursor[c].root # r
  BY <1>1 DEF IInv, CursorInv
<1> HIDE DEF r
<1>7. TypeOK'
  BY <1>1, <1>3, <1>5 DEF IInv, TypeOK, Alone
<1>8. FlowOK' /\ AskInv'
  BY <1>1, <1>4, <1>5 DEF IInv, FlowOK, AskInv, Alone
<1>9. CancelledWereAsked'
  BY <1>1, <1>5 DEF IInv, CancelledWereAsked, Alone
<1>10. \A q \in Procs : q # p /\ call[q].r = r => call[q].pc \notin Holding \cup {"drain"}
  <2>1. ASSUME NEW q \in Procs, q # p, call[q].r = r, call[q].pc \in Holding \cup {"drain"}
        PROVE  FALSE
    <3>1. CASE Writes(q)
      BY <1>1, <1>2, <2>1, <3>1 DEF IInv, LockInv
    <3>2. CASE ~Writes(q)
      <4>1. call[q].pc # "drain"
        BY <3>2, StepFacts DEF Writes, Flow
      <4> QED
        BY <1>1, <1>2, <2>1, <3>2, <4>1 DEF IInv, LockInv
    <3> QED
      BY <3>1, <3>2
  <2> QED
    BY <2>1
<1>11. LockInv'
  <2>1. ASSUME NEW s \in Roots, NEW q \in Procs
        PROVE  /\ root'[s].writer = q <=> q # p /\ root[s].writer = q
               /\ root'[s].reads = root[s].reads
    <3>1. CASE s = r
      BY <1>2, <1>3, <3>1, HandlesAssumption
    <3>2. CASE s # r
      <4>1. root[s].writer # p
        BY <3>2 DEF IInv, LockInv, r
      <4> QED
        BY <1>3, <3>2, <4>1
    <3> QED
      BY <3>1, <3>2
  <2>2. ~(call[p].pc \in Holding /\ ~Writes(p)) /\ call'[p].pc \notin Holding \cup {"drain"}
    BY <1>1, <1>5 DEF Writes, Holding
  <2> QED
    BY <2>1, <2>2, <1>5 DEF IInv, LockInv, Alone, Writes
<1>12. OpenInv'
  BY <1>3, <1>5, <1>10, StepFacts DEF IInv, OpenInv, Alone, Holding
<1>13. LatchInv'
  BY <1>1, <1>5 DEF IInv, LatchInv, Latched, Alone
<1>14. ListedCursorsLive'
  BY <1>1, <1>3, <1>6 DEF IInv, ListedCursorsLive, TypeOK, CursorSet
<1>15. lifecycle = p /\ \A q \in Procs : q # p => ~Latched(q)
  BY <1>1 DEF IInv, LatchInv, Latched
<1>16. CursorInv'
  <2>1. ASSUME NEW q \in Procs, q # p
        PROVE  CallCursors(call[q])'
    <3>1. call'[q] = call[q] /\ CallCursors(call[q])
      BY <1>5, <2>1, CallCursorsOf DEF Alone
    <3>2. call[q].pc # "addCursor"
      <4>1. call[q].pc = "addCursor" => call[q].op = "cursor"
        BY StepFacts DEF Flow
      <4> QED
        BY <1>15, <2>1, <4>1 DEF Latched
    <3> QED
      BY <1>1, <3>1, <3>2 DEF CallCursors
  <2>2. CallCursors(call[p])'
    BY <1>5 DEF CallCursors
  <2>3. \A d \in Cursors : cursor'[d].listed => cursor'[d].known
    BY <1>1 DEF IInv, CursorInv
  <2> QED
    BY <2>1, <2>2, <2>3 DEF CursorInv, CallCursors
<1> QED
  BY <1>7, <1>8, <1>9, <1>11, <1>12, <1>13, <1>14, <1>16 DEF IInv

-----------------------------------------------------------------------------
(* Cancellation *)

(* Cancel keeps the invariant: whoever it marks as cancelled was asked to end. *)
LEMMA CancelInv == ASSUME IInv, NEW p \in Procs, Cancel(p) PROVE IInv'
<1>1. /\ call[p].pc = "cancel" /\ call[p].op = "none"
      /\ UNCHANGED <<root, cursor, lifecycle, running, calls, asked>>
  BY StepFacts DEF Cancel, At, Flow
<1>2. call' = [q \in Procs |-> IF q = p THEN NoCall
                               ELSE IF <<q, call[q].ticket>> \in call[p].todo
                                    THEN [call[q] EXCEPT !.cancelled = TRUE] ELSE call[q]]
  BY DEF Cancel
<1>3. call'[p] = NoCall
  BY <1>2
<1>4. ASSUME NEW q \in Procs, q # p
      PROVE  /\ call'[q] \in CallSet /\ call'[q].pc = call[q].pc /\ call'[q].op = call[q].op
             /\ call'[q].r = call[q].r /\ call'[q].c = call[q].c /\ call'[q].todo = call[q].todo
             /\ call'[q].ticket = call[q].ticket
             /\ call'[q].cancelled => call[q].cancelled \/ <<q, call[q].ticket>> \in call[p].todo
  <2>1. CASE <<q, call[q].ticket>> \in call[p].todo
    <3>1. call'[q] = [call[q] EXCEPT !.cancelled = TRUE]
      BY <1>2, <1>4, <2>1
    <3> QED
      BY <2>1, <3>1, StepFacts DEF CallSet
  <2>2. CASE <<q, call[q].ticket>> \notin call[p].todo
    <3>1. call'[q] = call[q]
      BY <1>2, <1>4, <2>2
    <3> QED
      BY <3>1, StepFacts
  <2> QED
    BY <2>1, <2>2
<1>5. call' \in [Procs -> CallSet]
  <2>1. \A q \in Procs : call'[q] \in CallSet
    BY <1>3, <1>4, NoCallFields
  <2> QED
    BY <1>2, <2>1
<1>6. TypeOK' /\ FlowOK'
  <2>1. TypeOK'
    BY <1>1, <1>5 DEF IInv, TypeOK
  <2>2. "idle" \in Flow["none"]
    BY DEF Flow
  <2>3. FlowOK'
    BY <1>3, <1>4, <2>2, NoCallFields DEF IInv, FlowOK
  <2> QED
    BY <2>1, <2>3
<1>7. call'[p].pc = "idle" /\ call'[p].op = "none" /\ ~call'[p].cancelled
  BY <1>3, NoCallFields
<1>8. LockInv'
  <2>1. ASSUME NEW r \in Roots, NEW q \in Procs
        PROVE  /\ call'[q].r = r /\ Writes(q)' /\ call'[q].pc \in Holding \cup {"drain"} <=>
                      call[q].r = r /\ Writes(q) /\ call[q].pc \in Holding \cup {"drain"}
               /\ call'[q].r = r /\ ~Writes(q)' /\ call'[q].pc \in Holding <=>
                      call[q].r = r /\ ~Writes(q) /\ call[q].pc \in Holding
               /\ call[q].pc \in Holding => call'[q].pc = call[q].pc
               /\ call'[q].pc # "drain" => call[q].pc # "drain"
    BY <1>1, <1>4, <1>7 DEF Writes, Holding
  <2> QED
    BY <1>1, <2>1 DEF IInv, LockInv
<1>9. OpenInv' /\ LatchInv' /\ AskInv'
  BY <1>1, <1>4, <1>7 DEF IInv, OpenInv, LatchInv, Latched, AskInv
<1>10. CursorInv'
  <2>1. ASSUME NEW q \in Procs, q # p
        PROVE  CallCursors(call[q])'
    <3>1. CallCursors(call[q])
      BY CallCursorsOf
    <3> QED
      BY <1>1, <1>4, <2>1, <3>1 DEF CallCursors
  <2>2. CallCursors(call[p])'
    BY <1>7 DEF CallCursors
  <2> QED
    BY <1>1, <2>1, <2>2 DEF IInv, CursorInv, CallCursors
<1>11. ListedCursorsLive'
  BY <1>1 DEF IInv, ListedCursorsLive
<1>12. CancelledWereAsked'
  <2>1. \A x \in call[p].todo : x[2] \in asked
    BY <1>1 DEF IInv, AskInv
  <2>2. ASSUME NEW q \in Procs, q # p, call'[q].cancelled
        PROVE  call'[q].ticket \in asked
    <3>1. CASE call[q].cancelled
      BY <1>4, <2>2, <3>1 DEF IInv, CancelledWereAsked
    <3>2. CASE <<q, call[q].ticket>> \in call[p].todo
      BY <1>4, <2>1, <2>2, <3>2
    <3> QED
      BY <1>4, <2>2, <3>1, <3>2
  <2> QED
    BY <1>1, <1>7, <2>2 DEF CancelledWereAsked
<1> QED
  BY <1>6, <1>8, <1>9, <1>10, <1>11, <1>12 DEF IInv

-----------------------------------------------------------------------------
(* The theorems *)

(* The invariant holds when the run starts. *)
LEMMA InitIInv == Init => IInv
<1> SUFFICES ASSUME Init PROVE IInv
  OBVIOUS
<1> DEFINE r0 == CHOOSE r \in Opened : TRUE
<1>1. r0 \in Roots
  BY HandlesAssumption
<1>2. /\ root = [r \in Roots |-> [known |-> r \in Opened, listed |-> r \in Opened, closed |-> FALSE,
                                 writer |-> NoProc, reads |-> [p \in Procs |-> 0]]]
      /\ cursor = [c \in Cursors |-> [known |-> c \in Held, listed |-> c \in Held, open |-> c \in Held,
                                     root |-> r0, by |-> NoProc]]
      /\ lifecycle = NoProc /\ running = [i \in OpIds |-> NoProc]
      /\ call = [p \in Procs |-> NoCall] /\ calls = 0 /\ asked = {}
  BY DEF Init
<1> HIDE DEF r0
<1>3. \A p \in Procs : /\ call[p] = NoCall /\ call[p].pc = "idle" /\ call[p].op = "none"
                        /\ ~call[p].cancelled
  BY <1>2, NoCallFields
<1>4. TypeOK
  <2>1. root \in [Roots -> RootSet]
    BY <1>2 DEF RootSet
  <2>2. cursor \in [Cursors -> CursorSet]
    BY <1>1, <1>2 DEF CursorSet
  <2> QED
    BY <1>2, <2>1, <2>2, NoCallFields DEF TypeOK
<1>5. FlowOK /\ OpenInv /\ LatchInv /\ AskInv /\ CancelledWereAsked
  BY <1>3 DEF FlowOK, Flow, OpenInv, LatchInv, Latched, AskInv, CancelledWereAsked
<1>6. LockInv
  BY <1>2, <1>3, HandlesAssumption DEF LockInv, Holding
<1>7. CursorInv /\ ListedCursorsLive
  BY <1>1, <1>2, <1>3 DEF CursorInv, ListedCursorsLive
<1> QED
  BY <1>4, <1>5, <1>6, <1>7 DEF IInv

(* Every step keeps it. *)
LEMMA NextIInv == IInv /\ [Next]_vars => IInv'
<1> SUFFICES ASSUME IInv, [Next]_vars PROVE IInv'
  OBVIOUS
<1>1. ASSUME NEW p \in Procs, Step(p) PROVE IInv'
  BY <1>1, RLockInv, AnnounceInv, DrainInv, CheckInv, RLockAgainInv, UseInv, EndingsInv,
     FileStepsInv, LatchStepInv, UnlatchInv, AddCursorInv, PageInv, DropCursorInv, CloseCursorInv,
     TakeCursorsInv, CloseTakenInv, CloseRootInv, UnlistInv, TransferStepsInv, CancelInv
     DEF Step
<1>2. ASSUME NEW p \in Procs, NewCall(p) PROVE IInv'
  BY <1>2, OpenRootInv, RootCallInv, LifecycleCallInv, RunCallInv, FileCallInv, CursorCallInv,
     CancelCallInv DEF NewCall
<1>3. ASSUME Idle # {}, NewCall(CHOOSE p \in Idle : TRUE) PROVE IInv'
  <2>1. (CHOOSE p \in Idle : TRUE) \in Procs
    BY <1>3 DEF Idle
  <2> QED
    BY <1>2, <1>3, <2>1
<1>4. CASE UNCHANGED vars
  BY <1>4 DEF vars, IInv, TypeOK, FlowOK, LockInv, Writes, OpenInv, LatchInv, Latched, CursorInv,
     AskInv, ListedCursorsLive, CancelledWereAsked
<1> QED
  BY <1>1, <1>3, <1>4 DEF Next

(* The strengthened invariant holds in every reachable state of the handles. *)
LEMMA HandlesInvariant == Spec => []IInv
BY InitIInv, NextIInv, PTL DEF Spec

\* A method of a root works with living keys to its end, and a Rename works alone,
\* for any number of threads, roots and calls (sec_root.go: every method takes the
\* lock, asks for closed, and keeps the lock until it is done).
THEOREM KeysLive == Spec => []KeysLiveInSections
<1>1. IInv => KeysLiveInSections
  <2> SUFFICES ASSUME IInv, NEW p \in Procs, At(p, "using") \/ At(p, "again")
               PROVE  /\ ~root[call[p].r].closed
                      /\ call[p].op = "rename" => Readers(call[p].r) = {}
    BY DEF KeysLiveInSections
  <2>1. ~root[call[p].r].closed
    BY DEF IInv, OpenInv, At
  <2>2. call[p].op = "rename" => \A q \in Procs : root[call[p].r].reads[q] = 0
    BY StepFacts DEF IInv, LockInv, At, Writes, Holding
  <2> QED
    BY <2>1, <2>2 DEF Readers
<1> QED
  BY <1>1, HandlesInvariant, PTL

\* A cursor that can be found has an open walker and an open root: the mutex of
\* ffi.go keeps the opening of cursors and the closing of roots apart.
THEOREM CursorsLive == Spec => []ListedCursorsLive
BY HandlesInvariant, PTL DEF IInv

\* Only a call that some request found running is cancelled, however often its
\* name is used again (runtime_operations.go).
THEOREM CancelsAreAsked == Spec => []CancelledWereAsked
BY HandlesInvariant, PTL DEF IInv
=============================================================================
