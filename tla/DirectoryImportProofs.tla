------------------------ MODULE DirectoryImportProofs ------------------------
(***************************************************************************)
(* Proofs about DirectoryImport.  The parts of the inductive invariant:    *)
(*                                                                         *)
(*   TypeOK    the types;                                                  *)
(*   TreesOK   a file is no directory, and nothing is there without the    *)
(*             directory imported;                                         *)
(*   MarkedOK  an import that has changed the vault is known by its        *)
(*             marker, or is a rerun that has not written its own yet;     *)
(*   RefusedOK what was asked not to be replaced has the request's         *)
(*             decision with it, in the marker and in the call;            *)
(*   WalkOK    a file of the source is imported, or still to be met.       *)
(***************************************************************************)
EXTENDS DirectoryImport, SequenceTheorems, TLAPS

All == Paths \cup {<<>>}
Kinds == {Gone, Dir, Vault, Link}
Asked == [there: SUBSET All, cli: BOOLEAN, wrote: BOOLEAN, gap: BOOLEAN]

-----------------------------------------------------------------------------
(* The inductive invariant *)

TypeOK ==
    /\ source \in [All -> Values \cup Kinds]
    /\ dest \in [All -> Values \cup Kinds]
    /\ temp \subseteq Paths
    /\ backup \in [Paths -> Values \cup Kinds]
    /\ marker \in [Ops -> Markers \cup {NoMarker}]
    /\ call \in Calls \cup {NoCall}
    /\ asked \in [Ops -> Asked]
    /\ spent \in [Events -> Nat]

TreesOK ==
    /\ \A p \in Paths : source[p] \in Values => p \notin Dirs
    /\ \A p \in Paths : dest[p] # Gone => dest[<<>>] # Gone

\* The call of operation o has not come to write its marker.
Unmarked(o) == Running /\ call.op = o /\ call.pc \in {"begin", "mark"}

MarkedOK ==
    /\ \A o \in Ops : asked[o].wrote => marker[o] # NoMarker \/ asked[o].gap \/ Unmarked(o)
    /\ Running => marker[call.op] # NoMarker \/ Unmarked(call.op)

\* Operation o was told to replace nothing, where something was there.
Refuses(o) == asked[o].there # {} /\ ~asked[o].cli

RefusedOK ==
    \A o \in Ops : Refuses(o) =>
        /\ dest[<<>>] # Gone
        /\ marker[o] # NoMarker => ~marker[o].overwrite /\ marker[o].existed
        /\ Running /\ call.op = o => /\ ~call.overwrite /\ call.existed
                                     /\ call.pc \in {"begin", "mark", "count", "check"}

\* The file p of the source is on the way of the walk.
OnTheWay(p) ==
    /\ source[p] \in Values
    /\ IF call.flat THEN Len(p) = 1
       ELSE \A n \in 1..Len(p) - 1 : source[SubSeq(p, 1, n)] = Dir

\* The walk has p, or a directory above it, before it.
Pending(p) == \E n \in 1..Len(p) : SubSeq(p, 1, n) \in call.todo

Imported(p) == dest[p] = source[p] /\ p \notin temp /\ backup[p] = Gone

WalkOK ==
    At("visit") =>
        \A p \in call.stayed :
            /\ OnTheWay(p)
            /\ p \notin call.touched => Pending(p) \/ Imported(p)

IInv == TypeOK /\ TreesOK /\ MarkedOK /\ RefusedOK /\ WalkOK

-----------------------------------------------------------------------------
(* Paths *)

\* The entries of a path are paths, those above it directories.
LEMMA PathsAbove ==
    ASSUME NEW p \in Paths
    PROVE  /\ Len(p) \in Nat \ {0} /\ SubSeq(p, 1, Len(p)) = p
           /\ Front(p) \in All /\ Len(Front(p)) = Len(p) - 1
           /\ \A n \in 1..Len(p) : /\ SubSeq(p, 1, n) \in Paths
                                   /\ Front(SubSeq(p, 1, n)) = SubSeq(p, 1, n - 1)
           /\ \A n \in 1..Len(p) - 1 : SubSeq(p, 1, n) \in Dirs
<1> DEFINE S == UNION {ToSet(q) : q \in Paths}
<1>1. p \in Seq(S) /\ p # <<>> /\ \A n \in 1..Len(p) : SubSeq(p, 1, n) \in Paths
  BY DirectoryImportAssumption
<1> HIDE DEF S
<1>2. Len(p) \in Nat \ {0} /\ SubSeq(p, 1, Len(p)) = p
  BY <1>1
<1>3. ASSUME NEW n \in 1..Len(p)
      PROVE  Front(SubSeq(p, 1, n)) = SubSeq(p, 1, n - 1)
  BY <1>1, <1>2 DEF Front
<1>4. Front(p) = SubSeq(p, 1, Len(p) - 1)
  BY DEF Front
<1>5. Len(Front(p)) = Len(p) - 1
  BY <1>1, <1>2, <1>4
<1>6. Front(p) \in All
  <2>1. CASE Len(p) = 1
    BY <2>1, <1>1, <1>2, <1>4, <1>5 DEF All
  <2>2. CASE Len(p) > 1
    BY <2>2, <1>1, <1>2, <1>4 DEF All
  <2> QED  BY <2>1, <2>2, <1>2
<1>7. ASSUME NEW n \in 1..Len(p) - 1
      PROVE  SubSeq(p, 1, n) \in Dirs
  <2>1. n + 1 \in 1..Len(p) /\ (n + 1) - 1 = n
    BY <1>2
  <2>2. SubSeq(p, 1, n + 1) \in Paths /\ Front(SubSeq(p, 1, n + 1)) = SubSeq(p, 1, n)
    BY <2>1, <1>1, <1>3
  <2> QED  BY <2>2 DEF Dirs
<1>8. \A n \in 1..Len(p) : /\ SubSeq(p, 1, n) \in Paths
                           /\ Front(SubSeq(p, 1, n)) = SubSeq(p, 1, n - 1)
  BY <1>1, <1>3
<1>9. \A n \in 1..Len(p) - 1 : SubSeq(p, 1, n) \in Dirs
  BY <1>7
<1> QED  BY <1>2, <1>5, <1>6, <1>8, <1>9, Zenon

LEMMA DirsArePaths == ASSUME NEW p \in Dirs PROVE p \in All
<1>1. PICK q \in Paths : p = Front(q)
  BY DEF Dirs
<1> QED  BY <1>1, PathsAbove

\* mkdirAllRoot keeps what is there, and the directory imported is there afterwards.
LEMMA MadeDirKeeps ==
    ASSUME TypeOK, NEW q \in All
    PROVE  /\ MadeDir(q) \in [All -> Values \cup Kinds]
           /\ MadeDir(q)[<<>>] # Gone
           /\ \A p \in All : dest[p] # Gone => MadeDir(q)[p] = dest[p]
<1>1. dest \in [All -> Values \cup Kinds] /\ DOMAIN dest = All /\ <<>> \in All
  BY DEF TypeOK, All
<1>2. Dir \in Kinds /\ Gone # Dir
  BY DEF Kinds, Gone, Dir
<1>3. Len(<<>>) <= Len(q) /\ <<>> = SubSeq(q, 1, Len(<<>>))
  <2>2. CASE q = <<>>
    BY <2>2
  <2>3. CASE q \in Paths
    <3>1. q \in Seq(UNION {ToSet(r) : r \in Paths})
      BY <2>3, DirectoryImportAssumption
    <3> QED  BY <3>1
  <2> QED  BY <2>2, <2>3 DEF All
<1> QED  BY <1>1, <1>2, <1>3 DEF MadeDir

-----------------------------------------------------------------------------
(* What the steps of a call have in common *)

\* A running call, from its entry in the types.
LEMMA CallTypes ==
    ASSUME TypeOK, Running
    PROVE  /\ call \in Calls /\ call.op \in Ops /\ call # NoCall
           /\ call.overwrite \in BOOLEAN /\ call.existed \in BOOLEAN /\ call.flat \in BOOLEAN
           /\ call.todo \subseteq Paths /\ call.stayed \subseteq Paths
           /\ call.touched \subseteq All
BY DEF TypeOK, Running, Calls, All

LEMMA NoCallIsNone == NoCall \notin Calls /\ NoMarker \notin Markers
BY DirectoryImportAssumption

\* The directory imported does not go away.
TopStays == dest[<<>>] # Gone => dest'[<<>>] # Gone

\* The history keeps the request, and takes down no more than that operation call.op wrote.
AskedGoes ==
    /\ asked' \in [Ops -> Asked]
    /\ \A o \in Ops : /\ asked'[o].there = asked[o].there /\ asked'[o].cli = asked[o].cli
                      /\ asked[o].gap => asked'[o].gap
                      /\ asked'[o].wrote => asked[o].wrote \/ o = call.op

\* The call goes on with its request, past its marker, or ends.
CallGoes ==
    \/ call' = NoCall
    \/ /\ call' \in Calls
       /\ call'.op = call.op /\ call'.overwrite = call.overwrite /\ call'.existed = call.existed
       /\ call'.pc \notin {"begin", "mark"}

Past == Running /\ call.pc \notin {"begin", "mark"} /\ marker' = marker /\ AskedGoes /\ CallGoes

LEMMA PastMarked ==
    ASSUME IInv, Past
    PROVE  MarkedOK'
<1>1. Running /\ call.op \in Ops /\ marker[call.op] # NoMarker /\ marker' = marker
  <2>1. ~Unmarked(call.op)
    BY DEF Past, Unmarked
  <2> QED  BY <2>1, CallTypes DEF IInv, MarkedOK, Past
<1>2. ASSUME NEW o \in Ops, asked'[o].wrote
      PROVE  marker'[o] # NoMarker \/ asked'[o].gap
  <2>1. CASE o = call.op
    BY <2>1, <1>1
  <2>2. CASE o # call.op
    <3>1. asked[o].wrote /\ ~Unmarked(o)
      BY <2>2, <1>2 DEF Past, AskedGoes, Unmarked
    <3>2. marker[o] # NoMarker \/ asked[o].gap
      BY <3>1 DEF IInv, MarkedOK
    <3> QED  BY <3>2, <1>1 DEF Past, AskedGoes
  <2> QED  BY <2>1, <2>2
<1>3. Running' => marker'[call'.op] # NoMarker
  BY <1>1 DEF Past, CallGoes, Running
<1> QED  BY <1>2, <1>3 DEF MarkedOK

LEMMA PastRefused ==
    ASSUME IInv, Past, TopStays,
           call' # NoCall /\ call.pc \in {"count", "check"} /\ Refuses(call.op)
               => call'.pc \in {"count", "check"}
    PROVE  RefusedOK'
<1>1. SUFFICES ASSUME NEW o \in Ops, Refuses(o)'
               PROVE  /\ dest'[<<>>] # Gone
                      /\ marker'[o] # NoMarker => ~marker'[o].overwrite /\ marker'[o].existed
                      /\ Running' /\ call'.op = o =>
                            /\ ~call'.overwrite /\ call'.existed
                            /\ call'.pc \in {"begin", "mark", "count", "check"}
  BY DEF RefusedOK
<1>2. Refuses(o)
  BY <1>1 DEF Refuses, Past, AskedGoes
<1>3. /\ dest[<<>>] # Gone
      /\ marker[o] # NoMarker => ~marker[o].overwrite /\ marker[o].existed
      /\ Running /\ call.op = o => /\ ~call.overwrite /\ call.existed
                                   /\ call.pc \in {"begin", "mark", "count", "check"}
  BY <1>2 DEF IInv, RefusedOK
<1>4. ASSUME Running', call'.op = o
      PROVE  /\ ~call'.overwrite /\ call'.existed
             /\ call'.pc \in {"begin", "mark", "count", "check"}
  <2>1. call' # NoCall /\ call.op = o /\ Running
    BY <1>4 DEF Past, CallGoes, Running
  <2> QED  BY <2>1, <1>2, <1>3 DEF Past, CallGoes
<1> QED  BY <1>3, <1>4 DEF TopStays, Past

\* A call that is not at its walk has nothing to show for it.
LEMMA NoWalk ==
    ASSUME call' = NoCall \/ call'.pc # "visit"
    PROVE  WalkOK'
BY DEF WalkOK, At, Running

\* The history of the steps that write.
LEMMA WroteGoes ==
    ASSUME IInv, Running, NEW X \in BOOLEAN,
           asked' = [asked EXCEPT ![call.op].wrote = asked[call.op].wrote \/ X]
    PROVE  AskedGoes
<1>1. call.op \in Ops /\ asked \in [Ops -> Asked]
  BY CallTypes DEF IInv, TypeOK
<1>2. asked[call.op] \in Asked
  BY <1>1
<1> QED  BY <1>1, <1>2 DEF AskedGoes, Asked

LEMMA SameAsked ==
    ASSUME IInv, asked' = asked
    PROVE  AskedGoes
BY DEF IInv, TypeOK, AskedGoes

\* The directories a step makes.
LEMMA MakesOK ==
    ASSUME IInv, Running, NEW q \in All, Makes(q) \/ UNCHANGED <<dest, asked>>
    PROVE  /\ dest' \in [All -> Values \cup Kinds]
           /\ \A p \in All : dest[p] # Gone => dest'[p] = dest[p]
           /\ \A p \in Paths : dest'[p] # Gone => dest'[<<>>] # Gone
           /\ AskedGoes /\ TopStays
<1>1. CASE Makes(q)
  <2>1. TypeOK /\ <<>> \in All
    BY DEF IInv, All
  <2>2. dest' = MadeDir(q)
    BY <1>1 DEF Makes
  <2>3. AskedGoes
    <3> DEFINE X == dest' # dest
    <3>1. X \in BOOLEAN /\ asked' = [asked EXCEPT ![call.op].wrote = asked[call.op].wrote \/ X]
      BY <1>1 DEF Makes
    <3> HIDE DEF X
    <3> QED  BY <3>1, WroteGoes
  <2> QED  BY <2>1, <2>2, <2>3, MadeDirKeeps DEF TopStays
<1>2. CASE UNCHANGED <<dest, asked>>
  BY <1>2, SameAsked DEF IInv, TypeOK, TreesOK, TopStays
<1> QED  BY <1>1, <1>2

-----------------------------------------------------------------------------
(* The steps before the walk *)

LEMMA InitOK == Init => IInv
<1> SUFFICES ASSUME Init PROVE IInv
  OBVIOUS
<1>1. TypeOK
  <2>1. source \in [All -> Values \cup Kinds] /\ dest \in [All -> Values \cup Kinds]
    BY DirectoryImportAssumption DEF Init, All, Kinds
  <2> QED  BY <2>1 DEF Init, TypeOK, NothingAsked, Asked, Kinds
<1>2. TreesOK
  <2>1. source \in Sources \cup Dests /\ dest \in Sources \cup Dests
    BY DEF Init
  <2>2. Gone \notin Values /\ Dir \notin Values /\ Vault \notin Values
    BY DirectoryImportAssumption
  <2>3. ASSUME NEW p \in Paths, source[p] \in Values
        PROVE  p \notin Dirs
    BY <2>1, <2>2, <2>3, DirectoryImportAssumption
  <2>4. ASSUME NEW p \in Paths, dest[p] # Gone
        PROVE  dest[<<>>] # Gone
    BY <2>1, <2>4, DirectoryImportAssumption
  <2> QED  BY <2>3, <2>4 DEF TreesOK
<1>3. ~Running /\ \A o \in Ops : ~asked[o].wrote /\ asked[o].there = {}
  BY DEF Init, Running, NothingAsked
<1> QED  BY <1>1, <1>2, <1>3 DEF IInv, MarkedOK, RefusedOK, Refuses, WalkOK, At

\* The trees and the types, for a step that leaves the files alone.
SameFiles == UNCHANGED <<source, dest, temp, backup>>

LEMMA FilesTypes ==
    ASSUME IInv, SameFiles,
           marker' \in [Ops -> Markers \cup {NoMarker}], call' \in Calls \cup {NoCall},
           asked' \in [Ops -> Asked], spent' \in [Events -> Nat]
    PROVE  TypeOK' /\ TreesOK'
BY DEF IInv, SameFiles, TypeOK, TreesOK

LEMMA Spends ==
    ASSUME TypeOK, NEW e \in Events, Spend(e)
    PROVE  spent' \in [Events -> Nat] /\ \A f \in Events \ {e} : spent'[f] = spent[f]
BY DEF TypeOK, Spend

LEMMA EventsAre ==
    /\ "source" \in Events /\ "dest" \in Events /\ "fault" \in Events /\ "crash" \in Events
    /\ "clean" \in Events /\ "start" \in Events
BY DEF Events

\* The bound on faults is spent or is not.
LEMMA FaultTypes ==
    ASSUME TypeOK, Spend("fault") \/ UNCHANGED spent
    PROVE  spent' \in [Events -> Nat]
BY EventsAre, Spends DEF TypeOK

\* A call begins for an operation without a marker.
LEMMA BeginsOK ==
    ASSUME IInv, ~Running, NEW o \in Ops, NEW overwrite \in BOOLEAN, NEW flat \in BOOLEAN,
           Begins(o, overwrite, flat)
    PROVE  call' \in Calls /\ Unmarked(o)' /\ WalkOK' /\ call'.op = o /\ Running'
<1>1. call' \in Calls
  BY DEF Begins, Calls
<1>2. call' # NoCall
  BY <1>1, NoCallIsNone
<1> QED  BY <1>1, <1>2, NoWalk DEF Begins, Unmarked, Running

LEMMA StartOK ==
    ASSUME IInv, NEW overwrite \in BOOLEAN, NEW flat \in BOOLEAN, Start(overwrite, flat)
    PROVE  IInv'
<1>1. PICK o \in Ops :
        /\ marker[o] = NoMarker
        /\ Begins(o, overwrite, flat)
        /\ asked' = [asked EXCEPT ![o] =
                        [NothingAsked EXCEPT !.there = IF overwrite THEN {} ELSE Occupied]]
  <2> DEFINE free == {o \in Ops : marker[o] = NoMarker}
             o == CHOOSE o \in free : TRUE
  <2>1. free # {} /\ Begins(o, overwrite, flat)
        /\ asked' = [asked EXCEPT ![o] =
                        [NothingAsked EXCEPT !.there = IF overwrite THEN {} ELSE Occupied]]
    BY DEF Start
  <2>2. o \in free
    BY <2>1
  <2> QED  BY <2>1, <2>2
<1>2. ~Running /\ SameFiles /\ marker' = marker /\ Spend("start")
  BY DEF Start, SameFiles, vault
<1>3. call' \in Calls /\ Unmarked(o)' /\ WalkOK' /\ call'.op = o /\ Running'
  BY <1>1, <1>2, BeginsOK
<1>4. Occupied \subseteq All
  BY DEF IInv, TypeOK, Occupied
<1>5. /\ asked'[o].there = IF overwrite THEN {} ELSE Occupied
      /\ ~asked'[o].wrote /\ ~asked'[o].cli /\ asked' \in [Ops -> Asked]
      /\ \A u \in Ops \ {o} : asked'[u] = asked[u]
  BY <1>1, <1>4 DEF IInv, TypeOK, NothingAsked, Asked
<1>6. TypeOK' /\ TreesOK'
  BY <1>2, <1>3, <1>5, FilesTypes, Spends, EventsAre DEF IInv, TypeOK
<1>7. MarkedOK'
  <2>1. ASSUME NEW u \in Ops, asked'[u].wrote
        PROVE  marker'[u] # NoMarker \/ asked'[u].gap
    <3>1. u # o /\ asked[u].wrote /\ ~Unmarked(u)
      BY <2>1, <1>2, <1>5 DEF Unmarked
    <3> QED  BY <3>1, <1>2, <1>5 DEF IInv, MarkedOK
  <2> QED  BY <2>1, <1>3 DEF MarkedOK
<1>8. RefusedOK'
  <2>1. SUFFICES ASSUME NEW u \in Ops, Refuses(u)'
                 PROVE  /\ dest'[<<>>] # Gone
                        /\ marker'[u] # NoMarker => ~marker'[u].overwrite /\ marker'[u].existed
                        /\ Running' /\ call'.op = u =>
                              /\ ~call'.overwrite /\ call'.existed
                              /\ call'.pc \in {"begin", "mark", "count", "check"}
    BY DEF RefusedOK
  <2>2. CASE u # o
    <3>1. Refuses(u)
      BY <2>1, <2>2, <1>5 DEF Refuses
    <3> QED  BY <3>1, <2>2, <1>2, <1>3 DEF IInv, RefusedOK, SameFiles
  <2>3. CASE u = o
    <3>1. ~overwrite /\ Occupied # {}
      BY <2>1, <2>3, <1>5 DEF Refuses
    <3>2. dest[<<>>] # Gone
      <4>1. PICK p \in All : dest[p] # Gone
        BY <3>1 DEF Occupied, IInv, TypeOK
      <4> QED  BY <4>1 DEF All, IInv, TreesOK
    <3> QED  BY <3>1, <3>2, <2>3, <1>1, <1>2 DEF Begins, SameFiles
  <2> QED  BY <2>2, <2>3
<1> QED  BY <1>3, <1>6, <1>7, <1>8 DEF IInv

\* The call is looked at and not its request.
LEMMA LookAtDestOK ==
    ASSUME IInv, LookAtDest
    PROVE  IInv'
<1>1. /\ Running /\ call.pc = "begin" /\ SameFiles /\ UNCHANGED <<marker, asked, spent>>
      /\ call' = [call EXCEPT !.pc = "mark", !.existed = (dest[<<>>] # Gone)]
  BY DEF LookAtDest, At, SameFiles, vault
<1>2. call' \in Calls /\ call'.op = call.op /\ call'.overwrite = call.overwrite
      /\ call'.pc = "mark" /\ call'.existed = (dest[<<>>] # Gone) /\ call.op \in Ops
  BY <1>1, CallTypes DEF IInv, Calls
<1>3. call' # NoCall
  BY <1>2, NoCallIsNone
<1>4. TypeOK' /\ TreesOK'
  BY <1>1, <1>2, FilesTypes DEF IInv, TypeOK
<1>5. \A o \in Ops : Unmarked(o)' <=> Unmarked(o)
  BY <1>1, <1>2, <1>3 DEF Unmarked, Running
<1>6. MarkedOK'
  BY <1>1, <1>2, <1>5 DEF IInv, MarkedOK, Running
<1>7. RefusedOK'
  BY <1>1, <1>2 DEF IInv, RefusedOK, Refuses, Running, SameFiles
<1> QED  BY <1>2, <1>4, <1>6, <1>7, NoWalk DEF IInv

\* The marker holds the decision of the call; if it was not written, the gap is taken down.
LEMMA WriteMarkerOK ==
    ASSUME IInv, WriteMarker
    PROVE  IInv'
<1> DEFINE m == [overwrite |-> call.overwrite, existed |-> call.existed]
           written == [marker EXCEPT ![call.op] = m]
<1>1. /\ Running /\ call.pc = "mark" /\ SameFiles /\ call.op \in Ops /\ call \in Calls
      /\ \/ /\ marker' = written /\ call' = [call EXCEPT !.pc = "count"]
            /\ UNCHANGED <<asked, spent>>
         \/ /\ marker' \in {marker, written} /\ Spend("fault") /\ call' = NoCall
            /\ asked' = [asked EXCEPT ![call.op].gap = asked[call.op].gap \/ marker' = marker]
  BY CallTypes DEF WriteMarker, At, SameFiles, vault, Goto, Fails, Return, IInv
<1>2. m \in Markers /\ m # NoMarker /\ m.overwrite = call.overwrite /\ m.existed = call.existed
  BY <1>1, NoCallIsNone DEF Calls, Markers
<1>3. /\ written \in [Ops -> Markers \cup {NoMarker}] /\ written[call.op] = m
      /\ \A o \in Ops \ {call.op} : written[o] = marker[o]
  BY <1>1, <1>2 DEF IInv, TypeOK
<1> HIDE DEF written, m
<1>4. /\ asked' \in [Ops -> Asked]
      /\ \A o \in Ops : /\ asked'[o].there = asked[o].there /\ asked'[o].cli = asked[o].cli
                        /\ asked'[o].wrote = asked[o].wrote
                        /\ asked[o].gap => asked'[o].gap
                        /\ o = call.op /\ marker' # written => asked'[o].gap
  <2>1. asked \in [Ops -> Asked] /\ asked[call.op] \in Asked
    BY <1>1 DEF IInv, TypeOK
  <2>2. CASE asked' = asked
    BY <2>1, <2>2, <1>1 DEF Asked
  <2>3. CASE /\ marker' \in {marker, written}
             /\ asked' = [asked EXCEPT ![call.op].gap = asked[call.op].gap \/ marker' = marker]
    <3> DEFINE X == marker' = marker
    <3>1. X \in BOOLEAN /\ (marker' # written => X)
      BY <2>3
    <3>2. asked' = [asked EXCEPT ![call.op].gap = asked[call.op].gap \/ X]
      BY <2>3
    <3> HIDE DEF X
    <3> QED  BY <3>1, <3>2, <2>1, <1>1 DEF Asked
  <2> QED  BY <2>2, <2>3, <1>1
<1>5. /\ call' = NoCall \/ (call' \in Calls /\ call'.op = call.op /\ call'.pc = "count"
                            /\ call'.overwrite = call.overwrite /\ call'.existed = call.existed)
      /\ call' # NoCall => marker' = written
      /\ marker' \in {marker, written}
      /\ spent' \in [Events -> Nat]
  BY <1>1, FaultTypes DEF Calls, IInv, TypeOK
<1>6. TypeOK' /\ TreesOK'
  BY <1>1, <1>3, <1>4, <1>5, FilesTypes DEF IInv, TypeOK
<1>7. MarkedOK'
  <2>1. ASSUME NEW o \in Ops, asked'[o].wrote
        PROVE  marker'[o] # NoMarker \/ asked'[o].gap
    <3>1. CASE o = call.op
      BY <3>1, <1>2, <1>3, <1>4
    <3>2. CASE o # call.op
      <4>1. asked[o].wrote /\ ~Unmarked(o)
        BY <2>1, <3>2, <1>4 DEF Unmarked
      <4> QED  BY <4>1, <3>2, <1>3, <1>4, <1>5 DEF IInv, MarkedOK
    <3> QED  BY <3>1, <3>2
  <2>2. Running' => marker'[call'.op] # NoMarker
    BY <1>2, <1>3, <1>5 DEF Running
  <2> QED  BY <2>1, <2>2 DEF MarkedOK
<1>8. RefusedOK'
  <2>1. SUFFICES ASSUME NEW o \in Ops, Refuses(o)'
                 PROVE  /\ dest'[<<>>] # Gone
                        /\ marker'[o] # NoMarker => ~marker'[o].overwrite /\ marker'[o].existed
                        /\ Running' /\ call'.op = o =>
                              /\ ~call'.overwrite /\ call'.existed
                              /\ call'.pc \in {"begin", "mark", "count", "check"}
    BY DEF RefusedOK
  <2>2. Refuses(o)
    BY <2>1, <1>4 DEF Refuses
  <2>3. /\ dest[<<>>] # Gone
        /\ marker[o] # NoMarker => ~marker[o].overwrite /\ marker[o].existed
        /\ call.op = o => ~call.overwrite /\ call.existed
    BY <2>2, <1>1 DEF IInv, RefusedOK
  <2> QED  BY <2>3, <1>1, <1>2, <1>3, <1>5 DEF Running, SameFiles
<1> QED  BY <1>5, <1>6, <1>7, <1>8, NoWalk DEF IInv

\* The first walk, and the look at the destination, which is where an import that may not
\* merge ends.
LEMMA CountOK ==
    ASSUME IInv, Count
    PROVE  IInv'
<1>1. /\ Running /\ call.pc = "count" /\ SameFiles /\ UNCHANGED <<marker, asked>>
      /\ call' = [call EXCEPT !.pc = "check"] \/ call' = NoCall
      /\ Spend("fault") \/ UNCHANGED spent
  BY DEF Count, At, SameFiles, vault, Goto, Fails, Return
<1>2. /\ call' = NoCall \/ (call' \in Calls /\ call'.op = call.op /\ call'.pc = "check"
                            /\ call'.overwrite = call.overwrite /\ call'.existed = call.existed)
  BY <1>1, CallTypes DEF IInv, Calls
<1>3. Past /\ TopStays
  BY <1>1, <1>2, SameAsked DEF Past, CallGoes, TopStays, SameFiles
<1>4. TypeOK' /\ TreesOK'
  BY <1>1, <1>2, FilesTypes, FaultTypes DEF IInv, TypeOK
<1> QED  BY <1>2, <1>3, <1>4, PastMarked, PastRefused, NoWalk DEF IInv

LEMMA CheckDestOK ==
    ASSUME IInv, CheckDest
    PROVE  IInv'
<1>1. /\ Running /\ call.pc = "check" /\ SameFiles /\ UNCHANGED <<marker, asked, spent>>
      /\ \/ call' = NoCall
         \/ call' = [call EXCEPT !.pc = "mkdir"] /\ (call.overwrite \/ dest[<<>>] = Gone)
  BY DEF CheckDest, At, SameFiles, vault, Goto, Return
<1>2. /\ call' = NoCall \/ (call' \in Calls /\ call'.op = call.op /\ call'.pc = "mkdir"
                            /\ call'.overwrite = call.overwrite /\ call'.existed = call.existed)
      /\ call.op \in Ops
  BY <1>1, CallTypes DEF IInv, Calls
<1>3. Past /\ TopStays
  BY <1>1, <1>2, SameAsked DEF Past, CallGoes, TopStays, SameFiles
<1>4. TypeOK' /\ TreesOK'
  BY <1>1, <1>2, FilesTypes DEF IInv, TypeOK
<1>5. Refuses(call.op) => call' = NoCall
  BY <1>1, <1>2 DEF IInv, RefusedOK
<1> QED  BY <1>2, <1>3, <1>4, <1>5, PastMarked, PastRefused, NoWalk DEF IInv

LEMMA MakeDestOK ==
    ASSUME IInv, MakeDest
    PROVE  IInv'
<1>1. /\ Running /\ call.pc = "mkdir" /\ UNCHANGED <<source, temp, backup, marker>>
      /\ Makes(<<>>) \/ UNCHANGED <<dest, asked>>
      /\ call' = [call EXCEPT !.pc = "list"] \/ call' = NoCall
      /\ Spend("fault") \/ UNCHANGED spent
  BY DEF MakeDest, At, Goto, Fails, Return
<1>2. /\ call' = NoCall \/ (call' \in Calls /\ call'.op = call.op /\ call'.pc = "list"
                            /\ call'.overwrite = call.overwrite /\ call'.existed = call.existed)
  BY <1>1, CallTypes DEF IInv, Calls
<1>3. /\ dest' \in [All -> Values \cup Kinds]
      /\ \A p \in Paths : dest'[p] # Gone => dest'[<<>>] # Gone
      /\ AskedGoes /\ TopStays
  <2>1. <<>> \in All
    BY DEF All
  <2> QED  BY <2>1, <1>1, MakesOK
<1>4. Past
  BY <1>1, <1>2, <1>3 DEF Past, CallGoes
<1>5. TypeOK' /\ TreesOK'
  BY <1>1, <1>2, <1>3, FaultTypes DEF IInv, TypeOK, TreesOK, AskedGoes
<1> QED  BY <1>1, <1>2, <1>3, <1>4, <1>5, PastMarked, PastRefused, NoWalk DEF IInv

-----------------------------------------------------------------------------
(* The walk *)

LEMMA ValuesAre == Gone \notin Values /\ Dir \notin Values /\ Vault \notin Values /\ Dir # Gone
                   /\ Vault # Gone /\ Dir # Vault
BY DirectoryImportAssumption DEF Gone, Dir, Vault

LEMMA Between == ASSUME NEW k \in Nat, NEW n \in 1..k PROVE n = k \/ (n < k /\ k # 1)
OBVIOUS

\* On its way the walk meets entries that are there and no vaults.
LEMMA WayIsThere ==
    ASSUME IInv, NEW p \in Paths, OnTheWay(p), NEW n \in 1..Len(p), call.flat => n = 1
    PROVE  /\ SubSeq(p, 1, n) \in Paths /\ source[SubSeq(p, 1, n)] \notin {Gone, Vault}
           /\ SubSeq(p, 1, n) = p \/ n < Len(p)
<1>1. Len(p) \in Nat \ {0} /\ SubSeq(p, 1, Len(p)) = p /\ SubSeq(p, 1, n) \in Paths
  BY PathsAbove
<1>2. CASE n = Len(p)
  BY <1>1, <1>2, ValuesAre DEF OnTheWay
<1>3. CASE n < Len(p)
  <2>1. ~call.flat /\ n \in 1..Len(p) - 1
    BY <1>1, <1>3 DEF OnTheWay
  <2>2. source[SubSeq(p, 1, n)] = Dir
    BY <2>1 DEF OnTheWay
  <2> QED  BY <2>2, <1>1, <1>3, ValuesAre
<1>4. n = Len(p) \/ n < Len(p)
  <2>1. Len(p) \in Nat
    BY <1>1
  <2> QED  BY <2>1, Between
<1> QED  BY <1>2, <1>3, <1>4

\* The walk goes on when it loses no file.
LEMMA WalksOn ==
    ASSUME IInv, Running, call.pc = "visit", source' = source,
           call'.flat = call.flat, call'.stayed = call.stayed, call'.touched = call.touched,
           \A p \in call.stayed \ call.touched :
               Pending(p) \/ Imported(p) => Pending(p)' \/ Imported(p)'
    PROVE  WalkOK'
<1>1. SUFFICES ASSUME NEW p \in call'.stayed
               PROVE  OnTheWay(p)' /\ (p \notin call'.touched => Pending(p)' \/ Imported(p)')
  BY DEF WalkOK
<1>2. OnTheWay(p) /\ (p \notin call.touched => Pending(p) \/ Imported(p))
  BY <1>1 DEF IInv, WalkOK, At
<1>3. OnTheWay(p)'
  BY <1>2 DEF OnTheWay
<1> QED  BY <1>1, <1>2, <1>3

LEMMA ListSourceOK ==
    ASSUME IInv, ListSource
    PROVE  IInv'
<1>1. /\ Running /\ call.pc = "list" /\ SameFiles /\ UNCHANGED <<marker, asked>>
      /\ \/ call' = NoCall
         \/ call' = [call EXCEPT !.pc = "visit", !.todo = Listed(<<>>),
                                 !.stayed = FilesIn(source) \cap Met(call.flat), !.touched = {}]
      /\ Spend("fault") \/ UNCHANGED spent
  BY DEF ListSource, At, SameFiles, vault, Fails, Return
<1>2. Listed(<<>>) \subseteq Paths /\ FilesIn(source) \subseteq Paths
  BY DEF Listed, FilesIn
<1>3. \/ call' = NoCall
      \/ /\ call' \in Calls /\ call'.op = call.op /\ call'.pc = "visit"
         /\ call'.overwrite = call.overwrite /\ call'.existed = call.existed
         /\ call'.todo = Listed(<<>>) /\ call'.stayed = FilesIn(source) \cap Met(call.flat)
         /\ call'.flat = call.flat
  BY <1>1, <1>2, CallTypes DEF IInv, Calls
<1>4. Past /\ TopStays
  BY <1>1, <1>3, SameAsked DEF Past, CallGoes, TopStays, SameFiles
<1>5. TypeOK' /\ TreesOK'
  BY <1>1, <1>3, FilesTypes, FaultTypes DEF IInv, TypeOK
<1>6. WalkOK'
  <2>1. CASE call' = NoCall
    BY <2>1, NoWalk
  <2>2. CASE call' # NoCall
    <3>1. SUFFICES ASSUME NEW p \in FilesIn(source) \cap Met(call.flat)
                   PROVE  OnTheWay(p)' /\ Pending(p)'
      BY <2>2, <1>3 DEF WalkOK
    <3>2. p \in Paths /\ OnTheWay(p)
      BY DEF FilesIn, Met, OnTheWay
    <3>3. OnTheWay(p)'
      BY <2>2, <3>2, <1>1, <1>3 DEF OnTheWay, SameFiles
    <3>4. 1 \in 1..Len(p) /\ SubSeq(p, 1, 1 - 1) = <<>> /\ Front(SubSeq(p, 1, 1)) = SubSeq(p, 1, 1 - 1)
      <4>1. p \in Seq(UNION {ToSet(q) : q \in Paths}) /\ Len(p) \in Nat \ {0}
        BY <3>2, PathsAbove, DirectoryImportAssumption
      <4>2. 1 \in 1..Len(p) /\ SubSeq(p, 1, 1 - 1) = <<>>
        BY <4>1
      <4> QED  BY <4>2, <3>2, PathsAbove
    <3>5. SubSeq(p, 1, 1) \in Listed(<<>>)
      <4>1. SubSeq(p, 1, 1) \in Paths /\ source[SubSeq(p, 1, 1)] # Gone
        BY <3>2, <3>4, WayIsThere
      <4> QED  BY <4>1, <3>4 DEF Listed
    <3>6. Pending(p)'
      BY <2>2, <3>4, <3>5, <1>3 DEF Pending
    <3> QED  BY <3>3, <3>6
  <2> QED  BY <2>1, <2>2
<1> QED  BY <1>1, <1>4, <1>5, <1>6, PastMarked, PastRefused DEF IInv

\* What an entry of the walk is taken off for.
LEMMA AdvanceIs ==
    ASSUME IInv, Running, call.pc = "visit", NEW p, NEW more \in SUBSET Paths, Advance(p, more)
    PROVE  /\ call' \in Calls /\ call'.op = call.op /\ call'.pc = "visit" /\ call'.flat = call.flat
           /\ call'.overwrite = call.overwrite /\ call'.existed = call.existed
           /\ call'.stayed = call.stayed /\ call'.touched = call.touched
           /\ call'.todo = (call.todo \ {p}) \cup more
BY CallTypes DEF IInv, Advance, Calls

LEMMA SkipVaultOK ==
    ASSUME IInv, NEW q \in Paths, SkipVault(q)
    PROVE  IInv'
<1>1. /\ Running /\ call.pc = "visit" /\ SameFiles /\ UNCHANGED <<marker, asked, spent>>
      /\ source[q] = Vault /\ Advance(q, {})
  BY DEF SkipVault, Visiting, At, SameFiles, vault
<1>2. /\ call' \in Calls /\ call'.op = call.op /\ call'.pc = "visit" /\ call'.flat = call.flat
      /\ call'.overwrite = call.overwrite /\ call'.existed = call.existed
      /\ call'.stayed = call.stayed /\ call'.touched = call.touched
      /\ call'.todo = call.todo \ {q}
  BY <1>1, AdvanceIs
<1>3. Past /\ TopStays
  BY <1>1, <1>2, SameAsked DEF Past, CallGoes, TopStays, SameFiles
<1>4. TypeOK' /\ TreesOK'
  BY <1>1, <1>2, FilesTypes DEF IInv, TypeOK
<1>5. ASSUME NEW p \in call.stayed, Pending(p)
      PROVE  Pending(p)'
  <2>1. PICK n \in 1..Len(p) : SubSeq(p, 1, n) \in call.todo
    BY <1>5 DEF Pending
  <2>2. p \in Paths /\ OnTheWay(p) /\ Len(p) \in Nat
    BY <1>1, CallTypes, PathsAbove DEF IInv, WalkOK, At
  <2>3. ASSUME call.flat PROVE n = 1
    <3>1. Len(p) = 1
      BY <2>2, <2>3 DEF OnTheWay
    <3> QED  BY <2>1, <3>1
  <2>4. SubSeq(p, 1, n) # q
    BY <2>2, <2>3, <1>1, WayIsThere
  <2> QED  BY <2>1, <2>4, <1>2 DEF Pending
<1>6. ASSUME NEW p \in call.stayed, Imported(p)
      PROVE  Imported(p)'
  BY <1>1, <1>6 DEF Imported, SameFiles
<1>7. WalkOK'
  BY <1>1, <1>2, <1>5, <1>6, WalksOn DEF SameFiles
<1> QED  BY <1>1, <1>3, <1>4, <1>7, PastMarked, PastRefused DEF IInv

\* A directory is made before its entries are listed, and the file it leads to is one of them
\* or below one.
LEMMA VisitDirOK ==
    ASSUME IInv, NEW q \in Paths, VisitDir(q)
    PROVE  IInv'
<1>1. /\ Running /\ call.pc = "visit" /\ UNCHANGED <<source, temp, backup, marker>>
      /\ q \in Dirs
      /\ Makes(q) \/ UNCHANGED <<dest, asked>>
      /\ \/ call' = NoCall
         \/ call.flat /\ Advance(q, {})
         \/ ~call.flat /\ Advance(q, Listed(q))
      /\ Spend("fault") \/ UNCHANGED spent
  BY DEF VisitDir, Visiting, At, Fails, Return
<1>2. /\ dest' \in [All -> Values \cup Kinds]
      /\ \A p \in All : dest[p] # Gone => dest'[p] = dest[p]
      /\ \A p \in Paths : dest'[p] # Gone => dest'[<<>>] # Gone
      /\ AskedGoes /\ TopStays
  BY <1>1, MakesOK DEF All
<1>3. \/ call' = NoCall
      \/ /\ call' \in Calls /\ call'.op = call.op /\ call'.pc = "visit" /\ call'.flat = call.flat
         /\ call'.overwrite = call.overwrite /\ call'.existed = call.existed
         /\ call'.stayed = call.stayed /\ call'.touched = call.touched
         /\ \/ call.flat /\ call'.todo = call.todo \ {q}
            \/ ~call.flat /\ call'.todo = (call.todo \ {q}) \cup Listed(q)
  <2>1. CASE call' = NoCall
    BY <2>1
  <2>2. CASE call.flat /\ Advance(q, {})
    <3>1. {} \in SUBSET Paths
      OBVIOUS
    <3>2. /\ call' \in Calls /\ call'.op = call.op /\ call'.pc = "visit" /\ call'.flat = call.flat
          /\ call'.overwrite = call.overwrite /\ call'.existed = call.existed
          /\ call'.stayed = call.stayed /\ call'.touched = call.touched
          /\ call'.todo = (call.todo \ {q}) \cup {}
      BY <3>1, <2>2, <1>1, AdvanceIs
    <3>3. (call.todo \ {q}) \cup {} = call.todo \ {q}
      OBVIOUS
    <3> QED  BY <2>2, <3>2, <3>3
  <2>3. CASE ~call.flat /\ Advance(q, Listed(q))
    <3>1. Listed(q) \in SUBSET Paths
      BY DEF Listed
    <3> QED  BY <3>1, <2>3, <1>1, AdvanceIs
  <2> QED  BY <2>1, <2>2, <2>3, <1>1
<1>4. Past
  BY <1>1, <1>2, <1>3 DEF Past, CallGoes
<1>5. TypeOK' /\ TreesOK'
  BY <1>1, <1>2, <1>3, FaultTypes DEF IInv, TypeOK, TreesOK, AskedGoes
<1>6. ASSUME call' # NoCall, NEW p \in call.stayed, Pending(p)
      PROVE  Pending(p)'
  <2>1. PICK n \in 1..Len(p) : SubSeq(p, 1, n) \in call.todo
    BY <1>6 DEF Pending
  <2>2. p \in Paths /\ OnTheWay(p) /\ Len(p) \in Nat \ {0} /\ p \notin Dirs
    BY <1>1, CallTypes, PathsAbove DEF IInv, WalkOK, At, TreesOK, OnTheWay
  <2>3. CASE SubSeq(p, 1, n) # q
    BY <2>1, <2>3, <1>3, <1>6 DEF Pending
  <2>4. CASE SubSeq(p, 1, n) = q
    <3>1. n < Len(p) /\ n + 1 \in 1..Len(p) /\ (n + 1) - 1 = n
      <4>1. n # Len(p)
        BY <2>2, <2>4, <1>1, PathsAbove
      <4> QED  BY <4>1, <2>1, <2>2
    <3>2. ~call.flat
      <4>1. Len(p) # 1
        <5>1. Len(p) \in Nat /\ n # Len(p)
          BY <2>2, <3>1
        <5> QED  BY <5>1, <2>1, Between
      <4> QED  BY <4>1, <2>2 DEF OnTheWay
    <3>3. SubSeq(p, 1, n + 1) \in Paths /\ source[SubSeq(p, 1, n + 1)] # Gone
      BY <2>2, <3>1, <3>2, WayIsThere
    <3>4. Front(SubSeq(p, 1, n + 1)) = q
      <4>1. Front(SubSeq(p, 1, n + 1)) = SubSeq(p, 1, (n + 1) - 1)
        BY <2>2, <3>1, PathsAbove
      <4> QED  BY <4>1, <2>4, <3>1
    <3>5. SubSeq(p, 1, n + 1) \in call'.todo
      BY <3>2, <3>3, <3>4, <1>3, <1>6 DEF Listed
    <3> QED  BY <3>1, <3>5 DEF Pending
  <2> QED  BY <2>3, <2>4
<1>7. ASSUME NEW p \in call.stayed, Imported(p)
      PROVE  Imported(p)'
  <2>1. p \in All /\ dest[p] = source[p] /\ source[p] \in Values
    BY <1>1, <1>7, CallTypes DEF IInv, WalkOK, At, OnTheWay, Imported, All
  <2>2. dest'[p] = dest[p]
    BY <2>1, <1>2, ValuesAre
  <2> QED  BY <2>2, <1>1, <1>7 DEF Imported
<1>8. WalkOK'
  <2>1. CASE call' = NoCall
    BY <2>1, NoWalk
  <2>2. CASE call' # NoCall
    BY <2>2, <1>1, <1>3, <1>6, <1>7, WalksOn
  <2> QED  BY <2>1, <2>2
<1> QED  BY <1>1, <1>2, <1>4, <1>5, <1>8, PastMarked, PastRefused DEF IInv

-----------------------------------------------------------------------------
(* One file *)

\* What importFileAtomic may do to the vault: other files stay, and so does the directory.
FileStep(q) ==
    /\ dest' \in [All -> Values \cup Kinds] /\ temp' \subseteq Paths
    /\ backup' \in [Paths -> Values \cup Kinds]
    /\ \A p \in Paths \ {q} : dest[p] # Gone => dest'[p] = dest[p]
    /\ \A p \in Paths \ {q} : backup'[p] = backup[p] /\ (p \in temp' <=> p \in temp)
    /\ \A p \in Paths : dest'[p] # Gone => dest'[<<>>] # Gone
    /\ TopStays

LEMMA DestReplaced ==
    ASSUME IInv, NEW q \in Paths, source[q] \in Values,
           dest' = [MadeDir(Front(q)) EXCEPT ![q] = source[q]]
    PROVE  /\ dest' \in [All -> Values \cup Kinds] /\ dest'[q] = source[q]
           /\ \A p \in Paths \ {q} : dest[p] # Gone => dest'[p] = dest[p]
           /\ \A p \in Paths : dest'[p] # Gone => dest'[<<>>] # Gone
           /\ TopStays
<1>1. /\ MadeDir(Front(q)) \in [All -> Values \cup Kinds]
      /\ MadeDir(Front(q))[<<>>] # Gone
      /\ \A p \in All : dest[p] # Gone => MadeDir(Front(q))[p] = dest[p]
  BY PathsAbove, MadeDirKeeps DEF IInv
<1>2. q \in All /\ <<>> \in All /\ \A p \in Paths : p \in All
  BY DEF All
<1> QED  BY <1>1, <1>2, ValuesAre DEF TopStays

LEMMA ReplaceIs ==
    ASSUME IInv, NEW q \in Paths, Replace(q)
    PROVE  FileStep(q) /\ dest'[q] = source[q] /\ q \notin temp' /\ backup'[q] = Gone
<1>1. /\ dest' \in [All -> Values \cup Kinds] /\ dest'[q] = source[q]
      /\ \A p \in Paths \ {q} : dest[p] # Gone => dest'[p] = dest[p]
      /\ \A p \in Paths : dest'[p] # Gone => dest'[<<>>] # Gone
      /\ TopStays
  BY DestReplaced DEF Replace
<1>2. /\ temp' \subseteq Paths /\ q \notin temp' /\ \A p \in Paths \ {q} : p \in temp' <=> p \in temp
      /\ backup' \in [Paths -> Values \cup Kinds] /\ backup'[q] = Gone
      /\ \A p \in Paths \ {q} : backup'[p] = backup[p]
  BY DEF IInv, TypeOK, Replace, Kinds
<1> QED  BY <1>1, <1>2 DEF FileStep

LEMMA InterruptedIs ==
    ASSUME IInv, NEW q \in Paths, Interrupted(q)
    PROVE  FileStep(q)
<1>1. /\ dest \in [All -> Values \cup Kinds] /\ temp \subseteq Paths
      /\ backup \in [Paths -> Values \cup Kinds] /\ source[q] \in Values
      /\ \A p \in Paths : dest[p] # Gone => dest[<<>>] # Gone
  BY DEF IInv, TypeOK, TreesOK, Interrupted
<1>2. q \in All /\ <<>> \in All /\ (\A p \in Paths : p \in All /\ p # <<>>) /\ Gone \in Kinds
  BY DirectoryImportAssumption DEF All, Kinds
<1>3. CASE /\ dest' \in {dest, MadeDir(Front(q))} /\ UNCHANGED backup
           /\ temp' \in {temp \cup {q}, temp \ {q}}
  <2>1. /\ MadeDir(Front(q)) \in [All -> Values \cup Kinds]
        /\ MadeDir(Front(q))[<<>>] # Gone
        /\ \A p \in All : dest[p] # Gone => MadeDir(Front(q))[p] = dest[p]
    BY PathsAbove, MadeDirKeeps DEF IInv
  <2> QED  BY <2>1, <1>1, <1>2, <1>3 DEF FileStep, TopStays
<1>4. CASE /\ dest' = [dest EXCEPT ![q] = Gone] /\ backup' = [backup EXCEPT ![q] = dest[q]]
           /\ temp' \in {temp \cup {q}, temp \ {q}}
  <2>1. dest' \in [All -> Values \cup Kinds] /\ dest'[<<>>] = dest[<<>>]
        /\ dest'[q] = Gone /\ \A p \in Paths \ {q} : dest'[p] = dest[p]
    BY <1>1, <1>2, <1>4
  <2>2. backup' \in [Paths -> Values \cup Kinds] /\ \A p \in Paths \ {q} : backup'[p] = backup[p]
    BY <1>1, <1>2, <1>4
  <2>3. temp' \subseteq Paths /\ \A p \in Paths \ {q} : p \in temp' <=> p \in temp
    BY <1>1, <1>4
  <2> QED  BY <2>1, <2>2, <2>3, <1>1 DEF FileStep, TopStays
<1>5. CASE /\ dest' = [MadeDir(Front(q)) EXCEPT ![q] = source[q]]
           /\ backup' = [backup EXCEPT ![q] = IF dest[q] = Gone THEN backup[q] ELSE dest[q]]
           /\ temp' = temp \ {q}
  <2>1. /\ dest' \in [All -> Values \cup Kinds]
        /\ \A p \in Paths \ {q} : dest[p] # Gone => dest'[p] = dest[p]
        /\ \A p \in Paths : dest'[p] # Gone => dest'[<<>>] # Gone
        /\ TopStays
    BY <1>1, <1>5, DestReplaced
  <2>2. /\ backup' \in [Paths -> Values \cup Kinds] /\ \A p \in Paths \ {q} : backup'[p] = backup[p]
        /\ temp' \subseteq Paths /\ \A p \in Paths \ {q} : p \in temp' <=> p \in temp
    BY <1>1, <1>2, <1>5
  <2> QED  BY <2>1, <2>2 DEF FileStep
<1> QED  BY <1>3, <1>4, <1>5 DEF Interrupted

LEMMA WroteIs ==
    ASSUME IInv, Running, Wrote
    PROVE  AskedGoes
<1> DEFINE X == vault' # vault
<1>1. X \in BOOLEAN /\ asked' = [asked EXCEPT ![call.op].wrote = asked[call.op].wrote \/ X]
  BY DEF Wrote
<1> HIDE DEF X
<1> QED  BY <1>1, WroteGoes

LEMMA SameVault ==
    ASSUME IInv, UNCHANGED <<dest, backup>>, NEW q, temp' = temp \/ temp' = temp \ {q}
    PROVE  FileStep(q)
<1>1. /\ dest \in [All -> Values \cup Kinds] /\ temp \subseteq Paths
      /\ backup \in [Paths -> Values \cup Kinds]
      /\ \A p \in Paths : dest[p] # Gone => dest[<<>>] # Gone
  BY DEF IInv, TypeOK, TreesOK
<1> QED  BY <1>1 DEF FileStep, TopStays

\* A file that was imported stays so when the walk comes to another one, and the one it comes
\* to is no directory above a third.
LEMMA VisitFileOK ==
    ASSUME IInv, NEW q \in Paths, VisitFile(q)
    PROVE  IInv'
<1>1. /\ Running /\ call.pc = "visit" /\ UNCHANGED <<source, marker>> /\ q \notin Dirs
      /\ \/ Replace(q) /\ Wrote /\ Advance(q, {}) /\ UNCHANGED spent
         \/ call' = NoCall /\ UNCHANGED <<dest, temp, backup, asked, spent>>
         \/ call' = NoCall /\ temp' = temp \ {q} /\ UNCHANGED <<dest, backup, spent>> /\ Wrote
         \/ call' = NoCall /\ Interrupted(q) /\ Wrote /\ Spend("fault")
  BY DEF VisitFile, Visiting, At, Fails, Return, vault
<1>2. FileStep(q) /\ AskedGoes /\ (Spend("fault") \/ UNCHANGED spent)
  BY <1>1, ReplaceIs, InterruptedIs, SameVault, WroteIs, SameAsked
<1>3. \/ call' = NoCall
      \/ /\ call' \in Calls /\ call'.op = call.op /\ call'.pc = "visit" /\ call'.flat = call.flat
         /\ call'.overwrite = call.overwrite /\ call'.existed = call.existed
         /\ call'.stayed = call.stayed /\ call'.touched = call.touched
         /\ call'.todo = call.todo \ {q}
         /\ dest'[q] = source[q] /\ q \notin temp' /\ backup'[q] = Gone
  <2>1. CASE Replace(q) /\ Advance(q, {})
    <3>1. (call.todo \ {q}) \cup {} = call.todo \ {q} /\ {} \in SUBSET Paths
      OBVIOUS
    <3>2. /\ call' \in Calls /\ call'.op = call.op /\ call'.pc = "visit" /\ call'.flat = call.flat
          /\ call'.overwrite = call.overwrite /\ call'.existed = call.existed
          /\ call'.stayed = call.stayed /\ call'.touched = call.touched
          /\ call'.todo = (call.todo \ {q}) \cup {}
      BY <3>1, <2>1, <1>1, AdvanceIs
    <3>3. dest'[q] = source[q] /\ q \notin temp' /\ backup'[q] = Gone
      BY <2>1, ReplaceIs
    <3> QED  BY <3>1, <3>2, <3>3
  <2> QED  BY <2>1, <1>1
<1>4. Past /\ TopStays
  BY <1>1, <1>2, <1>3 DEF Past, CallGoes, FileStep
<1>5. TypeOK' /\ TreesOK'
  BY <1>1, <1>2, <1>3, FaultTypes DEF IInv, TypeOK, TreesOK, AskedGoes, FileStep
<1>6. WalkOK'
  <2>1. CASE call' = NoCall
    BY <2>1, NoWalk
  <2>2. CASE call' # NoCall
    <3>1. Imported(q)'
      BY <2>2, <1>1, <1>3 DEF Imported
    <3>2. ASSUME NEW p \in call.stayed, p # q, Imported(p)
          PROVE  Imported(p)'
      <4>1. p \in Paths /\ dest[p] = source[p] /\ source[p] \in Values
        BY <1>1, <3>2, CallTypes DEF IInv, WalkOK, At, OnTheWay, Imported
      <4>2. dest'[p] = dest[p] /\ backup'[p] = backup[p] /\ (p \in temp' <=> p \in temp)
        BY <4>1, <3>2, <1>2, ValuesAre DEF FileStep
      <4> QED  BY <4>1, <4>2, <3>2, <1>1 DEF Imported
    <3>3. ASSUME NEW p \in call.stayed, p # q, Pending(p)
          PROVE  Pending(p)'
      <4>1. PICK n \in 1..Len(p) : SubSeq(p, 1, n) \in call.todo
        BY <3>3 DEF Pending
      <4>2. p \in Paths /\ Len(p) \in Nat \ {0} /\ SubSeq(p, 1, Len(p)) = p
        BY <1>1, CallTypes, PathsAbove DEF IInv
      <4>3. SubSeq(p, 1, n) # q
        <5>1. CASE n = Len(p)
          BY <5>1, <4>2, <3>3
        <5>2. CASE n < Len(p)
          <6>1. n \in 1..Len(p) - 1
            BY <5>2, <4>1, <4>2
          <6>2. SubSeq(p, 1, n) \in Dirs
            BY <6>1, <4>2, PathsAbove
          <6> QED  BY <6>2, <1>1
        <5>3. Len(p) \in Nat
          BY <4>2
        <5> QED  BY <5>1, <5>2, <5>3, <4>1, Between
      <4> QED  BY <4>1, <4>3, <2>2, <1>3 DEF Pending
    <3> QED  BY <3>1, <3>2, <3>3, <2>2, <1>1, <1>3, WalksOn
  <2> QED  BY <2>1, <2>2
<1> QED  BY <1>1, <1>4, <1>5, <1>6, PastMarked, PastRefused DEF IInv

-----------------------------------------------------------------------------
(* The end of a call, and what is done with unfinished ones *)

\* With its marker an operation loses what it has to show for it.
LEMMA RemoveMarkerOK ==
    ASSUME IInv, RemoveMarker
    PROVE  IInv'
<1> DEFINE X == marker' = marker
<1>1. /\ Running /\ call' = NoCall /\ SameFiles /\ X \in BOOLEAN
      /\ X \/ marker' = [marker EXCEPT ![call.op] = NoMarker]
      /\ asked' = [asked EXCEPT ![call.op].wrote = asked[call.op].wrote /\ X]
      /\ Spend("fault") \/ UNCHANGED spent
      /\ call.op \in Ops /\ call.pc = "visit"
  BY CallTypes DEF RemoveMarker, At, SameFiles, vault, Fails, Return, IInv
<1>2. /\ marker' \in [Ops -> Markers \cup {NoMarker}]
      /\ \A o \in Ops : marker'[o] # NoMarker => marker'[o] = marker[o]
      /\ \A o \in Ops \ {call.op} : marker'[o] = marker[o]
      /\ X => marker' = marker
  BY <1>1 DEF IInv, TypeOK
<1> HIDE DEF X
<1>3. /\ asked' \in [Ops -> Asked]
      /\ \A o \in Ops : /\ asked'[o].there = asked[o].there /\ asked'[o].cli = asked[o].cli
                        /\ asked'[o].gap = asked[o].gap
                        /\ asked'[o].wrote => asked[o].wrote /\ (o = call.op => X)
  <2>1. asked \in [Ops -> Asked] /\ asked[call.op] \in Asked
    BY <1>1 DEF IInv, TypeOK
  <2> QED  BY <2>1, <1>1 DEF Asked
<1>4. TypeOK' /\ TreesOK'
  BY <1>1, <1>2, <1>3, FilesTypes, FaultTypes DEF IInv
<1>5. MarkedOK'
  <2>1. ASSUME NEW o \in Ops, asked'[o].wrote
        PROVE  marker'[o] # NoMarker \/ asked'[o].gap
    <3>1. asked[o].wrote /\ ~Unmarked(o) /\ marker'[o] = marker[o]
      <4>1. asked[o].wrote /\ (o = call.op => X)
        BY <2>1, <1>3
      <4>2. marker'[o] = marker[o]
        <5>1. CASE o = call.op
          <6>1. X
            BY <5>1, <4>1
          <6> QED  BY <6>1, <1>2
        <5>2. CASE o # call.op
          BY <5>2, <1>2
        <5> QED  BY <5>1, <5>2
      <4>3. ~Unmarked(o)
        BY <1>1 DEF Unmarked
      <4> QED  BY <4>1, <4>2, <4>3
    <3> QED  BY <3>1, <1>3 DEF IInv, MarkedOK
  <2> QED  BY <2>1, <1>1 DEF MarkedOK, Running
<1>6. RefusedOK'
  BY <1>1, <1>2, <1>3 DEF IInv, RefusedOK, Refuses, Running, SameFiles
<1> QED  BY <1>1, <1>4, <1>5, <1>6, NoWalk DEF IInv

LEMMA CleanUnfinishedOK ==
    ASSUME IInv, NEW u \in Ops, CleanUnfinished(u)
    PROVE  IInv'
<1>1. /\ ~Running /\ call' = call /\ SameFiles /\ Spend("clean")
      /\ marker' = [marker EXCEPT ![u] = NoMarker]
      /\ asked' = [asked EXCEPT ![u].wrote = FALSE]
  BY DEF CleanUnfinished, SameFiles, vault
<1>2. /\ marker' \in [Ops -> Markers \cup {NoMarker}] /\ marker'[u] = NoMarker
      /\ \A o \in Ops \ {u} : marker'[o] = marker[o]
  BY <1>1 DEF IInv, TypeOK
<1>3. /\ asked' \in [Ops -> Asked]
      /\ \A o \in Ops : /\ asked'[o].there = asked[o].there /\ asked'[o].cli = asked[o].cli
                        /\ asked'[o].gap = asked[o].gap
                        /\ asked'[o].wrote => asked[o].wrote /\ o # u
  <2>1. asked \in [Ops -> Asked] /\ asked[u] \in Asked
    BY DEF IInv, TypeOK
  <2> QED  BY <2>1, <1>1 DEF Asked
<1>4. call = NoCall
  BY <1>1 DEF Running
<1>5. TypeOK' /\ TreesOK'
  BY <1>1, <1>2, <1>3, <1>4, FilesTypes, Spends, EventsAre DEF IInv
<1>6. MarkedOK'
  <2>1. ASSUME NEW o \in Ops, asked'[o].wrote
        PROVE  marker'[o] # NoMarker \/ asked'[o].gap
    <3>1. asked[o].wrote /\ ~Unmarked(o) /\ marker'[o] = marker[o]
      BY <2>1, <1>1, <1>2, <1>3 DEF Unmarked
    <3> QED  BY <3>1, <1>3 DEF IInv, MarkedOK
  <2> QED  BY <2>1, <1>1, <1>4 DEF MarkedOK, Running
<1>7. RefusedOK'
  <2>1. SUFFICES ASSUME NEW o \in Ops, Refuses(o)'
                 PROVE  /\ dest'[<<>>] # Gone
                        /\ marker'[o] # NoMarker => ~marker'[o].overwrite /\ marker'[o].existed
    BY <1>1, <1>4 DEF RefusedOK, Running
  <2>2. Refuses(o)
    BY <2>1, <1>3 DEF Refuses
  <2> QED  BY <2>2, <1>1, <1>2 DEF IInv, RefusedOK, SameFiles
<1> QED  BY <1>1, <1>4, <1>5, <1>6, <1>7, NoWalk DEF IInv

\* A rerun of the app takes the decision over: what was there when it was made is still a
\* directory in the way.
LEMMA RerunOK ==
    ASSUME IInv, NEW u \in Ops, NEW cli \in BOOLEAN, Rerun(u, cli)
    PROVE  IInv'
<1>1. /\ ~Running /\ SameFiles /\ UNCHANGED spent /\ marker[u] # NoMarker
      /\ marker' = [marker EXCEPT ![u] = NoMarker]
      /\ Begins(u, RerunOverwrites(marker[u], cli), FALSE)
      /\ asked' = [asked EXCEPT ![u].cli = asked[u].cli \/ cli]
  BY DEF Rerun, SameFiles, vault
<1>2. /\ marker' \in [Ops -> Markers \cup {NoMarker}] /\ marker'[u] = NoMarker
      /\ \A o \in Ops \ {u} : marker'[o] = marker[o]
      /\ marker[u] \in Markers
  BY <1>1 DEF IInv, TypeOK
<1>3. /\ asked' \in [Ops -> Asked]
      /\ \A o \in Ops : /\ asked'[o].there = asked[o].there
                        /\ asked'[o].gap = asked[o].gap /\ asked'[o].wrote = asked[o].wrote
                        /\ ~asked'[o].cli => ~asked[o].cli /\ (o = u => ~cli)
  <2>1. asked \in [Ops -> Asked] /\ asked[u] \in Asked
    BY DEF IInv, TypeOK
  <2> QED  BY <2>1, <1>1 DEF Asked
<1>4. RerunOverwrites(marker[u], cli) \in BOOLEAN
  BY <1>2 DEF RerunOverwrites, Markers
<1>5. call' \in Calls /\ Unmarked(u)' /\ WalkOK' /\ call'.op = u /\ Running'
  BY <1>1, <1>4, BeginsOK
<1>6. TypeOK' /\ TreesOK'
  BY <1>1, <1>2, <1>3, <1>5, FilesTypes DEF IInv, TypeOK
<1>7. MarkedOK'
  <2>1. ASSUME NEW o \in Ops, asked'[o].wrote
        PROVE  marker'[o] # NoMarker \/ asked'[o].gap \/ Unmarked(o)'
    <3>1. CASE o = u
      BY <3>1, <1>5
    <3>2. CASE o # u
      <4>1. asked[o].wrote /\ ~Unmarked(o) /\ marker'[o] = marker[o]
        BY <2>1, <3>2, <1>1, <1>2, <1>3 DEF Unmarked
      <4> QED  BY <4>1, <1>3 DEF IInv, MarkedOK
    <3> QED  BY <3>1, <3>2
  <2> QED  BY <2>1, <1>5 DEF MarkedOK
<1>8. RefusedOK'
  <2>1. SUFFICES ASSUME NEW o \in Ops, Refuses(o)'
                 PROVE  /\ dest'[<<>>] # Gone
                        /\ marker'[o] # NoMarker => ~marker'[o].overwrite /\ marker'[o].existed
                        /\ Running' /\ call'.op = o =>
                              /\ ~call'.overwrite /\ call'.existed
                              /\ call'.pc \in {"begin", "mark", "count", "check"}
    BY DEF RefusedOK
  <2>2. Refuses(o) /\ (o = u => ~cli)
    BY <2>1, <1>3 DEF Refuses
  <2>3. /\ dest[<<>>] # Gone
        /\ marker[o] # NoMarker => ~marker[o].overwrite /\ marker[o].existed
    BY <2>2 DEF IInv, RefusedOK
  <2>4. CASE o # u
    BY <2>3, <2>4, <1>1, <1>2, <1>5 DEF SameFiles
  <2>5. CASE o = u
    <3>1. ~RerunOverwrites(marker[u], cli)
      BY <2>2, <2>3, <2>5, <1>1 DEF RerunOverwrites
    <3> QED  BY <3>1, <2>3, <2>5, <1>1, <1>2 DEF Begins, SameFiles
  <2> QED  BY <2>4, <2>5
<1> QED  BY <1>5, <1>6, <1>7, <1>8 DEF IInv

-----------------------------------------------------------------------------
(* The environment *)

\* A crash before the marker is written leaves a gap, and one later the marker.
LEMMA CrashOK ==
    ASSUME IInv, Crash
    PROVE  IInv'
<1>1. /\ Running /\ call' = NoCall /\ UNCHANGED <<source, marker>> /\ Spend("crash")
      /\ call.op \in Ops /\ call \in Calls
      /\ \/ /\ asked' = [asked EXCEPT ![call.op].gap = asked[call.op].gap \/ At("begin") \/ At("mark")]
            /\ UNCHANGED <<dest, temp, backup>>
         \/ \E p \in Paths : At("visit") /\ Interrupted(p) /\ Wrote
  BY CallTypes DEF Crash, Return, vault, Visiting, IInv
<1>2. CASE /\ asked' = [asked EXCEPT ![call.op].gap = asked[call.op].gap \/ At("begin") \/ At("mark")]
           /\ UNCHANGED <<dest, temp, backup>>
  <2> DEFINE X == At("begin") \/ At("mark")
  <2>1. X \in BOOLEAN /\ (Unmarked(call.op) => X) /\ SameFiles
        /\ asked' = [asked EXCEPT ![call.op].gap = asked[call.op].gap \/ X]
    BY <1>1, <1>2 DEF Unmarked, At, SameFiles
  <2> HIDE DEF X
  <2>2. /\ asked' \in [Ops -> Asked]
        /\ \A o \in Ops : /\ asked'[o].there = asked[o].there /\ asked'[o].cli = asked[o].cli
                          /\ asked'[o].wrote = asked[o].wrote
                          /\ asked[o].gap => asked'[o].gap
                          /\ o = call.op /\ X => asked'[o].gap
    <3>1. asked \in [Ops -> Asked] /\ asked[call.op] \in Asked
      BY <1>1 DEF IInv, TypeOK
    <3> QED  BY <3>1, <2>1, <1>1 DEF Asked
  <2>3. TypeOK' /\ TreesOK'
    BY <1>1, <2>1, <2>2, FilesTypes, Spends, EventsAre DEF IInv, TypeOK
  <2>4. MarkedOK'
    <3>1. ASSUME NEW o \in Ops, asked'[o].wrote
          PROVE  marker'[o] # NoMarker \/ asked'[o].gap
      <4>1. marker[o] # NoMarker \/ asked[o].gap \/ Unmarked(o)
        BY <3>1, <2>2 DEF IInv, MarkedOK
      <4>2. Unmarked(o) => o = call.op
        BY DEF Unmarked
      <4> QED  BY <4>1, <4>2, <2>1, <2>2, <1>1
    <3> QED  BY <3>1, <1>1 DEF MarkedOK, Running
  <2>5. RefusedOK'
    BY <1>1, <2>1, <2>2 DEF IInv, RefusedOK, Refuses, Running, SameFiles
  <2> QED  BY <2>3, <2>4, <2>5, <1>1, NoWalk DEF IInv
<1>3. ASSUME NEW p \in Paths, At("visit"), Interrupted(p), Wrote
      PROVE  IInv'
  <2>1. FileStep(p) /\ AskedGoes
    BY <1>1, <1>3, InterruptedIs, WroteIs
  <2>2. Past /\ TopStays /\ call.pc = "visit"
    BY <2>1, <1>1, <1>3 DEF Past, CallGoes, FileStep, At
  <2>3. TypeOK' /\ TreesOK'
    BY <2>1, <1>1, Spends, EventsAre DEF IInv, TypeOK, TreesOK, AskedGoes, FileStep
  <2> QED  BY <2>2, <2>3, <1>1, PastMarked, PastRefused, NoWalk DEF IInv
<1> QED  BY <1>1, <1>2, <1>3

\* What users do in the source takes files off what the walk owes, and no directory out of it.
LEMMA SourceOK ==
    ASSUME IInv,
           source' \in [All -> Values \cup Kinds], spent' \in [Events -> Nat],
           \A p \in Paths : source'[p] \in Values => p \notin Dirs,
           UNCHANGED <<dest, temp, backup, marker, asked>>,
           NEW gone \in SUBSET Paths,
           call' = IF Running THEN [call EXCEPT !.stayed = call.stayed \ gone] ELSE call,
           \A p \in Paths \ gone : /\ source'[p] = source[p]
                                   /\ \A n \in 1..Len(p) - 1 :
                                        source'[SubSeq(p, 1, n)] = source[SubSeq(p, 1, n)]
    PROVE  IInv'
<1>1. /\ call' \in Calls \cup {NoCall} /\ (Running' <=> Running)
      /\ Running => /\ call'.op = call.op /\ call'.pc = call.pc /\ call'.flat = call.flat
                    /\ call'.overwrite = call.overwrite /\ call'.existed = call.existed
                    /\ call'.todo = call.todo /\ call'.touched = call.touched
                    /\ call'.stayed = call.stayed \ gone
  <2>1. CASE Running
    <3>1. call \in Calls
      BY <2>1, CallTypes DEF IInv
    <3>2. call' \in Calls
      BY <2>1, <3>1 DEF Calls
    <3> QED  BY <2>1, <3>1, <3>2, NoCallIsNone DEF Calls, Running
  <2>2. CASE ~Running
    BY <2>2 DEF IInv, TypeOK, Running
  <2> QED  BY <2>1, <2>2
<1>2. TypeOK' /\ TreesOK'
  BY <1>1 DEF IInv, TypeOK, TreesOK
<1>3. \A o : Unmarked(o)' <=> Unmarked(o)
  BY <1>1 DEF Unmarked
<1>4. MarkedOK'
  BY <1>1, <1>3 DEF IInv, MarkedOK
<1>5. RefusedOK'
  BY <1>1 DEF IInv, RefusedOK, Refuses
<1>6. WalkOK'
  <2>1. SUFFICES ASSUME Running, call.pc = "visit", NEW p \in call'.stayed
                 PROVE  /\ OnTheWay(p)'
                        /\ p \notin call'.touched => Pending(p)' \/ Imported(p)'
    BY <1>1 DEF WalkOK, At
  <2>2. p \in call.stayed /\ p \in Paths \ gone
    BY <2>1, <1>1, CallTypes DEF IInv
  <2>3. OnTheWay(p) /\ (p \notin call.touched => Pending(p) \/ Imported(p))
    BY <2>1, <2>2 DEF IInv, WalkOK, At
  <2>4. source'[p] = source[p]
        /\ \A n \in 1..Len(p) - 1 : source'[SubSeq(p, 1, n)] = source[SubSeq(p, 1, n)]
    BY <2>2
  <2>5. OnTheWay(p)'
    BY <2>1, <2>3, <2>4, <1>1 DEF OnTheWay
  <2>6. Pending(p) => Pending(p)'
    BY <2>1, <1>1 DEF Pending
  <2>7. Imported(p) => Imported(p)'
    BY <2>4 DEF Imported
  <2> QED  BY <2>1, <2>3, <2>5, <2>6, <2>7, <1>1
<1> QED  BY <1>2, <1>4, <1>5, <1>6 DEF IInv

LEMMA EditSourceOK ==
    ASSUME IInv, NEW q \in Paths, NEW v \in Values \cup {Gone, Link}, EditSource(q, v)
    PROVE  IInv'
<1>1. /\ q \notin Dirs /\ source' = [source EXCEPT ![q] = v] /\ Spend("source")
      /\ UNCHANGED <<dest, temp, backup, marker, asked>>
      /\ call' = IF Running THEN [call EXCEPT !.stayed = call.stayed \ {q}] ELSE call
  BY DEF EditSource, vault
<1>2. source \in [All -> Values \cup Kinds] /\ q \in All /\ v \in Values \cup Kinds
  BY DEF IInv, TypeOK, All, Kinds
<1>3. source' \in [All -> Values \cup Kinds] /\ \A p \in All \ {q} : source'[p] = source[p]
  BY <1>1, <1>2
<1>4. \A p \in Paths : source'[p] \in Values => p \notin Dirs
  BY <1>1, <1>3 DEF IInv, TreesOK, All
<1>5. ASSUME NEW p \in Paths \ {q}
      PROVE  /\ source'[p] = source[p]
             /\ \A n \in 1..Len(p) - 1 : source'[SubSeq(p, 1, n)] = source[SubSeq(p, 1, n)]
  <2>1. ASSUME NEW n \in 1..Len(p) - 1
        PROVE  source'[SubSeq(p, 1, n)] = source[SubSeq(p, 1, n)]
    <3>1. SubSeq(p, 1, n) \in Dirs
      BY PathsAbove
    <3>2. SubSeq(p, 1, n) \in All \ {q}
      BY <3>1, <1>1, DirsArePaths
    <3> QED  BY <3>2, <1>3
  <2>2. p \in All \ {q}
    BY DEF All
  <2> QED  BY <2>1, <2>2, <1>3
<1>6. spent' \in [Events -> Nat]
  BY <1>1, Spends, EventsAre DEF IInv
<1> DEFINE gone == {q}
<1>7. gone \in SUBSET Paths
  OBVIOUS
<1> QED  BY <1>1, <1>3, <1>4, <1>5, <1>6, <1>7, SourceOK

LEMMA MoveSourceOK ==
    ASSUME IInv, MoveSource
    PROVE  IInv'
<1>1. /\ source' = [p \in DOMAIN source |-> Gone] /\ Spend("source")
      /\ UNCHANGED <<dest, temp, backup, marker, asked>>
      /\ call' = IF Running THEN [call EXCEPT !.stayed = {}] ELSE call
  BY DEF MoveSource, vault
<1>2. source' \in [All -> Values \cup Kinds] /\ \A p \in Paths : source'[p] \notin Values
  BY <1>1, ValuesAre DEF IInv, TypeOK, Kinds, All
<1>3. call' = IF Running THEN [call EXCEPT !.stayed = call.stayed \ Paths] ELSE call
  <2>1. Running => call.stayed \ Paths = {}
    BY CallTypes DEF IInv
  <2> QED  BY <2>1, <1>1
<1>4. spent' \in [Events -> Nat]
  BY <1>1, Spends, EventsAre DEF IInv
<1>5. Paths \in SUBSET Paths
  OBVIOUS
<1> QED  BY <1>1, <1>2, <1>3, <1>4, <1>5, SourceOK

\* What users do in the vault is taken down, and leaves its directories.
LEMMA EditDestOK ==
    ASSUME IInv, NEW q \in DOMAIN dest, NEW v \in Values \cup {Gone, Dir}, EditDest(q, v)
    PROVE  IInv'
<1>1. /\ dest' = [dest EXCEPT ![q] = v] /\ Spend("dest")
      /\ IF q = <<>> THEN v = Dir ELSE dest[Front(q)] = Dir
      /\ UNCHANGED <<source, temp, backup, marker, asked>>
      /\ call' = IF Running THEN [call EXCEPT !.touched = call.touched \cup {q}] ELSE call
  BY DEF EditDest, Reachable
<1>2. dest \in [All -> Values \cup Kinds] /\ q \in All /\ v \in Values \cup Kinds /\ <<>> \in All
  BY DEF IInv, TypeOK, All, Kinds
<1>3. dest' \in [All -> Values \cup Kinds] /\ dest'[q] = v /\ \A p \in All \ {q} : dest'[p] = dest[p]
  BY <1>1, <1>2
<1>4. TopStays
  BY <1>1, <1>2, <1>3, ValuesAre DEF TopStays
<1>5. \A p \in Paths : dest'[p] # Gone => dest'[<<>>] # Gone
  <2>1. CASE q = <<>>
    BY <2>1, <1>1, <1>3, ValuesAre
  <2>2. CASE q # <<>>
    <3>1. q \in Paths /\ Front(q) \in All /\ dest[Front(q)] # Gone
      BY <2>2, <1>1, <1>2, PathsAbove, ValuesAre DEF All
    <3>2. dest[<<>>] # Gone
      BY <3>1 DEF IInv, TreesOK, All
    <3> QED  BY <3>2, <1>4 DEF TopStays
  <2> QED  BY <2>1, <2>2
<1>6. /\ call' \in Calls \cup {NoCall} /\ (Running' <=> Running)
      /\ Running => /\ call'.op = call.op /\ call'.pc = call.pc /\ call'.flat = call.flat
                    /\ call'.overwrite = call.overwrite /\ call'.existed = call.existed
                    /\ call'.todo = call.todo /\ call'.stayed = call.stayed
                    /\ call'.touched = call.touched \cup {q}
  <2>1. CASE Running
    <3>1. call \in Calls
      BY <2>1, CallTypes DEF IInv
    <3>2. call' \in Calls
      BY <2>1, <3>1, <1>1, <1>2 DEF Calls, All
    <3> QED  BY <2>1, <3>1, <3>2, <1>1, NoCallIsNone DEF Calls, Running
  <2>2. CASE ~Running
    BY <2>2, <1>1 DEF IInv, TypeOK, Running
  <2> QED  BY <2>1, <2>2
<1>7. TypeOK'
  BY <1>1, <1>3, <1>6, Spends, EventsAre DEF IInv, TypeOK
<1>8. TreesOK'
  BY <1>1, <1>5 DEF IInv, TreesOK
<1>9. \A o : Unmarked(o)' <=> Unmarked(o)
  BY <1>6 DEF Unmarked
<1>10. MarkedOK'
  BY <1>1, <1>6, <1>9 DEF IInv, MarkedOK
<1>11. RefusedOK'
  BY <1>1, <1>4, <1>6 DEF IInv, RefusedOK, Refuses, TopStays
<1>12. WalkOK'
  <2>1. SUFFICES ASSUME Running, call.pc = "visit", NEW p \in call.stayed
                 PROVE  /\ OnTheWay(p)'
                        /\ p \notin call'.touched => Pending(p)' \/ Imported(p)'
    BY <1>6 DEF WalkOK, At
  <2>2. p \in Paths /\ OnTheWay(p) /\ (p \notin call.touched => Pending(p) \/ Imported(p))
    BY <2>1, CallTypes DEF IInv, WalkOK, At
  <2>3. OnTheWay(p)'
    BY <2>1, <2>2, <1>1, <1>6 DEF OnTheWay
  <2>4. Pending(p) => Pending(p)'
    BY <2>1, <1>6 DEF Pending
  <2>5. p # q /\ Imported(p) => Imported(p)'
    BY <2>2, <1>1, <1>3 DEF Imported, All
  <2> QED  BY <2>1, <2>2, <2>3, <2>4, <2>5, <1>6
<1> QED  BY <1>7, <1>8, <1>10, <1>11, <1>12 DEF IInv

-----------------------------------------------------------------------------
(* Every step *)

LEMMA NextOK ==
    ASSUME IInv, [Next]_vars
    PROVE  IInv'
<1>1. CASE UNCHANGED vars
  BY <1>1 DEF vars, IInv, TypeOK, TreesOK, MarkedOK, RefusedOK, WalkOK, Unmarked, Refuses,
              OnTheWay, Pending, Imported, Running, At
<1>2. CASE CallStep
  <2>1. ASSUME NEW p \in Paths, SkipVault(p) \/ VisitDir(p) \/ VisitFile(p)
        PROVE  IInv'
    BY <2>1, SkipVaultOK, VisitDirOK, VisitFileOK
  <2> QED  BY <1>2, <2>1, LookAtDestOK, WriteMarkerOK, CountOK, CheckDestOK, MakeDestOK,
              ListSourceOK, RemoveMarkerOK DEF CallStep
<1>3. CASE RerunStep
  BY <1>3, RerunOK DEF RerunStep
<1>4. CASE Crash \/ MoveSource
  BY <1>4, CrashOK, MoveSourceOK
<1>5. ASSUME NEW overwrite \in BOOLEAN, NEW flat \in BOOLEAN, Start(overwrite, flat)
      PROVE  IInv'
  BY <1>5, StartOK
<1>6. ASSUME NEW o \in Ops, CleanUnfinished(o)
      PROVE  IInv'
  BY <1>6, CleanUnfinishedOK
<1>7. ASSUME NEW p \in Paths, NEW v \in Values \cup {Gone, Link}, EditSource(p, v)
      PROVE  IInv'
  BY <1>7, EditSourceOK
<1>8. ASSUME NEW p \in DOMAIN dest, NEW v \in Values \cup {Gone, Dir}, EditDest(p, v)
      PROVE  IInv'
  BY <1>8, EditDestOK
<1> QED  BY <1>1, <1>2, <1>3, <1>4, <1>5, <1>6, <1>7, <1>8 DEF Next

\* importDirectory, its reruns and the cleaning of markers keep the invariant, whatever users do
\* in the source and in the open vault and wherever the process dies.
THEOREM Invariant == Spec => []IInv
<1>1. Init => IInv
  BY InitOK
<1>2. IInv /\ [Next]_vars => IInv'
  BY NextOK
<1> QED  BY <1>1, <1>2, PTL DEF Spec

\* An import that has changed the vault and did not finish is known by its marker (writeMarker
\* comes before the first change, removeMarker after the last), but for the gap of a rerun.
THEOREM PartialRecorded == Spec => []PartialIsRecorded
<1>1. IInv => PartialIsRecorded
  <2>1. SUFFICES ASSUME IInv, NEW o \in Ops, asked[o].wrote, Running => call.op # o
                 PROVE  marker[o] # NoMarker \/ asked[o].gap
    BY DEF PartialIsRecorded
  <2>2. ~Unmarked(o)
    BY <2>1 DEF Unmarked
  <2> QED  BY <2>1, <2>2 DEF IInv, MarkedOK
<1> QED  BY <1>1, Invariant, PTL

\* A file that was there when the user asked for an import that replaces nothing is replaced
\* neither by it nor by a rerun of the app: destinationInitiallyExisted goes with the marker.
THEOREM Refusals == Spec => RefusedIsKept
<1> DEFINE Kept(p) == Running /\ dest'[p] # dest[p] /\ spent'["dest"] = spent["dest"]
                          => p \notin asked[call.op].there \/ asked[call.op].cli
<1>1. ASSUME IInv, [Next]_vars, NEW p \in Paths
      PROVE  Kept(p)
  <2>1. SUFFICES ASSUME Running, dest'[p] # dest[p], spent'["dest"] = spent["dest"],
                        Refuses(call.op)
                 PROVE  FALSE
    BY DEF Refuses
  <2>2. call.op \in Ops /\ call.pc \in {"begin", "mark", "count", "check"}
    BY <2>1, <1>1, CallTypes DEF IInv, RefusedOK
  <2>3. ~CallStep
    BY <2>1, <2>2 DEF CallStep, LookAtDest, WriteMarker, Count, CheckDest, MakeDest, ListSource,
                      SkipVault, VisitDir, VisitFile, Visiting, RemoveMarker, At, vault
  <2>4. ~Crash
    BY <2>1, <2>2 DEF Crash, Visiting, At, vault
  <2>5. ~RerunStep /\ ~MoveSource
    BY <2>1 DEF RerunStep, Rerun, MoveSource, vault
  <2>6. \A overwrite, flat \in BOOLEAN : ~Start(overwrite, flat)
    BY <2>1 DEF Start
  <2>7. \A o \in Ops : ~CleanUnfinished(o)
    BY <2>1 DEF CleanUnfinished
  <2>8. \A q \in Paths, v \in Values \cup {Gone, Link} : ~EditSource(q, v)
    BY <2>1 DEF EditSource, vault
  <2>9. \A q \in DOMAIN dest, v \in Values \cup {Gone, Dir} : ~EditDest(q, v)
    <3>1. ASSUME Spend("dest") PROVE FALSE
      BY <3>1, <2>1, <1>1, EventsAre DEF Spend, IInv, TypeOK
    <3> QED  BY <3>1 DEF EditDest
  <2>10. Next
    BY <2>1, <1>1 DEF vars
  <2> QED  BY <2>3, <2>4, <2>5, <2>6, <2>7, <2>8, <2>9, <2>10 DEF Next
<1>2. IInv /\ [Next]_vars => [\A p \in Paths : Kept(p)]_vars
  BY <1>1
<1> QED  BY <1>2, Invariant, PTL DEF Spec, RefusedIsKept

\* A call that reports success has imported every file the walk was to meet that nobody touched,
\* although the source and the vault change while walkPlainEntries is under way.
THEOREM AckComplete == Spec => AckIsComplete
<1> DEFINE Complete == Running /\ call' = NoCall /\ result' = "ok" =>
                \A p \in call.stayed \ call.touched :
                    dest'[p] = source[p] /\ p \notin temp' /\ backup'[p] = Gone
<1>1. ASSUME IInv, Next, Running, call' = NoCall, result' = "ok"
      PROVE  RemoveMarker
  <2>1. call \in Calls
    BY <1>1, CallTypes DEF IInv
  <2>2. ASSUME NEW pc \in {"mark", "count", "check", "mkdir", "list"}, Goto(pc)
        PROVE  FALSE
    <3>1. call' \in Calls
      BY <2>1, <2>2 DEF Goto, Calls
    <3> QED  BY <3>1, <1>1, NoCallIsNone
  <2>3. ASSUME NEW p, NEW more \in SUBSET Paths, Advance(p, more)
        PROVE  FALSE
    <3>1. call' \in Calls
      BY <2>1, <2>3 DEF Advance, Calls
    <3> QED  BY <3>1, <1>1, NoCallIsNone
  <2>4. ASSUME NEW r \in {"error", "exists", "refused", "crashed"}, Return(r)
        PROVE  FALSE
    BY <1>1, <2>4 DEF Return
  <2>5. ~Fails
    BY <2>4 DEF Fails
  <2>6. ~LookAtDest
    <3>1. ASSUME LookAtDest PROVE FALSE
      <4>1. call' \in Calls
        BY <2>1, <3>1 DEF LookAtDest, Calls
      <4> QED  BY <4>1, <1>1, NoCallIsNone
    <3> QED  BY <3>1
  <2>7. ~WriteMarker /\ ~Count /\ ~CheckDest /\ ~MakeDest
    BY <2>2, <2>4, <2>5 DEF WriteMarker, Count, CheckDest, MakeDest
  <2>8. ~ListSource
    <3>1. ASSUME ListSource PROVE FALSE
      <4>1. call' = [call EXCEPT !.pc = "visit", !.todo = Listed(<<>>),
                                 !.stayed = FilesIn(source) \cap Met(call.flat), !.touched = {}]
        BY <3>1, <2>4, <2>5 DEF ListSource
      <4>2. call' \in Calls
        BY <4>1, <2>1 DEF Calls, Listed, FilesIn
      <4> QED  BY <4>2, <1>1, NoCallIsNone
    <3> QED  BY <3>1
  <2>9. ASSUME NEW p \in Paths, SkipVault(p) \/ VisitDir(p) \/ VisitFile(p)
        PROVE  FALSE
    <3>1. {} \in SUBSET Paths /\ Listed(p) \in SUBSET Paths
      BY DEF Listed
    <3>2. ~Advance(p, {}) /\ ~Advance(p, Listed(p))
      BY <3>1, <2>3
    <3>3. ~Return("error") /\ ~Return("exists") /\ ~Return("refused")
      BY <2>4
    <3> QED  BY <2>5, <2>9, <3>2, <3>3 DEF SkipVault, VisitDir, VisitFile
  <2>10. ~Crash
    BY <2>4 DEF Crash
  <2>11. ~RerunStep /\ \A overwrite, flat \in BOOLEAN : ~Start(overwrite, flat)
    BY <1>1 DEF RerunStep, Rerun, Start
  <2>12. \A o \in Ops : ~CleanUnfinished(o)
    BY <1>1 DEF CleanUnfinished
  <2>13. ~MoveSource
    <3>1. ASSUME MoveSource PROVE FALSE
      <4>1. call' \in Calls
        BY <3>1, <2>1, <1>1 DEF MoveSource, Calls
      <4> QED  BY <4>1, <1>1, NoCallIsNone
    <3> QED  BY <3>1
  <2>14. ASSUME NEW p \in Paths, NEW v \in Values \cup {Gone, Link}, EditSource(p, v)
         PROVE  FALSE
    <3>1. call' \in Calls
      BY <2>14, <2>1, <1>1 DEF EditSource, Calls
    <3> QED  BY <3>1, <1>1, NoCallIsNone
  <2>15. ASSUME NEW p \in DOMAIN dest, NEW v \in Values \cup {Gone, Dir}, EditDest(p, v)
         PROVE  FALSE
    <3>1. p \in Paths \cup {<<>>}
      BY <1>1 DEF IInv, TypeOK, All
    <3>2. call' \in Calls
      BY <3>1, <2>15, <2>1, <1>1 DEF EditDest, Calls
    <3> QED  BY <3>2, <1>1, NoCallIsNone
  <2> QED  BY <1>1, <2>6, <2>7, <2>8, <2>9, <2>10, <2>11, <2>12, <2>13, <2>14, <2>15
           DEF Next, CallStep
<1>2. ASSUME IInv, RemoveMarker, NEW p \in call.stayed \ call.touched
      PROVE  dest'[p] = source[p] /\ p \notin temp' /\ backup'[p] = Gone
  <2>1. /\ Running /\ call.pc = "visit" /\ call.todo = {} /\ UNCHANGED <<dest, temp, backup>>
    BY <1>2 DEF RemoveMarker, At, vault
  <2>2. Imported(p)
    BY <2>1, <1>2 DEF IInv, WalkOK, At, Pending
  <2> QED  BY <2>1, <2>2 DEF Imported
<1>3. ASSUME IInv, [Next]_vars
      PROVE  [Complete]_vars
  BY <1>1, <1>2, <1>3
<1> QED  BY <1>3, Invariant, PTL DEF Spec, AckIsComplete

=============================================================================
