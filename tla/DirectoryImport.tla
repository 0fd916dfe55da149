--------------------------- MODULE DirectoryImport ---------------------------
(***************************************************************************)
(* Import of a plain directory into a vault: one marker over many          *)
(* destinations, merged into a directory that may be there already, and    *)
(* run again from the start when it did not finish (importDirectory of     *)
(* native/sec_fs/sec_transfer/v3/manager.go, and the reruns of the command *)
(* line and of the app).                                                   *)
(*                                                                         *)
(* The replacement of one file is one step here, with the outcomes that    *)
(* module FileReplace shows an interruption to have.  A path is a sequence *)
(* of names below the directory imported, <<>> the directory itself; a     *)
(* name is a directory on both sides or on neither.  Users edit the source *)
(* and the open vault without taking the operation lock.                   *)
(***************************************************************************)
EXTENDS Naturals, FiniteSets, SequencesExt

CONSTANTS
    Ops,        \* operation ids
    Order,      \* the paths, in the order a walk meets them
    Values,     \* file contents
    Sources,    \* what the source may be at the start
    Dests,      \* what the destination may be at the start
    NoMarker, NoCall,
    Limit       \* bounds on what the environment may do

Gone  == "gone"
Dir   == "dir"
Vault == "vault"   \* a directory with a _cryption.json
Link  == "link"    \* a symbolic link

Paths  == ToSet(Order)
Dirs   == {Front(p) : p \in Paths}
Events == {"source", "dest", "fault", "crash", "clean", "start"}

\* OperationMarker: what the request said, and whether the destination was there before it.
Markers == [overwrite: BOOLEAN, existed: BOOLEAN]

(* What a call keeps: where it is, its request, and the entries listed and *)
(* not yet visited.  stayed and touched are history: what users left alone *)
(* in the source, and changed in the vault.                                *)
Calls == [pc: {"begin", "mark", "count", "check", "mkdir", "list", "visit"}, op: Ops,
          overwrite: BOOLEAN, existed: BOOLEAN, flat: BOOLEAN,
          todo: SUBSET Paths, stayed: SUBSET Paths, touched: SUBSET (Paths \cup {<<>>})]

ASSUME DirectoryImportAssumption ==
    /\ Values \cap {Gone, Dir, Vault, Link} = {}
    /\ \A p \in Paths : /\ p \in Seq(UNION {ToSet(q) : q \in Paths}) \ {<<>>}
                        /\ \A n \in 1..Len(p) : SubSeq(p, 1, n) \in Paths
    /\ Sources \subseteq [Paths \cup {<<>>} -> Values \cup {Gone, Dir, Vault, Link}]
    /\ Dests \subseteq [Paths \cup {<<>>} -> Values \cup {Gone, Dir}]
    /\ \A t \in Sources \cup Dests, p \in Paths \cup {<<>>} :
          t[p] = Gone \/ (t[<<>>] # Gone /\ (p \in Dirs <=> t[p] \in {Dir, Vault}))
    /\ NoMarker \notin Markers /\ NoCall \notin Calls
    /\ Limit \in [Events -> Nat]

VARIABLES
    source,    \* the plain directory
    dest,      \* the directory in the vault
    temp,      \* the paths with a temporary file next to them
    backup,    \* per path: the backup next to it
    marker,    \* per operation: its marker in the root
    call,      \* the running call, or NoCall
    result,    \* what the last call returned
    asked,     \* history, per operation: what was asked, and what came of it
    spent      \* how often each event of the environment happened

vars == <<source, dest, temp, backup, marker, call, result, asked, spent>>
vault == <<dest, temp, backup>>

Spend(e) == spent[e] < Limit[e] /\ spent' = [spent EXCEPT ![e] = @ + 1]

Running == call # NoCall
At(pc) == Running /\ call.pc = pc
Goto(pc) == call' = [call EXCEPT !.pc = pc] /\ UNCHANGED result
Return(r) == call' = NoCall /\ result' = r

FilesIn(t) == {p \in Paths : t[p] \in Values}
Occupied == {p \in DOMAIN dest : dest[p] # Gone}

\* The directory that holds p is there.
Reachable(t, p) == t[Front(p)] = Dir

-----------------------------------------------------------------------------
(* The request *)

NothingAsked == [there |-> {}, cli |-> FALSE, wrote |-> FALSE, gap |-> FALSE]

\* A call begins with the lock of the root; the flags of its request are its own.
Begins(o, overwrite, flat) ==
    call' = [pc |-> "begin", op |-> o, overwrite |-> overwrite, existed |-> TRUE, flat |-> flat,
             todo |-> {}, stayed |-> {}, touched |-> {}]

(* The app asks before it merges into a directory that is there; the       *)
(* command line always overwrites, and only it imports without             *)
(* subdirectories.                                                         *)
Start(overwrite, flat) ==
    /\ ~Running /\ (flat => overwrite)
    /\ Spend("start")
    /\ LET free == {o \in Ops : marker[o] = NoMarker}
           o == CHOOSE o \in free : TRUE
       IN  /\ free # {}
           /\ Begins(o, overwrite, flat)
           /\ asked' = [asked EXCEPT ![o] =
                           [NothingAsked EXCEPT !.there = IF overwrite THEN {} ELSE Occupied]]
    /\ UNCHANGED <<source, vault, marker, result>>

\* An error or a cancellation ends the call; the marker stays.
Fails == Spend("fault") /\ Return("error")

\* Mutant: only a file counts as an existing destination.
LookAtDestFile ==
    /\ At("begin")
    /\ call' = [call EXCEPT !.pc = "mark", !.existed = FALSE]
    /\ UNCHANGED <<source, vault, marker, result, asked, spent>>

\* destinationInitiallyExisted, before the marker is written.
LookAtDest ==
    /\ At("begin")
    /\ call' = [call EXCEPT !.pc = "mark", !.existed = (dest[<<>>] # Gone)]
    /\ UNCHANGED <<source, vault, marker, result, asked, spent>>

\* Mutant: the error of writing the marker is lost.
WriteMarkerUnchecked ==
    /\ At("mark")
    /\ \/ /\ marker' = [marker EXCEPT ![call.op] = [overwrite |-> call.overwrite, existed |-> call.existed]]
          /\ UNCHANGED spent
       \/ UNCHANGED marker /\ Spend("fault")
    /\ Goto("count")
    /\ UNCHANGED <<source, vault, asked>>

WriteMarker ==
    /\ At("mark")
    /\ LET written == [marker EXCEPT ![call.op] = [overwrite |-> call.overwrite, existed |-> call.existed]]
       IN  \/ /\ marker' = written /\ Goto("count")
              /\ UNCHANGED <<asked, spent>>
           \/ /\ marker' \in {marker, written} /\ Fails
              /\ asked' = [asked EXCEPT ![call.op].gap = @ \/ marker' = marker]
    /\ UNCHANGED <<source, vault>>

-----------------------------------------------------------------------------
(* The walk over the source *)

\* What a listing of directory q gives.  Entries of the program itself
\* (shouldSkipPlainName) are none of Paths.
Listed(q) == {p \in Paths : Front(p) = q /\ source[p] # Gone}

\* The paths a walk of the source meets: those below a vault are left out.
Met(flat) == {p \in Paths : /\ source[p] \notin {Gone, Vault}
                            /\ IF flat THEN Len(p) = 1
                               ELSE \A n \in 1..Len(p) - 1 : source[SubSeq(p, 1, n)] = Dir}

\* A walk fails on a source that is gone or is a vault, and on a link it meets.
Walkable(flat) == source[<<>>] = Dir /\ \A p \in Met(flat) : source[p] # Link

\* The first walk only counts, but its errors end the call before it writes anything.
Count ==
    /\ At("count")
    /\ \/ Walkable(call.flat) /\ Goto("check") /\ UNCHANGED spent
       \/ ~Walkable(call.flat) /\ Return("error") /\ UNCHANGED spent
       \/ Fails
    /\ UNCHANGED <<source, vault, marker, asked>>

\* A directory that is there is merged into only if the request says so.
CheckDest ==
    /\ At("check")
    /\ IF ~call.overwrite /\ dest[<<>>] # Gone THEN Return("exists") ELSE Goto("mkdir")
    /\ UNCHANGED <<source, vault, marker, asked, spent>>

\* mkdirAllRoot makes q and what is missing above it, syncs and may fail after its effect.
MadeDir(q) == [p \in DOMAIN dest |->
                  IF dest[p] = Gone /\ Len(p) <= Len(q) /\ p = SubSeq(q, 1, Len(p)) THEN Dir ELSE dest[p]]

Makes(q) == /\ dest' = MadeDir(q)
            /\ asked' = [asked EXCEPT ![call.op].wrote = @ \/ dest' # dest]

MakeDest ==
    /\ At("mkdir")
    /\ \/ Makes(<<>>) /\ Goto("list") /\ UNCHANGED spent
       \/ (Makes(<<>>) \/ UNCHANGED <<dest, asked>>) /\ Fails
    /\ UNCHANGED <<source, temp, backup, marker>>

\* The second walk begins.
ListSource ==
    /\ At("list")
    /\ \/ /\ source[<<>>] = Dir
          /\ call' = [call EXCEPT !.pc = "visit", !.todo = Listed(<<>>),
                                  !.stayed = FilesIn(source) \cap Met(call.flat), !.touched = {}]
          /\ UNCHANGED <<result, spent>>
       \/ source[<<>>] # Dir /\ Return("error") /\ UNCHANGED spent
       \/ Fails
    /\ UNCHANGED <<source, vault, marker, asked>>

\* The walk goes into a directory before it goes on beside it: the next entry is the one
\* that comes first in Order.
Place(p) == CHOOSE n \in DOMAIN Order : Order[n] = p
Visiting(p) == At("visit") /\ p \in call.todo /\ \A q \in call.todo : Place(p) <= Place(q)
Advance(p, more) == call' = [call EXCEPT !.todo = (@ \ {p}) \cup more] /\ UNCHANGED result

\* A vault inside the source is left out, whatever it holds.
SkipVault(p) ==
    /\ Visiting(p) /\ source[p] = Vault
    /\ Advance(p, {})
    /\ UNCHANGED <<source, vault, marker, asked, spent>>

\* A directory: made in the vault, then listed unless only the top is wanted.
VisitDir(p) ==
    /\ Visiting(p) /\ p \in Dirs /\ source[p] # Vault
    /\ \/ /\ Makes(p) /\ UNCHANGED spent
          /\ IF call.flat THEN Advance(p, {})
             ELSE IF source[p] = Gone THEN Return("error")
             ELSE Advance(p, Listed(p))
       \/ (Makes(p) \/ UNCHANGED <<dest, asked>>) /\ Fails
    /\ UNCHANGED <<source, temp, backup, marker>>

-----------------------------------------------------------------------------
(* One file *)

\* Mutant: a file that is there already is passed over, as if it were imported.
ReplaceUnlessThere(p) ==
    /\ source[p] \in Values
    /\ dest' = IF dest[p] = Gone THEN [MadeDir(Front(p)) EXCEPT ![p] = source[p]] ELSE dest
    /\ UNCHANGED <<temp, backup>>

(* importFileAtomic that succeeds: the source is at the destination, the   *)
(* temporary file and the backup are gone.                                 *)
Replace(p) ==
    /\ source[p] \in Values
    /\ dest[p] = Gone \/ backup[p] = Gone
    /\ dest' = [MadeDir(Front(p)) EXCEPT ![p] = source[p]]
    /\ temp' = temp \ {p}
    /\ backup' = [backup EXCEPT ![p] = Gone]

(* The rename of the destination onto a backup that is there is refused.   *)
Refused(p) == source[p] \in Values /\ dest[p] # Gone /\ backup[p] # Gone

(* What an error or a crash in importFileAtomic leaves: at most a          *)
(* temporary file; the destination moved to its backup; or the new         *)
(* destination with the backup not yet deleted.                            *)
Interrupted(p) ==
    /\ source[p] \in Values
    /\ LET made == MadeDir(Front(p)) IN
       \/ /\ dest' \in {dest, made} /\ UNCHANGED backup
          /\ temp' \in {temp \cup {p}, temp \ {p}}
       \/ /\ dest[p] # Gone /\ backup[p] = Gone
          /\ dest' = [dest EXCEPT ![p] = Gone] /\ backup' = [backup EXCEPT ![p] = dest[p]]
          /\ temp' \in {temp \cup {p}, temp \ {p}}
       \/ /\ dest[p] = Gone \/ backup[p] = Gone
          /\ dest' = [made EXCEPT ![p] = source[p]]
          /\ backup' = [backup EXCEPT ![p] = IF dest[p] = Gone THEN @ ELSE dest[p]]
          /\ temp' = temp \ {p}

Wrote == asked' = [asked EXCEPT ![call.op].wrote = @ \/ vault' # vault]

\* importOne: an existing file is replaced only if the request says so.
VisitFile(p) ==
    /\ Visiting(p) /\ p \notin Dirs
    /\ LET taken == ~call.overwrite /\ dest[p] # Gone
       IN  \/ ~taken /\ Replace(p) /\ Wrote /\ Advance(p, {}) /\ UNCHANGED spent
           \/ taken /\ Return("exists") /\ UNCHANGED <<vault, asked, spent>>
           \/ /\ ~taken /\ Refused(p)
              /\ temp' = temp \ {p} /\ UNCHANGED <<dest, backup, spent>>
              /\ Wrote /\ Return("refused")
           \/ source[p] \notin Values /\ Return("error") /\ UNCHANGED <<vault, asked, spent>>
           \/ ~taken /\ Interrupted(p) /\ Wrote /\ Fails
    /\ UNCHANGED <<source, marker>>

RemoveMarker ==
    /\ At("visit") /\ call.todo = {}
    /\ LET removed == [marker EXCEPT ![call.op] = NoMarker]
       IN  \/ marker' = removed /\ Return("ok") /\ UNCHANGED spent
           \/ marker' \in {marker, removed} /\ Fails
    /\ asked' = [asked EXCEPT ![call.op].wrote = @ /\ marker' = marker]
    /\ UNCHANGED <<source, vault>>

-----------------------------------------------------------------------------
(* Unfinished imports *)

\* The user has the marker cleaned: the rest is left as it is.
CleanUnfinished(o) ==
    /\ ~Running /\ marker[o] # NoMarker
    /\ Spend("clean")
    /\ marker' = [marker EXCEPT ![o] = NoMarker]
    /\ asked' = [asked EXCEPT ![o].wrote = FALSE]
    /\ UNCHANGED <<source, vault, call, result>>

\* Mutant: the decision is taken over as it was.
RerunOverwritesAsBefore(m, cli) == m.overwrite

\* A directory the first attempt made itself does not count as one in the way.
RerunOverwrites(m, cli) == cli \/ m.overwrite \/ ~m.existed

(* The marker is cleaned first, then the import starts from the beginning. *)
(* The marker does not say that subdirectories were to be left out.        *)
Rerun(o, cli) ==
    /\ ~Running /\ marker[o] # NoMarker
    /\ marker' = [marker EXCEPT ![o] = NoMarker]
    /\ Begins(o, RerunOverwrites(marker[o], cli), FALSE)
    /\ asked' = [asked EXCEPT ![o].cli = @ \/ cli]
    /\ UNCHANGED <<source, vault, result, spent>>

-----------------------------------------------------------------------------
(* The environment *)

\* The process dies between two steps, or in the middle of a file.
Crash ==
    /\ Running
    /\ Spend("crash")
    /\ \/ /\ asked' = [asked EXCEPT ![call.op].gap = @ \/ At("begin") \/ At("mark")]
          /\ UNCHANGED vault
       \/ \E p \in Paths \ Dirs : /\ Visiting(p) /\ (call.overwrite \/ dest[p] = Gone)
                                 /\ Interrupted(p) /\ Wrote
    /\ Return("crashed")
    /\ UNCHANGED <<source, marker>>

\* The user changes, adds or deletes a file of the source, or makes it a link.
EditSource(p, v) ==
    /\ p \notin Dirs /\ source[p] # v /\ Reachable(source, p)
    /\ Spend("source")
    /\ source' = [source EXCEPT ![p] = v]
    /\ call' = IF Running THEN [call EXCEPT !.stayed = @ \ {p}] ELSE call
    /\ UNCHANGED <<vault, marker, result, asked>>

\* The source is moved away.
MoveSource ==
    /\ source[<<>>] # Gone
    /\ Spend("source")
    /\ source' = [p \in DOMAIN source |-> Gone]
    /\ call' = IF Running THEN [call EXCEPT !.stayed = {}] ELSE call
    /\ UNCHANGED <<vault, marker, result, asked>>

\* A user of the open vault does so there, or makes the destination directory.
EditDest(p, v) ==
    /\ dest[p] # v
    /\ IF p = <<>> THEN dest[p] = Gone /\ v = Dir
       ELSE p \notin Dirs /\ v # Dir /\ Reachable(dest, p)
    /\ Spend("dest")
    /\ dest' = [dest EXCEPT ![p] = v]
    /\ call' = IF Running THEN [call EXCEPT !.touched = @ \cup {p}] ELSE call
    /\ UNCHANGED <<source, temp, backup, marker, result, asked>>

-----------------------------------------------------------------------------
Init ==
    /\ source \in Sources /\ dest \in Dests
    /\ temp = {} /\ backup = [p \in Paths |-> Gone]
    /\ marker = [o \in Ops |-> NoMarker]
    /\ call = NoCall /\ result = "none"
    /\ asked = [o \in Ops |-> NothingAsked]
    /\ spent = [e \in Events |-> 0]

CallStep == \/ LookAtDest \/ WriteMarker \/ Count \/ CheckDest \/ MakeDest \/ ListSource
            \/ \E p \in Paths : SkipVault(p) \/ VisitDir(p) \/ VisitFile(p)
            \/ RemoveMarker

RerunStep == \E o \in Ops, cli \in BOOLEAN : Rerun(o, cli)

Next ==
    \/ CallStep \/ RerunStep \/ Crash \/ MoveSource
    \/ \E overwrite, flat \in BOOLEAN : Start(overwrite, flat)
    \/ \E o \in Ops : CleanUnfinished(o)
    \/ \E p \in Paths, v \in Values \cup {Gone, Link} : EditSource(p, v)
    \/ \E p \in DOMAIN dest, v \in Values \cup {Gone, Dir} : EditDest(p, v)

Spec == Init /\ [][Next]_vars

\* A call that runs goes on unless it crashes, and a user who is told of an
\* unfinished import runs it again some day.
FairSpec == Spec /\ WF_vars(CallStep) /\ WF_vars(RerunStep)

-----------------------------------------------------------------------------
(* Properties *)

(* A call that reports success has imported everything: each file the walk *)
(* was to meet and nobody touched on either side since the walk began is   *)
(* in the vault as it is in the source, and has left nothing beside it.    *)
AckIsComplete ==
    [][Running /\ call'= NoCall /\ result' = "ok" =>
          \A p \in call.stayed \ call.touched :
              dest'[p] = source[p] /\ p \notin temp' /\ backup'[p] = Gone]_vars

(* "A marker stays after a cancellation or a failure": an import that has  *)
(* changed the vault and did not finish is known by its marker, unless the *)
(* user had it cleaned, or a rerun that had cleaned it ended before it     *)
(* wrote its own.                                                          *)
PartialIsRecorded ==
    \A o \in Ops : asked[o].wrote /\ (Running => call.op # o) =>
        marker[o] # NoMarker \/ asked[o].gap

(* A file that was there when the user asked for an import that replaces   *)
(* nothing is not replaced by it, nor by any rerun of the app, however     *)
(* often it was interrupted: destinationInitiallyExisted is read before    *)
(* the import makes the directory itself.                                  *)
RefusedIsKept ==
    [][\A p \in Paths : Running /\ dest'[p] # dest[p] /\ spent'["dest"] = spent["dest"]
          => p \notin asked[call.op].there \/ asked[call.op].cli]_vars

Unfinished == \E o \in Ops : marker[o] # NoMarker

(* Running an unfinished import again finishes it, although the directory  *)
(* it found missing is there now, unless the source cannot be walked, a    *)
(* backup stands beside a file, or the user did not want to merge into what *)
(* was there when they asked, or what somebody else has put there since.    *)
InTheWay == \/ result = "exists" /\ (spent["dest"] > 0 \/ \E o \in Ops : <<>> \in asked[o].there)
            \/ ~Walkable(FALSE)
            \/ \E p \in Paths : dest[p] # Gone /\ backup[p] # Gone
RerunsFinish == Unfinished ~> ~Running /\ (~Unfinished \/ InTheWay)
=============================================================================
