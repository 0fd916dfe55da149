----------------------------- MODULE PlainFile -----------------------------
(***************************************************************************)
(* What an encrypted file promises its user: an ordinary file of plain     *)
(* values with a position.  Gaps read as zeros.  An operation that fails   *)
(* has done a prefix of its work; the zeros it added to fill a gap may     *)
(* then stand behind the size it reports.  Growing or cutting the file     *)
(* from elsewhere may unsettle the position: until it is set again, Read   *)
(* moves on but promises no values.                                        *)
(***************************************************************************)
EXTENDS Naturals, Sequences, SequencesExt

CONSTANTS Data,       \* what is written: sequences of values, none of them empty
          MaxLen      \* bound on the length of the file

VARIABLES content,    \* the values, those behind the reported size included
          size,       \* the size the file reports
          pos,        \* the position of Read and Write
          out,        \* what the last operation returned
          settled     \* Read returns the values at pos

vars == <<content, size, pos, out, settled>>

Larger(a, b) == IF a > b THEN a ELSE b

Pad(s, n) == [i \in 1..Larger(n, Len(s)) |-> IF i <= Len(s) THEN s[i] ELSE 0]

Put(s, off, d) ==
    [i \in 1..Larger(Len(s), off + Len(d)) |-> IF i > off /\ i <= off + Len(d) THEN d[i - off] ELSE s[i]]

Init == content = <<>> /\ size = 0 /\ pos = 0 /\ out = <<>> /\ settled = TRUE

\* The next n values, fewer at the end.
Upto(off, n) == SubSeq(content, off + 1, IF off + n < Len(content) THEN off + n ELSE Len(content))

Unsettles(b) == settled' \in IF b THEN BOOLEAN ELSE {settled}

Read(n) ==
    /\ IF settled THEN out' = Upto(pos, n) ELSE Len(out') <= n
    /\ pos' = pos + Len(out')
    /\ Unsettles(~settled)
    /\ UNCHANGED <<content, size>>

ReadAt(off, n) ==
    /\ out' = Upto(off, n)
    /\ UNCHANGED <<content, size, pos, settled>>

\* A prefix of d lands at off, behind zeros where the file was shorter; or the
\* zeros did not all fit.
PutAt(off, d) ==
    \/ \E n \in 0..Len(d) :
          /\ content' = Put(Pad(content, off), off, SubSeq(d, 1, n))
          /\ size' = Larger(size, off + n)
          /\ out' = <<n>>
    \/ \E n \in size..off :
          /\ content' = Pad(content, n)
          /\ out' = <<0>>
          /\ UNCHANGED size

\* A Write that gets as far as its data sets the position; one that fails in the
\* gap may not.
Write(d) == PutAt(pos, d) /\ pos' = pos + out'[1] /\ (settled' = TRUE \/ (out' = <<0>> /\ Unsettles(TRUE)))

WriteAt(off, d) == PutAt(off, d) /\ Unsettles(off > size) /\ UNCHANGED pos

SeekTo(n) ==
    /\ pos' = n
    /\ out' = <<n>>
    /\ settled' = TRUE
    /\ UNCHANGED <<content, size>>

SeekEnd ==
    /\ pos' = size
    /\ out' = <<size>>
    /\ settled' = TRUE
    /\ UNCHANGED <<content, size>>

\* "Truncate should NOT change seek position", unless it is past the new end.
Truncate(n) ==
    /\ \/ /\ content' = IF n < size THEN SubSeq(content, 1, n) ELSE Pad(content, n)
          /\ size' = n
          /\ pos' = IF pos > n THEN n ELSE pos
       \/ /\ \E k \in size..n : content' = Pad(content, k)
          /\ UNCHANGED <<size, pos>>
    /\ out' = <<>>
    /\ Unsettles(n # size \/ pos > n)

Reopen ==
    /\ size' = Len(content)
    /\ pos' = 0
    /\ out' = <<>>
    /\ settled' = TRUE
    /\ UNCHANGED content

Next ==
    \/ \E n \in 1..MaxLen : Read(n)
    \/ \E off \in 0..MaxLen, n \in 1..MaxLen : ReadAt(off, n)
    \/ \E d \in Data : Write(d)
    \/ \E d \in Data, off \in 0..MaxLen : WriteAt(off, d)
    \/ \E n \in 0..MaxLen : SeekTo(n) \/ Truncate(n)
    \/ SeekEnd
    \/ Reopen

Spec == Init /\ [][Next]_vars
=============================================================================
