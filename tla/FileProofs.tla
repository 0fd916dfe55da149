----------------------------- MODULE FileProofs -----------------------------
(***************************************************************************)
(* Proofs about files: the encrypted file (DataContext) and the             *)
(* replacement of a file by an import or export (FileReplace).              *)
(***************************************************************************)
EXTENDS DataContext, FileReplace, SequenceTheorems, TLAPS

(***************************************************************************)
(* The encrypted file: every cell on disk is hidden with the keystream of  *)
(* its own position, and the context behaves as a plain file, for every    *)
(* block and chunk size, every data, file length and number of operations  *)
(* and failures.                                                           *)
(***************************************************************************)

-----------------------------------------------------------------------------
(* The inductive invariant *)

Pieces == Nat \X Nat
Cell == [v : Nat, k : Pieces]

\* A cached RC4 cipher whose stream is where it claims to be.
Aligned == {c \in [pos : Nat, at : Nat] : c.pos = c.at}

\* A file of which sz cells are reported: each cell under the keystream of its
\* own position, and only zeros behind the reported size.
Sound(st, sz) ==
    /\ st \in Seq(Cell) /\ sz \in 0..Len(st)
    /\ \A i \in 1..Len(st) : st[i].k = KeyOf(i - 1)
    /\ \A i \in 1..Len(st) : i > sz => st[i].v = 0

IInv ==
    /\ kind \in Kinds
    /\ Sound(store, size)
    /\ pos \in Nat /\ filePos \in Nat
    /\ reader \in Aligned /\ writer \in Aligned

\* The values of a file, without their keystream.
Values(st) == [i \in 1..Len(st) |-> st[i].v]

-----------------------------------------------------------------------------
(* Sequences *)

\* A function on 1..n is a sequence of that length.
LEMMA FunctionIsSeq ==
    ASSUME NEW S, NEW n \in Nat, NEW f \in [1..n -> S]
    PROVE  f \in Seq(S) /\ Len(f) = n
BY SeqDef, LenProperties

\* The values of a file are as many as its cells.
LEMMA ValuesSeq ==
    ASSUME NEW st \in Seq(Cell)
    PROVE  /\ Values(st) \in Seq(Nat)
           /\ Len(Values(st)) = Len(st)
           /\ \A i \in 1..Len(st) : Values(st)[i] = st[i].v
<1>1. Len(st) \in Nat /\ \A i \in 1..Len(st) : st[i].v \in Nat
  <2>1. \A i \in 1..Len(st) : st[i] \in Cell
    BY ElementOfSeq
  <2> QED  BY <2>1, LenProperties DEF Cell
<1>2. Values(st) \in [1..Len(st) -> Nat]
  BY <1>1 DEF Values
<1> QED  BY <1>1, <1>2, FunctionIsSeq DEF Values

-----------------------------------------------------------------------------
(* Keystreams *)

\* A piece of keystream is a pair of numbers.
LEMMA KeyType ==
    ASSUME NEW p \in Nat, kind \in Kinds
    PROVE  KeyOf(p) \in Pieces
<1>1. p \div CtrBlock \in Nat /\ p % CtrBlock \in Nat
  BY DataContextAssumption
<1>2. p \div XtsBlock \in Nat /\ p % XtsBlock \in Nat
  BY DataContextAssumption
<1>3. p \div ChaChaBlock \in Nat /\ p % ChaChaBlock \in Nat
  BY DataContextAssumption
<1>4. (p \div ChaChaBlock) % Counters \in Nat
  BY <1>3, DataContextAssumption
<1> QED
  BY <1>1, <1>2, <1>3, <1>4 DEF KeyOf, Kinds, Pieces, CtrKey, XtsKey, ChaChaKey, StreamKey

\* The only chunk a cipher can be in step with starts at its position.
LEMMA InStepIsPos ==
    ASSUME NEW cs \in Aligned, NEW p, NEW n, InStep(cs, p, n) # {}
    PROVE  /\ Max(InStep(cs, p, n)) = cs.pos
           /\ cs.pos \in ChunksOf(p, n)
<1>1. InStep(cs, p, n) = {cs.pos} /\ cs.pos \in ChunksOf(p, n)
  BY DEF InStep
<1>2. cs.pos \in Nat
  BY DEF Aligned
<1>3. \A x \in {cs.pos} : \A y \in {cs.pos} : x >= y
  BY <1>2
<1>4. Max({cs.pos}) = cs.pos
  BY <1>3 DEF Max
<1> QED  BY <1>1, <1>4

\* A cached cipher that is where it claims hides each cell with its own piece.
LEMMA PieceIsOwn ==
    ASSUME NEW cs \in Aligned, NEW p \in Nat, NEW n \in Nat, NEW q \in Nat, kind \in Kinds
    PROVE  PieceIn(cs, p, n, q) = KeyOf(q)
<1>1. CASE kind # "RC4"
  BY <1>1 DEF PieceIn
<1>2. CASE kind = "RC4"
  <2>1. KeyOf(q) = StreamKey(q)
    BY <1>2 DEF KeyOf
  <2>2. CASE InStep(cs, p, n) = {}
    BY <1>2, <2>1, <2>2 DEF PieceIn
  <2>3. CASE InStep(cs, p, n) # {}
    <3>1. Max(InStep(cs, p, n)) = cs.pos
      BY <2>3, InStepIsPos
    <3>2. EncryptedAt(cs, cs.pos, 0).start = cs.pos /\ cs.pos \in Nat
      BY DEF EncryptedAt, Aligned
    <3>3. cs.pos + (q - cs.pos) = q
      BY <3>2
    <3> QED  BY <1>2, <2>1, <2>3, <3>1, <3>2, <3>3 DEF PieceIn
  <2> QED  BY <2>2, <2>3
<1> QED  BY <1>1, <1>2

\* Encrypting a run leaves the cached cipher where it claims to be.
LEMMA AfterAligned ==
    ASSUME NEW cs \in Aligned, NEW p \in Nat, NEW n \in Nat
    PROVE  After(cs, p, n) \in Aligned
<1>1. ASSUME NEW m
      PROVE  EncryptedAt(cs, m, p + n - m).cs \in Aligned
  <2>1. CASE m = cs.pos
    <3>1. cs.pos \in Nat /\ cs.at = cs.pos
      BY DEF Aligned
    <3>2. m + (p + n - m) = p + n /\ cs.at + (p + n - m) = p + n /\ p + n \in Nat
      BY <2>1, <3>1
    <3>3. EncryptedAt(cs, m, p + n - m).cs = [pos |-> p + n, at |-> p + n]
      BY <2>1, <3>2 DEF EncryptedAt
    <3> QED  BY <3>2, <3>3 DEF Aligned
  <2>2. CASE m # cs.pos
    BY <2>2 DEF EncryptedAt
  <2> QED  BY <2>1, <2>2
<1> QED  BY <1>1 DEF After

\* A run is taken from the stream at its own position.
LEMMA EncryptedAtOwn ==
    ASSUME NEW cs \in Aligned, NEW p \in Nat, NEW n \in Nat
    PROVE  /\ EncryptedAt(cs, p, n).start = p
           /\ EncryptedAt(cs, p, n).cs \in Aligned
BY DEF EncryptedAt, Aligned

-----------------------------------------------------------------------------
(* Writing *)

\* What a run of cells does to a file it starts in or at the end of.
WrittenAs(w, st, p, d, n) ==
    /\ w \in Seq(Cell)
    /\ Len(w) = Max2(Len(st), p + n)
    /\ \A i \in 1..Len(w) : i > p /\ i <= p + n => w[i].v = d[i - p] /\ w[i].k = KeyOf(i - 1)
    /\ \A i \in 1..Len(w) : ~(i > p /\ i <= p + n) => i \in 1..Len(st) /\ w[i] = st[i]

LEMMA WrittenCells ==
    ASSUME NEW st \in Seq(Cell), NEW cs \in Aligned, NEW p \in Nat, NEW d \in Seq(Nat),
           NEW n \in 0..Len(d), p <= Len(st), kind \in Kinds,
           NEW w, w = Written(st, cs, p, d, n)
    PROVE  WrittenAs(w, st, p, d, n)
<1> DEFINE m == Max2(Len(st), p + n)
<1>1. Len(st) \in Nat /\ Len(d) \in Nat /\ n \in Nat /\ n <= Len(d) /\ m \in Nat
  BY LenProperties DEF Max2
<1>2. ASSUME NEW i \in 1..m, i > p, i <= p + n
      PROVE  /\ w[i] = [v |-> d[i - p], k |-> KeyOf(i - 1)]
             /\ w[i] \in Cell
  <2>1. i - 1 \in Nat /\ i - p \in 1..Len(d)
    BY <1>1, <1>2
  <2>2. w[i] = [v |-> d[i - p], k |-> PieceIn(cs, p, Len(d), i - 1)]
    BY <1>1, <1>2 DEF Written
  <2>3. PieceIn(cs, p, Len(d), i - 1) = KeyOf(i - 1)
    BY <1>1, <2>1, PieceIsOwn
  <2>4. KeyOf(i - 1) \in Pieces /\ d[i - p] \in Nat
    BY <2>1, KeyType, ElementOfSeq
  <2> QED  BY <2>2, <2>3, <2>4 DEF Cell
<1>3. ASSUME NEW i \in 1..m, ~(i > p /\ i <= p + n)
      PROVE  i \in 1..Len(st) /\ w[i] = st[i] /\ w[i] \in Cell
  <2>1. i \in 1..Len(st)
    BY <1>1, <1>3 DEF Max2
  <2>2. w[i] = st[i]
    BY <1>1, <1>3 DEF Written
  <2> QED  BY <2>1, <2>2, ElementOfSeq
<1>4. w \in [1..m -> Cell]
  <2>1. w = [i \in 1..m |-> w[i]]
    BY DEF Written
  <2> QED  BY <1>2, <1>3, <2>1
<1>5. w \in Seq(Cell) /\ Len(w) = m
  <2> HIDE DEF m
  <2> QED  BY <1>1, <1>4, FunctionIsSeq
<1> HIDE DEF m
<1> QED
  BY <1>2, <1>3, <1>5 DEF m, WrittenAs

\* Writing keeps a file sound; the reported size may follow.
LEMMA WrittenSound ==
    ASSUME NEW st, NEW sz, Sound(st, sz), NEW cs \in Aligned, NEW p \in Nat, NEW d \in Seq(Nat),
           NEW n \in 0..Len(d), p <= sz, kind \in Kinds
    PROVE  Sound(Written(st, cs, p, d, n), Max2(sz, p + n))
<1>w. PICK w : w = Written(st, cs, p, d, n)
  OBVIOUS
<1>1. st \in Seq(Cell) /\ Len(st) \in Nat /\ Len(d) \in Nat /\ sz \in Nat /\ sz <= Len(st) /\ n \in Nat /\ p <= Len(st)
  BY LenProperties DEF Sound
<1>2. /\ w \in Seq(Cell)
      /\ Len(w) = Max2(Len(st), p + n)
      /\ \A i \in 1..Len(w) : i > p /\ i <= p + n => w[i].v = d[i - p] /\ w[i].k = KeyOf(i - 1)
      /\ \A i \in 1..Len(w) : ~(i > p /\ i <= p + n) => i \in 1..Len(st) /\ w[i] = st[i]
  <2>1. WrittenAs(w, st, p, d, n)
    BY <1>w, <1>1, WrittenCells
  <2> QED  BY <2>1 DEF WrittenAs
<1>3. Max2(sz, p + n) \in 0..Len(w)
  BY <1>1, <1>2 DEF Max2
<1>4. \A i \in 1..Len(w) : w[i].k = KeyOf(i - 1)
  BY <1>2 DEF Sound
<1>5. \A i \in 1..Len(w) : i > Max2(sz, p + n) => w[i].v = 0
  <2>1. \A i \in 1..Len(w) : i > Max2(sz, p + n) => ~(i <= p + n) /\ i > sz
    BY <1>1 DEF Max2
  <2> QED  BY <1>2, <2>1 DEF Sound
<1>6. Sound(w, Max2(sz, p + n))
  BY <1>2, <1>3, <1>4, <1>5 DEF Sound
<1> QED  BY <1>w, <1>6

\* Writing zeros keeps a file sound whether or not the reported size follows.
LEMMA ZerosSound ==
    ASSUME NEW st, NEW sz, Sound(st, sz), NEW cs \in Aligned, NEW g \in Nat,
           NEW n \in 0..g, kind \in Kinds
    PROVE  /\ Sound(Written(st, cs, sz, Zeros(g), n), sz)
           /\ Sound(Written(st, cs, sz, Zeros(g), n), sz + n)
           /\ Values(Written(st, cs, sz, Zeros(g), n)) = File!Pad(Values(st), sz + n)
<1> DEFINE w == Written(st, cs, sz, Zeros(g), n)
<1>1. Zeros(g) \in Seq(Nat) /\ Len(Zeros(g)) = g /\ \A i \in 1..g : Zeros(g)[i] = 0
  <2>1. Zeros(g) \in [1..g -> Nat]
    BY DEF Zeros
  <2> QED  BY <2>1, FunctionIsSeq DEF Zeros
<1>2. st \in Seq(Cell) /\ Len(st) \in Nat /\ sz \in Nat /\ sz <= Len(st) /\ n \in Nat /\ n <= g
  BY LenProperties DEF Sound
<1>3. /\ w \in Seq(Cell)
      /\ Len(w) = Max2(Len(st), sz + n)
      /\ \A i \in 1..Len(w) : i > sz /\ i <= sz + n => w[i].v = Zeros(g)[i - sz] /\ w[i].k = KeyOf(i - 1)
      /\ \A i \in 1..Len(w) : ~(i > sz /\ i <= sz + n) => i \in 1..Len(st) /\ w[i] = st[i]
  <2>1. WrittenAs(w, st, sz, Zeros(g), n)
    BY <1>1, <1>2, WrittenCells
  <2> QED  BY <2>1 DEF WrittenAs
<1> HIDE DEF w
<1>4. \A i \in 1..Len(w) : i > sz => w[i].v = 0
  <2>1. \A i \in 1..Len(w) : i > sz /\ i <= sz + n => w[i].v = 0
    BY <1>1, <1>2, <1>3
  <2> QED  BY <1>3, <2>1 DEF Sound
<1>5. \A i \in 1..Len(w) : w[i].k = KeyOf(i - 1)
  BY <1>3 DEF Sound
<1>6. sz \in 0..Len(w) /\ sz + n \in 0..Len(w)
  BY <1>2, <1>3 DEF Max2
<1>7. \A i \in 1..Len(w) : i > sz + n => w[i].v = 0
  BY <1>2, <1>4
<1>8. Sound(w, sz) /\ Sound(w, sz + n)
  BY <1>3, <1>4, <1>5, <1>6, <1>7 DEF Sound
<1>9. Values(w) = File!Pad(Values(st), sz + n)
  <2>1. Len(Values(st)) = Len(st) /\ \A i \in 1..Len(st) : Values(st)[i] = st[i].v
    BY <1>2, ValuesSeq
  <2>2. File!Larger(sz + n, Len(Values(st))) = Len(w)
    BY <1>2, <1>3, <2>1 DEF File!Larger, Max2
  <2>3. ASSUME NEW i \in 1..Len(w)
        PROVE  w[i].v = IF i <= Len(st) THEN Values(st)[i] ELSE 0
    <3>1. CASE i > sz
      BY <1>2, <1>4, <2>1, <3>1 DEF Sound
    <3>2. CASE ~(i > sz)
      BY <1>2, <1>3, <2>1, <3>2
    <3> QED  BY <3>1, <3>2
  <2> QED  BY <2>1, <2>2, <2>3 DEF Values, File!Pad
<1> QED  BY <1>8, <1>9 DEF w

\* What lands in the file, in values.
LEMMA WrittenValues ==
    ASSUME NEW st \in Seq(Cell), NEW cs \in Aligned, NEW p \in Nat, NEW d \in Seq(Nat),
           NEW n \in 0..Len(d), p <= Len(st), kind \in Kinds
    PROVE  Values(Written(st, cs, p, d, n)) = File!Put(Values(st), p, SubSeq(d, 1, n))
<1>w. PICK w : w = Written(st, cs, p, d, n)
  OBVIOUS
<1>1. Len(st) \in Nat /\ Len(d) \in Nat /\ n \in Nat /\ n <= Len(d)
  BY LenProperties
<1>2. /\ w \in Seq(Cell)
      /\ Len(w) = Max2(Len(st), p + n)
      /\ \A i \in 1..Len(w) : i > p /\ i <= p + n => w[i].v = d[i - p] /\ w[i].k = KeyOf(i - 1)
      /\ \A i \in 1..Len(w) : ~(i > p /\ i <= p + n) => i \in 1..Len(st) /\ w[i] = st[i]
  <2>1. WrittenAs(w, st, p, d, n)
    BY <1>w, <1>1, WrittenCells
  <2> QED  BY <2>1 DEF WrittenAs
<1>s. PICK s : s = SubSeq(d, 1, n)
  OBVIOUS
<1>3. Len(s) = n /\ \A i \in 1..n : s[i] = d[i]
  <2>1. \A i \in 1..n : d[i] \in Nat
    BY <1>1, ElementOfSeq
  <2>2. Len(s) = (IF 1 <= n THEN n - 1 + 1 ELSE 0) /\ \A i \in 1..(n - 1 + 1) : s[i] = d[1 + i - 1]
    BY <1>1, <1>s, <2>1, SubSeqProperties
  <2> QED  BY <1>1, <2>2
<1>4. Len(Values(st)) = Len(st) /\ \A i \in 1..Len(st) : Values(st)[i] = st[i].v
  BY ValuesSeq
<1>5. File!Larger(Len(Values(st)), p + Len(s)) = Len(w)
  BY <1>1, <1>2, <1>3, <1>4 DEF File!Larger, Max2
<1>6. ASSUME NEW i \in 1..Len(w)
      PROVE  w[i].v = IF i > p /\ i <= p + n THEN s[i - p] ELSE Values(st)[i]
  <2>1. CASE i > p /\ i <= p + n
    <3>1. i - p \in 1..n
      BY <1>1, <1>2, <2>1
    <3> QED  BY <1>2, <1>3, <2>1, <3>1
  <2>2. CASE ~(i > p /\ i <= p + n)
    BY <1>2, <1>4, <2>2
  <2> QED  BY <2>1, <2>2
<1>7. Values(w) = File!Put(Values(st), p, s)
  BY <1>3, <1>5, <1>6 DEF Values, File!Put
<1> QED  BY <1>w, <1>s, <1>7

\* Padding to a length the file has changes nothing.
LEMMA PadNone ==
    ASSUME NEW st \in Seq(Cell), NEW n \in 0..Len(st)
    PROVE  File!Pad(Values(st), n) = Values(st)
<1>1. Len(st) \in Nat /\ n <= Len(st) /\ n \in Nat
  BY LenProperties
<1>2. Len(Values(st)) = Len(st)
  BY ValuesSeq
<1>3. File!Larger(n, Len(Values(st))) = Len(st)
  BY <1>1, <1>2 DEF File!Larger
<1> QED  BY <1>1, <1>2, <1>3 DEF File!Pad, Values

\* The outcomes of filling a gap.
LEMMA GapEffect ==
    ASSUME IInv, NEW target \in Nat, NEW g \in Gap(target)
    PROVE  /\ Sound(g.store, g.size) /\ g.writer \in Aligned /\ g.filePos \in Nat
           /\ target <= size => g.ok /\ g.store = store /\ g.filePos = filePos /\ g.size = size
           /\ g.ok => /\ g.size = Max2(size, target)
                      /\ Values(g.store) = File!Pad(Values(store), target)
           /\ ~g.ok => /\ target > size /\ g.size = size
                       /\ \E k \in size..target : Values(g.store) = File!Pad(Values(store), k)
<1>1. /\ kind \in Kinds /\ Sound(store, size) /\ writer \in Aligned /\ filePos \in Nat
      /\ store \in Seq(Cell) /\ Len(store) \in Nat /\ size \in Nat /\ size <= Len(store)
  BY LenProperties DEF IInv, Sound
<1>2. CASE target <= size
  <2>1. g = [ok |-> TRUE, store |-> store, filePos |-> filePos, size |-> size, writer |-> writer]
    BY <1>2 DEF Gap
  <2>2. Max2(size, target) = size /\ target \in 0..Len(store)
    BY <1>1, <1>2 DEF Max2
  <2>3. Values(store) = File!Pad(Values(store), target)
    BY <1>1, <2>2, PadNone
  <2> QED  BY <1>1, <2>1, <2>2, <2>3
<1>3. CASE ~(target <= size)
  <2> DEFINE r == target - size
             w(n) == Written(store, writer, size, Zeros(r), n)
  <2>1. PICK n \in 0..r :
            g = [ok |-> n = r, store |-> w(n),
                 filePos |-> size + n, size |-> IF n = r THEN target ELSE size,
                 writer |-> After(writer, size, Encrypted(n, r))]
    <3>1. r \in 0..r
      BY <1>1, <1>3
    <3>2. \E n \in IF faults < MaxFaults THEN 0..r ELSE {r} :
              g = [ok |-> n = r, store |-> w(n),
                   filePos |-> size + n, size |-> IF n = r THEN target ELSE size,
                   writer |-> After(writer, size, Encrypted(n, r))]
      BY <1>3 DEF Gap
    <3> QED  BY <3>1, <3>2
  <2>2. r \in Nat /\ n \in Nat /\ n <= r /\ size + r = target
    BY <1>1, <1>3
  <2>3. Encrypted(n, r) \in Nat
    <3>1. Chunk * (n \div Chunk + 1) \in Nat
      BY <2>2, DataContextAssumption
    <3> QED  BY <2>2, <3>1 DEF Encrypted, Min2
  <2>4. After(writer, size, Encrypted(n, r)) \in Aligned
    BY <1>1, <2>3, AfterAligned
  <2> HIDE DEF r
  <2>5. Sound(w(n), size) /\ Sound(w(n), size + n) /\ Values(w(n)) = File!Pad(Values(store), size + n)
    BY <1>1, <2>2, ZerosSound
  <2> HIDE DEF w
  <2>6. /\ g.ok <=> n = r
        /\ g.store = w(n) /\ g.filePos = size + n /\ g.writer \in Aligned
        /\ n = r => g.size = target
        /\ n # r => g.size = size
    BY <2>1, <2>4
  <2>7. Max2(size, target) = target /\ size + n \in size..target /\ size + n \in Nat /\ target > size
    BY <1>1, <1>3, <2>2 DEF Max2
  <2>8. CASE n = r
    BY <1>3, <2>2, <2>5, <2>6, <2>7, <2>8
  <2>9. CASE n # r
    BY <1>3, <2>2, <2>5, <2>6, <2>7, <2>9
  <2> QED  BY <2>8, <2>9
<1> QED  BY <1>2, <1>3

-----------------------------------------------------------------------------
(* Reading *)

\* While the invariant holds, the content is the values of the file.
LEMMA ContentIsValues == IInv => Content = Values(store)
<1> SUFFICES ASSUME IInv PROVE Content = Values(store)
  OBVIOUS
<1>1. \A i \in 1..Len(store) : Plain(store[i], KeyOf(i - 1)) = store[i].v
  BY DEF IInv, Sound, Plain
<1> QED  BY <1>1 DEF Content, Values

\* The cells read from f on: as many as there are, at most n.
LEMMA CellsRead ==
    ASSUME IInv, NEW f \in Nat, NEW n \in Nat, NEW c, c = Cells(f, n)
    PROVE  /\ c \in Seq(Cell)
           /\ Len(c) \in 0..n
           /\ Len(c) = IF f + 1 <= Min2(f + n, Len(store)) THEN Min2(f + n, Len(store)) - f ELSE 0
           /\ \A i \in 1..Len(c) : f + i \in 1..Len(store) /\ c[i] = store[f + i]
<1>1. store \in Seq(Cell) /\ Len(store) \in Nat
  BY LenProperties DEF IInv, Sound
<1> DEFINE m == Min2(f + n, Len(store))
<1>2. m \in Nat /\ m <= Len(store) /\ m <= f + n
  BY <1>1 DEF Min2
<1> HIDE DEF m
<1>3. \A i \in (f + 1)..m : store[i] \in Cell
  BY <1>1, <1>2, ElementOfSeq
<1>4. /\ c \in Seq(Cell)
      /\ Len(c) = IF f + 1 <= m THEN m - (f + 1) + 1 ELSE 0
      /\ \A i \in 1..(m - (f + 1) + 1) : c[i] = store[f + 1 + i - 1]
  <2>1. c = SubSeq(store, f + 1, m)
    BY DEF Cells, m
  <2>2. f + 1 \in Int /\ m \in Int
    BY <1>2
  <2> QED  BY <1>3, <2>1, <2>2, SubSeqProperties
<1>5. Len(c) \in 0..n /\ Len(c) = (IF f + 1 <= m THEN m - f ELSE 0)
  BY <1>2, <1>4
<1>6. ASSUME NEW i \in 1..Len(c)
      PROVE  f + i \in 1..Len(store) /\ c[i] = store[f + i]
  <2>1. f + 1 <= m /\ Len(c) = m - f
    BY <1>2, <1>5
  <2>2. i \in 1..(m - (f + 1) + 1) /\ f + 1 + i - 1 = f + i
    BY <1>2, <2>1
  <2> QED  BY <1>1, <1>2, <1>4, <2>1, <2>2
<1> QED  BY <1>4, <1>5, <1>6 DEF m

\* Cells of position f, decrypted for position f, are the values of the file.
LEMMA DecryptedIsContent ==
    ASSUME IInv, NEW f \in Nat, NEW n \in Nat, NEW c, c = Cells(f, n)
    PROVE  Decrypted(c, f) = File!Upto(f, n)
<1>1. /\ c \in Seq(Cell) /\ Len(c) \in 0..n
      /\ Len(c) = IF f + 1 <= Min2(f + n, Len(store)) THEN Min2(f + n, Len(store)) - f ELSE 0
      /\ \A i \in 1..Len(c) : f + i \in 1..Len(store) /\ c[i] = store[f + i]
  BY CellsRead
<1>2. store \in Seq(Cell) /\ Len(store) \in Nat /\ kind \in Kinds /\ reader \in Aligned
  BY LenProperties DEF IInv, Sound
<1>3. ASSUME NEW i \in 1..Len(c)
      PROVE  Decrypted(c, f)[i] = store[f + i].v
  <2>1. c[i].k = KeyOf(f + i - 1) /\ c[i] = store[f + i]
    BY <1>1 DEF IInv, Sound
  <2>2. CASE kind # "RC4"
    BY <2>1, <2>2 DEF Decrypted, Plain
  <2>3. CASE kind = "RC4"
    <3>1. EncryptedAt(reader, f, Len(c)).start = f
      BY <1>1, <1>2, EncryptedAtOwn
    <3>2. StreamKey(f + i - 1) = KeyOf(f + i - 1)
      BY <2>3 DEF KeyOf
    <3> QED  BY <2>1, <2>3, <3>1, <3>2 DEF Decrypted, Plain
  <2> QED  BY <2>2, <2>3
<1>4. /\ Content = Values(store) /\ Len(Content) = Len(store)
      /\ \A i \in 1..Len(store) : Content[i] = store[i].v /\ Content[i] \in Nat
  BY <1>2, ContentIsValues, ValuesSeq, ElementOfSeq
<1> DEFINE m == Min2(f + n, Len(store))
<1>m. m \in Nat /\ m <= Len(store)
  BY <1>2 DEF Min2
<1>5. File!Upto(f, n) = SubSeq(Content, f + 1, m)
  BY <1>4 DEF File!Upto, Min2
<1> HIDE DEF m
<1>u. PICK u : u = SubSeq(Content, f + 1, m)
  OBVIOUS
<1>6. \A i \in (f + 1)..m : Content[i] \in Nat
  BY <1>2, <1>4, <1>m
<1>7. /\ u \in Seq(Nat)
      /\ Len(u) = IF f + 1 <= m THEN m - (f + 1) + 1 ELSE 0
      /\ \A i \in 1..(m - (f + 1) + 1) : u[i] = Content[f + 1 + i - 1]
  <2>1. f + 1 \in Int /\ m \in Int
    BY <1>m
  <2> QED  BY <1>6, <1>u, <2>1, SubSeqProperties
<1>8. Len(u) = Len(c)
  <2>1. Len(c) = IF f + 1 <= m THEN m - f ELSE 0
    BY <1>1 DEF m
  <2> QED  BY <1>m, <1>7, <2>1
<1>9. ASSUME NEW i \in 1..Len(c) PROVE u[i] = store[f + i].v
  <2>1. f + 1 <= m /\ Len(c) = m - f
    <3>1. Len(c) \in Nat /\ Len(c) # 0
      BY <1>1
    <3>2. f + 1 <= m
      BY <1>7, <1>8, <3>1
    <3>3. Len(u) = m - (f + 1) + 1
      BY <1>7, <3>2
    <3> QED  BY <1>m, <1>8, <3>2, <3>3
  <2>2. i \in 1..(m - (f + 1) + 1) /\ f + 1 + i - 1 = f + i
    BY <1>m, <2>1
  <2> QED  BY <1>1, <1>4, <1>7, <2>2
<1>10. Decrypted(c, f) = [i \in 1..Len(c) |-> store[f + i].v]
  <2>1. Decrypted(c, f) = [i \in 1..Len(c) |-> Decrypted(c, f)[i]]
    BY DEF Decrypted
  <2> QED  BY <1>3, <2>1
<1>11. u = [i \in 1..Len(c) |-> store[f + i].v]
  <2>1. u = [i \in 1..Len(u) |-> u[i]]
    BY <1>7, LenProperties
  <2> QED  BY <1>8, <1>9, <2>1
<1> QED  BY <1>5, <1>u, <1>10, <1>11

-----------------------------------------------------------------------------
(* Steps: each keeps the invariant and is a step of the plain file *)

\* Own keys stay own keys while the cipher stays.
LEMMA SoundStays ==
    ASSUME kind' = kind, Sound(store', size')
    PROVE  Sound(store, size)'
BY DEF Sound, KeyOf

\* The content of the next state.
LEMMA ContentNext == IInv' => (Content = Values(store))'
BY ContentIsValues, PTL

\* Data that lands behind a filled gap.
LEMMA PutEffect ==
    ASSUME IInv, NEW off \in Nat, NEW d \in Seq(Nat), NEW g \in Gap(off), g.ok,
           NEW n \in 0..Len(d), kind' = kind,
           store' = Written(g.store, g.writer, off, d, n),
           writer' = After(g.writer, off, Encrypted(n, Len(d))),
           size' = Max2(g.size, off + n)
    PROVE  /\ Sound(store, size)' /\ writer' \in Aligned
           /\ Values(store)' = File!Put(File!Pad(Values(store), off), off, SubSeq(d, 1, n))
           /\ size' = File!Larger(size, off + n)
<1>1. /\ Sound(g.store, g.size) /\ g.writer \in Aligned /\ g.size = Max2(size, off)
      /\ Values(g.store) = File!Pad(Values(store), off)
  BY GapEffect
<1>2. kind \in Kinds /\ size \in Nat /\ Len(store) \in Nat /\ Len(d) \in Nat /\ n \in Nat /\ n <= Len(d)
  BY LenProperties DEF IInv, Sound
<1>3. off <= g.size /\ g.size \in Nat
  BY <1>1, <1>2 DEF Max2
<1>4. Sound(store', size')
  BY <1>1, <1>2, <1>3, WrittenSound
<1>5. Encrypted(n, Len(d)) \in Nat
  <2>1. Chunk * (n \div Chunk + 1) \in Nat
    BY <1>2, DataContextAssumption
  <2> QED  BY <1>2, <2>1 DEF Encrypted, Min2
<1>6. writer' \in Aligned
  BY <1>1, <1>5, AfterAligned
<1>7. Values(store)' = File!Put(File!Pad(Values(store), off), off, SubSeq(d, 1, n))
  <2>1. g.store \in Seq(Cell) /\ Len(g.store) \in Nat /\ g.size <= Len(g.store)
    BY <1>1, LenProperties DEF Sound
  <2>2. Values(store') = File!Put(Values(g.store), off, SubSeq(d, 1, n))
    BY <1>1, <1>2, <1>3, <2>1, WrittenValues
  <2>3. Values(store)' = Values(store')
    BY DEF Values
  <2> QED  BY <1>1, <2>2, <2>3
<1>8. size' = File!Larger(size, off + n)
  BY <1>1, <1>2 DEF Max2, File!Larger
<1> QED  BY <1>4, <1>6, <1>7, <1>8, SoundStays

\* Zeros that did not all fit: the file is padded some way, the size stays.
LEMMA GapFails ==
    ASSUME IInv, NEW off \in Nat, NEW g \in Gap(off), ~g.ok, kind' = kind,
           store' = g.store, writer' = g.writer, size' = size
    PROVE  /\ Sound(store, size)' /\ writer' \in Aligned /\ off > size
           /\ \E k \in size..off : Values(store)' = File!Pad(Values(store), k)
<1>1. /\ Sound(g.store, g.size) /\ g.writer \in Aligned /\ g.size = size /\ off > size
      /\ \E k \in size..off : Values(g.store) = File!Pad(Values(store), k)
  BY GapEffect
<1>2. Values(store)' = Values(g.store)
  BY DEF Values
<1>3. Sound(store, size)'
  BY <1>1, SoundStays
<1> QED  BY <1>1, <1>2, <1>3

\* Reading: the reader stays aligned, and as many values are returned as cells read.
LEMMA ReadingEffect ==
    ASSUME IInv, NEW c \in Seq(Cell), NEW p \in Nat, Reading(c, p)
    PROVE  reader' \in Aligned /\ out' = Decrypted(c, p) /\ Len(out') = Len(c)
<1>1. Len(c) \in Nat /\ reader \in Aligned
  BY LenProperties DEF IInv
<1>2. EncryptedAt(reader, p, Len(c)).cs \in Aligned
  BY <1>1, EncryptedAtOwn
<1>3. Len(Decrypted(c, p)) = Len(c)
  <2>1. Decrypted(c, p) \in [1..Len(c) -> {Decrypted(c, p)[i] : i \in 1..Len(c)}]
    BY DEF Decrypted
  <2> QED  BY <1>1, <2>1, FunctionIsSeq
<1> QED  BY <1>1, <1>2, <1>3 DEF Reading

\* Keeping the file, its size and the cipher keeps the content.
LEMMA FileStays ==
    ASSUME IInv, UNCHANGED <<kind, store, size>>
    PROVE  Sound(store, size)' /\ Content' = Content /\ kind' \in Kinds
<1>1. Sound(store', size')
  BY DEF IInv
<1>2. Content' = Content
  BY DEF Content, KeyOf
<1> QED  BY <1>1, <1>2, SoundStays DEF IInv

LEMMA ReadStep ==
    ASSUME IInv, NEW n \in 1..MaxLen, Read(n)
    PROVE  IInv' /\ File!Read(n)
<1>1. n \in Nat /\ pos \in Nat /\ filePos \in Nat /\ writer \in Aligned
  BY DataContextAssumption DEF IInv
<1>2. UNCHANGED <<kind, store, size>> /\ writer' = writer
  BY DEF Read
<1>3. Sound(store, size)' /\ Content' = Content /\ kind' \in Kinds
  BY <1>2, FileStays
<1>4. CASE kind = "AES-XTS"
  <2>c. PICK c : c = Cells(pos, n)
    OBVIOUS
  <2>1. c \in Seq(Cell) /\ Len(c) \in 0..n
    BY <1>1, <2>c, CellsRead
  <2>2. Reading(c, pos) /\ filePos' = pos + Len(c) /\ pos' = pos + Len(c)
    BY <1>4, <2>c DEF Read, ReadXts
  <2>3. reader' \in Aligned /\ out' = Decrypted(c, pos) /\ Len(out') = Len(c)
    BY <1>1, <2>1, <2>2, ReadingEffect
  <2>4. out' = File!Upto(pos, n)
    BY <1>1, <2>c, <2>3, DecryptedIsContent
  <2>5. pos' \in Nat /\ filePos' \in Nat
    BY <1>1, <2>1, <2>2
  <2>6. IInv'
    BY <1>1, <1>2, <1>3, <2>3, <2>5 DEF IInv
  <2> QED  BY <1>2, <1>3, <1>4, <2>2, <2>3, <2>4, <2>6 DEF File!Read, File!Unsettles
<1>5. CASE kind # "AES-XTS"
  <2>c. PICK c : c = Cells(filePos, n)
    OBVIOUS
  <2>1. c \in Seq(Cell) /\ Len(c) \in 0..n
    BY <1>1, <2>c, CellsRead
  <2>2. Reading(c, pos) /\ filePos' = filePos + Len(c) /\ pos' = pos + Len(c)
    BY <1>5, <2>c DEF Read, ReadStream
  <2>3. reader' \in Aligned /\ out' = Decrypted(c, pos) /\ Len(out') = Len(c)
    BY <1>1, <2>1, <2>2, ReadingEffect
  <2>5. pos' \in Nat /\ filePos' \in Nat
    BY <1>1, <2>1, <2>2
  <2>6. IInv'
    BY <1>1, <1>2, <1>3, <2>3, <2>5 DEF IInv
  <2>7. CASE filePos = pos
    <3>1. out' = File!Upto(pos, n)
      BY <1>1, <2>c, <2>3, <2>7, DecryptedIsContent
    <3>2. filePos' = pos'
      BY <2>2, <2>7
    <3> QED  BY <1>2, <1>3, <2>2, <2>3, <2>6, <2>7, <3>1, <3>2 DEF File!Read, File!Unsettles
  <2>8. CASE filePos # pos
    <3>1. Len(out') <= n
      BY <1>1, <2>1, <2>3
    <3> QED  BY <1>2, <1>3, <1>5, <2>2, <2>3, <2>6, <2>8, <3>1 DEF File!Read, File!Unsettles
  <2> QED  BY <2>7, <2>8
<1> QED  BY <1>4, <1>5

LEMMA ReadAtStep ==
    ASSUME IInv, NEW off \in 0..MaxLen, NEW n \in 1..MaxLen, ReadAt(off, n)
    PROVE  IInv' /\ File!ReadAt(off, n)
<1>1. n \in Nat /\ off \in Nat /\ pos \in Nat /\ filePos \in Nat /\ writer \in Aligned
  BY DataContextAssumption DEF IInv
<1>2. UNCHANGED <<kind, store, size>> /\ writer' = writer /\ pos' = pos /\ filePos' = filePos
  BY DEF ReadAt
<1>3. Sound(store, size)' /\ Content' = Content /\ kind' \in Kinds
  BY <1>2, FileStays
<1>c. PICK c : c = Cells(off, n)
  OBVIOUS
<1>4. c \in Seq(Cell)
  BY <1>1, <1>c, CellsRead
<1>5. reader' \in Aligned /\ out' = Decrypted(c, off)
  BY <1>1, <1>c, <1>4, ReadingEffect DEF ReadAt
<1>6. out' = File!Upto(off, n)
  BY <1>1, <1>c, <1>5, DecryptedIsContent
<1>7. IInv'
  BY <1>1, <1>2, <1>3, <1>5 DEF IInv
<1> QED  BY <1>2, <1>3, <1>6, <1>7 DEF File!ReadAt

LEMMA SeekStep ==
    ASSUME IInv, NEW p \in Nat, Seek(p)
    PROVE  IInv' /\ File!SeekTo(p) /\ (p = size => File!SeekEnd)
<1>1. /\ UNCHANGED <<kind, store, size>> /\ UNCHANGED <<reader, writer>>
      /\ filePos' = p /\ pos' = p /\ out' = <<p>>
  BY DEF Seek
<1>2. Sound(store, size)' /\ Content' = Content /\ kind' \in Kinds
  BY <1>1, FileStays
<1>3. IInv'
  BY <1>1, <1>2 DEF IInv
<1> QED  BY <1>1, <1>2, <1>3 DEF File!SeekTo, File!SeekEnd

LEMMA ReopenStep ==
    ASSUME IInv, Reopen
    PROVE  IInv' /\ File!Reopen
<1>1. /\ kind' = kind /\ store' = store /\ size' = Len(store) /\ filePos' = 0 /\ pos' = 0 /\ out' = <<>>
      /\ reader' = Cipher(0) /\ writer' = Cipher(0)
  BY DEF Reopen, Opened
<1>2. store \in Seq(Cell) /\ Len(store) \in Nat
  BY LenProperties DEF IInv, Sound
<1>3. Sound(store', size')
  BY <1>1, <1>2 DEF IInv, Sound
<1>4. Cipher(0) \in Aligned
  BY DEF Cipher, Aligned
<1>5. IInv'
  BY <1>1, <1>3, <1>4, SoundStays DEF IInv
<1>6. Content' = Content /\ Len(Content) = Len(store)
  BY <1>1, <1>2, ContentIsValues, ValuesSeq DEF Content, KeyOf
<1> QED  BY <1>1, <1>5, <1>6 DEF File!Reopen

LEMMA WriteStep ==
    ASSUME IInv, NEW d \in Data, Write(d)
    PROVE  IInv' /\ File!Write(d)
<1>1. d \in Seq(Nat) /\ Len(d) \in Nat /\ kind \in Kinds /\ pos \in Nat /\ reader \in Aligned
  BY DataContextAssumption, LenProperties DEF IInv
<1>2. kind' = kind /\ reader' = reader
  BY DEF Write
<1>3. PICK g \in Gap(pos) :
          \/ /\ ~g.ok
             /\ store' = g.store /\ filePos' = g.filePos /\ writer' = g.writer
             /\ out' = <<0>> /\ UNCHANGED <<pos, size>>
          \/ /\ g.ok
             /\ \E n \in Done(d) :
                   /\ store' = Written(g.store, g.writer, pos, d, n)
                   /\ writer' = After(g.writer, pos, Encrypted(n, Len(d)))
                   /\ filePos' = pos + n /\ pos' = pos + n
                   /\ size' = Max2(g.size, pos + n)
                   /\ out' = <<n>>
  BY DEF Write
<1>4. CASE ~g.ok
  <2>1. /\ store' = g.store /\ filePos' = g.filePos /\ writer' = g.writer
        /\ out' = <<0>> /\ pos' = pos /\ size' = size
    BY <1>3, <1>4
  <2>2. Sound(store, size)' /\ writer' \in Aligned
    BY <1>1, <1>2, <1>4, <2>1, GapFails
  <2>3. PICK k \in size..pos : Values(store)' = File!Pad(Values(store), k)
    BY <1>1, <1>2, <1>4, <2>1, GapFails
  <2>4. filePos' \in Nat
    BY <1>1, <2>1, GapEffect
  <2>5. IInv'
    BY <1>1, <1>2, <2>1, <2>2, <2>4 DEF IInv
  <2>6. Content' = File!Pad(Content, k)
    BY <2>3, <2>5, ContentIsValues, ContentNext
  <2>7. File!PutAt(pos, d)
    BY <2>1, <2>6 DEF File!PutAt
  <2>8. pos' = pos + out'[1]
    BY <1>1, <2>1
  <2> QED  BY <2>1, <2>5, <2>7, <2>8 DEF File!Write, File!Unsettles
<1>5. CASE g.ok
  <2>1. PICK n \in Done(d) :
            /\ store' = Written(g.store, g.writer, pos, d, n)
            /\ writer' = After(g.writer, pos, Encrypted(n, Len(d)))
            /\ filePos' = pos + n /\ pos' = pos + n
            /\ size' = Max2(g.size, pos + n)
            /\ out' = <<n>>
    BY <1>3, <1>5
  <2>2. n \in 0..Len(d) /\ n \in Nat
    BY <1>1 DEF Done
  <2>3. /\ Sound(store, size)' /\ writer' \in Aligned
        /\ Values(store)' = File!Put(File!Pad(Values(store), pos), pos, SubSeq(d, 1, n))
        /\ size' = File!Larger(size, pos + n)
    BY <1>1, <1>2, <1>5, <2>1, <2>2, PutEffect
  <2>4. IInv'
    BY <1>1, <1>2, <2>1, <2>2, <2>3 DEF IInv
  <2>5. Content' = File!Put(File!Pad(Content, pos), pos, SubSeq(d, 1, n))
    BY <2>3, <2>4, ContentIsValues, ContentNext
  <2>6. File!PutAt(pos, d)
    BY <2>1, <2>2, <2>3, <2>5 DEF File!PutAt
  <2> QED  BY <2>1, <2>4, <2>6 DEF File!Write
<1> QED  BY <1>4, <1>5

LEMMA WriteAtStep ==
    ASSUME IInv, NEW off \in 0..MaxLen, NEW d \in Data, WriteAt(off, d)
    PROVE  IInv' /\ File!WriteAt(off, d)
<1>1. /\ d \in Seq(Nat) /\ Len(d) \in Nat /\ kind \in Kinds /\ pos \in Nat /\ reader \in Aligned
      /\ off \in Nat /\ size \in Nat
  BY DataContextAssumption, LenProperties DEF IInv, Sound
<1>2. kind' = kind /\ reader' = reader /\ pos' = pos
  BY DEF WriteAt
<1>3. PICK g \in Gap(off) :
          /\ filePos' = g.filePos
          /\ \/ /\ ~g.ok
                /\ store' = g.store /\ writer' = g.writer
                /\ out' = <<0>> /\ UNCHANGED size
             \/ /\ g.ok
                /\ \E n \in Done(d) :
                      /\ store' = Written(g.store, g.writer, off, d, n)
                      /\ writer' = After(g.writer, off, Encrypted(n, Len(d)))
                      /\ size' = Max2(g.size, off + n)
                      /\ out' = <<n>>
  BY DEF WriteAt
<1>4. filePos' \in Nat /\ (off <= size => filePos' = filePos)
  BY <1>1, <1>3, GapEffect
<1>5. File!Unsettles(off > size)
  <2>1. CASE off > size
    BY <2>1 DEF File!Unsettles
  <2>2. CASE ~(off > size)
    <3>1. filePos' = filePos
      BY <1>1, <1>4, <2>2
    <3> QED  BY <1>2, <2>2, <3>1 DEF File!Unsettles
  <2> QED  BY <2>1, <2>2
<1>6. CASE ~g.ok
  <2>1. store' = g.store /\ writer' = g.writer /\ out' = <<0>> /\ size' = size
    BY <1>3, <1>6
  <2>2. Sound(store, size)' /\ writer' \in Aligned
    BY <1>1, <1>2, <1>6, <2>1, GapFails
  <2>3. PICK k \in size..off : Values(store)' = File!Pad(Values(store), k)
    BY <1>1, <1>2, <1>6, <2>1, GapFails
  <2>4. IInv'
    BY <1>1, <1>2, <1>4, <2>1, <2>2 DEF IInv
  <2>5. Content' = File!Pad(Content, k)
    BY <2>3, <2>4, ContentIsValues, ContentNext
  <2>6. File!PutAt(off, d)
    BY <2>1, <2>5 DEF File!PutAt
  <2> QED  BY <1>2, <1>5, <2>4, <2>6 DEF File!WriteAt
<1>7. CASE g.ok
  <2>1. PICK n \in Done(d) :
            /\ store' = Written(g.store, g.writer, off, d, n)
            /\ writer' = After(g.writer, off, Encrypted(n, Len(d)))
            /\ size' = Max2(g.size, off + n)
            /\ out' = <<n>>
    BY <1>3, <1>7
  <2>2. n \in 0..Len(d)
    BY <1>1 DEF Done
  <2>3. /\ Sound(store, size)' /\ writer' \in Aligned
        /\ Values(store)' = File!Put(File!Pad(Values(store), off), off, SubSeq(d, 1, n))
        /\ size' = File!Larger(size, off + n)
    BY <1>1, <1>2, <1>7, <2>1, <2>2, PutEffect
  <2>4. IInv'
    BY <1>1, <1>2, <1>4, <2>3 DEF IInv
  <2>5. Content' = File!Put(File!Pad(Content, off), off, SubSeq(d, 1, n))
    BY <2>3, <2>4, ContentIsValues, ContentNext
  <2>6. File!PutAt(off, d)
    BY <2>1, <2>2, <2>3, <2>5 DEF File!PutAt
  <2> QED  BY <1>2, <1>5, <2>4, <2>6 DEF File!WriteAt
<1> QED  BY <1>6, <1>7

\* Cutting a file.
LEMMA CutEffect ==
    ASSUME IInv, NEW n \in Nat, n < size
    PROVE  /\ Sound(SubSeq(store, 1, n), n)
           /\ Values(SubSeq(store, 1, n)) = SubSeq(Values(store), 1, n)
<1>1. store \in Seq(Cell) /\ Len(store) \in Nat /\ size \in Nat /\ size <= Len(store)
  BY LenProperties DEF IInv, Sound
<1>s. PICK s : s = SubSeq(store, 1, n)
  OBVIOUS
<1>t. PICK t : t = SubSeq(Values(store), 1, n)
  OBVIOUS
<1>2. s \in Seq(Cell) /\ Len(s) = n /\ \A i \in 1..n : s[i] = store[i] /\ i \in 1..Len(store)
  <2>1. \A i \in 1..n : store[i] \in Cell
    BY <1>1, ElementOfSeq
  <2>2. /\ s \in Seq(Cell) /\ Len(s) = (IF 1 <= n THEN n - 1 + 1 ELSE 0)
        /\ \A i \in 1..(n - 1 + 1) : s[i] = store[1 + i - 1]
    BY <1>1, <1>s, <2>1, SubSeqProperties
  <2> QED  BY <1>1, <2>2
<1>3. t \in Seq(Nat) /\ Len(t) = n /\ \A i \in 1..n : t[i] = store[i].v
  <2>1. \A i \in 1..n : Values(store)[i] \in Nat /\ Values(store)[i] = store[i].v
    <3>1. \A i \in 1..n : i \in 1..Len(store) /\ store[i] \in Cell
      BY <1>1, ElementOfSeq
    <3> QED  BY <1>1, <3>1, ValuesSeq DEF Cell
  <2>2. /\ t \in Seq(Nat) /\ Len(t) = (IF 1 <= n THEN n - 1 + 1 ELSE 0)
        /\ \A i \in 1..(n - 1 + 1) : t[i] = Values(store)[1 + i - 1]
    BY <1>1, <1>t, <2>1, SubSeqProperties
  <2> QED  BY <1>1, <2>1, <2>2
<1>4. Sound(s, n)
  BY <1>2 DEF IInv, Sound
<1>5. Values(s) = t
  <2>1. t = [i \in 1..n |-> t[i]]
    BY <1>3, LenProperties
  <2> QED  BY <1>2, <1>3, <2>1 DEF Values
<1> QED  BY <1>s, <1>t, <1>4, <1>5

LEMMA TruncateStep ==
    ASSUME IInv, NEW n \in 0..MaxLen, Truncate(n)
    PROVE  IInv' /\ File!Truncate(n)
<1>1. /\ kind \in Kinds /\ pos \in Nat /\ filePos \in Nat /\ reader \in Aligned /\ n \in Nat /\ size \in Nat
      /\ store \in Seq(Cell) /\ Len(store) \in Nat /\ size <= Len(store)
  BY DataContextAssumption, LenProperties DEF IInv, Sound
<1>2. kind' = kind /\ reader' = reader /\ out' = <<>>
  BY DEF Truncate
<1>3. PICK g \in Gap(n) :
          /\ filePos' = g.filePos /\ writer' = g.writer
          /\ store' = IF n < size THEN SubSeq(store, 1, n) ELSE g.store
          /\ size' = IF g.ok THEN n ELSE size
          /\ pos' = IF g.ok /\ pos > n THEN n ELSE pos
  BY DEF Truncate
<1>4. filePos' \in Nat /\ writer' \in Aligned /\ (n <= size => g.ok /\ filePos' = filePos)
  BY <1>1, <1>3, GapEffect
<1>5. pos' \in Nat
  BY <1>1, <1>3
<1>6. File!Unsettles(n # size \/ pos > n)
  <2>1. CASE n # size \/ pos > n
    BY <2>1 DEF File!Unsettles
  <2>2. CASE ~(n # size \/ pos > n)
    <3>1. filePos' = filePos /\ pos' = pos
      BY <1>1, <1>3, <1>4, <2>2
    <3> QED  BY <1>2, <2>2, <3>1 DEF File!Unsettles
  <2> QED  BY <2>1, <2>2
<1>7. CASE ~g.ok
  <2>1. store' = g.store /\ size' = size /\ pos' = pos
    BY <1>1, <1>3, <1>4, <1>7
  <2>2. Sound(store, size)'
    BY <1>1, <1>2, <1>3, <1>7, <2>1, GapFails
  <2>3. PICK k \in size..n : Values(store)' = File!Pad(Values(store), k)
    BY <1>1, <1>2, <1>3, <1>7, <2>1, GapFails
  <2>4. IInv'
    BY <1>1, <1>2, <1>4, <1>5, <2>2 DEF IInv
  <2>5. Content' = File!Pad(Content, k)
    BY <2>3, <2>4, ContentIsValues, ContentNext
  <2> QED  BY <1>2, <1>6, <2>1, <2>4, <2>5 DEF File!Truncate
<1>8. CASE g.ok /\ n < size
  <2>1. store' = SubSeq(store, 1, n) /\ size' = n /\ pos' = IF pos > n THEN n ELSE pos
    BY <1>3, <1>8
  <2>2. Sound(store, size)'
    BY <1>1, <1>2, <1>8, <2>1, CutEffect, SoundStays
  <2>3. Values(store)' = SubSeq(Values(store), 1, n)
    <3>1. Values(store)' = Values(store')
      BY DEF Values
    <3> QED  BY <1>1, <1>8, <2>1, <3>1, CutEffect
  <2>4. IInv'
    BY <1>1, <1>2, <1>4, <1>5, <2>2 DEF IInv
  <2>5. Content' = SubSeq(Content, 1, n)
    BY <2>3, <2>4, ContentIsValues, ContentNext
  <2> QED  BY <1>2, <1>6, <1>8, <2>1, <2>4, <2>5 DEF File!Truncate
<1>9. CASE g.ok /\ ~(n < size)
  <2>1. store' = g.store /\ size' = n /\ pos' = IF pos > n THEN n ELSE pos
    BY <1>3, <1>9
  <2>2. Sound(g.store, g.size) /\ g.size = n /\ Values(g.store) = File!Pad(Values(store), n)
    <3>1. Max2(size, n) = n
      BY <1>1, <1>9 DEF Max2
    <3> QED  BY <1>1, <1>9, <3>1, GapEffect
  <2>3. Sound(store, size)'
    BY <1>2, <2>1, <2>2, SoundStays
  <2>4. Values(store)' = File!Pad(Values(store), n)
    BY <2>1, <2>2 DEF Values
  <2>5. IInv'
    BY <1>1, <1>2, <1>4, <1>5, <2>3 DEF IInv
  <2>6. Content' = File!Pad(Content, n)
    BY <2>4, <2>5, ContentIsValues, ContentNext
  <2> QED  BY <1>2, <1>6, <1>9, <2>1, <2>5, <2>6 DEF File!Truncate
<1> QED  BY <1>7, <1>8, <1>9

-----------------------------------------------------------------------------
(* The theorems *)

LEMMA InitInvariant == Init => IInv /\ File!Init
<1> SUFFICES ASSUME Init PROVE IInv /\ File!Init
  OBVIOUS
<1>1. store = <<>> /\ <<>> \in Seq(Cell) /\ Len(<<>>) = 0
  BY EmptySeq DEF Init
<1>2. Cipher(0) \in Aligned
  BY DEF Cipher, Aligned
<1>3. Sound(store, size)
  BY <1>1 DEF Sound, Init
<1>4. IInv
  BY <1>2, <1>3 DEF Init, IInv
<1>5. Content = <<>>
  <2>1. Content = Values(store)
    BY <1>4, ContentIsValues
  <2>2. Values(store) \in Seq(Nat) /\ Len(Values(store)) = 0
    BY <1>1, ValuesSeq
  <2> QED  BY <2>1, <2>2, EmptySeq
<1> QED  BY <1>4, <1>5 DEF Init, File!Init

LEMMA NextStep ==
    ASSUME IInv, Next
    PROVE  IInv' /\ File!Next
<1>1. AtPosition \/ AtOffset
  BY DEF Next, AesCtrStream, AesCtrRandom, ChaCha20Stream, ChaCha20Random,
         Rc4Stream, Rc4Random, AesXtsStream, AesXtsRandom
<1>2. CASE AtPosition
  <2>1. ASSUME NEW n \in 1..MaxLen, Read(n) PROVE IInv' /\ File!Next
    BY <2>1, ReadStep DEF File!Next
  <2>2. ASSUME NEW d \in Data, Write(d) PROVE IInv' /\ File!Next
    BY <2>2, WriteStep DEF File!Next
  <2>3. ASSUME NEW p \in 0..MaxLen, Seek(p) PROVE IInv' /\ File!Next
    <3>1. p \in Nat
      BY DataContextAssumption
    <3> QED  BY <2>3, <3>1, SeekStep DEF File!Next
  <2>4. ASSUME NEW p \in 0..MaxLen, Truncate(p) PROVE IInv' /\ File!Next
    BY <2>4, TruncateStep DEF File!Next
  <2>5. CASE Seek(size)
    <3>1. size \in Nat
      BY LenProperties DEF IInv, Sound
    <3> QED  BY <2>5, <3>1, SeekStep DEF File!Next
  <2>6. CASE Reopen
    BY <2>6, ReopenStep DEF File!Next
  <2> QED  BY <1>2, <2>1, <2>2, <2>3, <2>4, <2>5, <2>6 DEF AtPosition
<1>3. CASE AtOffset
  <2>1. ASSUME NEW off \in 0..MaxLen, NEW n \in 1..MaxLen, ReadAt(off, n) PROVE IInv' /\ File!Next
    BY <2>1, ReadAtStep DEF File!Next
  <2>2. ASSUME NEW d \in Data, NEW off \in 0..MaxLen, WriteAt(off, d) PROVE IInv' /\ File!Next
    BY <2>2, WriteAtStep DEF File!Next
  <2> QED  BY <1>3, <2>1, <2>2 DEF AtOffset
<1> QED  BY <1>1, <1>2, <1>3

LEMMA StutterStep ==
    ASSUME IInv, UNCHANGED vars
    PROVE  IInv' /\ UNCHANGED File!vars
<1>1. UNCHANGED <<kind, store, size>> /\ UNCHANGED <<filePos, pos, reader, writer, out>>
  BY DEF vars
<1>2. Sound(store, size)' /\ Content' = Content /\ kind' \in Kinds
  BY <1>1, FileStays
<1> QED  BY <1>1, <1>2 DEF IInv, File!vars

\* The inductive invariant holds: cells under their own keys, zeros behind the
\* size, both cached RC4 ciphers where they claim to be.
LEMMA DataContextInvariant == Spec => []IInv
<1>1. Init => IInv
  BY InitInvariant
<1>2. IInv /\ [Next]_vars => IInv'
  BY NextStep, StutterStep
<1> QED  BY <1>1, <1>2, PTL DEF Spec

\* Whatever the order of writes, gaps, cuts and failures (Written, fillGap,
\* truncate) and however the RC4 context reuses its ciphers (CipherState), every
\* cell on disk is hidden with the keystream of its own position.
THEOREM OwnKeys == Spec => []StoredUnderOwnKey
<1>1. IInv => StoredUnderOwnKey
  BY DEF IInv, Sound, StoredUnderOwnKey
<1> QED  BY <1>1, DataContextInvariant, PTL

\* The context of every cipher (Read, ReadAt, Write, WriteAt, Seek, Truncate and
\* a new context on the same file) is a plain file of the decrypted content.
THEOREM PlainFileImplemented == Spec => ActsAsPlainFile
<1>1. Init => File!Init
  BY InitInvariant
<1>2. IInv /\ [Next]_vars => [File!Next]_(File!vars)
  BY NextStep, StutterStep
<1> QED  BY <1>1, <1>2, DataContextInvariant, PTL DEF Spec, ActsAsPlainFile, File!Spec

(***************************************************************************)
(* The replacement of a file, for any operations, contents and bounds.     *)
(***************************************************************************)

(* The parts of the type invariant that the call and the bounds make up. *)
CallOK == call \in Calls /\ result \in Results /\ spent \in [Events -> Nat]

\* What a step leaves alone, and what the files must still be.
FilesOK ==
    /\ dest \in Contents /\ temp \in Contents \cup {Torn} /\ backup \in Contents
    /\ kept \in Contents

(* A running call has an operation and a request. *)
LEMMA CallFields ==
    ASSUME call \in Calls, ~At("idle")
    PROVE  /\ call \in [pc: Pcs, op: Ops, request: Markers]
           /\ call.op \in Ops /\ call.request \in Markers /\ call.request.src \in Payloads
BY DEF Calls, Idle, At, Markers

(* The idle call is a call, and at none of the steps. *)
LEMMA IdleCall == Idle \in Calls /\ Idle.pc = "idle" /\ "idle" \notin Pcs
BY DEF Calls, Idle, Pcs

(* Going on changes the place in the call, and nothing else of it. *)
LEMMA GotoCall ==
    ASSUME call \in Calls, ~At("idle"), NEW l \in Pcs, Goto(l)
    PROVE  /\ call' \in Calls /\ call'.pc = l /\ call'.op = call.op
           /\ call'.request = call.request /\ result' = result
<1>1. call \in [pc: Pcs, op: Ops, request: Markers]
  BY CallFields
<1> QED
  BY <1>1 DEF Goto, Calls

(* Returning leaves the idle call. *)
LEMMA ReturnCall ==
    ASSUME NEW r \in Results, Return(r)
    PROVE  call' \in Calls /\ call' = Idle /\ call'.pc = "idle" /\ result' \in Results
BY IdleCall DEF Return

(* Spending keeps the counters natural, and those of other events unchanged. *)
LEMMA SpendType ==
    ASSUME spent \in [Events -> Nat], NEW e \in Events, Spend(e)
    PROVE  /\ spent' \in [Events -> Nat]
           /\ spent'[e] = spent[e] + 1
           /\ \A u \in Events : u # e => spent'[u] = spent[u]
BY DEF Spend

-----------------------------------------------------------------------------
(* The inductive invariant *)

Inv == TypeOK /\ CallInv /\ OldOrNew

(* The invariant is established in every initial state. *)
LEMMA InitInv == ReplaceInit => Inv
<1> SUFFICES ASSUME ReplaceInit PROVE Inv
  OBVIOUS
<1>1. TypeOK
  BY IdleCall DEF ReplaceInit, TypeOK, Contents, Markers, Results
<1>2. CallInv /\ OldOrNew
  BY IdleCall DEF ReplaceInit, CallInv, CallIsMarked, TempIsWhole, CommitIsClean, OldOrNew, At, Pcs
<1> QED
  BY <1>1, <1>2 DEF Inv

(* A step that ends the call: only the types and the destination matter. *)
LEMMA EndsCall ==
    ASSUME NEW r \in Results, Return(r), UNCHANGED direction,
           direction \in Directions, FilesOK', OldOrNew', spent' \in [Events -> Nat],
           marker' \in [Ops -> Markers \cup {NoMarker}]
    PROVE  Inv'
<1>1. call' \in Calls /\ call'.pc = "idle" /\ result' \in Results
  BY ReturnCall
<1>2. TypeOK'
  BY <1>1 DEF TypeOK, FilesOK
<1>3. CallInv'
  BY <1>1, IdleCall DEF CallInv, CallIsMarked, TempIsWhole, CommitIsClean, At
<1> QED
  BY <1>2, <1>3 DEF Inv

(* A step that goes on with the call. *)
LEMMA GoesOn ==
    ASSUME TypeOK, ~At("idle"), NEW l \in Pcs, Goto(l), UNCHANGED <<direction, spent>>, FilesOK',
           OldOrNew', marker' \in [Ops -> Markers \cup {NoMarker}],
           l \notin {"begin", "mark"} => marker'[call.op] # NoMarker,
           l \in {"move_old", "install"} => temp' = call.request.src,
           l = "install" /\ spent["write"] = 0 => dest' = Gone,
           l = "drop_backup" => temp' = Gone /\ dest' = kept',
           l = "unmark" => temp' = Gone /\ backup' = Gone
    PROVE  Inv'
<1>1. /\ call' \in Calls /\ call'.pc = l /\ call'.op = call.op
      /\ call'.request = call.request /\ result' = result
  BY GotoCall DEF TypeOK
<1>2. TypeOK'
  BY <1>1 DEF TypeOK, FilesOK
<1>3. CallInv'
  BY <1>1 DEF CallInv, CallIsMarked, TempIsWhole, CommitIsClean, At
<1> QED
  BY <1>2, <1>3 DEF Inv

-----------------------------------------------------------------------------
(* One lemma per action *)

(* The facts about a running call that its steps use. *)
LEMMA Running ==
    ASSUME Inv, ~At("idle")
    PROVE  /\ TypeOK /\ CallInv /\ OldOrNew /\ FilesOK /\ call \in Calls /\ direction \in Directions
           /\ call.op \in Ops /\ call.request.src \in Payloads /\ call.request \in Markers
           /\ marker \in [Ops -> Markers \cup {NoMarker}] /\ spent \in [Events -> Nat]
           /\ \A c \in {"write", "fault", "crash", "clean", "start"} : c \in Events
BY CallFields DEF Inv, TypeOK, FilesOK, Events

(* A request, new or run again, starts a call with everything else as it was. *)
LEMMA BeginsCall ==
    ASSUME Inv, NEW o \in Ops, NEW m \in Markers,
           call' = [pc |-> "begin", op |-> o, request |-> m],
           UNCHANGED <<direction, files, result, kept>>,
           spent' \in [Events -> Nat],
           marker' \in [Ops -> Markers \cup {NoMarker}]
    PROVE  Inv'
<1>1. call' \in Calls /\ call'.pc = "begin"
  BY DEF Calls, Pcs
<1>2. TypeOK'
  BY <1>1 DEF Inv, TypeOK, files
<1>3. CallInv' /\ OldOrNew'
  BY <1>1 DEF Inv, CallInv, CallIsMarked, TempIsWhole, CommitIsClean, OldOrNew, At, files
<1> QED
  BY <1>2, <1>3 DEF Inv

(* Start keeps the invariant. *)
LEMMA StartInv == ASSUME Inv, NEW v \in Payloads, NEW overwrite \in BOOLEAN, Start(v, overwrite)
                  PROVE  Inv'
<1> DEFINE m == [overwrite |-> direction = "import" /\ overwrite, existed |-> TRUE, src |-> v]
<1>1. m \in Markers
  BY DEF Markers
<1>2. spent' \in [Events -> Nat] /\ marker' \in [Ops -> Markers \cup {NoMarker}]
  BY SpendType DEF Start, Inv, TypeOK, Events
<1>3. PICK o \in Ops : call' = [pc |-> "begin", op |-> o, request |-> m]
  BY DEF Start, Begin
<1> HIDE DEF m
<1> QED
  BY <1>1, <1>2, <1>3, BeginsCall DEF Start

(* Rerun keeps the invariant. *)
LEMMA RerunInv == ASSUME Inv, NEW o \in Ops, NEW p \in Policies, Rerun(o, p)
                  PROVE  Inv'
<1> DEFINE overwrite == direction = "import" /\ RerunOverwrites(marker[o], p)
           m == [marker[o] EXCEPT !.overwrite = overwrite]
<1>1. marker[o] \in Markers /\ marker \in [Ops -> Markers \cup {NoMarker}]
  BY DEF Rerun, Inv, TypeOK
<1>2. m \in Markers
  BY <1>1 DEF Markers
<1>3. spent' \in [Events -> Nat] /\ marker' \in [Ops -> Markers \cup {NoMarker}]
  BY <1>1 DEF Rerun, Inv, TypeOK
<1>4. call' = [pc |-> "begin", op |-> o, request |-> m]
  BY DEF Rerun
<1> HIDE DEF m
<1> QED
  BY <1>2, <1>3, <1>4, BeginsCall DEF Rerun

(* LookAtDest keeps the invariant. *)
LEMMA LookAtDestInv == ASSUME Inv, LookAtDest PROVE Inv'
<1> DEFINE existed == (direction = "import" => dest # Gone)
<1>1. call \in [pc: Pcs, op: Ops, request: Markers]
  BY CallFields DEF Inv, TypeOK, LookAtDest, At
<1>2. call' \in Calls /\ call'.pc = "mark"
  BY <1>1 DEF LookAtDest, Calls, Pcs, Markers
<1>3. TypeOK'
  BY <1>2 DEF Inv, TypeOK, LookAtDest, files
<1>4. CallInv' /\ OldOrNew'
  BY <1>2 DEF Inv, CallInv, CallIsMarked, TempIsWhole, CommitIsClean, OldOrNew, At, files,
              LookAtDest
<1> QED
  BY <1>3, <1>4 DEF Inv

(* WriteMarker keeps the invariant: from now on the call is recorded. *)
LEMMA WriteMarkerInv == ASSUME Inv, WriteMarker PROVE Inv'
<1> DEFINE written == [marker EXCEPT ![call.op] = call.request]
<1>0. ~At("idle")
  BY DEF WriteMarker, At
<1> USE <1>0, Running
<1>1. FilesOK' /\ OldOrNew' /\ UNCHANGED direction
  BY DEF WriteMarker, FilesOK, OldOrNew, files
<1>2. written \in [Ops -> Markers \cup {NoMarker}] /\ written[call.op] # NoMarker
  BY ReplaceAssumption DEF Markers
<1> HIDE DEF written
<1>3. CASE marker' = written /\ Goto("open") /\ UNCHANGED spent
  BY <1>1, <1>2, <1>3, GoesOn DEF Pcs
<1>4. CASE marker' \in {marker, written} /\ Return("error") /\ Spend("fault")
  BY <1>1, <1>2, <1>4, EndsCall, SpendType DEF Results
<1> QED
  BY <1>3, <1>4 DEF WriteMarker, written

(* OpenTemp keeps the invariant. *)
LEMMA OpenTempInv == ASSUME Inv, OpenTemp PROVE Inv'
<1>0. ~At("idle") /\ call.pc = "open"
  BY DEF OpenTemp, At
<1> USE <1>0, Running
<1>1. OldOrNew' /\ UNCHANGED <<direction, marker>> /\ marker[call.op] # NoMarker
  BY DEF OpenTemp, OldOrNew, CallInv, CallIsMarked, Pcs
<1>2. FilesOK'
  BY DEF OpenTemp, FilesOK, Contents
<1>3. CASE Goto("copy") /\ UNCHANGED spent
  BY <1>1, <1>2, <1>3, GoesOn DEF Pcs
<1>4. CASE (Return("exists") \/ Return("refused")) /\ UNCHANGED spent
  BY <1>1, <1>2, <1>4, EndsCall DEF Results
<1>5. CASE Return("error") /\ Spend("fault")
  BY <1>1, <1>2, <1>5, EndsCall, SpendType DEF Results
<1> QED
  BY <1>3, <1>4, <1>5 DEF OpenTemp

(* Copy keeps the invariant: a call goes on with the whole source only. *)
LEMMA CopyInv == ASSUME Inv, Copy PROVE Inv'
<1>0. ~At("idle") /\ call.pc = "copy"
  BY DEF Copy, At
<1> USE <1>0, Running
<1>1. OldOrNew' /\ UNCHANGED <<direction, marker>> /\ marker[call.op] # NoMarker
  BY DEF Copy, OldOrNew, CallInv, CallIsMarked, Pcs
<1>2. FilesOK'
  BY DEF Copy, FilesOK, Contents
<1>3. CASE temp' = call.request.src /\ Goto("move_old") /\ UNCHANGED spent
  BY <1>1, <1>2, <1>3, GoesOn DEF Pcs
<1>4. CASE Return("error") /\ Spend("fault")
  BY <1>1, <1>2, <1>4, EndsCall, SpendType DEF Results
<1> QED
  BY <1>3, <1>4 DEF Copy

(* MoveOld keeps the invariant: what leaves the destination is in the backup. *)
LEMMA MoveOldInv == ASSUME Inv, MoveOld PROVE Inv'
<1>0. ~At("idle") /\ call.pc = "move_old"
  BY DEF MoveOld, At
<1> USE <1>0, Running
<1>1. /\ UNCHANGED <<direction, marker, kept>> /\ marker[call.op] # NoMarker
      /\ temp = call.request.src
  BY DEF MoveOld, CallInv, CallIsMarked, TempIsWhole, Pcs, At
<1>2. FilesOK' /\ OldOrNew'
  BY <1>1 DEF MoveOld, FilesOK, OldOrNew, Contents, files
<1>3. CASE /\ dest' = Gone /\ temp' = temp /\ Goto("install") /\ UNCHANGED spent
  BY <1>1, <1>2, <1>3, GoesOn DEF Pcs
<1>4. CASE Return("refused") /\ UNCHANGED spent
  BY <1>1, <1>2, <1>4, EndsCall DEF Results
<1>5. CASE Return("error") /\ Spend("fault")
  BY <1>1, <1>2, <1>5, EndsCall, SpendType DEF Results
<1> QED
  BY <1>3, <1>4, <1>5 DEF MoveOld, files

(* Putting the backup back, over d or not, keeps the last content. *)
LEMMA PutBackFiles ==
    ASSUME FilesOK, OldOrNew, NEW d \in {dest, temp}, d \in Contents, temp # Gone \/ d = dest,
           temp' \in {temp, Gone}, PutBack(d)
    PROVE  FilesOK' /\ OldOrNew'
BY DEF FilesOK, OldOrNew, PutBack, Contents

(* Install keeps the invariant. *)
LEMMA InstallInv == ASSUME Inv, Install PROVE Inv'
<1>0. ~At("idle") /\ call.pc = "install"
  BY DEF Install, At
<1> USE <1>0, Running
<1>1. /\ UNCHANGED <<direction, marker>> /\ marker[call.op] # NoMarker
      /\ temp = call.request.src /\ temp \in Payloads /\ temp # Gone
      /\ dest \in Contents /\ temp \in Contents
  BY ReplaceAssumption DEF Install, CallInv, CallIsMarked, TempIsWhole, Pcs, At, FilesOK, Contents
<1>2. CASE /\ dest' = temp /\ temp' = Gone /\ kept' = temp /\ Goto("drop_backup")
           /\ UNCHANGED <<backup, spent>>
  <2>1. FilesOK' /\ OldOrNew'
    BY <1>1, <1>2 DEF FilesOK, OldOrNew, Contents
  <2> QED
    BY <1>1, <1>2, <2>1, GoesOn DEF Pcs
<1>3. CASE PutBack(dest) /\ temp' = Gone /\ Return("refused") /\ UNCHANGED spent
  <2>1. FilesOK' /\ OldOrNew'
    BY <1>1, <1>3, PutBackFiles
  <2> QED
    BY <1>1, <1>3, <2>1, EndsCall DEF Results
<1>4. CASE /\ \/ PutBack(dest) /\ temp' \in {temp, Gone}
              \/ ~Refused(dest) /\ PutBack(temp) /\ temp' = Gone
           /\ Return("error") /\ Spend("fault")
  <2>1. FilesOK' /\ OldOrNew'
    BY <1>1, <1>4, PutBackFiles
  <2> QED
    BY <1>1, <1>4, <2>1, EndsCall, SpendType DEF Results
<1> QED
  BY <1>2, <1>3, <1>4 DEF Install

(* DropBackup keeps the invariant: the destination already holds the content. *)
LEMMA DropBackupInv == ASSUME Inv, DropBackup PROVE Inv'
<1>0. ~At("idle") /\ call.pc = "drop_backup"
  BY DEF DropBackup, At
<1> USE <1>0, Running
<1>1. /\ UNCHANGED <<direction, marker, dest, temp, kept>> /\ marker[call.op] # NoMarker
      /\ temp = Gone /\ dest = kept
  BY DEF DropBackup, CallInv, CallIsMarked, CommitIsClean, Pcs, At
<1>2. FilesOK' /\ OldOrNew'
  BY <1>1 DEF DropBackup, FilesOK, OldOrNew, Contents
<1>3. CASE backup' = Gone /\ Goto("unmark") /\ UNCHANGED spent
  BY <1>1, <1>2, <1>3, GoesOn DEF Pcs
<1>4. CASE Return("error") /\ Spend("fault")
  BY <1>1, <1>2, <1>4, EndsCall, SpendType DEF Results
<1> QED
  BY <1>3, <1>4 DEF DropBackup

(* RemoveMarker keeps the invariant. *)
LEMMA RemoveMarkerInv == ASSUME Inv, RemoveMarker PROVE Inv'
<1> DEFINE removed == [marker EXCEPT ![call.op] = NoMarker]
<1>0. ~At("idle")
  BY DEF RemoveMarker, At
<1> USE <1>0, Running
<1>1. FilesOK' /\ OldOrNew' /\ UNCHANGED direction
  BY DEF RemoveMarker, FilesOK, OldOrNew, files
<1>2. removed \in [Ops -> Markers \cup {NoMarker}]
  OBVIOUS
<1> HIDE DEF removed
<1>3. CASE marker' = removed /\ Return("ok") /\ UNCHANGED spent
  BY <1>1, <1>2, <1>3, EndsCall DEF Results
<1>4. CASE marker' \in {marker, removed} /\ Return("error") /\ Spend("fault")
  BY <1>1, <1>2, <1>4, EndsCall, SpendType DEF Results
<1> QED
  BY <1>3, <1>4 DEF RemoveMarker, removed

(* A crash keeps the invariant. *)
LEMMA CrashInv == ASSUME Inv, Crash PROVE Inv'
<1>0. ~At("idle")
  BY DEF Crash
<1> USE <1>0, Running
<1>1. FilesOK' /\ OldOrNew' /\ UNCHANGED <<direction, marker>> /\ Return("crashed") /\ Spend("crash")
  BY DEF Crash, FilesOK, OldOrNew, files
<1> QED
  BY <1>1, EndsCall, SpendType DEF Results

(* Cleaning a marker from a later session keeps the invariant. *)
LEMMA CleanInv == ASSUME Inv, NEW o \in Ops, CleanUnfinished(o) PROVE Inv'
<1>1. spent' \in [Events -> Nat] /\ marker' \in [Ops -> Markers \cup {NoMarker}]
  BY SpendType DEF CleanUnfinished, Inv, TypeOK, Events
<1>2. TypeOK'
  BY <1>1 DEF CleanUnfinished, Inv, TypeOK, files
<1>3. CallInv' /\ OldOrNew'
  BY DEF CleanUnfinished, Inv, CallInv, CallIsMarked, TempIsWhole, CommitIsClean, OldOrNew, At,
         files, Pcs
<1> QED
  BY <1>2, <1>3 DEF Inv

(* Another writer of the destination keeps the invariant. *)
LEMMA WriteInv == ASSUME Inv, NEW v \in Contents, WriteByOthers(v) PROVE Inv'
<1>1. /\ spent \in [Events -> Nat] /\ spent' \in [Events -> Nat] /\ spent["write"] \in Nat
      /\ spent'["write"] = spent["write"] + 1
  BY SpendType DEF WriteByOthers, Inv, TypeOK, Events
<1>2. TypeOK'
  BY <1>1 DEF WriteByOthers, Inv, TypeOK
<1>3. spent'["write"] # 0
  BY <1>1
<1>4. CallInv'
  BY <1>3 DEF WriteByOthers, Inv, CallInv, CallIsMarked, TempIsWhole, CommitIsClean, At
<1>5. OldOrNew'
  BY DEF WriteByOthers, OldOrNew
<1> QED
  BY <1>2, <1>4, <1>5 DEF Inv

(* Every step keeps the invariant. *)
LEMMA NextInv == Inv /\ [ReplaceNext]_replaceVars => Inv'
<1> SUFFICES ASSUME Inv, [ReplaceNext]_replaceVars PROVE Inv'
  OBVIOUS
<1>1. CASE CallStep
  BY <1>1, LookAtDestInv, WriteMarkerInv, OpenTempInv, CopyInv, MoveOldInv, InstallInv,
     DropBackupInv, RemoveMarkerInv DEF CallStep
<1>2. CASE RerunStep
  BY <1>2, RerunInv DEF RerunStep
<1>3. CASE \E v \in Payloads, overwrite \in BOOLEAN : Start(v, overwrite)
  BY <1>3, StartInv
<1>4. CASE \E o \in Ops : CleanUnfinished(o)
  BY <1>4, CleanInv
<1>5. CASE \E v \in Contents : WriteByOthers(v)
  BY <1>5, WriteInv
<1>6. CASE Crash
  BY <1>6, CrashInv
<1>7. CASE UNCHANGED replaceVars
  BY <1>7 DEF replaceVars, Inv, TypeOK, CallInv, CallIsMarked, TempIsWhole, CommitIsClean, OldOrNew, At
<1> QED
  BY <1>1, <1>2, <1>3, <1>4, <1>5, <1>6, <1>7 DEF ReplaceNext

(* The invariant holds in every reachable state. *)
LEMMA Invariant == ReplaceSpec => []Inv
<1> QED
  BY InitInv, NextInv, PTL DEF ReplaceSpec

-----------------------------------------------------------------------------
(* Theorems *)

(* Type correctness of the transfer of one file; above all that no torn     *)
(* file ever is the destination or its backup.                              *)
THEOREM ReplaceTypes == ReplaceSpec => []TypeOK
<1>1. Inv => TypeOK
  BY DEF Inv
<1> QED
  BY <1>1, Invariant, PTL

(* A running transfer never renames a torn temporary file, never runs       *)
(* unrecorded and never deletes a backup that is still needed.              *)
THEOREM CallIsSound == ReplaceSpec => []CallInv
<1>1. Inv => CallInv
  BY DEF Inv
<1> QED
  BY <1>1, Invariant, PTL

(* Whatever crashes, fails or interferes, the content last put at the       *)
(* destination is there or in the backup.                                   *)
THEOREM NothingLostInReplace == ReplaceSpec => []OldOrNew
<1>1. Inv => OldOrNew
  BY DEF Inv
<1> QED
  BY <1>1, Invariant, PTL

(* However a call that wrote its marker ends, the marker is there as long   *)
(* as a temporary file or a backup is.                                      *)
THEOREM ResidueRecorded == ReplaceSpec => ResidueIsMarked
<1>1. ASSUME Inv, [ReplaceNext]_replaceVars
      PROVE  [At("idle")' /\ call.pc \in Pcs \ {"begin", "mark"} /\ (temp' # Gone \/ backup' # Gone)
              => marker'[call.op] # NoMarker]_replaceVars
  <2> SUFFICES ASSUME ReplaceNext, call'.pc = "idle", call.pc \in Pcs \ {"begin", "mark"},
                      temp' # Gone \/ backup' # Gone
               PROVE  marker'[call.op] # NoMarker
    BY <1>1 DEF At
  <2>1. marker[call.op] # NoMarker /\ call.pc # "idle"
    BY <1>1 DEF Inv, CallInv, CallIsMarked, Pcs
  <2>2. CASE CallStep
    <3>1. CASE RemoveMarker
      <4>1. temp = Gone /\ backup = Gone /\ UNCHANGED files
        BY <1>1, <3>1 DEF RemoveMarker, Inv, CallInv, CommitIsClean
      <4> QED
        BY <4>1 DEF files
    <3>2. CASE WriteMarker \/ LookAtDest
      BY <3>2 DEF WriteMarker, LookAtDest, At
    <3>3. CASE OpenTemp \/ Copy \/ MoveOld \/ Install \/ DropBackup
      BY <2>1, <3>3 DEF OpenTemp, Copy, MoveOld, Install, DropBackup
    <3> QED
      BY <2>2, <3>1, <3>2, <3>3 DEF CallStep
  <2>3. CASE Crash \/ \E v \in Contents : WriteByOthers(v)
    BY <2>1, <2>3 DEF Crash, WriteByOthers
  <2>4. CASE \/ RerunStep \/ \E o \in Ops : CleanUnfinished(o)
             \/ \E v \in Payloads, overwrite \in BOOLEAN : Start(v, overwrite)
    BY <2>1, <2>4 DEF RerunStep, Rerun, CleanUnfinished, Start, At
  <2> QED
    BY <2>2, <2>3, <2>4 DEF ReplaceNext
<1> QED
  BY <1>1, Invariant, PTL DEF ReplaceSpec, ResidueIsMarked

(* A transfer never destroys what it finds: the content that leaves the     *)
(* destination is in the backup, in a vault always, on the plain side as    *)
(* long as no other program writes there.                                   *)
THEOREM NothingClobberedInReplace == ReplaceSpec => NothingClobbered
<1>1. ASSUME Inv, [ReplaceNext]_replaceVars
      PROVE  [dest # Gone /\ dest' # dest /\ spent'["write"] = spent["write"]
              /\ (direction = "import" \/ spent["write"] = 0) => backup' = dest]_replaceVars
  <2> SUFFICES ASSUME ReplaceNext, dest # Gone, dest' # dest, spent'["write"] = spent["write"],
                      direction = "import" \/ spent["write"] = 0
               PROVE  backup' = dest
    BY <1>1
  <2>1. CASE MoveOld
    BY <2>1 DEF MoveOld, files
  <2>2. CASE Install
    <3>1. direction = "import" /\ call.pc = "install"
      BY <1>1, <2>2 DEF Inv, CallInv, CommitIsClean, Install, At
    <3>2. temp # Gone
      <4>1. ~At("idle")
        BY <3>1 DEF At
      <4> QED
        BY <1>1, <3>1, <4>1, Running, ReplaceAssumption DEF CallInv, TempIsWhole, At
    <3> QED
      BY <2>2, <3>1, <3>2 DEF Install, PutBack, Refused
  <2>3. ASSUME NEW v \in Contents, WriteByOthers(v) PROVE FALSE
    <3>1. spent["write"] \in Nat /\ spent'["write"] = spent["write"] + 1
      BY <1>1, <2>3, SpendType DEF WriteByOthers, Inv, TypeOK, Events
    <3> QED
      BY <3>1
  <2>4. CASE \/ LookAtDest \/ WriteMarker \/ OpenTemp \/ Copy \/ DropBackup \/ RemoveMarker
             \/ RerunStep \/ Crash \/ \E o \in Ops : CleanUnfinished(o)
             \/ \E v \in Payloads, overwrite \in BOOLEAN : Start(v, overwrite)
    BY <2>4 DEF LookAtDest, WriteMarker, OpenTemp, Copy, DropBackup, RemoveMarker, RerunStep,
                Rerun, Crash, CleanUnfinished, Start, files
  <2> QED
    BY <2>1, <2>2, <2>3, <2>4 DEF ReplaceNext, CallStep
<1> QED
  BY <1>1, Invariant, PTL DEF ReplaceSpec, NothingClobbered
=============================================================================
