---------------------------- MODULE DataContext ----------------------------
(***************************************************************************)
(* An encrypted file on disk and the data context through which it is      *)
(* read and written, for the four ciphers the library registers.  All four *)
(* add a keystream to the data, cell by cell: a stored cell is its value   *)
(* together with the piece of keystream that hides it, and comes out right *)
(* only under the same piece.                                              *)
(*                                                                         *)
(* The contexts share their control (position, size, gap filling, chunked  *)
(* writing); they differ in how they find the keystream for a position,    *)
(* and in whether Read goes to the position first (AES-XTS only).          *)
(***************************************************************************)
EXTENDS Naturals, Sequences, FiniteSets, FiniteSetsExt

CONSTANTS Data,        \* what is written: sequences of values
          MaxLen,      \* bound on positions and on the length of the file
          Chunk,       \* ChunkBufferSize
          CtrBlock, ChaChaBlock, XtsBlock,    \* block sizes
          Counters,    \* how many values ChaCha20's block counter has (2^32)
          MaxOps,      \* bound on operations
          MaxFaults    \* bound on failing writes

Kinds == {"AES-CTR", "ChaCha20", "RC4", "AES-XTS"}

ASSUME DataContextAssumption ==
    /\ MaxLen \in Nat /\ Chunk \in Nat \ {0} /\ Counters \in Nat \ {0}
    /\ CtrBlock \in Nat \ {0} /\ ChaChaBlock \in Nat \ {0} /\ XtsBlock \in Nat \ {0}
    /\ MaxOps \in Nat /\ MaxFaults \in Nat
    /\ Data \subseteq Seq(Nat) /\ <<>> \notin Data

VARIABLES
    kind,           \* the cipher
    store,          \* the file: cells [v : value, k : piece of keystream]
    filePos,        \* the position of the operating system's file
    pos, size,      \* the context's
    reader, writer, \* RC4: lastReadCipher, lastWriteCipher
    out,            \* what the last operation returned
    ops, faults

vars == <<kind, store, filePos, pos, size, reader, writer, out, ops, faults>>

Max2(a, b) == IF a > b THEN a ELSE b
Min2(a, b) == IF a < b THEN a ELSE b

-----------------------------------------------------------------------------
(* Keystreams *)

\* xorKeystream and xorKeystreamQuick of AES-CTR: block counter and offset.
CtrKey(p) == <<p \div CtrBlock, p % CtrBlock>>

\* ChaCha20: the counter is 32 bits wide.
ChaChaKey(p) == <<(p \div ChaChaBlock) % Counters, p % ChaChaBlock>>

\* xorBlocks of AES-XTS: the tweak of the block, then a keystream like the others.
XtsKey(p) == <<p \div XtsBlock, p % XtsBlock>>

\* RC4 makes its keystream in order only: the piece is the place in the stream.
StreamKey(p) == <<0, p>>

KeyOf(p) ==
    CASE kind = "AES-CTR" -> CtrKey(p) [] kind = "ChaCha20" -> ChaChaKey(p)
      [] kind = "AES-XTS" -> XtsKey(p) [] kind = "RC4" -> StreamKey(p)

\* A cached RC4 cipher: the position it claims and the one its stream is at.
Cipher(p) == [pos |-> p, at |-> p]

\* Mutant: a piece made for another position moves the claimed position.
EncryptedAtMoves(cs, p, n) ==
    [start |-> IF p = cs.pos THEN cs.at ELSE p,
     cs |-> IF p = cs.pos THEN [pos |-> p + n, at |-> cs.at + n] ELSE [cs EXCEPT !.pos = p + n]]

\* CipherState.EncryptAt for n cells at p: where in the stream they are taken
\* from, and the cipher afterwards; a cipher that is elsewhere is left alone.
EncryptedAt(cs, p, n) ==
    [start |-> IF p = cs.pos THEN cs.at ELSE p,
     cs |-> IF p = cs.pos THEN [pos |-> p + n, at |-> cs.at + n] ELSE cs]

\* The chunks of n cells that start at p, in order: their starts.
ChunksOf(p, n) == {p + Chunk * i : i \in {j \in 0..n : Chunk * j < n}}

\* The first chunk the cached cipher is in step with, if any: from there on it
\* stays in step.
InStep(cs, p, n) == {c \in ChunksOf(p, n) : c = cs.pos}

\* The piece of keystream for the cell at q of a chunked run of n cells at p.
PieceIn(cs, p, n, q) ==
    IF kind # "RC4" THEN KeyOf(q)
    ELSE LET s == InStep(cs, p, n) IN
         IF s # {} /\ q >= Max(s)
         THEN StreamKey(EncryptedAt(cs, Max(s), 0).start + (q - Max(s))) ELSE StreamKey(q)

\* The cached cipher after n cells at p were encrypted, chunk by chunk.
After(cs, p, n) ==
    IF kind # "RC4" \/ n = 0 THEN cs
    ELSE LET s == InStep(cs, p, n) IN
         IF s # {} THEN EncryptedAt(cs, Max(s), p + n - Max(s)).cs
         ELSE EncryptedAt(cs, Max(ChunksOf(p, n)), p + n - Max(ChunksOf(p, n))).cs

\* What a cell gives back for position q under a piece of keystream.
Garbled == 99
Plain(cell, key) == IF cell.k = key THEN cell.v ELSE Garbled

-----------------------------------------------------------------------------
(* Chunked writing *)

\* The store with the first n of the cells d, encrypted as a run at p.
Written(st, cs, p, d, n) ==
    [i \in 1..Max2(Len(st), p + n) |->
        IF i > p /\ i <= p + n THEN [v |-> d[i - p], k |-> PieceIn(cs, p, Len(d), i - 1)] ELSE st[i]]

\* Whole chunks are encrypted before they are written: how many cells, when n of
\* total were written.
Encrypted(n, total) ==
    IF n = total THEN total ELSE Min2(total, Chunk * (n \div Chunk + 1))

Zeros(n) == [i \in 1..n |-> 0]

\* ensure_append_gap with FillGap: zeros up to target.  The outcomes: done, or
\* (a fault) stopped after some of them with the size left behind.
Gap(target) ==
    LET g == target - size IN
    IF target <= size THEN {[ok |-> TRUE, store |-> store, filePos |-> filePos, size |-> size, writer |-> writer]}
    ELSE {[ok |-> n = g, store |-> Written(store, writer, size, Zeros(g), n),
           filePos |-> size + n, size |-> IF n = g THEN target ELSE size,
           writer |-> After(writer, size, Encrypted(n, g))]
              : n \in IF faults < MaxFaults THEN 0..g ELSE {g}}

-----------------------------------------------------------------------------
(* Operations *)

Counts == ops < MaxOps /\ ops' = ops + 1

\* NewContext on the file: the position is 0, the size what the file has.
Opened ==
    /\ filePos' = 0 /\ pos' = 0 /\ size' = Len(store)
    /\ reader' = Cipher(0) /\ writer' = Cipher(0)

\* Close and open again.
Reopen ==
    /\ Counts /\ Opened
    /\ out' = <<>>
    /\ UNCHANGED <<kind, store, faults>>

\* The cells of the store from f on, at most n.
Cells(f, n) == SubSeq(store, f + 1, Min2(f + n, Len(store)))

\* The cells d, decrypted as one run that starts at p.
Decrypted(d, p) ==
    [i \in 1..Len(d) |-> Plain(d[i], IF kind # "RC4" THEN KeyOf(p + i - 1)
                                     ELSE StreamKey(EncryptedAt(reader, p, Len(d)).start + i - 1))]

Reading(d, p) ==
    /\ out' = Decrypted(d, p)
    /\ reader' = IF d = <<>> \/ kind # "RC4" THEN reader ELSE EncryptedAt(reader, p, Len(d)).cs

\* Read of AES-XTS: the file is moved to the position first.
ReadXts(n) ==
    LET d == Cells(pos, n) IN
    /\ Reading(d, pos)
    /\ filePos' = pos + Len(d) /\ pos' = pos + Len(d)

\* Read of the others: from wherever the file stands, decrypted for the position.
ReadStream(n) ==
    LET d == Cells(filePos, n) IN
    /\ Reading(d, pos)
    /\ filePos' = filePos + Len(d) /\ pos' = pos + Len(d)

Read(n) ==
    /\ Counts
    /\ IF kind = "AES-XTS" THEN ReadXts(n) ELSE ReadStream(n)
    /\ UNCHANGED <<kind, store, size, writer, faults>>

\* ReadAt leaves both positions.
ReadAt(off, n) ==
    /\ Counts
    /\ Reading(Cells(off, n), off)
    /\ UNCHANGED <<kind, store, filePos, pos, size, writer, faults>>

\* How much of d is written after the gap was filled: all, or a fault.
Done(d) == IF faults < MaxFaults THEN 0..Len(d) ELSE {Len(d)}

Fails(bad) == faults' = IF bad THEN faults + 1 ELSE faults

\* Write: the gap, the file to the position, the chunks; the position follows
\* what was written.
Write(d) ==
    /\ Counts /\ pos + Len(d) <= MaxLen
    /\ \E g \in Gap(pos) :
          \/ /\ ~g.ok
             /\ store' = g.store /\ filePos' = g.filePos /\ writer' = g.writer
             /\ out' = <<0>> /\ Fails(TRUE)
             /\ UNCHANGED <<pos, size>>
          \/ /\ g.ok
             /\ \E n \in Done(d) :
                   /\ store' = Written(g.store, g.writer, pos, d, n)
                   /\ writer' = After(g.writer, pos, Encrypted(n, Len(d)))
                   /\ filePos' = pos + n /\ pos' = pos + n
                   /\ size' = Max2(g.size, pos + n)
                   /\ out' = <<n>> /\ Fails(n < Len(d))
    /\ UNCHANGED <<kind, reader>>

\* Mutant: writing past the end leaves the size behind.
WriteAtKeepsSize(off, d) ==
    /\ Counts /\ off + Len(d) <= MaxLen
    /\ \E g \in Gap(off) :
          /\ g.ok
          /\ store' = Written(g.store, g.writer, off, d, Len(d))
          /\ writer' = After(g.writer, off, Len(d))
          /\ filePos' = g.filePos /\ size' = g.size /\ out' = <<Len(d)>>
    /\ UNCHANGED <<kind, pos, reader, faults>>

\* WriteAt: the position stays, but filling a gap has moved the file.
WriteAt(off, d) ==
    /\ Counts /\ off + Len(d) <= MaxLen
    /\ \E g \in Gap(off) :
          /\ filePos' = g.filePos
          /\ \/ /\ ~g.ok
                /\ store' = g.store /\ writer' = g.writer
                /\ out' = <<0>> /\ Fails(TRUE)
                /\ UNCHANGED size
             \/ /\ g.ok
                /\ \E n \in Done(d) :
                      /\ store' = Written(g.store, g.writer, off, d, n)
                      /\ writer' = After(g.writer, off, Encrypted(n, Len(d)))
                      /\ size' = Max2(g.size, off + n)
                      /\ out' = <<n>> /\ Fails(n < Len(d))
    /\ UNCHANGED <<kind, pos, reader>>

\* Seek from the start or the end: file and context move together.
Seek(p) ==
    /\ Counts
    /\ filePos' = p /\ pos' = p /\ out' = <<p>>
    /\ UNCHANGED <<kind, store, size, reader, writer, faults>>

\* Truncate: longer by filling the gap, shorter by cutting the file.
Truncate(n) ==
    /\ Counts
    /\ \E g \in Gap(n) :
          /\ filePos' = g.filePos /\ writer' = g.writer
          /\ store' = IF n < size THEN SubSeq(store, 1, n) ELSE g.store
          /\ size' = IF g.ok THEN n ELSE size
          /\ pos' = IF g.ok /\ pos > n THEN n ELSE pos
          /\ Fails(~g.ok)
    /\ out' = <<>>
    /\ UNCHANGED <<kind, reader>>

-----------------------------------------------------------------------------
Init ==
    /\ kind \in Kinds
    /\ store = <<>> /\ filePos = 0 /\ pos = 0 /\ size = 0
    /\ reader = Cipher(0) /\ writer = Cipher(0)
    /\ out = <<>>
    /\ ops = 0 /\ faults = 0

\* The operations that use the position, and those that name an offset.
AtPosition ==
    \/ \E n \in 1..MaxLen : Read(n)
    \/ \E d \in Data : Write(d)
    \/ \E p \in 0..MaxLen : Seek(p) \/ Truncate(p)
    \/ Seek(size)
    \/ Reopen
AtOffset ==
    \/ \E off \in 0..MaxLen, n \in 1..MaxLen : ReadAt(off, n)
    \/ \E d \in Data, off \in 0..MaxLen : WriteAt(off, d)

\* Each cipher has a context of its own with the same operations over its own
\* keystream; the two halves of each.
AesCtrStream == kind = "AES-CTR" /\ AtPosition
AesCtrRandom == kind = "AES-CTR" /\ AtOffset
ChaCha20Stream == kind = "ChaCha20" /\ AtPosition
ChaCha20Random == kind = "ChaCha20" /\ AtOffset
Rc4Stream == kind = "RC4" /\ AtPosition
Rc4Random == kind = "RC4" /\ AtOffset
AesXtsStream == kind = "AES-XTS" /\ AtPosition
AesXtsRandom == kind = "AES-XTS" /\ AtOffset

Next ==
    \/ AesCtrStream \/ AesCtrRandom \/ ChaCha20Stream \/ ChaCha20Random
    \/ Rc4Stream \/ Rc4Random \/ AesXtsStream \/ AesXtsRandom

Spec == Init /\ [][Next]_vars

-----------------------------------------------------------------------------
(* Properties *)

\* What the file holds, cell by cell under the keystream of its own position.
Content == [i \in 1..Len(store) |-> Plain(store[i], KeyOf(i - 1))]

\* Every cell on disk was hidden with the keystream of its own position, whatever
\* the order of writes, gaps, cuts and failures and however the RC4 context
\* reused its ciphers: the next NewContext reads it back.
StoredUnderOwnKey == \A i \in 1..Len(store) : store[i].k = KeyOf(i - 1)

\* The context behaves as a plain file of the decrypted content, of every cipher,
\* whatever the order of operations and the failures.  Read, of all but AES-XTS,
\* is only promised while the file of the operating system stands at the
\* context's position: filling a gap for WriteAt or Truncate moves it away until
\* the next Seek or Write.
File == INSTANCE PlainFile WITH content <- Content, settled <- kind = "AES-XTS" \/ filePos = pos
ActsAsPlainFile == File!Spec
=============================================================================
