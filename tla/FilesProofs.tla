----------------------------- MODULE FilesProofs -----------------------------
(***************************************************************************)
(* Proofs about what a process reaches through its descriptors, for any    *)
(* image, any programs' arguments and any sequence of calls: the table and *)
(* the reads of Files under the programs of Programs, and then the clock   *)
(* of Rtc, which has a descriptor too.                                     *)
(*                                                                         *)
(* A loop or a recursive function is dealt with by UpTo: the set of the    *)
(* rounds up to which it does what it should, in place of a predicate.     *)
(***************************************************************************)
EXTENDS Programs, Rtc, FiniteSetTheorems, SequenceTheorems, WellFoundedInduction, TLAPS

-----------------------------------------------------------------------------
(* Numbers.                                                                 *)

\* A nonempty set of numbers has a least one.
LEMMA LeastNumber ==
  ASSUME NEW T, T \subseteq Nat, T # {}
  PROVE  \E a \in T : \A b \in T : a <= b
<1>1. IsWellFoundedOn(OpToRel(<, Nat), Nat)
  BY NatLessThanWellFounded
<1>2. PICK a \in T : \A b \in T : ~(<<b, a>> \in OpToRel(<, Nat))
  BY <1>1, WFMin
<1>3. \A b \in T : ~(b < a)
  BY <1>2 DEF OpToRel
<1> QED BY <1>3

\* Induction up to n, with a set instead of a predicate.
LEMMA UpTo ==
  ASSUME NEW n \in Nat, NEW G, 0 \in G, \A i \in 0 .. n - 1 : i \in G => i + 1 \in G
  PROVE  \A i \in 0 .. n : i \in G
<1> SUFFICES ASSUME NEW j \in 0 .. n, j \notin G PROVE FALSE
  OBVIOUS
<1> DEFINE T == {i \in 0 .. n : i \notin G}
<1>1. T \subseteq Nat /\ T # {}
  OBVIOUS
<1>2. PICK a \in T : \A b \in T : a <= b
  <2> HIDE DEF T
  <2> QED BY <1>1, LeastNumber
<1>3. a \in 0 .. n /\ a # 0 /\ a - 1 \in 0 .. n - 1 /\ a - 1 \in 0 .. n /\ (a - 1) + 1 = a
  BY <1>2
<1>4. a - 1 \in G
  BY <1>2, <1>3
<1> QED BY <1>2, <1>3, <1>4

\* Quotient and remainder, from the two numbers that make them.
LEMMA Division ==
  ASSUME NEW b \in Nat \ {0}, NEW p \in Nat, NEW r \in 0 .. b - 1
  PROVE  (p * b + r) \div b = p /\ (p * b + r) % b = r /\ p * b + r \in Nat
<1>1. p * b \in Nat
  OBVIOUS
<1> DEFINE d == (p * b + r) \div b  m == (p * b + r) % b
<1>2. d \in Int /\ m \in 0 .. b - 1 /\ p * b + r = b * d + m
  BY <1>1
<1>3. d = p
  <2> HIDE DEF d, m
  <2>1. ASSUME NEW k \in Int, k >= 1 PROVE b * k >= b
    BY <2>1
  <2>2. b * d - p * b = b * (d - p) /\ p * b - b * d = b * (p - d)
    BY <1>2
  <2>3. d - p \in Int /\ p - d \in Int /\ b * (d - p) \in Int /\ b * (p - d) \in Int /\ b * d \in Int
    BY <1>2
  <2>4. b * (d - p) < b /\ b * (p - d) < b
    BY <1>1, <1>2, <2>2, <2>3
  <2>5. ~(d - p >= 1) /\ ~(p - d >= 1)
    BY <2>1, <2>3, <2>4
  <2> QED BY <2>3, <2>5, <1>2
<1>4. m = r
  <2> HIDE DEF d, m
  <2> QED BY <1>1, <1>2, <1>3
<1> QED BY <1>1, <1>3, <1>4
-----------------------------------------------------------------------------
(* Characters.                                                              *)

\* The literals of the model are named: the provers do not know them for strings.
Chars == STRING \cup {NUL, SPACE, NL, "."}
CStrings == Seq(Chars \ {NUL})

\* What the assumptions call strings are sequences of these.
LEMMA StringsAreChars ==
  ASSUME NEW s
  PROVE  /\ s \in Seq(STRING) => s \in Seq(Chars)
         /\ s \in Strings => s \in CStrings
<1> DEFINE A == STRING  B == Chars  A0 == STRING \ {NUL}  B0 == Chars \ {NUL}
<1>1. A \subseteq B /\ A0 \subseteq B0
  BY DEF Chars
<1>2. (s \in Seq(A) => s \in Seq(B)) /\ (s \in Seq(A0) => s \in Seq(B0))
  <2> HIDE DEF A, B, A0, B0
  <2> QED BY <1>1, Zenon, SeqMonotonic
<1> QED BY <1>2 DEF Strings, CStrings

-----------------------------------------------------------------------------
(* read_data: the loop over blocks reads the bytes of the file.             *)

\* The byte at a position of a file, from its block list.
ByteAt(ino, at) ==
  data_blocks[ino.data_block_num[(at \div BLOCK_SIZE) + 1] + 1][(at % BLOCK_SIZE) + 1]

\* The loop of read_data computes what its equation says.
LEMMA LoopEquation ==
  ASSUME NEW ino, NEW first, NEW rounds \in Nat
  PROVE  \E f : /\ f = [n \in 0 .. rounds |-> IF n = 0 THEN first ELSE NextByte(ino, f[n - 1])]
                /\ ReadLoop(ino, first, rounds) = f[rounds].buf
<1> DEFINE Sol(m, f) == f = [n \in 0 .. m |-> IF n = 0 THEN first ELSE NextByte(ino, f[n - 1])]
           G == {m \in 0 .. rounds : \E f : Sol(m, f)}
<1>1. 0 \in G
  <2> DEFINE g == [n \in 0 .. 0 |-> first]
  <2>1. g = [n \in 0 .. 0 |-> IF n = 0 THEN first ELSE NextByte(ino, g[n - 1])]
    OBVIOUS
  <2>2. Sol(0, g)
    BY <2>1
  <2> HIDE DEF g, Sol
  <2> QED BY <2>2
<1>2. \A m \in 0 .. rounds - 1 : m \in G => m + 1 \in G
  <2> SUFFICES ASSUME NEW m \in 0 .. rounds - 1, m \in G PROVE m + 1 \in G
    OBVIOUS
  <2>1. PICK f : Sol(m, f)
    OBVIOUS
  <2> DEFINE g == [n \in 0 .. m + 1 |-> IF n = m + 1 THEN NextByte(ino, f[m]) ELSE f[n]]
  <2>2. ASSUME NEW n \in 0 .. m + 1
        PROVE  g[n] = IF n = 0 THEN first ELSE NextByte(ino, g[n - 1])
    <3>1. CASE n = m + 1
      <4>1. n - 1 = m /\ m \in 0 .. m + 1 /\ m # m + 1 /\ n # 0
        BY <3>1
      <4>2. g[n - 1] = f[m]
        BY <4>1
      <4> QED BY <3>1, <4>1, <4>2
    <3>2. CASE n # m + 1
      <4>1. n \in 0 .. m /\ g[n] = f[n]
        BY <3>2
      <4>2. f[n] = IF n = 0 THEN first ELSE NextByte(ino, f[n - 1])
        BY <4>1, <2>1
      <4>3. n # 0 => g[n - 1] = f[n - 1]
        BY <4>1
      <4> QED BY <4>1, <4>2, <4>3
    <3> QED BY <3>1, <3>2
  <2>3. Sol(m + 1, g)
    <3>1. g = [n \in 0 .. m + 1 |-> g[n]]
      OBVIOUS
    <3> HIDE DEF g
    <3> QED BY <2>2, <3>1
  <2> HIDE DEF g, Sol
  <2>4. m + 1 \in 0 .. rounds
    OBVIOUS
  <2> QED BY <2>3, <2>4
<1>3. PICK f : Sol(rounds, f)
  <2> HIDE DEF G
  <2>1. rounds \in G
    BY <1>1, <1>2, UpTo
  <2> QED BY <2>1 DEF G
<1> QED BY <1>3, Zenon DEF ReadLoop

\* One round: the byte at position at is appended, and the place in the block
\* is that of the next one.
LEMMA ByteRound ==
  ASSUME NEW ino, NEW was, was.num \in Nat, was.pos \in 0 .. BLOCK_SIZE
  PROVE  LET is == NextByte(ino, was)
             at == was.num * BLOCK_SIZE + was.pos
         IN  /\ is.num \in Nat /\ is.pos \in 0 .. BLOCK_SIZE
             /\ is.num * BLOCK_SIZE + is.pos = at + 1
             /\ is.buf = Append(was.buf, ByteAt(ino, at))
<1> DEFINE at == was.num * BLOCK_SIZE + was.pos
<1>1. BLOCK_SIZE \in Nat \ {0} /\ at \in Nat
  BY FilesAssumption
<1> DEFINE wrap == was.pos >= BLOCK_SIZE
           num == IF wrap THEN was.num + 1 ELSE was.num
           pos == IF wrap THEN 0 ELSE was.pos
<1>2. num \in Nat /\ pos \in 0 .. BLOCK_SIZE - 1 /\ num * BLOCK_SIZE + pos = at
  <2>1. (was.num + 1) * BLOCK_SIZE = was.num * BLOCK_SIZE + BLOCK_SIZE /\ was.num * BLOCK_SIZE \in Nat
    BY <1>1
  <2>2. CASE wrap
    <3>1. was.pos = BLOCK_SIZE /\ num = was.num + 1 /\ pos = 0
      BY <1>1, <2>2
    <3> HIDE DEF num, pos
    <3> QED BY <1>1, <2>1, <3>1
  <2>3. CASE ~wrap
    <3>1. was.pos \in 0 .. BLOCK_SIZE - 1 /\ num = was.num /\ pos = was.pos
      BY <1>1, <2>3
    <3> HIDE DEF num, pos
    <3> QED BY <1>1, <3>1
  <2> QED BY <2>2, <2>3
<1>3. at \div BLOCK_SIZE = num /\ at % BLOCK_SIZE = pos
  <2> HIDE DEF num, pos, at
  <2>1. /\ (num * BLOCK_SIZE + pos) \div BLOCK_SIZE = num
        /\ (num * BLOCK_SIZE + pos) % BLOCK_SIZE = pos
    BY <1>1, <1>2, Division
  <2> QED BY <1>2, <2>1
<1>4. NextByte(ino, was) =
        [num |-> num, pos |-> pos + 1,
         buf |-> Append(was.buf, data_blocks[ino.data_block_num[num + 1] + 1][pos + 1])]
  BY Zenon DEF NextByte
<1>5. NextByte(ino, was) = [num |-> num, pos |-> pos + 1, buf |-> Append(was.buf, ByteAt(ino, at))]
  <2> HIDE DEF num, pos
  <2> QED BY <1>3, <1>4, Zenon DEF ByteAt
<1>6. num * BLOCK_SIZE + (pos + 1) = at + 1 /\ pos + 1 \in 0 .. BLOCK_SIZE
  <2> HIDE DEF num, pos
  <2>1. num * BLOCK_SIZE \in Nat
    BY <1>1, <1>2
  <2> QED BY <1>1, <1>2, <2>1
<1> HIDE DEF num, pos
<1>7. was.num * BLOCK_SIZE + was.pos = at
  OBVIOUS
<1> HIDE DEF at
<1> QED BY <1>2, <1>5, <1>6, <1>7

\* A read begins at an offset; the bytes at n positions from there on are
\* members of S; a sequence holds them.
BeginsAt(first, offset) == first = Start(offset \div BLOCK_SIZE, offset % BLOCK_SIZE)
BytesIn(S, ino, offset, n) == \A at \in offset .. offset + n - 1 : ByteAt(ino, at) \in S
BytesOf(S, ino, offset, n, s) ==
  s \in Seq(S) /\ Len(s) = n /\ \A k \in 1 .. n : s[k] = ByteAt(ino, offset + k - 1)

\* However long the loop runs, what is read is the bytes from the offset on.
LEMMA ReadLoopIs ==
  ASSUME NEW ino, NEW offset \in Nat, NEW rounds \in Nat, NEW S,
         BytesIn(S, ino, offset, rounds), NEW first, BeginsAt(first, offset)
  PROVE  BytesOf(S, ino, offset, rounds, ReadLoop(ino, first, rounds))
<1> DEFINE r == ReadLoop(ino, first, rounds)
<1>1. BLOCK_SIZE \in Nat \ {0}
  BY FilesAssumption
<1>2. PICK f : /\ f = [n \in 0 .. rounds |-> IF n = 0 THEN first ELSE NextByte(ino, f[n - 1])]
               /\ r = f[rounds].buf
  <2>1. r = ReadLoop(ino, first, rounds)
    OBVIOUS
  <2> HIDE DEF r
  <2> QED BY <2>1, LoopEquation
<1> HIDE DEF r
<1> DEFINE After(was, n) ==
             /\ was.num \in Nat /\ was.pos \in 0 .. BLOCK_SIZE
             /\ was.num * BLOCK_SIZE + was.pos = offset + n
             /\ was.buf \in Seq(S) /\ Len(was.buf) = n
             /\ \A k \in 1 .. n : was.buf[k] = ByteAt(ino, offset + k - 1)
           G == {n \in 0 .. rounds : After(f[n], n)}
<1>3. f[0] = first /\ \A n \in 1 .. rounds : f[n] = NextByte(ino, f[n - 1])
  <2>1. \A n \in 0 .. rounds : f[n] = IF n = 0 THEN first ELSE NextByte(ino, f[n - 1])
    BY <1>2, Zenon
  <2>2. 0 \in 0 .. rounds /\ \A n \in 1 .. rounds : n \in 0 .. rounds /\ n # 0
    OBVIOUS
  <2> QED BY <2>1, <2>2, Zenon
<1>4. 0 \in G
  <2>1. offset \div BLOCK_SIZE \in Nat /\ offset % BLOCK_SIZE \in 0 .. BLOCK_SIZE - 1
        /\ (offset \div BLOCK_SIZE) * BLOCK_SIZE + (offset % BLOCK_SIZE) = offset
    BY <1>1
  <2>2. first.num = offset \div BLOCK_SIZE /\ first.pos = offset % BLOCK_SIZE /\ first.buf = <<>>
    BY DEF Start, BeginsAt
  <2>3. <<>> \in Seq(S) /\ Len(<<>>) = 0
    BY EmptySeq
  <2>4. After(first, 0)
    <3>1. BLOCK_SIZE - 1 \in 0 .. BLOCK_SIZE /\ 0 .. BLOCK_SIZE - 1 \subseteq 0 .. BLOCK_SIZE
      BY <1>1
    <3>2. first.num \in Nat /\ first.pos \in 0 .. BLOCK_SIZE
      BY <2>1, <2>2, <3>1
    <3>3. first.num * BLOCK_SIZE + first.pos = offset + 0
      BY <2>1, <2>2
    <3>4. first.buf \in Seq(S) /\ Len(first.buf) = 0
      BY <2>2, <2>3
    <3> QED BY <3>2, <3>3, <3>4
  <2> HIDE DEF After
  <2> QED BY <1>3, <2>4
<1>5. \A n \in 0 .. rounds - 1 : n \in G => n + 1 \in G
  <2> SUFFICES ASSUME NEW n \in 0 .. rounds - 1, After(f[n], n) PROVE After(f[n + 1], n + 1)
    <3> HIDE DEF After
    <3> QED OBVIOUS
  <2> DEFINE was == f[n]  is == f[n + 1]
  <2>1. is = NextByte(ino, was)
    <3>1. n + 1 \in 1 .. rounds /\ (n + 1) - 1 = n
      OBVIOUS
    <3> HIDE DEF After
    <3> QED BY <1>3, <3>1
  <2> HIDE DEF was, is
  <2>2. offset + n \in Nat /\ After(was, n)
    BY DEF was
  <2>3. /\ is.num \in Nat /\ is.pos \in 0 .. BLOCK_SIZE
        /\ is.num * BLOCK_SIZE + is.pos = (offset + n) + 1
        /\ is.buf = Append(was.buf, ByteAt(ino, offset + n))
    <3>1. was.num \in Nat /\ was.pos \in 0 .. BLOCK_SIZE /\ was.num * BLOCK_SIZE + was.pos = offset + n
      BY <2>2
    <3>2. /\ is.num \in Nat /\ is.pos \in 0 .. BLOCK_SIZE
          /\ is.num * BLOCK_SIZE + is.pos = (was.num * BLOCK_SIZE + was.pos) + 1
          /\ is.buf = Append(was.buf, ByteAt(ino, was.num * BLOCK_SIZE + was.pos))
      BY <2>1, <3>1, ByteRound
    <3> HIDE DEF After
    <3> QED BY <3>1, <3>2, Zenon
  <2>4. ByteAt(ino, offset + n) \in S /\ was.buf \in Seq(S) /\ Len(was.buf) = n
    BY <2>2 DEF BytesIn
  <2>5. /\ is.buf \in Seq(S) /\ Len(is.buf) = n + 1
        /\ \A k \in 1 .. n : is.buf[k] = was.buf[k]
        /\ is.buf[n + 1] = ByteAt(ino, offset + n)
    BY <2>3, <2>4, AppendProperties
  <2>6. ASSUME NEW k \in 1 .. n + 1 PROVE is.buf[k] = ByteAt(ino, offset + k - 1)
    <3>1. CASE k = n + 1
      <4>1. offset + k - 1 = offset + n
        BY <3>1
      <4> QED BY <3>1, <4>1, <2>5
    <3>2. CASE k # n + 1
      <4>1. k \in 1 .. n
        BY <3>2
      <4>2. was.buf[k] = ByteAt(ino, offset + k - 1)
        BY <4>1, <2>2
      <4> QED BY <4>1, <4>2, <2>5
    <3> QED BY <3>1, <3>2
  <2>7. (offset + n) + 1 = offset + (n + 1)
    OBVIOUS
  <2>8. After(is, n + 1)
    BY <2>3, <2>5, <2>6, <2>7
  <2> HIDE DEF After
  <2> QED BY <2>8 DEF is
<1>6. After(f[rounds], rounds)
  <2>1. \A n \in 0 .. rounds : n \in G
    <3> HIDE DEF G
    <3> QED BY <1>4, <1>5, UpTo
  <2> HIDE DEF After
  <2> QED BY <2>1
<1>7. r \in Seq(S) /\ Len(r) = rounds /\ \A k \in 1 .. rounds : r[k] = ByteAt(ino, offset + k - 1)
  BY <1>2, <1>6
<1> QED BY <1>7, Zenon DEF r, BytesOf
-----------------------------------------------------------------------------
(* The reference: the blocks of a file, one after the other.                *)

\* FlattenSeq computes what its equation says.
LEMMA FlattenEquation ==
  ASSUME NEW seqs, Len(seqs) \in Nat \ {0}
  PROVE  \E f : /\ f = [i \in 1 .. Len(seqs) |-> IF i = 1 THEN seqs[i] ELSE f[i - 1] \o seqs[i]]
                /\ FlattenSeq(seqs) = f[Len(seqs)]
<1> DEFINE L == Len(seqs)
           Sol(m, f) == f = [i \in 1 .. m |-> IF i = 1 THEN seqs[i] ELSE f[i - 1] \o seqs[i]]
           G == {m \in 0 .. L : m # 0 => \E f : Sol(m, f)}
<1>1. 0 \in G
  <2> HIDE DEF Sol
  <2> QED OBVIOUS
<1>2. \A m \in 0 .. L - 1 : m \in G => m + 1 \in G
  <2> SUFFICES ASSUME NEW m \in 0 .. L - 1, m \in G PROVE m + 1 \in G
    OBVIOUS
  <2>1. PICK f : m # 0 => Sol(m, f)
    <3> HIDE DEF Sol
    <3> QED OBVIOUS
  <2> DEFINE g == [i \in 1 .. m + 1 |-> IF i = m + 1 THEN (IF m = 0 THEN seqs[1] ELSE f[m] \o seqs[m + 1])
                                        ELSE f[i]]
  <2>2. ASSUME NEW i \in 1 .. m + 1
        PROVE  g[i] = IF i = 1 THEN seqs[i] ELSE g[i - 1] \o seqs[i]
    <3>1. CASE i = m + 1
      <4>1. i # 1 => i - 1 = m /\ m \in 1 .. m + 1 /\ m # m + 1 /\ m # 0
        BY <3>1
      <4>2. i # 1 => g[i - 1] = f[m]
        BY <4>1
      <4>3. i = 1 => m = 0 /\ g[i] = seqs[1]
        BY <3>1
      <4>4. i # 1 => g[i] = f[m] \o seqs[m + 1]
        BY <3>1, <4>1
      <4> QED BY <3>1, <4>1, <4>2, <4>3, <4>4
    <3>2. CASE i # m + 1
      <4>1. i \in 1 .. m /\ g[i] = f[i] /\ m # 0
        BY <3>2
      <4>2. f[i] = IF i = 1 THEN seqs[i] ELSE f[i - 1] \o seqs[i]
        BY <4>1, <2>1
      <4>3. i # 1 => g[i - 1] = f[i - 1]
        BY <4>1
      <4> QED BY <4>1, <4>2, <4>3
    <3> QED BY <3>1, <3>2
  <2>3. Sol(m + 1, g)
    <3>1. g = [i \in 1 .. m + 1 |-> g[i]]
      OBVIOUS
    <3> HIDE DEF g
    <3> QED BY <2>2, <3>1
  <2> HIDE DEF g, Sol
  <2>4. m + 1 \in 0 .. L
    OBVIOUS
  <2> QED BY <2>3, <2>4
<1>3. PICK f : Sol(L, f)
  <2> HIDE DEF G, Sol
  <2>1. L \in Nat /\ L # 0
    OBVIOUS
  <2> HIDE DEF L
  <2>2. \A m \in 0 .. L : m \in G
    BY <1>1, <1>2, <2>1, UpTo
  <2>3. L \in G
    BY <2>1, <2>2
  <2> QED BY <2>1, <2>3 DEF G
<1>4. ~(L = 0)
  OBVIOUS
<1> QED BY <1>3, <1>4, Zenon DEF FlattenSeq

\* What it returns is a sequence of the members of its parts.
LEMMA FlattenType ==
  ASSUME NEW S, NEW seqs \in Seq(Seq(S))
  PROVE  FlattenSeq(seqs) \in Seq(S)
<1>0. Len(seqs) \in Nat
  BY LenProperties
<1>1. CASE Len(seqs) = 0
  <2>1. seqs = <<>>
    BY <1>1, EmptySeq
  <2>2. FlattenSeq(seqs) = seqs
    BY <1>1, Zenon DEF FlattenSeq
  <2> QED BY <2>1, <2>2, EmptySeq
<1>2. CASE Len(seqs) # 0
  <2>1. PICK f : /\ f = [i \in 1 .. Len(seqs) |-> IF i = 1 THEN seqs[i] ELSE f[i - 1] \o seqs[i]]
                 /\ FlattenSeq(seqs) = f[Len(seqs)]
    BY <1>0, <1>2, FlattenEquation
  <2> DEFINE G == {i \in 0 .. Len(seqs) : i # 0 => f[i] \in Seq(S)}
  <2>2. \A i \in 0 .. Len(seqs) - 1 : i \in G => i + 1 \in G
    <3> SUFFICES ASSUME NEW i \in 0 .. Len(seqs) - 1, i # 0 => f[i] \in Seq(S)
                 PROVE  f[i + 1] \in Seq(S)
      BY <1>0
    <3>1. i + 1 \in 1 .. Len(seqs) /\ (i + 1) - 1 = i /\ (i + 1 = 1 <=> i = 0)
      BY <1>0
    <3>2. f[i + 1] = IF i + 1 = 1 THEN seqs[i + 1] ELSE f[(i + 1) - 1] \o seqs[i + 1]
      BY <2>1, <3>1, Zenon
    <3>3. seqs[i + 1] \in Seq(S)
      BY <3>1, ElementOfSeq
    <3>4. i # 0 => f[i] \o seqs[i + 1] \in Seq(S)
      BY <3>3, ConcatProperties
    <3> QED BY <3>1, <3>2, <3>3, <3>4
  <2>3. \A i \in 0 .. Len(seqs) : i \in G
    <3>1. 0 \in G
      BY <1>0
    <3> HIDE DEF G
    <3> QED BY <1>0, <3>1, <2>2, UpTo
  <2>4. Len(seqs) \in G
    BY <1>0, <2>3
  <2> QED BY <1>2, <2>1, <2>4
<1> QED BY <1>1, <1>2

\* Parts of the same length.
Blocks(S, b, seqs) ==
  /\ \A i \in 1 .. Len(seqs) : seqs[i] \in Seq(S) /\ Len(seqs[i]) = b
  /\ Len(seqs) = 0 => seqs = <<>>

\* Where each byte of them comes from.
LEMMA FlattenBlocks ==
  ASSUME NEW S, NEW b \in Nat \ {0}, NEW seqs, Len(seqs) \in Nat, Blocks(S, b, seqs)
  PROVE  /\ FlattenSeq(seqs) \in Seq(S)
         /\ Len(FlattenSeq(seqs)) = Len(seqs) * b
         /\ \A p \in 0 .. Len(seqs) - 1, r \in 1 .. b : FlattenSeq(seqs)[p * b + r] = seqs[p + 1][r]
<1>1. CASE Len(seqs) = 0
  <2>1. FlattenSeq(seqs) = <<>>
    BY <1>1, Zenon DEF FlattenSeq, Blocks
  <2>2. 0 * b = 0
    OBVIOUS
  <2> QED BY <1>1, <2>1, <2>2, EmptySeq
<1>2. CASE Len(seqs) # 0
  <2>1. PICK f : /\ f = [i \in 1 .. Len(seqs) |-> IF i = 1 THEN seqs[i] ELSE f[i - 1] \o seqs[i]]
                 /\ FlattenSeq(seqs) = f[Len(seqs)]
    BY <1>2, FlattenEquation
  <2> DEFINE Good(i) == /\ f[i] \in Seq(S) /\ Len(f[i]) = i * b
                        /\ \A p \in 0 .. i - 1, r \in 1 .. b : f[i][p * b + r] = seqs[p + 1][r]
             G == {i \in 0 .. Len(seqs) : i # 0 => Good(i)}
  <2>2. \A i \in 0 .. Len(seqs) - 1 : i \in G => i + 1 \in G
    <3> SUFFICES ASSUME NEW i \in 0 .. Len(seqs) - 1, i # 0 => Good(i)
                 PROVE  Good(i + 1)
      <4> HIDE DEF Good
      <4> QED OBVIOUS
    <3>1. i + 1 \in 1 .. Len(seqs) /\ (i + 1) - 1 = i /\ (i + 1 = 1 <=> i = 0)
      OBVIOUS
    <3>2. f[i + 1] = IF i + 1 = 1 THEN seqs[i + 1] ELSE f[(i + 1) - 1] \o seqs[i + 1]
      BY <2>1, <3>1, Zenon
    <3>3. seqs[i + 1] \in Seq(S) /\ Len(seqs[i + 1]) = b
      BY <3>1 DEF Blocks
    <3>4. CASE i = 0
      <4>1. f[i + 1] = seqs[i + 1] /\ (i + 1) * b = b
        BY <3>2, <3>4
      <4>2. ASSUME NEW p \in 0 .. (i + 1) - 1, NEW r \in 1 .. b
            PROVE  p * b + r = r /\ p + 1 = i + 1
        BY <3>4
      <4> QED BY <3>3, <4>1, <4>2
    <3>5. CASE i # 0
      <4>1. f[i + 1] = f[i] \o seqs[i + 1] /\ Good(i)
        BY <3>1, <3>2, <3>5, Zenon
      <4>2. /\ f[i + 1] \in Seq(S) /\ Len(f[i + 1]) = i * b + b
            /\ \A k \in 1 .. i * b + b :
                  f[i + 1][k] = IF k <= i * b THEN f[i][k] ELSE seqs[i + 1][k - i * b]
        <5> DEFINE u == f[i]  v == seqs[i + 1]
        <5>1. u \in Seq(S) /\ Len(u) = i * b
          BY <4>1
        <5> HIDE DEF Good, u, v
        <5>2. v \in Seq(S) /\ Len(v) = b
          BY <3>3 DEF v
        <5>3. /\ u \o v \in Seq(S) /\ Len(u \o v) = Len(u) + Len(v)
              /\ \A k \in 1 .. Len(u) + Len(v) :
                    (u \o v)[k] = IF k <= Len(u) THEN u[k] ELSE v[k - Len(u)]
          BY <5>1, <5>2, ConcatProperties
        <5> QED BY <4>1, <5>1, <5>2, <5>3, Zenon DEF u, v
      <4>3. (i + 1) * b = i * b + b /\ i * b \in Nat
        OBVIOUS
      <4>4. ASSUME NEW p \in 0 .. (i + 1) - 1, NEW r \in 1 .. b
            PROVE  f[i + 1][p * b + r] = seqs[p + 1][r]
        <5>1. CASE p = i
          <6>1. p * b + r = i * b + r /\ i * b + r \in 1 .. i * b + b /\ ~(i * b + r <= i * b)
                /\ (i * b + r) - i * b = r
            BY <5>1, <4>3
          <6> QED BY <5>1, <6>1, <4>2
        <5>2. CASE p # i
          <6>1. p \in 0 .. i - 1
            BY <5>2
          <6>2. p * b + r \in 1 .. i * b
            <7>1. i * b = p * b + (i - p) * b /\ p * b \in Nat
              BY <6>1
            <7>2. i - p \in Nat /\ i - p >= 1
              BY <6>1
            <7>3. \A k \in Nat : k >= 1 => k * b >= b
              OBVIOUS
            <7>4. (i - p) * b \in Int /\ (i - p) * b >= b
              BY <7>2, <7>3
            <7>5. p * b >= 0
              BY <6>1
            <7> HIDE DEF Good
            <7> QED BY ONLY <4>3, <7>1, <7>4, <7>5, r \in 1 .. b, b \in Nat
          <6>3. f[i + 1][p * b + r] = f[i][p * b + r]
            BY <6>2, <4>2, <4>3
          <6> QED BY <6>1, <6>3, <4>1
        <5> QED BY <5>1, <5>2
      <4> QED BY <4>2, <4>3, <4>4
    <3> QED BY <3>4, <3>5
  <2>3. \A i \in 0 .. Len(seqs) : i \in G
    <3>1. 0 \in G
      OBVIOUS
    <3> HIDE DEF G
    <3> QED BY <3>1, <2>2, UpTo
  <2> HIDE DEF Good
  <2>4. Good(Len(seqs))
    BY <1>2, <2>3
  <2> QED BY <2>1, <2>4 DEF Good
<1> QED BY <1>1, <1>2
\* The image: inodes, their blocks and the bytes in them.
Inodes == 0 .. Len(inodes) - 1

\* What FilesAssumption says of an inode and of the bytes of its blocks.
LEMMA ImageIs ==
  ASSUME NEW ix \in Inodes, NEW ino, ino = inodes[ix + 1]
  PROVE  /\ ino.length \in Nat /\ ino.data_block_num \in Seq(Nat)
         /\ Len(ino.data_block_num) \in Nat
         /\ ino.length <= BLOCK_SIZE * Len(ino.data_block_num)
         /\ \A k \in 1 .. Len(ino.data_block_num) :
               data_blocks[ino.data_block_num[k] + 1] \in [1 .. BLOCK_SIZE -> STRING]
         /\ \A at \in 0 .. ino.length - 1 : /\ at \div BLOCK_SIZE \in 0 .. Len(ino.data_block_num) - 1
                                            /\ at % BLOCK_SIZE \in 0 .. BLOCK_SIZE - 1
                                            /\ at = (at \div BLOCK_SIZE) * BLOCK_SIZE + (at % BLOCK_SIZE)
                                            /\ ByteAt(ino, at) \in STRING
<1>1. BLOCK_SIZE \in Nat \ {0} /\ ImageAssumption
  BY FilesAssumption
<1>2. /\ Len(inodes) \in Nat /\ ix + 1 \in 1 .. Len(inodes) /\ DOMAIN inodes = 1 .. Len(inodes)
      /\ ino \in [length : Nat, data_block_num : Seq(Nat)]
  <2>1. inodes \in Seq([length : Nat, data_block_num : Seq(Nat)])
    BY <1>1 DEF ImageAssumption
  <2>2. Len(inodes) \in Nat /\ DOMAIN inodes = 1 .. Len(inodes)
    BY <2>1, LenProperties
  <2>3. ix + 1 \in 1 .. Len(inodes)
    BY <2>2 DEF Inodes
  <2> QED BY <2>1, <2>2, <2>3, ElementOfSeq
<1>3. /\ ino.length \in Nat /\ ino.data_block_num \in Seq(Nat)
      /\ Len(ino.data_block_num) \in Nat /\ DOMAIN ino.data_block_num = 1 .. Len(ino.data_block_num)
  BY <1>2, LenProperties
<1>4. /\ ino.length <= BLOCK_SIZE * Len(ino.data_block_num)
      /\ \A k \in 1 .. Len(ino.data_block_num) : ino.data_block_num[k] < Len(data_blocks)
  BY <1>1, <1>2, <1>3 DEF ImageAssumption
<1>5. ASSUME NEW k \in 1 .. Len(ino.data_block_num)
      PROVE  data_blocks[ino.data_block_num[k] + 1] \in [1 .. BLOCK_SIZE -> STRING]
  <2>1. ino.data_block_num[k] \in Nat /\ ino.data_block_num[k] < Len(data_blocks)
    BY <1>3, <1>4, ElementOfSeq
  <2>2. data_blocks \in Seq([1 .. BLOCK_SIZE -> STRING]) /\ Len(data_blocks) \in Nat
    BY <1>1, LenProperties DEF ImageAssumption
  <2>3. ino.data_block_num[k] + 1 \in 1 .. Len(data_blocks)
    BY <2>1, <2>2
  <2> QED BY <2>2, <2>3, ElementOfSeq
<1>6. ASSUME NEW at \in 0 .. ino.length - 1
      PROVE  /\ at \div BLOCK_SIZE \in 0 .. Len(ino.data_block_num) - 1
             /\ at % BLOCK_SIZE \in 0 .. BLOCK_SIZE - 1
             /\ at = (at \div BLOCK_SIZE) * BLOCK_SIZE + (at % BLOCK_SIZE)
             /\ ByteAt(ino, at) \in STRING
  <2> DEFINE p == at \div BLOCK_SIZE  r == at % BLOCK_SIZE  L == Len(ino.data_block_num)
  <2>1. at \in Nat /\ p \in Nat /\ r \in 0 .. BLOCK_SIZE - 1 /\ at = p * BLOCK_SIZE + r
    BY <1>1, <1>3
  <2>2. L \in Nat /\ at < BLOCK_SIZE * L
    <3>1. L \in Nat /\ ino.length <= BLOCK_SIZE * L
      BY <1>3, <1>4
    <3> HIDE DEF L, p, r
    <3>2. BLOCK_SIZE * L \in Nat
      BY <1>1, <3>1
    <3> QED BY <1>3, <3>1, <3>2
  <2>3. p < L
    <3> HIDE DEF p, r, L
    <3>1. ASSUME NEW k \in Nat, k >= L PROVE k * BLOCK_SIZE >= BLOCK_SIZE * L
      <4>1. k * BLOCK_SIZE = BLOCK_SIZE * L + (k - L) * BLOCK_SIZE /\ k - L \in Nat
        BY <1>1, <2>2, <3>1
      <4>2. (k - L) * BLOCK_SIZE \in Nat /\ BLOCK_SIZE * L \in Nat
        BY <1>1, <2>2, <4>1
      <4> QED BY <4>1, <4>2
    <3>2. p * BLOCK_SIZE \in Nat /\ BLOCK_SIZE * L \in Nat
      BY <1>1, <2>1, <2>2
    <3>3. p * BLOCK_SIZE <= at
      BY <2>1, <3>2
    <3> QED BY <2>1, <2>2, <3>1, <3>2, <3>3
  <2>4. p + 1 \in 1 .. L /\ r + 1 \in 1 .. BLOCK_SIZE
    <3> HIDE DEF p, r, L
    <3> QED BY <1>1, <2>1, <2>2, <2>3
  <2>5. data_blocks[ino.data_block_num[p + 1] + 1][r + 1] \in STRING
    <3> HIDE DEF p, r
    <3> QED BY <1>5, <2>4
  <2> QED BY <2>1, <2>2, <2>3, <2>5 DEF ByteAt
<1> QED BY <1>3, <1>4, <1>5, <1>6

\* How many bytes a read of a given length gives at a given offset.
Gives(ino, offset, length) == IF offset >= ino.length THEN 0 ELSE Rounds(ino, offset, length)

\* read_data gives the bytes of the file from the offset on, up to its end.
LEMMA ReadDataIs ==
  ASSUME NEW ix \in Inodes, NEW ino, ino = inodes[ix + 1], NEW offset \in Nat, NEW length \in Nat,
         NEW r, r = read_data(ix, offset, length)
  PROVE  /\ r \in Seq(STRING) /\ Len(r) = Gives(ino, offset, length)
         /\ Len(r) \in 0 .. length
         /\ offset <= ino.length => offset + Len(r) <= ino.length
         /\ offset < ino.length /\ length > 0 => Len(r) > 0
         /\ \A k \in 1 .. Len(r) : r[k] = ByteAt(ino, offset + k - 1)
<1>1. ino.length \in Nat /\ \A at \in 0 .. ino.length - 1 : ByteAt(ino, at) \in STRING
  BY ImageIs
<1> DEFINE n == Rounds(ino, offset, length)
<1>2. CASE length = 0 \/ offset >= ino.length
  <2>1. r = <<>>
    BY <1>2 DEF read_data
  <2>2. Gives(ino, offset, length) = 0
    BY <1>1, <1>2 DEF Gives, Rounds
  <2>3. r \in Seq(STRING) /\ Len(r) = 0
    BY <2>1, EmptySeq
  <2> QED BY <2>2, <2>3, <1>1, <1>2
<1>3. CASE ~(length = 0 \/ offset >= ino.length)
  <2> DEFINE first == Start(offset \div BLOCK_SIZE, offset % BLOCK_SIZE)
  <2>1. r = ReadLoop(ino, first, n)
    BY <1>3 DEF read_data
  <2>0. BeginsAt(first, offset)
    BY DEF BeginsAt
  <2>2. n \in 1 .. length /\ offset + n <= ino.length /\ n = Gives(ino, offset, length)
    BY <1>1, <1>3 DEF Rounds, Gives
  <2> HIDE DEF n, first
  <2>3. \A at \in offset .. offset + n - 1 : ByteAt(ino, at) \in STRING
    BY <1>1, <2>2
  <2>4. /\ r \in Seq(STRING) /\ Len(r) = n
        /\ \A k \in 1 .. n : r[k] = ByteAt(ino, offset + k - 1)
    <3> DEFINE S == STRING
    <3>1. n \in Nat /\ BytesIn(S, ino, offset, n)
      BY <2>2, <2>3 DEF BytesIn
    <3> HIDE DEF S
    <3>2. BytesOf(S, ino, offset, n, ReadLoop(ino, first, n))
      BY <2>0, <3>1, ReadLoopIs
    <3> QED BY <2>1, <3>2, Zenon DEF S, BytesOf
  <2> QED BY <2>2, <2>4
<1> QED BY <1>2, <1>3

\* The content of a file, byte by byte.
LEMMA FileBytesAre ==
  ASSUME NEW ix \in Inodes, NEW ino, ino = inodes[ix + 1]
  PROVE  /\ FileBytes(ix) \in Seq(STRING) /\ Len(FileBytes(ix)) = ino.length
         /\ \A k \in 1 .. ino.length : FileBytes(ix)[k] = ByteAt(ino, k - 1)
<1> DEFINE dbn == ino.data_block_num
           seqs == [k \in DOMAIN dbn |-> data_blocks[dbn[k] + 1]]
<1>1. /\ ino.length \in Nat /\ dbn \in Seq(Nat) /\ Len(dbn) \in Nat
      /\ ino.length <= BLOCK_SIZE * Len(dbn)
      /\ \A k \in 1 .. Len(dbn) : data_blocks[dbn[k] + 1] \in [1 .. BLOCK_SIZE -> STRING]
      /\ \A at \in 0 .. ino.length - 1 : /\ at \div BLOCK_SIZE \in 0 .. Len(dbn) - 1
                                         /\ at % BLOCK_SIZE \in 0 .. BLOCK_SIZE - 1
                                         /\ at = (at \div BLOCK_SIZE) * BLOCK_SIZE + (at % BLOCK_SIZE)
  BY ImageIs
<1>2. BLOCK_SIZE \in Nat \ {0}
  BY FilesAssumption
<1>3. DOMAIN dbn = 1 .. Len(dbn)
  BY <1>1, LenProperties
<1>4. seqs \in Seq([1 .. BLOCK_SIZE -> STRING]) /\ Len(seqs) = Len(dbn)
      /\ \A k \in 1 .. Len(dbn) : seqs[k] = data_blocks[dbn[k] + 1]
  <2> DEFINE B == [1 .. BLOCK_SIZE -> STRING]
  <2>1. \A k \in 1 .. Len(dbn) : data_blocks[dbn[k] + 1] \in B
    BY <1>1
  <2> HIDE DEF dbn, B
  <2>2. seqs \in [1 .. Len(dbn) -> B] /\ \A k \in 1 .. Len(dbn) : seqs[k] = data_blocks[dbn[k] + 1]
    BY <1>3, <2>1
  <2> HIDE DEF seqs
  <2>3. \A n \in Nat : \A s \in [1 .. n -> B] : s \in Seq(B) /\ Len(s) = n
    OBVIOUS
  <2>4. seqs \in Seq(B) /\ Len(seqs) = Len(dbn)
    BY <1>1, <2>2, <2>3
  <2> QED BY <2>2, <2>4 DEF B
<1>5. \A k \in 1 .. Len(seqs) : seqs[k] \in Seq(STRING) /\ Len(seqs[k]) = BLOCK_SIZE
  <2> HIDE DEF dbn, seqs
  <2>1. \A s \in [1 .. BLOCK_SIZE -> STRING] : s \in Seq(STRING) /\ Len(s) = BLOCK_SIZE
    BY <1>2
  <2>2. \A k \in 1 .. Len(seqs) : seqs[k] \in [1 .. BLOCK_SIZE -> STRING]
    BY <1>1, <1>4
  <2> QED BY <2>1, <2>2
<1>6. Len(seqs) = 0 => seqs = <<>>
  <2> HIDE DEF seqs
  <2> QED BY <1>4, EmptySeq
<1> DEFINE all == FlattenSeq(seqs)
<1>7. /\ all \in Seq(STRING) /\ Len(all) = Len(dbn) * BLOCK_SIZE
      /\ \A p \in 0 .. Len(dbn) - 1, r \in 1 .. BLOCK_SIZE : all[p * BLOCK_SIZE + r] = seqs[p + 1][r]
  <2> HIDE DEF seqs, dbn
  <2>1. Len(seqs) \in Nat
    BY <1>1, <1>4
  <2>2. /\ all \in Seq(STRING) /\ Len(all) = Len(seqs) * BLOCK_SIZE
        /\ \A p \in 0 .. Len(seqs) - 1, r \in 1 .. BLOCK_SIZE : all[p * BLOCK_SIZE + r] = seqs[p + 1][r]
    <3> DEFINE S == STRING
    <3>1. Blocks(S, BLOCK_SIZE, seqs)
      BY <1>5, <1>6 DEF Blocks
    <3> HIDE DEF S
    <3>2. /\ all \in Seq(S) /\ Len(all) = Len(seqs) * BLOCK_SIZE
          /\ \A p \in 0 .. Len(seqs) - 1, r \in 1 .. BLOCK_SIZE : all[p * BLOCK_SIZE + r] = seqs[p + 1][r]
      BY <1>2, <2>1, <3>1, FlattenBlocks
    <3> QED BY <3>2 DEF S
  <2> HIDE DEF all
  <2> QED BY <1>4, <2>2, Zenon
<1>8. FileBytes(ix) = SubSeq(all, 1, ino.length)
  BY DEF FileBytes
<1> HIDE DEF seqs, dbn, all
<1>9. ino.length <= Len(all)
  BY <1>1, <1>2, <1>7
<1>10. /\ FileBytes(ix) \in Seq(STRING) /\ Len(FileBytes(ix)) = ino.length
       /\ \A k \in 1 .. ino.length : FileBytes(ix)[k] = all[k]
  <2>1. \A k \in 1 .. ino.length : all[k] \in STRING
    BY <1>1, <1>7, <1>9, ElementOfSeq
  <2>2. /\ SubSeq(all, 1, ino.length) \in Seq(STRING)
        /\ Len(SubSeq(all, 1, ino.length)) = IF 1 <= ino.length THEN ino.length - 1 + 1 ELSE 0
        /\ \A k \in 1 .. ino.length - 1 + 1 : SubSeq(all, 1, ino.length)[k] = all[1 + k - 1]
    BY <1>1, <2>1, 1 \in Int, ino.length \in Int, SubSeqProperties
  <2> QED BY <1>1, <1>8, <2>2
<1>11. ASSUME NEW k \in 1 .. ino.length PROVE all[k] = ByteAt(ino, k - 1)
  <2> DEFINE p == (k - 1) \div BLOCK_SIZE  r == (k - 1) % BLOCK_SIZE
  <2>1. k - 1 \in 0 .. ino.length - 1
    BY <1>1
  <2>2. p \in 0 .. Len(dbn) - 1 /\ r \in 0 .. BLOCK_SIZE - 1 /\ k - 1 = p * BLOCK_SIZE + r
    BY <1>1, <2>1
  <2>3. ByteAt(ino, k - 1) = data_blocks[dbn[p + 1] + 1][r + 1]
    BY DEF ByteAt, dbn
  <2> HIDE DEF p, r
  <2>4. r + 1 \in 1 .. BLOCK_SIZE /\ p * BLOCK_SIZE \in Nat /\ p + 1 \in 1 .. Len(dbn)
    BY <1>1, <1>2, <2>2
  <2>5. k = p * BLOCK_SIZE + (r + 1)
    BY <2>2, <2>4
  <2>6. all[p * BLOCK_SIZE + (r + 1)] = seqs[p + 1][r + 1]
    BY <1>7, <2>2, <2>4
  <2> QED BY <1>4, <2>3, <2>4, <2>5, <2>6
<1> QED BY <1>10, <1>11

\* However the blocks of a file lie and wherever in them a read begins and ends,
\* read_data gives exactly that part of the file's content.
THEOREM ReadDataExact ==
  ASSUME NEW ix \in Inodes, NEW offset \in Nat, NEW length \in Nat,
         offset <= inodes[ix + 1].length
  PROVE  read_data(ix, offset, length)
           = SubSeq(FileBytes(ix), offset + 1, offset + Rounds(inodes[ix + 1], offset, length))
<1> DEFINE ino == inodes[ix + 1]  r == read_data(ix, offset, length)  b == FileBytes(ix)
           n == Rounds(ino, offset, length)
           part == SubSeq(b, offset + 1, offset + n)
<1>1. ino = inodes[ix + 1] /\ r = read_data(ix, offset, length) /\ offset <= ino.length
  OBVIOUS
<1> HIDE DEF ino, r
<1>2. ino.length \in Nat
  BY <1>1, ImageIs
<1>3. /\ r \in Seq(Chars) /\ Len(r) = Gives(ino, offset, length)
      /\ \A k \in 1 .. Len(r) : r[k] = ByteAt(ino, offset + k - 1)
  BY <1>1, ReadDataIs, StringsAreChars
<1>4. /\ b \in Seq(Chars) /\ Len(b) = ino.length
      /\ \A k \in 1 .. ino.length : b[k] = ByteAt(ino, k - 1)
  BY <1>1, FileBytesAre, StringsAreChars
<1>5. n = Len(r) /\ n \in Nat /\ offset + n <= ino.length
  <2>1. n = IF length < ino.length - offset THEN length ELSE ino.length - offset
    BY DEF Rounds
  <2>2. Len(r) = IF offset >= ino.length THEN 0 ELSE n
    BY <1>3 DEF Gives
  <2> HIDE DEF n
  <2> DEFINE l == ino.length
  <2>3. l \in Nat /\ offset <= l
    BY <1>1, <1>2
  <2>4. n \in Nat /\ offset + n <= l
    <3> HIDE DEF l
    <3>1. n = IF length < l - offset THEN length ELSE l - offset
      BY <2>1 DEF l
    <3> QED BY <2>3, <3>1
  <2>5. n = Len(r)
    <3>1. offset = l => n = 0
      BY <2>3, <2>1
    <3> QED BY <2>2, <2>3, <3>1
  <2> QED BY <2>4, <2>5
<1> HIDE DEF n, b
<1>6. /\ part \in Seq(Chars) /\ Len(part) = n
      /\ \A k \in 1 .. n : part[k] = b[offset + k]
  <2>1. \A k \in offset + 1 .. offset + n : b[k] \in Chars
    <3> SUFFICES ASSUME NEW k \in offset + 1 .. offset + n PROVE b[k] \in Chars
      OBVIOUS
    <3>1. k \in 1 .. Len(b)
      BY <1>2, <1>4, <1>5
    <3> QED BY <1>4, <3>1, ElementOfSeq
  <2>2. offset + 1 \in Int /\ offset + n \in Int
    BY <1>5
  <2>3. /\ part \in Seq(Chars)
        /\ Len(part) = IF offset + 1 <= offset + n THEN (offset + n) - (offset + 1) + 1 ELSE 0
        /\ \A k \in 1 .. (offset + n) - (offset + 1) + 1 : part[k] = b[(offset + 1) + k - 1]
    BY <2>1, <2>2, SubSeqProperties
  <2> HIDE DEF part
  <2>4. (offset + n) - (offset + 1) + 1 = n /\ \A k \in 1 .. n : (offset + 1) + k - 1 = offset + k
    BY <1>5
  <2> QED BY <1>5, <2>3, <2>4
<1> HIDE DEF part
<1>7. \A k \in 1 .. Len(r) : r[k] = part[k]
  <2> SUFFICES ASSUME NEW k \in 1 .. Len(r) PROVE r[k] = part[k]
    OBVIOUS
  <2>1. offset + k \in 1 .. ino.length /\ (offset + k) - 1 = offset + k - 1
    BY <1>2, <1>5
  <2>2. b[offset + k] = ByteAt(ino, offset + k - 1)
    BY <1>4, <2>1
  <2> QED BY <1>3, <1>5, <1>6, <2>2
<1>8. r = part
  BY <1>3, <1>5, <1>6, <1>7, SeqEqual
<1> QED BY <1>8 DEF r, part, b, n, ino

\* __load_program stops at the end of the file and not before, and what it has
\* copied then is the whole of it.
THEOREM LoadsWhole ==
  ASSUME NEW ix \in Inodes
  PROVE  LoadLoop(ix) = FileBytes(ix)
<1> DEFINE b == FileBytes(ix)
           L == inodes[ix + 1].length
           Sol(f) == f = [n \in 0 .. L |-> IF n = 0 THEN <<>> ELSE f[n - 1] \o read_data(ix, n - 1, 1)]
           g == [n \in 0 .. L |-> SubSeq(b, 1, n)]
<1>1. b \in Seq(Chars) /\ Len(b) = L /\ L \in Nat
  BY FileBytesAre, StringsAreChars, ImageIs
<1>2. /\ read_data(ix, L, 1) = <<>>
      /\ \A n \in 0 .. L - 1 : read_data(ix, n, 1) = <<b[n + 1]>>
  <2>1. read_data(ix, L, 1) = <<>>
    BY <1>1 DEF read_data
  <2>2. ASSUME NEW n \in 0 .. L - 1 PROVE read_data(ix, n, 1) = <<b[n + 1]>>
    <3>1. n \in Nat /\ n <= L /\ n + 1 \in 1 .. Len(b) /\ 1 \in Nat
      BY <1>1
    <3>2. Rounds(inodes[ix + 1], n, 1) = 1
      BY <1>1, <3>1 DEF Rounds
    <3>3. read_data(ix, n, 1) = SubSeq(b, n + 1, n + 1)
      BY <3>1, <3>2, ReadDataExact
    <3> HIDE DEF b, L
    <3>4. SubSeq(b, n + 1, n + 1) = SubSeq(b, n + 1, (n + 1) - 1) \o <<b[n + 1]>>
      <4>1. n + 1 \in n + 1 .. Len(b)
        BY <3>1
      <4> QED BY <1>1, <3>1, <4>1, SubSeqRecursiveSecond
    <3>5. SubSeq(b, n + 1, (n + 1) - 1) = <<>>
      <4>1. n + 1 \in Int /\ (n + 1) - 1 \in Int /\ (n + 1) - 1 < n + 1
        BY <3>1
      <4> QED BY <4>1, SubSeqEmpty
    <3>6. b[n + 1] \in Chars
      BY <1>1, <3>1, ElementOfSeq
    <3>7. <<b[n + 1]>> \in Seq(Chars)
      <4>1. \A S : \A x \in S : <<x>> \in Seq(S)
        OBVIOUS
      <4> QED BY <3>6, <4>1
    <3>8. <<>> \o <<b[n + 1]>> = <<b[n + 1]>>
      BY <3>7, ConcatEmptySeq
    <3> QED BY <3>3, <3>4, <3>5, <3>8
  <2> QED BY <2>1, <2>2
<1>3. \A n \in 1 .. L : SubSeq(b, 1, n) = SubSeq(b, 1, n - 1) \o read_data(ix, n - 1, 1)
  <2> SUFFICES ASSUME NEW n \in 1 .. L
               PROVE  SubSeq(b, 1, n) = SubSeq(b, 1, n - 1) \o read_data(ix, n - 1, 1)
    OBVIOUS
  <2> HIDE DEF b, L
  <2>1. n - 1 \in 0 .. L - 1 /\ (n - 1) + 1 = n /\ 1 \in 1 .. Len(b) /\ n \in 1 .. Len(b)
    BY <1>1
  <2>2. SubSeq(b, 1, n) = SubSeq(b, 1, n - 1) \o <<b[n]>>
    BY <1>1, <2>1, SubSeqRecursiveSecond
  <2> QED BY <1>2, <2>1, <2>2
<1>4. SubSeq(b, 1, 0) = <<>>
  <2>1. 1 \in Int /\ 0 \in Int /\ 0 < 1
    OBVIOUS
  <2> QED BY <2>1, SubSeqEmpty
<1>5. Sol(g)
  <2> HIDE DEF b, L
  <2>1. ASSUME NEW n \in 0 .. L
        PROVE  g[n] = IF n = 0 THEN <<>> ELSE g[n - 1] \o read_data(ix, n - 1, 1)
    <3>1. CASE n = 0
      BY <1>4, <3>1
    <3>2. CASE n # 0
      <4>1. n \in 1 .. L /\ n - 1 \in 0 .. L
        BY <1>1, <3>2
      <4> QED BY <1>3, <3>2, <4>1
    <3> QED BY <3>1, <3>2
  <2>2. g = [n \in 0 .. L |-> g[n]]
    OBVIOUS
  <2> HIDE DEF g
  <2> QED BY <2>1, <2>2
<1> DEFINE page == CHOOSE f : Sol(f)
           ends == {n \in DOMAIN page : read_data(ix, n, 1) = <<>>}
<1>6. LoadLoop(ix) = page[CHOOSE n \in ends : \A m \in ends : n <= m]
  BY Zenon DEF LoadLoop
<1>7. Sol(page)
  <2> HIDE DEF g, Sol
  <2> QED BY <1>5, Zenon
<1> HIDE DEF page
<1>8. /\ DOMAIN page = 0 .. L /\ page[0] = <<>>
      /\ \A n \in 1 .. L : page[n] = page[n - 1] \o read_data(ix, n - 1, 1)
  <2> HIDE DEF L
  <2>1. /\ DOMAIN page = 0 .. L
        /\ \A n \in 0 .. L : page[n] = IF n = 0 THEN <<>> ELSE page[n - 1] \o read_data(ix, n - 1, 1)
    BY <1>7, Zenon
  <2>2. 0 \in 0 .. L /\ \A n \in 1 .. L : n \in 0 .. L /\ n # 0
    BY <1>1
  <2> QED BY <2>1, <2>2
<1> HIDE DEF Sol
<1>9. ends = {L}
  <2> HIDE DEF b, L
  <2>1. \A n \in 0 .. L : read_data(ix, n, 1) = <<>> <=> n = L
    <3> SUFFICES ASSUME NEW n \in 0 .. L PROVE read_data(ix, n, 1) = <<>> <=> n = L
      OBVIOUS
    <3>1. n # L => n \in 0 .. L - 1
      BY <1>1
    <3>2. \A x : <<x>> # <<>>
      OBVIOUS
    <3> QED BY <1>2, <3>1, <3>2
  <2>2. L \in 0 .. L
    BY <1>1
  <2> QED BY <1>8, <2>1, <2>2
<1>10. (CHOOSE n \in ends : \A m \in ends : n <= m) = L
  <2> HIDE DEF ends, L
  <2> QED BY <1>1, <1>9
<1>11. page[L] = SubSeq(b, 1, L)
  <2> DEFINE G == {n \in 0 .. L : page[n] = SubSeq(b, 1, n)}
  <2> HIDE DEF b, L
  <2>1. 0 \in G
    BY <1>1, <1>4, <1>8
  <2>2. \A n \in 0 .. L - 1 : n \in G => n + 1 \in G
    <3> SUFFICES ASSUME NEW n \in 0 .. L - 1, page[n] = SubSeq(b, 1, n)
                 PROVE  page[n + 1] = SubSeq(b, 1, n + 1)
      BY <1>1
    <3>1. n + 1 \in 1 .. L /\ (n + 1) - 1 = n
      BY <1>1
    <3> QED BY <1>3, <1>8, <3>1
  <2>3. \A n \in 0 .. L : n \in G
    <3> HIDE DEF G
    <3> QED BY <1>1, <2>1, <2>2, UpTo
  <2> QED BY <1>1, <2>3
<1>12. SubSeq(b, 1, L) = b
  <2> HIDE DEF b, L
  <2> QED BY <1>1, SubSeqFull
<1> QED BY <1>6, <1>10, <1>11, <1>12, Zenon

-----------------------------------------------------------------------------
(* Names and strings.                                                       *)

\* A string is a sequence of characters that does not end before its length.
LEMMA StringIs ==
  ASSUME NEW s \in CStrings
  PROVE  /\ Len(s) \in Nat /\ s \in Seq(Chars)
         /\ \A i \in Nat : CharAt(s, i) = NUL <=> i >= Len(s)
<1>1. Len(s) \in Nat /\ s \in Seq(Chars \ {NUL})
  BY LenProperties DEF CStrings
<1>2. s \in Seq(Chars)
  <2> DEFINE A == Chars \ {NUL}  B == Chars
  <2>1. A \subseteq B /\ s \in Seq(A)
    BY <1>1
  <2> HIDE DEF A, B
  <2>2. s \in Seq(A) => s \in Seq(B)
    BY <2>1, Zenon, SeqMonotonic
  <2> QED BY <2>1, <2>2 DEF B
<1>3. ASSUME NEW i \in Nat PROVE CharAt(s, i) = NUL <=> i >= Len(s)
  <2>1. CASE i < Len(s)
    <3>1. i + 1 \in 1 .. Len(s)
      BY <1>1, <2>1
    <3>2. s[i + 1] \in Chars \ {NUL}
      BY <1>1, <3>1, ElementOfSeq
    <3> QED BY <1>1, <2>1, <3>2 DEF CharAt
  <2>2. CASE ~(i < Len(s))
    BY <1>1, <2>2 DEF CharAt
  <2> QED BY <2>1, <2>2
<1> QED BY <1>1, <1>2, <1>3

\* Comparing both ways, names match only when they are the same.
LEMMA MatchSame ==
  ASSUME NEW f \in CStrings, NEW g \in CStrings,
         strncmp_equal(f, g, Len(f)), strncmp_equal(f, g, Len(g))
  PROVE  f = g
<1>1. /\ Len(f) \in Nat /\ Len(g) \in Nat /\ f \in Seq(Chars) /\ g \in Seq(Chars)
      /\ \A i \in Nat : CharAt(f, i) = NUL <=> i >= Len(f)
      /\ \A i \in Nat : CharAt(g, i) = NUL <=> i >= Len(g)
  BY StringIs
<1>2. ASSUME NEW i \in Nat, i < Len(f) \/ i < Len(g), i <= Len(f)
      PROVE  CharAt(f, i) = CharAt(g, i)
  <2>1. \A j \in 0 .. i - 1 : CharAt(f, j) # NUL
    BY <1>1, <1>2
  <2>2. i \in 0 .. Len(f) - 1 \/ i \in 0 .. Len(g) - 1
    BY <1>1, <1>2
  <2> QED BY <2>1, <2>2 DEF strncmp_equal
<1>3. Len(f) = Len(g)
  <2>1. ~(Len(f) < Len(g))
    <3>1. Len(f) < Len(g) => CharAt(f, Len(f)) = CharAt(g, Len(f))
      BY <1>1, <1>2
    <3> QED BY <1>1, <3>1
  <2>2. ~(Len(g) < Len(f))
    <3>1. Len(g) < Len(f) => CharAt(f, Len(g)) = CharAt(g, Len(g))
      BY <1>1, <1>2
    <3> QED BY <1>1, <3>1
  <2> QED BY <1>1, <2>1, <2>2
<1>4. ASSUME NEW k \in 1 .. Len(f) PROVE f[k] = g[k]
  <2>1. k - 1 \in Nat /\ k - 1 < Len(f) /\ (k - 1) + 1 = k
    BY <1>1
  <2>2. CharAt(f, k - 1) = CharAt(g, k - 1)
    BY <1>1, <1>2, <2>1
  <2> QED BY <1>3, <2>1, <2>2 DEF CharAt
<1> QED BY <1>1, <1>3, <1>4, SeqEqual

\* The entry a lookup finds: it exists, so does its inode, and a name without
\* NUL is its name.
Entries == 1 .. Len(dir_entries)

\* What FilesAssumption says of the directory.
LEMMA EntriesAre ==
  /\ Len(dir_entries) \in Nat /\ DOMAIN dir_entries = Entries
  /\ \A i \in Entries : /\ dir_entries[i].filename \in CStrings
                        /\ Len(dir_entries[i].filename) <= FILENAME_LEN
                        /\ dir_entries[i].inode_num \in Nat
  /\ Len(inodes) \in Nat \ {0} /\ DOMAIN inodes = 1 .. Len(inodes)
<1> DEFINE D == [filename : Strings, filetype : STRING, inode_num : Nat]
           I == [length : Nat, data_block_num : Seq(Nat)]
<1>1. /\ dir_entries \in Seq(D) /\ inodes \in Seq(I) /\ inodes # <<>>
      /\ \A i \in DOMAIN dir_entries : Len(dir_entries[i].filename) <= FILENAME_LEN
  BY FilesAssumption, Zenon DEF ImageAssumption
<1>2. \A e \in D : e.filename \in CStrings /\ e.inode_num \in Nat
  <2>1. \A e \in D : e.filename \in Strings /\ e.inode_num \in Nat
    OBVIOUS
  <2> HIDE DEF D
  <2> QED BY <2>1, StringsAreChars
<1> HIDE DEF D, I
<1>3. Len(dir_entries) \in Nat /\ DOMAIN dir_entries = Entries
  BY <1>1, LenProperties DEF Entries
<1>4. Len(inodes) \in Nat \ {0} /\ DOMAIN inodes = 1 .. Len(inodes)
  BY <1>1, LenProperties, EmptySeq
<1>5. \A i \in Entries : dir_entries[i] \in D
  BY <1>1, ElementOfSeq DEF Entries
<1> QED BY <1>1, <1>2, <1>3, <1>4, <1>5

\* read_dentry_by_name gives the first entry that matches.
LEMMA LookupIs ==
  ASSUME NEW fname, Matches(fname) # {}
  PROVE  \E i \in Entries : /\ read_dentry_by_name(fname) = dir_entries[i]
                            /\ dir_entries[i].inode_num \in Inodes
                            /\ fname \in CStrings => dir_entries[i].filename = fname
<1> DEFINE M == Matches(fname)
           i == CHOOSE k \in M : \A j \in M : k <= j
<1>1. M \subseteq Entries /\ \A k \in M : /\ dir_entries[k].inode_num < Len(inodes)
                                          /\ Match(fname, dir_entries[k])
  BY EntriesAre DEF Matches
<1>2. i \in M
  <2>1. M \subseteq Nat /\ M # {}
    BY <1>1 DEF Entries
  <2> HIDE DEF M
  <2>2. \E k \in M : \A j \in M : k <= j
    BY <2>1, LeastNumber
  <2> QED BY <2>2
<1>3. read_dentry_by_name(fname) = dir_entries[i]
  BY DEF read_dentry_by_name
<1> HIDE DEF i, M
<1>4. dir_entries[i].inode_num \in Inodes
  BY <1>1, <1>2, EntriesAre DEF Inodes
<1>5. ASSUME fname \in CStrings PROVE dir_entries[i].filename = fname
  <2>1. /\ strncmp_equal(fname, dir_entries[i].filename, Len(fname))
        /\ strncmp_equal(fname, dir_entries[i].filename, Len(dir_entries[i].filename))
    BY <1>1, <1>2 DEF Match
  <2> QED BY <1>1, <1>2, <1>5, <2>1, MatchSame, EntriesAre
<1> QED BY <1>1, <1>2, <1>3, <1>4, <1>5

\* A name of the image finds itself.
LEMMA NameFound ==
  ASSUME NEW i \in Entries, dir_entries[i].inode_num < Len(inodes)
  PROVE  Matches(dir_entries[i].filename) # {}
<1>1. Match(dir_entries[i].filename, dir_entries[i])
  BY DEF Match, strncmp_equal
<1>2. ~(Len(dir_entries[i].filename) > FILENAME_LEN)
  BY EntriesAre, FilesAssumption, StringIs
<1> QED BY <1>1, <1>2, EntriesAre DEF Matches

\* The string in a buffer ends before its first NUL.
LEMMA StringAtIs ==
  ASSUME NEW buf \in Seq(Chars)
  PROVE  StringAt(buf, 0) \in CStrings
<1> DEFINE s == SubSeq(buf, 0 + 1, Len(buf))
           T == {n \in 0 .. Len(s) : CharAt(s, n) = NUL}
           Ends(n) == CharAt(s, n) = NUL /\ \A i \in 0 .. n - 1 : CharAt(s, i) # NUL
<1>1. s = buf
  BY SubSeqFull
<1>2. Len(s) \in Nat /\ s \in Seq(Chars)
  BY <1>1, LenProperties
<1> HIDE DEF s
<1>3. T \subseteq Nat /\ T # {}
  <2>1. Len(s) \in T
    BY <1>2 DEF CharAt
  <2> QED BY <1>2, <2>1
<1>4. \E n \in 0 .. Len(s) : Ends(n)
  <2>1. PICK n \in T : \A m \in T : n <= m
    <3> HIDE DEF T
    <3> QED BY <1>3, LeastNumber
  <2>2. n \in 0 .. Len(s) /\ CharAt(s, n) = NUL
    BY <2>1
  <2>3. ASSUME NEW i \in 0 .. n - 1 PROVE CharAt(s, i) # NUL
    <3>1. i \in 0 .. Len(s) /\ i < n
      BY <1>2, <2>2
    <3> QED BY <2>1, <2>2, <3>1
  <2> QED BY <2>2, <2>3
<1>5. ece391_strlen(s) \in 0 .. Len(s) /\ Ends(ece391_strlen(s))
  BY <1>4, Zenon DEF ece391_strlen
<1> DEFINE n == ece391_strlen(s)
<1>6. \A k \in 1 .. n : s[k] \in Chars \ {NUL}
  <2> HIDE DEF n
  <2>1. n \in 0 .. Len(s) /\ \A i \in 0 .. n - 1 : CharAt(s, i) # NUL
    BY <1>5 DEF n
  <2>2. ASSUME NEW k \in 1 .. n PROVE s[k] \in Chars \ {NUL}
    <3>1. k - 1 \in 0 .. n - 1 /\ k - 1 < Len(s) /\ (k - 1) + 1 = k /\ k \in 1 .. Len(s)
      BY <1>2, <2>1
    <3>2. s[k] \in Chars
      BY <1>2, <3>1, ElementOfSeq
    <3> QED BY <2>1, <3>1, <3>2 DEF CharAt
  <2> QED BY <2>2
<1>7. StringAt(buf, 0) = SubSeq(s, 1, n)
  BY DEF StringAt, s
<1>8. n \in Int
  BY <1>2, <1>5
<1> HIDE DEF n
<1>9. SubSeq(s, 1, n) \in Seq(Chars \ {NUL})
  <2> DEFINE A == Chars \ {NUL}
  <2>1. \A k \in 1 .. n : s[k] \in A
    BY <1>6
  <2> HIDE DEF A
  <2>2. 1 \in Int
    OBVIOUS
  <2>3. SubSeq(s, 1, n) \in Seq(A)
    BY <1>8, <2>1, <2>2, SubSeqProperties
  <2> QED BY <2>3 DEF A
<1> QED BY <1>7, <1>9 DEF CStrings

-----------------------------------------------------------------------------
(* The invariant of the descriptor table.                                   *)

Descriptors ==
  [flags : {"IN_USE", "NOT_IN_USE"}, file_ops : {"NULL", "stdin", "stdout", "rtc", "dir", "file"},
   inode : Inodes, file_position : Nat]

Used(fd) == fd_table[fd].flags = "IN_USE"

\* The entry a descriptor was opened for.
OpenedFor(fd, i) ==
  /\ dir_entries[i].filename = opened[fd] /\ dir_entries[i].inode_num = fd_table[fd].inode
  /\ fd_table[fd].file_ops = IF dir_entries[i].filetype \in DOMAIN Ops THEN dir_entries[i].filetype ELSE "NULL"

\* What has been read of a file is its bytes up to the position.
ReadSoFar(fd) ==
  LET ino == inodes[fd_table[fd].inode + 1]
  IN  /\ fd_table[fd].file_position <= ino.length
      /\ Len(got[fd]) = fd_table[fd].file_position
      /\ \A k \in 1 .. Len(got[fd]) : got[fd][k] = ByteAt(ino, k - 1)

FdSound(fd) ==
  /\ fd >= 2 /\ Used(fd) => \E i \in Entries : OpenedFor(fd, i)
  /\ Used(fd) /\ fd_table[fd].file_ops = "file" => ReadSoFar(fd)
  /\ fd < 2 => Used(fd) /\ fd_table[fd].file_ops = IF fd = 0 THEN "stdin" ELSE "stdout"

TableType ==
  /\ fd_table \in [Fds -> Descriptors] /\ opened \in [Fds -> CStrings] /\ got \in [Fds -> Seq(Chars)]
  /\ halted \in BOOLEAN /\ args \in Seq(Chars)

TableInv ==
  /\ TableType
  /\ \A fd \in Fds : FdSound(fd)
  /\ halted => \E fd \in Fds : fd >= 2 /\ Used(fd) /\ fd_table[fd].file_ops = "NULL"

\* FD_ARRAY_SIZE leaves room for the standard streams and the loader.
LEMMA FdsAre == 0 \in Fds /\ 1 \in Fds /\ 2 \in Fds /\ Fds \subseteq Nat /\ FD_ARRAY_SIZE \in Nat
  BY FilesAssumption DEF Fds

\* The empty sequence has every type that matters here.
LEMMA EmptyIsString == <<>> \in CStrings /\ <<>> \in Seq(Chars)
<1> DEFINE A == Chars \ {NUL}  B == Chars
<1>1. <<>> \in Seq(A) /\ <<>> \in Seq(B)
  <2> HIDE DEF A, B
  <2> QED BY EmptySeq
<1> QED BY <1>1 DEF CStrings

\* A descriptor that a step leaves alone stays sound.
LEMMA SameFd ==
  ASSUME NEW fd, FdSound(fd), fd_table'[fd] = fd_table[fd], opened'[fd] = opened[fd], got'[fd] = got[fd]
  PROVE  FdSound(fd)'
<1>1. Used(fd)' = Used(fd) /\ ReadSoFar(fd)' = ReadSoFar(fd)
  BY DEF Used, ReadSoFar
<1>2. \A i \in Entries : OpenedFor(fd, i) => OpenedFor(fd, i)'
  BY DEF OpenedFor
<1> QED BY <1>1, <1>2 DEF FdSound

\* Calls that change nothing but what is not about descriptors.
LEMMA SameTable ==
  ASSUME TableInv, UNCHANGED <<fd_table, opened, got, halted, args>>
  PROVE  TableInv'
<1>1. \A fd \in Fds : FdSound(fd)'
  <2> SUFFICES ASSUME NEW fd \in Fds PROVE FdSound(fd)'
    OBVIOUS
  <2> QED BY SameFd DEF TableInv
<1> QED BY <1>1 DEF TableInv, TableType, Used

\* The descriptor open takes is free, and the least such: not 0 or 1.
LEMMA NewFd ==
  ASSUME TableInv, Free(fd_table), NEW new, new = get_new_fd(fd_table)
  PROVE  new \in Fds /\ new >= 2 /\ fd_table[new].flags = "NOT_IN_USE"
<1> DEFINE T == {fd \in Fds : fd_table[fd].flags = "NOT_IN_USE"}
<1>1. T \subseteq Nat /\ T # {}
  BY FdsAre DEF Free
<1>2. PICK a \in T : \A b \in T : a <= b
  <2> HIDE DEF T
  <2> QED BY <1>1, LeastNumber
<1>3. ASSUME NEW g \in 0 .. a - 1 PROVE fd_table[g].flags = "IN_USE"
  <2>1. a \in Fds /\ g \in Fds /\ ~(a <= g)
    BY <1>2, <1>3, FdsAre DEF Fds
  <2>2. fd_table[g].flags \in {"IN_USE", "NOT_IN_USE"}
    BY <2>1 DEF TableInv, TableType, Descriptors
  <2> QED BY <1>2, <2>1, <2>2
<1>4. \E fd \in Fds : /\ fd_table[fd].flags = "NOT_IN_USE"
                      /\ \A g \in 0 .. fd - 1 : fd_table[g].flags = "IN_USE"
  BY <1>2, <1>3
<1>5. new \in Fds /\ fd_table[new].flags = "NOT_IN_USE"
  BY <1>4, Zenon DEF get_new_fd
<1>6. fd_table[0].flags = "IN_USE" /\ fd_table[1].flags = "IN_USE"
  BY FdsAre DEF TableInv, FdSound, Used
<1> QED BY <1>5, <1>6, FdsAre

\* system_open: a new descriptor for the entry of that name, nothing read yet.
LEMMA OpenTable ==
  ASSUME TableInv, NEW fname \in CStrings, system_open(fname)
  PROVE  TableInv'
<1>1. CASE Matches(fname) # {} /\ Free(fd_table)
  <2>1. PICK i \in Entries : /\ read_dentry_by_name(fname) = dir_entries[i]
                             /\ dir_entries[i].inode_num \in Inodes
                             /\ dir_entries[i].filename = fname
    BY <1>1, LookupIs
  <2> DEFINE new == get_new_fd(fd_table)
             ops == IF dir_entries[i].filetype \in DOMAIN Ops THEN dir_entries[i].filetype ELSE "NULL"
             entry == Entry(ops, dir_entries[i].inode_num)
  <2>2. new \in Fds /\ new >= 2 /\ fd_table[new].flags = "NOT_IN_USE"
    BY <1>1, NewFd
  <2>3. (IF dir_entries[i].filetype \in DOMAIN Ops THEN Ops[dir_entries[i].filetype] ELSE "NULL") = ops
    BY DEF Ops
  <2>4. /\ fd_table' = [fd_table EXCEPT ![new] = entry]
        /\ opened' = [opened EXCEPT ![new] = fname]
        /\ got' = [got EXCEPT ![new] = <<>>]
        /\ UNCHANGED <<args, halted>> /\ ~halted
    BY <1>1, <2>1, <2>3 DEF system_open, OpenEntry
  <2>5. entry \in Descriptors
    <3>1. ops \in {"NULL", "stdin", "stdout", "rtc", "dir", "file"}
      BY DEF Ops
    <3> HIDE DEF ops
    <3> QED BY <2>1, <3>1 DEF Entry, Descriptors
  <2> HIDE DEF new
  <2>6. TableType'
    <3> HIDE DEF entry
    <3> QED BY <2>2, <2>4, <2>5, EmptyIsString DEF TableInv, TableType
  <2>7. ASSUME NEW fd \in Fds PROVE FdSound(fd)'
    <3>1. CASE fd # new
      <4>1. fd_table'[fd] = fd_table[fd] /\ opened'[fd] = opened[fd] /\ got'[fd] = got[fd]
        BY <2>4, <3>1 DEF TableInv, TableType
      <4> QED BY <4>1, SameFd DEF TableInv
    <3>2. CASE fd = new
      <4>1. fd_table'[fd] = entry /\ opened'[fd] = fname /\ got'[fd] = <<>>
        BY <2>4, <3>2 DEF TableInv, TableType
      <4>2. entry.inode = dir_entries[i].inode_num /\ entry.file_ops = ops /\ entry.file_position = 0
        BY DEF Entry
      <4> HIDE DEF entry
      <4>3. OpenedFor(fd, i)'
        BY <2>1, <4>1, <4>2 DEF OpenedFor
      <4>4. ReadSoFar(fd)'
        <5>1. inodes[dir_entries[i].inode_num + 1].length \in Nat
          BY <2>1, ImageIs
        <5>2. Len(<<>>) = 0
          BY EmptyIsString, EmptySeq
        <5> QED BY <4>1, <4>2, <5>1, <5>2 DEF ReadSoFar
      <4> QED BY <2>2, <3>2, <4>3, <4>4, FdsAre DEF FdSound
    <3> QED BY <3>1, <3>2
  <2> QED BY <2>4, <2>6, <2>7 DEF TableInv
<1>2. CASE ~(Matches(fname) # {} /\ Free(fd_table))
  BY <1>2, SameTable DEF system_open
<1> QED BY <1>1, <1>2

\* A call through a missing operation: an entry of unknown type was opened.
LEMMA FaultTable ==
  ASSUME TableInv, NEW fd, InUse(fd), fd_table[fd].file_ops = "NULL", Fault
  PROVE  TableInv'
<1>1. \A g \in Fds : FdSound(g)'
  <2> SUFFICES ASSUME NEW g \in Fds PROVE FdSound(g)'
    OBVIOUS
  <2> QED BY SameFd DEF TableInv, Fault
<1>2. fd \in Fds /\ Used(fd)' /\ fd_table'[fd].file_ops = "NULL"
  BY DEF InUse, Used, Fault
<1>3. fd >= 2
  BY <1>2, FdsAre DEF TableInv, FdSound
<1> QED BY <1>1, <1>2, <1>3 DEF TableInv, TableType, Fault

\* system_close: the descriptor is free, with the rest as it was.
LEMMA CloseTable ==
  ASSUME TableInv, NEW fd, system_close(fd)
  PROVE  TableInv'
<1>1. fd \in Fds /\ fd >= 2 /\ InUse(fd) /\ ~halted
  BY DEF system_close, InUse
<1>2. CASE fd_table[fd].file_ops = "NULL"
  BY <1>1, <1>2, FaultTable DEF system_close
<1>3. CASE fd_table[fd].file_ops # "NULL"
  <2> DEFINE entry == [fd_table[fd] EXCEPT !.flags = "NOT_IN_USE", !.file_ops = "NULL"]
  <2>1. /\ fd_table' = [fd_table EXCEPT ![fd].flags = "NOT_IN_USE", ![fd].file_ops = "NULL"]
        /\ opened' = [opened EXCEPT ![fd] = <<>>] /\ got' = [got EXCEPT ![fd] = <<>>]
        /\ UNCHANGED <<args, halted>>
    BY <1>3 DEF system_close
  <2>2. fd_table[fd] \in Descriptors
    BY <1>1 DEF TableInv, TableType
  <2>3. entry \in Descriptors /\ entry.flags = "NOT_IN_USE"
    BY <2>2 DEF Descriptors
  <2>4. fd_table' = [fd_table EXCEPT ![fd] = entry]
    BY <1>1, <2>1 DEF TableInv, TableType
  <2> HIDE DEF entry
  <2>5. TableType'
    BY <1>1, <2>1, <2>3, <2>4, EmptyIsString DEF TableInv, TableType
  <2>6. ASSUME NEW g \in Fds PROVE FdSound(g)'
    <3>1. CASE g # fd
      <4>1. fd_table'[g] = fd_table[g] /\ opened'[g] = opened[g] /\ got'[g] = got[g]
        BY <2>1, <2>4, <3>1 DEF TableInv, TableType
      <4> QED BY <4>1, SameFd DEF TableInv
    <3>2. CASE g = fd
      <4>1. fd_table'[g] = entry
        BY <2>4, <3>2 DEF TableInv, TableType
      <4>2. ~Used(g)'
        BY <2>3, <4>1 DEF Used
      <4>3. ~(g < 2)
        BY <1>1, <3>2, FdsAre
      <4> QED BY <4>2, <4>3 DEF FdSound
    <3> QED BY <3>1, <3>2
  <2> QED BY <1>1, <2>1, <2>5, <2>6 DEF TableInv
<1> QED BY <1>2, <1>3

\* What a read gives is a sequence of characters, no more than were asked for.
LEMMA ReadResultIs ==
  ASSUME TableInv, NEW fd, InUse(fd), NEW nbytes \in Nat
  PROVE  ReadResult(fd, nbytes) \in Seq(Chars) /\ Len(ReadResult(fd, nbytes)) \in 0 .. nbytes
<1> DEFINE f == fd_table[fd]
           n == IF nbytes < FILENAME_LEN THEN nbytes ELSE FILENAME_LEN
<1>1. f \in Descriptors /\ n \in 0 .. nbytes
  BY FilesAssumption DEF TableInv, TableType, InUse
<1> HIDE DEF f, n
<1>2. CASE f.file_ops = "file"
  <2>1. ReadResult(fd, nbytes) = read_data(f.inode, f.file_position, nbytes)
    BY <1>2 DEF ReadResult, f
  <2>2. f.inode \in Inodes /\ f.file_position \in Nat
    BY <1>1 DEF Descriptors
  <2> QED BY <2>1, <2>2, ReadDataIs, StringsAreChars
<1>3. CASE f.file_ops = "dir" /\ f.file_position < Len(dir_entries)
  <2> DEFINE name == dir_entries[f.file_position + 1].filename
  <2>1. ReadResult(fd, nbytes) = strncpy(name, n)
    BY <1>3 DEF ReadResult, f, n
  <2>2. f.file_position + 1 \in Entries
    BY <1>1, <1>3, EntriesAre DEF Descriptors, Entries
  <2>3. name \in CStrings /\ Len(name) \in Nat /\ name \in Seq(Chars)
    BY <2>2, EntriesAre, StringIs
  <2> HIDE DEF name
  <2>4. ASSUME NEW i \in 1 .. n PROVE CharAt(name, i - 1) \in Chars
    <3>1. CASE i - 1 < Len(name)
      <4>1. i \in 1 .. Len(name) /\ (i - 1) + 1 = i
        BY <2>3, <3>1
      <4>2. name[i] \in Chars
        BY <2>3, <4>1, ElementOfSeq
      <4> QED BY <3>1, <4>1, <4>2 DEF CharAt
    <3>2. CASE ~(i - 1 < Len(name))
      <4>1. CharAt(name, i - 1) = NUL
        BY <3>2 DEF CharAt
      <4>2. NUL \in Chars
        BY DEF NUL, Chars
      <4> QED BY <4>1, <4>2
    <3> QED BY <3>1, <3>2
  <2>5. strncpy(name, n) \in [1 .. n -> Chars]
    BY <2>4 DEF strncpy
  <2>6. \A C : \A s \in [1 .. n -> C] : s \in Seq(C) /\ Len(s) = n
    BY <1>1
  <2> QED BY <1>1, <2>1, <2>5, <2>6
<1>4. CASE ~(f.file_ops = "file") /\ ~(f.file_ops = "dir" /\ f.file_position < Len(dir_entries))
  <2>1. ReadResult(fd, nbytes) = <<>>
    BY <1>4 DEF ReadResult, f
  <2> QED BY <2>1, EmptyIsString, EmptySeq
<1> QED BY <1>2, <1>3, <1>4

\* A read of a file gives its bytes from the position on and goes past them.
LEMMA FileReadTable ==
  ASSUME TableInv, NEW fd, InUse(fd), fd_table[fd].file_ops = "file", NEW nbytes \in Nat,
         file_read(fd, nbytes), UNCHANGED <<args, halted, opened>>, ~halted
  PROVE  TableInv'
<1> DEFINE f == fd_table[fd]  ino == inodes[f.inode + 1]  r == ReadResult(fd, nbytes)
           entry == [f EXCEPT !.file_position = @ + Len(r)]
<1>1. fd \in Fds /\ f \in Descriptors /\ got[fd] \in Seq(Chars)
  BY DEF InUse, TableInv, TableType
<1>2. /\ fd_table' = [fd_table EXCEPT ![fd] = entry]
      /\ got' = [got EXCEPT ![fd] = got[fd] \o r]
  BY <1>1 DEF file_read
<1>3. f.inode \in Inodes /\ f.file_position \in Nat /\ ino.length \in Nat
  BY <1>1, ImageIs DEF Descriptors
<1>4. /\ f.file_position <= ino.length /\ Len(got[fd]) = f.file_position
      /\ \A k \in 1 .. Len(got[fd]) : got[fd][k] = ByteAt(ino, k - 1)
  BY <1>1 DEF TableInv, FdSound, InUse, Used, ReadSoFar
<1>5. /\ r \in Seq(Chars) /\ Len(r) \in Nat /\ f.file_position + Len(r) <= ino.length
      /\ \A k \in 1 .. Len(r) : r[k] = ByteAt(ino, f.file_position + k - 1)
  <2>1. r = read_data(f.inode, f.file_position, nbytes)
    BY DEF ReadResult
  <2> HIDE DEF r, f
  <2>2. /\ Len(r) \in 0 .. nbytes
        /\ f.file_position <= ino.length => f.file_position + Len(r) <= ino.length
        /\ \A k \in 1 .. Len(r) : r[k] = ByteAt(ino, f.file_position + k - 1)
    BY <1>3, <2>1, ReadDataIs
  <2>3. r \in Seq(Chars)
    BY ReadResultIs DEF r
  <2> QED BY <1>4, <2>2, <2>3
<1>6. entry \in Descriptors /\ entry.file_position = f.file_position + Len(r)
      /\ entry.inode = f.inode /\ entry.flags = f.flags /\ entry.file_ops = f.file_ops
  <2> HIDE DEF r
  <2>1. f.file_position + Len(r) \in Nat
    BY <1>3, <1>5
  <2> QED BY <1>1, <2>1 DEF Descriptors
<1> DEFINE all == got[fd] \o r
<1>7. all \in Seq(Chars) /\ Len(all) = f.file_position + Len(r)
      /\ \A k \in 1 .. Len(all) : all[k] = ByteAt(ino, k - 1)
  <2> HIDE DEF r, f, ino
  <2>1. /\ all \in Seq(Chars) /\ Len(all) = Len(got[fd]) + Len(r)
        /\ \A k \in 1 .. Len(got[fd]) + Len(r) :
              all[k] = IF k <= Len(got[fd]) THEN got[fd][k] ELSE r[k - Len(got[fd])]
    BY <1>1, <1>5, ConcatProperties
  <2>2. Len(all) = f.file_position + Len(r)
    BY <1>4, <2>1
  <2>3. ASSUME NEW k \in 1 .. Len(all) PROVE all[k] = ByteAt(ino, k - 1)
    <3> HIDE DEF all
    <3>1. CASE k <= f.file_position
      <4>1. k \in 1 .. Len(got[fd])
        BY <1>3, <1>4, <1>5, <2>2, <3>1
      <4> QED BY <1>3, <1>4, <1>5, <2>1, <2>2, <3>1, <4>1
    <3>2. CASE ~(k <= f.file_position)
      <4>1. k - f.file_position \in 1 .. Len(r) /\ f.file_position + (k - f.file_position) - 1 = k - 1
        BY <1>3, <1>5, <2>2, <3>2
      <4>2. r[k - f.file_position] = ByteAt(ino, k - 1)
        BY <1>5, <4>1
      <4> QED BY <1>4, <2>1, <2>2, <3>2, <4>2
    <3> QED BY <3>1, <3>2
  <2> QED BY <2>1, <2>2, <2>3
<1> HIDE DEF entry, all
<1>8. TableType'
  BY <1>1, <1>2, <1>6, <1>7 DEF TableInv, TableType, all
<1>9. ASSUME NEW g \in Fds PROVE FdSound(g)'
  <2>1. CASE g # fd
    <3>1. fd_table'[g] = fd_table[g] /\ opened'[g] = opened[g] /\ got'[g] = got[g]
      BY <1>2, <2>1 DEF TableInv, TableType
    <3> QED BY <3>1, SameFd DEF TableInv
  <2>2. CASE g = fd
    <3>1. fd_table'[g] = entry /\ got'[g] = all /\ opened'[g] = opened[g]
      BY <1>2, <2>2 DEF TableInv, TableType, all
    <3>2. ReadSoFar(g)'
      BY <1>3, <1>5, <1>6, <1>7, <3>1 DEF ReadSoFar
    <3>3. FdSound(g) /\ Used(g)' = Used(g)
      BY <1>6, <2>2, <3>1 DEF TableInv, Used
    <3>4. \A i \in Entries : OpenedFor(g, i) => OpenedFor(g, i)'
      BY <1>6, <2>2, <3>1 DEF OpenedFor
    <3>5. fd_table'[g].file_ops = fd_table[g].file_ops
      BY <1>6, <2>2, <3>1
    <3> QED BY <3>2, <3>3, <3>4, <3>5 DEF FdSound
  <2> QED BY <2>1, <2>2
<1> QED BY <1>8, <1>9 DEF TableInv

\* A read of a directory goes on to its next entry.
LEMMA DirReadTable ==
  ASSUME TableInv, NEW fd, InUse(fd), fd_table[fd].file_ops = "dir", NEW nbytes \in Nat,
         dir_read(fd, nbytes), UNCHANGED <<args, halted, opened>>, ~halted
  PROVE  TableInv'
<1>1. CASE fd_table[fd].file_position >= Len(dir_entries)
  BY <1>1, SameTable DEF dir_read
<1>2. CASE ~(fd_table[fd].file_position >= Len(dir_entries))
  <2> DEFINE f == fd_table[fd]
             entry == [f EXCEPT !.file_position = @ + 1]
             r == ReadResult(fd, nbytes)
  <2>1. fd \in Fds /\ f \in Descriptors
    BY DEF InUse, TableInv, TableType
  <2>2. fd_table' = [fd_table EXCEPT ![fd] = entry] /\ got' = [got EXCEPT ![fd] = r]
    BY <1>2, <2>1 DEF dir_read
  <2>3. r \in Seq(Chars)
    BY ReadResultIs
  <2>4. entry \in Descriptors /\ entry.flags = f.flags /\ entry.file_ops = f.file_ops /\ entry.inode = f.inode
    BY <2>1 DEF Descriptors
  <2> HIDE DEF entry, r
  <2>5. TableType'
    BY <2>1, <2>2, <2>3, <2>4 DEF TableInv, TableType
  <2>6. ASSUME NEW g \in Fds PROVE FdSound(g)'
    <3>1. CASE g # fd
      <4>1. fd_table'[g] = fd_table[g] /\ opened'[g] = opened[g] /\ got'[g] = got[g]
        BY <2>2, <3>1 DEF TableInv, TableType
      <4> QED BY <4>1, SameFd DEF TableInv
    <3>2. CASE g = fd
      <4>1. fd_table'[g] = entry /\ opened'[g] = opened[g]
        BY <2>2, <3>2 DEF TableInv, TableType
      <4>2. FdSound(g) /\ Used(g)' = Used(g) /\ fd_table'[g].file_ops = "dir" /\ fd_table[g].file_ops = "dir"
        BY <2>4, <3>2, <4>1 DEF TableInv, Used
      <4>3. \A i \in Entries : OpenedFor(g, i) => OpenedFor(g, i)'
        BY <2>4, <3>2, <4>1 DEF OpenedFor
      <4> QED BY <4>2, <4>3 DEF FdSound
    <3> QED BY <3>1, <3>2
  <2> QED BY <2>5, <2>6 DEF TableInv
<1> QED BY <1>1, <1>2

\* system_read, through each of the operation tables.
LEMMA ReadTable ==
  ASSUME TableInv, NEW fd, NEW nbytes \in Int, system_read(fd, nbytes)
  PROVE  TableInv'
<1>1. InUse(fd) /\ ~halted
  BY DEF system_read
<1>2. CASE fd_table[fd].file_ops = "NULL" /\ Fault
  BY <1>1, <1>2, FaultTable
<1>3. CASE fd_table[fd].file_ops = "file" /\ nbytes >= 0 /\ file_read(fd, nbytes)
           /\ UNCHANGED <<args, image, halted, opened, cmdline>>
  BY <1>1, <1>3, FileReadTable
<1>4. CASE fd_table[fd].file_ops = "dir" /\ nbytes >= 0 /\ dir_read(fd, nbytes)
           /\ UNCHANGED <<args, image, halted, opened, cmdline>>
  BY <1>1, <1>4, DirReadTable
<1>5. CASE UNCHANGED vars
  BY <1>5, SameTable DEF vars
<1> QED BY <1>2, <1>3, <1>4, <1>5 DEF system_read

\* system_write writes nothing to a file or a directory.
LEMMA WriteTable ==
  ASSUME TableInv, NEW fd, system_write(fd)
  PROVE  TableInv'
<1>1. CASE fd_table[fd].file_ops = "NULL"
  BY <1>1, FaultTable DEF system_write
<1>2. CASE fd_table[fd].file_ops # "NULL"
  BY <1>2, SameTable DEF system_write, vars
<1> QED BY <1>1, <1>2

-----------------------------------------------------------------------------
(* The command line: the searches in it end, the arguments are characters.  *)

\* The search for the end of a word has an answer.
LEMMA WordStops ==
  ASSUME NEW c \in Seq(Chars), NEW i \in 0 .. Len(c)
  PROVE  \E j \in i .. Len(c) :
           /\ j >= TERM_BUFFER_SIZE - 1 \/ CharAt(c, j) \in {SPACE, NUL}
           /\ \A k \in i .. j - 1 : k < TERM_BUFFER_SIZE - 1 /\ CharAt(c, k) \notin {SPACE, NUL}
<1>1. Len(c) \in Nat /\ CharAt(c, Len(c)) = NUL
  BY LenProperties DEF CharAt
<1> DEFINE Ends(j) == j >= TERM_BUFFER_SIZE - 1 \/ CharAt(c, j) \in {SPACE, NUL}
           W == {j \in i .. Len(c) : Ends(j)}
<1>2. W \subseteq Nat /\ W # {}
  <2>1. Len(c) \in W
    BY <1>1
  <2> QED BY <1>1, <2>1
<1>3. PICK j \in W : \A k \in W : j <= k
  <2> HIDE DEF W
  <2> QED BY <1>2, LeastNumber
<1>4. ASSUME NEW k \in i .. j - 1 PROVE k < TERM_BUFFER_SIZE - 1 /\ CharAt(c, k) \notin {SPACE, NUL}
  <2>1. k \in i .. Len(c) /\ ~(j <= k) /\ TERM_BUFFER_SIZE \in Int /\ k \in Int
    BY <1>1, <1>3, FilesAssumption
  <2>2. ~Ends(k)
    BY <1>3, <2>1
  <2> QED BY <2>1, <2>2
<1> QED BY <1>3, <1>4

\* The loops that skip spaces and that copy a word stop within the command.
LEMMA Searches ==
  ASSUME NEW c \in Seq(Chars), NEW i \in 0 .. Len(c)
  PROVE  /\ Skip(c, i) \in i .. Len(c)
         /\ WordEnd(c, i) \in i .. Len(c)
<1>1. Len(c) \in Nat /\ CharAt(c, Len(c)) = NUL /\ NUL # SPACE
  BY LenProperties DEF CharAt, NUL, SPACE
<1> DEFINE T == {j \in i .. Len(c) : CharAt(c, j) # SPACE}
<1>2. T \subseteq Nat /\ T # {}
  <2>1. Len(c) \in T
    BY <1>1
  <2> QED BY <1>1, <2>1
<1>3. \E j \in i .. Len(c) : /\ CharAt(c, j) # SPACE
                             /\ \A k \in i .. j - 1 : CharAt(c, k) = SPACE
  <2>1. PICK j \in T : \A k \in T : j <= k
    <3> HIDE DEF T
    <3> QED BY <1>2, LeastNumber
  <2>2. ASSUME NEW k \in i .. j - 1 PROVE CharAt(c, k) = SPACE
    <3>1. k \in i .. Len(c) /\ ~(j <= k)
      BY <1>1, <2>1
    <3> QED BY <2>1, <3>1
  <2> QED BY <2>1, <2>2
<1> QED BY <1>3, WordStops, Zenon DEF Skip, WordEnd

\* A part of a sequence is a sequence.
LEMMA PartIs ==
  ASSUME NEW c \in Seq(Chars), NEW i \in 1 .. Len(c) + 1, NEW j \in 0 .. Len(c)
  PROVE  SubSeq(c, i, j) \in Seq(Chars)
<1>1. i \in Int /\ j \in Int /\ Len(c) \in Nat
  BY LenProperties
<1>2. \A k \in i .. j : c[k] \in Chars
  <2> SUFFICES ASSUME NEW k \in i .. j PROVE c[k] \in Chars
    OBVIOUS
  <2>1. k \in 1 .. Len(c)
    BY <1>1
  <2> QED BY <2>1, ElementOfSeq
<1> QED BY <1>1, <1>2, SubSeqProperties

\* The states of the loop that copies arguments.
ArgStates(c) == [i : 0 .. Len(c), a : Seq(Chars)]

\* Copying one argument goes on within the command.
LEMMA NextArgIs ==
  ASSUME NEW c \in Seq(Chars), NEW was \in ArgStates(c)
  PROVE  NextArg(c, was) \in ArgStates(c)
<1> DEFINE end  == WordEnd(c, was.i)
           next == Skip(c, end)
           last == IF CharAt(c, next) = NUL THEN NUL ELSE SPACE
<1>1. was.i \in 0 .. Len(c) /\ was.a \in Seq(Chars) /\ Len(c) \in Nat
  BY LenProperties DEF ArgStates
<1>2. end \in was.i .. Len(c)
  BY <1>1, Searches
<1>3. end \in 0 .. Len(c)
  <2> HIDE DEF end
  <2> QED BY <1>1, <1>2
<1>4. next \in 0 .. Len(c)
  <2>1. next \in end .. Len(c)
    <3> HIDE DEF end
    <3> QED BY <1>3, Searches
  <2> HIDE DEF end, next
  <2> QED BY <1>1, <1>3, <2>1
<1>5. NextArg(c, was) = IF CharAt(c, was.i) = NUL THEN was
                        ELSE [i |-> next, a |-> was.a \o SubSeq(c, was.i + 1, end) \o <<last>>]
  BY Zenon DEF NextArg
<1> HIDE DEF end, next
<1>6. SubSeq(c, was.i + 1, end) \in Seq(Chars) /\ <<last>> \in Seq(Chars)
  <2>1. was.i + 1 \in 1 .. Len(c) + 1
    BY <1>1
  <2>2. last \in Chars
    BY DEF Chars
  <2> HIDE DEF last
  <2>3. \A S : \A x \in S : <<x>> \in Seq(S)
    OBVIOUS
  <2> QED BY <1>3, <2>1, <2>2, <2>3, PartIs
<1> HIDE DEF last
<1>7. was.a \o SubSeq(c, was.i + 1, end) \o <<last>> \in Seq(Chars)
  <2>1. was.a \o SubSeq(c, was.i + 1, end) \in Seq(Chars)
    BY <1>1, <1>6, ConcatProperties
  <2> QED BY <1>6, <2>1, ConcatProperties
<1> QED BY <1>4, <1>5, <1>7 DEF ArgStates

\* Whatever the command, what is copied for getargs is characters.
LEMMA ParseArgsIs ==
  ASSUME NEW c \in Seq(Chars), NEW i \in 0 .. Len(c)
  PROVE  ParseArgs(c, i) \in Seq(Chars)
<1> DEFINE max == MAX_NUM_ARGS
           S == ArgStates(c)
           first == [i |-> i, a |-> <<>>]
           Sol(m, f) == f = [n \in 0 .. m |-> IF n = 0 THEN first ELSE NextArg(c, f[n - 1])]
           G == {m \in 0 .. max : \E f : Sol(m, f)}
<1>0. max \in Nat
  BY FilesAssumption
<1>1. 0 \in G
  <2> DEFINE g == [n \in 0 .. 0 |-> first]
  <2>1. g = [n \in 0 .. 0 |-> IF n = 0 THEN first ELSE NextArg(c, g[n - 1])]
    OBVIOUS
  <2>2. Sol(0, g)
    BY <2>1
  <2> HIDE DEF g, Sol, max
  <2> QED BY <1>0, <2>2
<1>2. \A m \in 0 .. max - 1 : m \in G => m + 1 \in G
  <2> SUFFICES ASSUME NEW m \in 0 .. max - 1, m \in G PROVE m + 1 \in G
    OBVIOUS
  <2> HIDE DEF max, first
  <2>1. PICK f : Sol(m, f)
    OBVIOUS
  <2> DEFINE g == [n \in 0 .. m + 1 |-> IF n = m + 1 THEN NextArg(c, f[m]) ELSE f[n]]
  <2>2. ASSUME NEW n \in 0 .. m + 1
        PROVE  g[n] = IF n = 0 THEN first ELSE NextArg(c, g[n - 1])
    <3>1. CASE n = m + 1
      <4>1. n - 1 = m /\ m \in 0 .. m + 1 /\ m # m + 1 /\ n # 0
        BY <1>0, <3>1
      <4>2. g[n - 1] = f[m]
        BY <4>1
      <4> QED BY <3>1, <4>1, <4>2
    <3>2. CASE n # m + 1
      <4>1. n \in 0 .. m /\ g[n] = f[n]
        BY <1>0, <3>2
      <4>2. f[n] = IF n = 0 THEN first ELSE NextArg(c, f[n - 1])
        BY <4>1, <2>1
      <4>3. n # 0 => g[n - 1] = f[n - 1]
        BY <1>0, <4>1
      <4> QED BY <4>1, <4>2, <4>3
    <3> QED BY <3>1, <3>2
  <2>3. Sol(m + 1, g)
    <3>1. g = [n \in 0 .. m + 1 |-> g[n]]
      OBVIOUS
    <3> HIDE DEF g
    <3> QED BY <2>2, <3>1
  <2> HIDE DEF g, Sol
  <2>4. m + 1 \in 0 .. max
    BY <1>0
  <2> QED BY <2>3, <2>4
<1>3. PICK f : Sol(max, f) /\ ParseArgs(c, i) = f[max].a
  <2>1. \E f : Sol(max, f)
    <3> HIDE DEF G, Sol
    <3>1. max \in G
      <4> HIDE DEF max
      <4>1. \A m \in 0 .. max : m \in G
        <5> HIDE DEF G
        <5> QED BY <1>0, <1>1, <1>2, UpTo
      <4> QED BY <1>0, <4>1
    <3> QED BY <3>1 DEF G
  <2> QED BY <2>1, Zenon DEF ParseArgs
<1> DEFINE H == {n \in 0 .. max : f[n] \in S}
<1>4. f[0] = first /\ \A n \in 0 .. max - 1 : f[n + 1] = NextArg(c, f[n])
  <2> HIDE DEF first
  <2>1. \A n \in 0 .. max : f[n] = IF n = 0 THEN first ELSE NextArg(c, f[n - 1])
    BY <1>3, Zenon
  <2> HIDE DEF max, Sol
  <2>2. 0 \in 0 .. max /\ \A n \in 0 .. max - 1 : n + 1 \in 0 .. max /\ n + 1 # 0 /\ (n + 1) - 1 = n
    BY <1>0
  <2>3. f[0] = first
    BY <2>1, <2>2
  <2>4. ASSUME NEW n \in 0 .. max - 1 PROVE f[n + 1] = NextArg(c, f[n])
    BY <2>1, <2>2
  <2> QED BY <2>3, <2>4
<1>5. f[max] \in S
  <2>1. 0 \in H
    <3>1. first \in S
      BY EmptyIsString DEF ArgStates
    <3> HIDE DEF first, S, max
    <3> QED BY <1>0, <1>4, <3>1
  <2>2. \A n \in 0 .. max - 1 : n \in H => n + 1 \in H
    <3> SUFFICES ASSUME NEW n \in 0 .. max - 1, f[n] \in S PROVE f[n + 1] \in S
      <4> HIDE DEF S, max
      <4> QED BY <1>0
    <3> QED BY <1>4, NextArgIs
  <2> HIDE DEF max, H
  <2>3. \A n \in 0 .. max : n \in H
    BY <1>0, <2>1, <2>2, UpTo
  <2>4. max \in H
    BY <1>0, <2>3
  <2> QED BY <2>4 DEF H
<1>6. f[max].a \in Seq(Chars)
  <2> HIDE DEF max
  <2> QED BY <1>5 DEF ArgStates
<1> QED BY <1>3, <1>6

\* The command from its first word on, and the arguments in it.
LEMMA ArgumentsAre ==
  ASSUME NEW command \in Seq(Chars)
  PROVE  Trimmed(command) \in Seq(Chars) /\ Arguments(Trimmed(command)) \in Seq(Chars)
<1>1. Trimmed(command) \in Seq(Chars)
  <2>0. Len(command) \in Nat
    BY LenProperties
  <2>1. 0 \in 0 .. Len(command) /\ Len(command) \in 0 .. Len(command)
    BY <2>0
  <2>2. Skip(command, 0) \in 0 .. Len(command)
    BY <2>1, Searches
  <2>3. Skip(command, 0) + 1 \in 1 .. Len(command) + 1
    BY <2>0, <2>2
  <2> QED BY <2>1, <2>3, PartIs DEF Trimmed
<1> DEFINE c == Trimmed(command)
<1> HIDE DEF c
<1>2. c \in Seq(Chars) /\ Len(c) \in Nat
  BY <1>1, LenProperties DEF c
<1>3. 0 \in 0 .. Len(c)
  BY <1>2
<1>4. WordEnd(c, 0) \in 0 .. Len(c)
  BY <1>2, <1>3, Searches
<1>5. Skip(c, WordEnd(c, 0)) \in 0 .. Len(c)
  <2>1. Skip(c, WordEnd(c, 0)) \in WordEnd(c, 0) .. Len(c)
    BY <1>2, <1>4, Searches
  <2> QED BY <1>2, <1>4, <2>1
<1>6. Arguments(c) \in Seq(Chars)
  BY <1>2, <1>5, ParseArgsIs DEF Arguments
<1> QED BY <1>1, <1>6 DEF c

-----------------------------------------------------------------------------
(* Processes begin with the standard streams and nothing else.              *)

\* Inode 0 exists.
LEMMA ZeroInode == 0 \in Inodes
<1>1. Len(inodes) \in Nat \ {0}
  BY EntriesAre
<1> QED BY <1>1 DEF Inodes

\* The tables a process may begin with: the loader leaves its inode and its
\* position in a free descriptor.
BeginsWith(tbl) ==
  \/ tbl = pcb_setup
  \/ \E ino \in Inodes, p \in Nat :
        tbl = [pcb_setup EXCEPT ![2] = [NOT_IN_USE EXCEPT !.inode = ino, !.file_position = p]]

\* Such a table has the standard streams and no other descriptor in use.
LEMMA FirstTable ==
  ASSUME NEW tbl, BeginsWith(tbl)
  PROVE  /\ tbl \in [Fds -> Descriptors]
         /\ \A fd \in Fds : fd >= 2 => tbl[fd].flags = "NOT_IN_USE"
         /\ \A fd \in Fds : ~(fd >= 2) => /\ tbl[fd].flags = "IN_USE"
                                         /\ tbl[fd].file_ops = IF fd = 0 THEN "stdin" ELSE "stdout"
<1>1. /\ NOT_IN_USE \in Descriptors /\ NOT_IN_USE.flags = "NOT_IN_USE"
      /\ Entry("stdin", 0) \in Descriptors /\ Entry("stdout", 0) \in Descriptors
      /\ Entry("stdin", 0).flags = "IN_USE" /\ Entry("stdin", 0).file_ops = "stdin"
      /\ Entry("stdout", 0).flags = "IN_USE" /\ Entry("stdout", 0).file_ops = "stdout"
  BY ZeroInode DEF NOT_IN_USE, Entry, Descriptors
<1>2. /\ pcb_setup \in [Fds -> Descriptors]
      /\ \A fd \in Fds : fd >= 2 => pcb_setup[fd] = NOT_IN_USE
      /\ \A fd \in Fds : ~(fd >= 2) => pcb_setup[fd] = IF fd = 0 THEN Entry("stdin", 0) ELSE Entry("stdout", 0)
  BY <1>1, FdsAre DEF pcb_setup
<1>3. CASE tbl = pcb_setup
  BY <1>1, <1>2, <1>3
<1>4. CASE tbl # pcb_setup
  <2>1. PICK ino \in Inodes, p \in Nat :
          tbl = [pcb_setup EXCEPT ![2] = [NOT_IN_USE EXCEPT !.inode = ino, !.file_position = p]]
    BY <1>4 DEF BeginsWith
  <2> DEFINE entry == [NOT_IN_USE EXCEPT !.inode = ino, !.file_position = p]
  <2>2. entry \in Descriptors /\ entry.flags = "NOT_IN_USE"
    BY DEF NOT_IN_USE, Descriptors
  <2> HIDE DEF entry
  <2>3. tbl = [pcb_setup EXCEPT ![2] = entry]
    BY <2>1 DEF entry
  <2> QED BY <1>1, <1>2, <2>2, <2>3, FdsAre
<1> QED BY <1>3, <1>4

\* A process that begins with such a table satisfies the invariant ...
LEMMA NewTable ==
  ASSUME BeginsWith(fd_table'), opened' = NoFiles, got' = NoFiles, args' \in Seq(Chars), halted' = FALSE
  PROVE  TableInv'
<1>1. TableType'
  BY FirstTable, EmptyIsString DEF TableType, NoFiles
<1>2. ASSUME NEW fd \in Fds PROVE FdSound(fd)'
  <2>1. CASE fd >= 2
    <3>1. ~Used(fd)' /\ ~(fd < 2)
      BY <2>1, FirstTable, FdsAre DEF Used
    <3> QED BY <3>1 DEF FdSound
  <2>2. CASE ~(fd >= 2)
    BY <2>2, FirstTable DEF FdSound, Used
  <2> QED BY <2>1, <2>2
<1> QED BY <1>1, <1>2 DEF TableInv

\* ... and so does the first shell.
LEMMA FreshTable == Fresh => TableInv
<1> SUFFICES ASSUME Fresh PROVE TableInv
  OBVIOUS
<1>1. /\ BeginsWith(fd_table) /\ fd_table = pcb_setup /\ halted = FALSE
      /\ opened = NoFiles /\ got = NoFiles /\ args = <<>>
  BY DEF Fresh, BeginsWith
<1>2. TableType
  BY <1>1, FirstTable, EmptyIsString DEF TableType, NoFiles
<1>3. ASSUME NEW fd \in Fds PROVE FdSound(fd)
  <2>1. CASE fd >= 2
    <3>1. ~Used(fd) /\ ~(fd < 2)
      BY <1>1, <2>1, FirstTable, FdsAre DEF Used
    <3> QED BY <3>1 DEF FdSound
  <2>2. CASE ~(fd >= 2)
    BY <1>1, <2>2, FirstTable DEF FdSound, Used
  <2> QED BY <2>1, <2>2
<1> QED BY <1>1, <1>2, <1>3 DEF TableInv

\* execute: the child's table, or the parent's as it was.
LEMMA ExecuteTable ==
  ASSUME TableInv, NEW command \in Seq(Chars), system_execute(command)
  PROVE  TableInv'
<1> DEFINE c == Trimmed(command)  fname == Filename(c)
<1>1. CASE Loads(fname)
  <2>1. PICK i \in Entries : /\ read_dentry_by_name(fname) = dir_entries[i]
                             /\ dir_entries[i].inode_num \in Inodes
    <3>1. Matches(fname) # {}
      BY <1>1 DEF Loads
    <3> HIDE DEF fname
    <3> QED BY <3>1, LookupIs
  <2> DEFINE ino == dir_entries[i].inode_num
             p == inodes[ino + 1].length
  <2>2. ino \in Inodes /\ p \in Nat
    BY <2>1, ImageIs
  <2>3. /\ fd_table' = LoaderTable(fname) /\ args' = Arguments(c)
        /\ opened' = NoFiles /\ got' = NoFiles /\ halted' = halted /\ ~halted
    BY <1>1, Zenon DEF system_execute
  <2>4. LoaderTable(fname) = [pcb_setup EXCEPT ![2] = [NOT_IN_USE EXCEPT !.inode = ino, !.file_position = p]]
    BY <2>1, Zenon DEF LoaderTable
  <2>5. args' \in Seq(Chars) /\ halted' = FALSE
    BY <2>3, ArgumentsAre DEF TableInv, TableType
  <2> HIDE DEF ino, p, fname, c
  <2>6. BeginsWith(fd_table')
    BY <2>2, <2>3, <2>4 DEF BeginsWith
  <2> QED BY <2>3, <2>5, <2>6, NewTable
<1>2. CASE ~Loads(fname)
  <2>1. UNCHANGED <<fd_table, args, opened, got, halted>>
    BY <1>2, Zenon DEF system_execute
  <2> QED BY <2>1, SameTable
<1> QED BY <1>1, <1>2

\* A shell that goes on has only the standard streams.
LEMMA ReturnTable == return_from_exec => TableInv'
<1> SUFFICES ASSUME return_from_exec PROVE TableInv'
  OBVIOUS
<1>1. /\ BeginsWith(fd_table') /\ halted' = FALSE
      /\ opened' = NoFiles /\ got' = NoFiles /\ args' = <<>>
  BY DEF return_from_exec, BeginsWith
<1> QED BY <1>1, NewTable, EmptyIsString

-----------------------------------------------------------------------------
(* The memory of the programs, as far as it decides which calls they make.  *)

Fields == {"dir", "fd", "name", "data", "last", "clean", "from"}

\* The calls of syserr: only opens are made with a name.
Calls ==
  [op : {"read", "write", "close", "close_lots", "vidmap"}, arg : Int \cup {"null", "kernel"}]
  \cup [op : {"open", "lots"}, arg : CStrings]

MemInv ==
  /\ DOMAIN mem = Fields
  /\ prog = "grep" /\ pc = "open" => mem.name \in CStrings
  /\ prog = "grep" /\ pc = "file" => mem.last \in 0 .. BUFSIZE
  /\ prog = "syserr" /\ pc = "loop" => mem.data \in Seq(Calls)

ProgramsInv == TableInv /\ MemInv

\* A step that makes no call on files.
LEMMA SameVars ==
  ASSUME TableInv, UNCHANGED vars
  PROVE  TableInv'
  BY SameTable DEF vars

\* Returning from main leaves the memory alone.
LEMMA ReturnMem ==
  ASSUME MemInv, NEW status, NEW written, Return(status, written)
  PROVE  MemInv'
  BY DEF MemInv, Return

\* An open that a program makes: it goes on, or complains and returns.
LEMMA OpenOrStep ==
  ASSUME ProgramsInv, NEW fname \in CStrings, NEW next, NEW m, NEW complaint, NEW status,
         OpenOr(fname, next, m, complaint, status)
  PROVE  /\ TableInv' /\ prog' = prog
         /\ (pc' = "done" /\ MemInv') \/ (pc' = next /\ mem' = m)
<1>1. TableInv'
  BY OpenTable DEF OpenOr, ProgramsInv
<1>2. CASE OpenResult(fname) = -1
  <2>1. Return(status, <<complaint>>)
    BY <1>2 DEF OpenOr
  <2> QED BY <1>1, <2>1, ReturnMem DEF ProgramsInv, Return
<1>3. CASE OpenResult(fname) # -1
  BY <1>1, <1>3 DEF OpenOr
<1> QED BY <1>2, <1>3

\* The name of the directory is a string.
LEMMA DotIsString == <<".">> \in CStrings
<1> DEFINE A == Chars \ {NUL}
<1>1. "." \in A
  BY DEF Chars, NUL
<1>2. \A S : \A x \in S : <<x>> \in Seq(S)
  OBVIOUS
<1> HIDE DEF A
<1>3. <<".">> \in Seq(A)
  BY <1>1, <1>2
<1> QED BY <1>3 DEF A, CStrings

\* The argument of a program is a string.
LEMMA ArgumentIs ==
  ASSUME TableInv
  PROVE  /\ StringAt(args, 0) \in CStrings
         /\ system_getargs(BUFSIZE) # <<>> => StringAt(system_getargs(BUFSIZE), 0) \in CStrings
<1>1. StringAt(args, 0) \in CStrings
  BY StringAtIs DEF TableInv, TableType
<1>2. system_getargs(BUFSIZE) # <<>> => system_getargs(BUFSIZE) = args
  BY DEF system_getargs
<1> QED BY <1>1, <1>2

\* cat
LEMMA CatStep ==
  ASSUME ProgramsInv, cat_start \/ cat_read
  PROVE  ProgramsInv'
<1>0. TableInv /\ MemInv /\ BUFSIZE \in Int
  BY ProgramsAssumption DEF ProgramsInv
<1>1. CASE cat_start
  <2>1. CASE system_getargs(BUFSIZE) = <<>>
    <3>1. UNCHANGED vars /\ Return(3, <<"could not read arguments">>)
      BY <1>1, <2>1 DEF cat_start
    <3> QED BY <1>0, <3>1, SameVars, ReturnMem DEF ProgramsInv
  <2>2. CASE system_getargs(BUFSIZE) # <<>>
    <3> DEFINE name == StringAt(system_getargs(BUFSIZE), 0)
               m == [mem EXCEPT !.fd = OpenResult(name)]
    <3>1. name \in CStrings
      BY <1>0, <2>2, ArgumentIs
    <3>2. prog = "cat" /\ OpenOr(name, "loop", m, "file not found", 2)
      BY <1>1, <2>2 DEF cat_start
    <3>3. DOMAIN m = Fields
      BY <1>0 DEF MemInv
    <3> HIDE DEF name, m
    <3>4. /\ TableInv' /\ prog' = prog
          /\ (pc' = "done" /\ MemInv') \/ (pc' = "loop" /\ mem' = m)
      BY <3>1, <3>2, OpenOrStep
    <3> QED BY <3>2, <3>3, <3>4 DEF ProgramsInv, MemInv
  <2> QED BY <2>1, <2>2
<1>2. CASE cat_read
  <2>1. TableInv'
    BY <1>0, <1>2, ReadTable DEF cat_read
  <2>2. MemInv'
    <3>1. CASE ReadResult(mem.fd, BUFSIZE) = <<>>
      <4>1. Return(0, <<>>)
        BY <1>2, <3>1 DEF cat_read
      <4> QED BY <1>0, <4>1, ReturnMem
    <3>2. CASE ReadResult(mem.fd, BUFSIZE) # <<>>
      <4>1. UNCHANGED <<prog, pc, mem>>
        BY <1>2, <3>2 DEF cat_read
      <4> QED BY <1>0, <4>1 DEF MemInv
    <3> QED BY <3>1, <3>2
  <2> QED BY <2>1, <2>2 DEF ProgramsInv
<1> QED BY <1>1, <1>2

\* ls
LEMMA LsStep ==
  ASSUME ProgramsInv, ls_start \/ ls_read
  PROVE  ProgramsInv'
<1>0. TableInv /\ MemInv /\ FILENAME_LEN \in Int
  BY FilesAssumption DEF ProgramsInv
<1>1. CASE ls_start
  <2> DEFINE m == [mem EXCEPT !.fd = OpenResult(<<".">>)]
  <2>1. prog = "ls" /\ OpenOr(<<".">>, "loop", m, "directory open failed", 2)
    BY <1>1 DEF ls_start
  <2>2. DOMAIN m = Fields
    BY <1>0 DEF MemInv
  <2> HIDE DEF m
  <2>3. /\ TableInv' /\ prog' = prog
        /\ (pc' = "done" /\ MemInv') \/ (pc' = "loop" /\ mem' = m)
    BY <2>1, DotIsString, OpenOrStep
  <2> QED BY <2>1, <2>2, <2>3 DEF ProgramsInv, MemInv
<1>2. CASE ls_read
  <2>1. TableInv'
    BY <1>0, <1>2, ReadTable DEF ls_read
  <2>2. MemInv'
    <3>1. CASE ReadResult(mem.fd, FILENAME_LEN) = <<>>
      <4>1. Return(0, <<>>)
        BY <1>2, <3>1 DEF ls_read
      <4> QED BY <1>0, <4>1, ReturnMem
    <3>2. CASE ReadResult(mem.fd, FILENAME_LEN) # <<>>
      <4>1. UNCHANGED <<prog, pc, mem>>
        BY <1>2, <3>2 DEF ls_read
      <4> QED BY <1>0, <4>1 DEF MemInv
    <3> QED BY <3>1, <3>2
  <2> QED BY <2>1, <2>2 DEF ProgramsInv
<1> QED BY <1>1, <1>2

\* What is left in grep's buffer is no more than what was in it.
LEMMA RestIs ==
  ASSUME NEW m, DOMAIN m = Fields, m.last \in 0 .. BUFSIZE, NEW cnt
  PROVE  DOMAIN Rest(m, cnt) = Fields /\ Rest(m, cnt).last \in 0 .. BUFSIZE
<1>0. BUFSIZE \in Nat
  BY ProgramsAssumption
<1> DEFINE ends == {LineEnd(m, i) + 1 : i \in LineStarts(m)}
           data == [k \in DOMAIN m.data |-> IF k \in ends THEN NUL ELSE m.data[k]]
           kept == {i \in LineStarts(m) : Keep(m, cnt, i)}
           first == CHOOSE i \in kept : TRUE
           moved == ece391_strcpy(data, first)
<1>1. Rest(m, cnt) = IF kept = {} THEN [m EXCEPT !.data = data, !.last = 0]
                     ELSE [m EXCEPT !.data = moved, !.last = @ - first]
  BY Zenon DEF Rest
<1>2. \A i \in kept : i \in Int /\ 0 <= i /\ i <= m.last
  <2>1. LineStarts(m) \subseteq 0 .. m.last
    BY <1>0 DEF LineStarts
  <2> QED BY <1>0, <2>1
<1> HIDE DEF data, kept, moved
<1>3. kept # {} => first \in Int /\ 0 <= first /\ first <= m.last
  BY <1>2
<1> HIDE DEF first
<1>4. "last" \in DOMAIN m /\ "data" \in DOMAIN m /\ "last" # "data"
  BY DEF Fields
<1>5. CASE kept = {}
  <2>1. Rest(m, cnt) = [m EXCEPT !.data = data, !.last = 0]
    BY <1>1, <1>5
  <2>2. 0 \in 0 .. BUFSIZE
    BY <1>0
  <2> QED BY <1>4, <2>1, <2>2
<1>6. CASE kept # {}
  <2>1. Rest(m, cnt) = [m EXCEPT !.data = moved, !.last = @ - first]
    BY <1>1, <1>6
  <2>2. m.last - first \in 0 .. BUFSIZE
    BY <1>0, <1>3, <1>6
  <2> QED BY <1>4, <2>1, <2>2
<1> QED BY <1>5, <1>6

\* grep
LEMMA GrepStep ==
  ASSUME ProgramsInv, grep_start \/ grep_name \/ grep_open \/ grep_read \/ grep_close
  PROVE  ProgramsInv'
<1>0. TableInv /\ MemInv /\ FILENAME_LEN \in Nat /\ BUFSIZE \in Nat
  BY FilesAssumption, ProgramsAssumption DEF ProgramsInv
<1>1. CASE grep_start
  <2>1. CASE system_getargs(BUFSIZE) = <<>>
    <3>1. UNCHANGED vars /\ Return(3, <<"could not read argument">>)
      BY <1>1, <2>1 DEF grep_start
    <3> QED BY <1>0, <3>1, SameVars, ReturnMem DEF ProgramsInv
  <2>2. CASE system_getargs(BUFSIZE) # <<>>
    <3> DEFINE m == [mem EXCEPT !.dir = OpenResult(<<".">>)]
    <3>1. prog = "grep" /\ OpenOr(<<".">>, "loop", m, "directory open failed", 2)
      BY <1>1, <2>2 DEF grep_start
    <3>2. DOMAIN m = Fields
      BY <1>0 DEF MemInv
    <3> HIDE DEF m
    <3>3. /\ TableInv' /\ prog' = prog
          /\ (pc' = "done" /\ MemInv') \/ (pc' = "loop" /\ mem' = m)
      BY <3>1, DotIsString, OpenOrStep
    <3> QED BY <3>1, <3>2, <3>3 DEF ProgramsInv, MemInv
  <2> QED BY <2>1, <2>2
<1>2. CASE grep_name
  <2> DEFINE name == ReadResult(mem.dir, FILENAME_LEN)
  <2>0. prog = "grep" /\ pc = "loop" /\ system_read(mem.dir, FILENAME_LEN)
    BY <1>2 DEF grep_name
  <2>1. TableInv'
    BY <1>0, <2>0, ReadTable
  <2>2. name \in Seq(Chars)
    BY <1>0, <2>0, ReadResultIs DEF system_read
  <2>3. CASE name = <<>>
    <3>1. Return(0, <<>>)
      BY <1>2, <2>3 DEF grep_name
    <3> QED BY <1>0, <2>1, <3>1, ReturnMem DEF ProgramsInv
  <2>4. CASE name # <<>> /\ name[1] = "."
    <3>1. UNCHANGED <<prog, pc, mem>>
      BY <1>2, <2>4 DEF grep_name
    <3> QED BY <1>0, <2>1, <3>1 DEF ProgramsInv, MemInv
  <2>5. CASE name # <<>> /\ name[1] # "."
    <3>1. pc' = "open" /\ mem' = [mem EXCEPT !.name = StringAt(name, 0)] /\ prog' = prog
      BY <1>2, <2>5 DEF grep_name
    <3> DEFINE str == StringAt(name, 0)
    <3>2. str \in CStrings
      <4> HIDE DEF name
      <4> QED BY <2>2, StringAtIs
    <3> HIDE DEF str, name
    <3>3. mem' = [mem EXCEPT !.name = str]
      BY <3>1 DEF str
    <3>4. DOMAIN mem' = Fields /\ mem'.name = str
      BY <1>0, <3>3 DEF MemInv, Fields
    <3> QED BY <2>1, <3>1, <3>2, <3>4 DEF ProgramsInv, MemInv
  <2> QED BY <2>3, <2>4, <2>5
<1>3. CASE grep_open
  <2>1. PICK d \in [1 .. BUFSIZE + 1 -> Junk] :
          OpenOr(mem.name, "file",
                 [mem EXCEPT !.fd = OpenResult(mem.name), !.data = d, !.last = 0,
                             !.clean = d[BUFSIZE + 1] # NL, !.from = Len(out)],
                 "file open failed", 3)
    BY <1>3 DEF grep_open
  <2> DEFINE m == [mem EXCEPT !.fd = OpenResult(mem.name), !.data = d, !.last = 0,
                             !.clean = d[BUFSIZE + 1] # NL, !.from = Len(out)]
  <2>2. prog = "grep" /\ mem.name \in CStrings
    BY <1>0, <1>3 DEF grep_open, MemInv
  <2>3. DOMAIN m = Fields /\ m.last = 0
    <3> DEFINE a == OpenResult(mem.name)  b == d[BUFSIZE + 1] # NL  l == Len(out)
    <3>1. m = [mem EXCEPT !.fd = a, !.data = d, !.last = 0, !.clean = b, !.from = l]
      OBVIOUS
    <3>2. DOMAIN mem = Fields
      BY <1>0 DEF MemInv
    <3> HIDE DEF m, a, b, l
    <3> QED BY <3>1, <3>2 DEF Fields
  <2> HIDE DEF m
  <2>4. OpenOr(mem.name, "file", m, "file open failed", 3)
    BY <2>1, Zenon DEF m
  <2>5. /\ TableInv' /\ prog' = prog
        /\ (pc' = "done" /\ MemInv') \/ (pc' = "file" /\ mem' = m)
    BY <2>2, <2>4, OpenOrStep
  <2>6. 0 \in 0 .. BUFSIZE
    BY <1>0
  <2> QED BY <2>2, <2>3, <2>5, <2>6 DEF ProgramsInv, MemInv
<1>4. CASE grep_read
  <2> DEFINE bytes == ReadResult(mem.fd, BUFSIZE - mem.last)
             m == Fill(mem, bytes)
  <2>1. /\ prog = "grep" /\ pc = "file" /\ system_read(mem.fd, BUFSIZE - mem.last)
        /\ mem' = Rest(m, Len(bytes)) /\ pc' \in {"close", "file"} /\ prog' = prog
    BY <1>4 DEF grep_read
  <2>2. DOMAIN mem = Fields /\ mem.last \in 0 .. BUFSIZE
    BY <1>0, <2>1 DEF MemInv
  <2>3. BUFSIZE - mem.last \in Nat /\ InUse(mem.fd)
    BY <1>0, <2>1, <2>2 DEF system_read
  <2>4. TableInv'
    BY <1>0, <2>1, <2>3, ReadTable
  <2>5. Len(bytes) \in 0 .. BUFSIZE - mem.last
    BY <1>0, <2>3, ReadResultIs
  <2>6. DOMAIN m = Fields /\ m.last \in 0 .. BUFSIZE
    <3> DEFINE data == SubSeq(mem.data, 1, mem.last) \o bytes
                       \o SubSeq(mem.data, mem.last + Len(bytes) + 1, Len(mem.data))
    <3>1. m = [mem EXCEPT !.last = @ + Len(bytes), !.data = data]
      BY Zenon DEF Fill
    <3> HIDE DEF data, m, bytes
    <3>2. mem.last + Len(bytes) \in 0 .. BUFSIZE
      BY <1>0, <2>2, <2>5
    <3>3. "last" \in Fields /\ "data" \in Fields
      BY DEF Fields
    <3> QED BY <2>2, <3>1, <3>2, <3>3
  <2> HIDE DEF m, bytes
  <2>7. DOMAIN mem' = Fields /\ mem'.last \in 0 .. BUFSIZE
    BY <2>1, <2>6, RestIs
  <2> QED BY <2>1, <2>4, <2>7 DEF ProgramsInv, MemInv
<1>5. CASE grep_close
  <2>1. TableInv'
    BY <1>0, <1>5, CloseTable DEF grep_close
  <2>2. prog' = prog /\ prog = "grep" /\ pc' = "loop" /\ DOMAIN mem' = Fields
    BY <1>5 DEF grep_close, NoMem, Fields
  <2> QED BY <2>1, <2>2 DEF ProgramsInv, MemInv
<1> QED BY <1>1, <1>2, <1>3, <1>4, <1>5

\* counter makes no call on files.
LEMMA CounterStep ==
  ASSUME ProgramsInv, counter_start \/ counter_print
  PROVE  ProgramsInv'
<1>0. TableInv /\ MemInv
  BY DEF ProgramsInv
<1>1. prog = "counter" /\ UNCHANGED vars
  BY DEF counter_start, counter_print
<1>2. MemInv'
  <2>1. CASE \E status, written : Return(status, written)
    BY <1>0, <2>1, ReturnMem
  <2>2. CASE ~\E status, written : Return(status, written)
    <3>1. prog' = prog /\ DOMAIN mem' = DOMAIN mem
      <4>1. CASE counter_start
        BY <2>2, <4>1 DEF counter_start
      <4>2. CASE counter_print
        BY <2>2, <4>2 DEF counter_print
      <4> QED BY <4>1, <4>2
    <3> QED BY <1>0, <1>1, <3>1 DEF MemInv
  <2> QED BY <2>1, <2>2
<1> QED BY <1>0, <1>1, <1>2, SameVars DEF ProgramsInv

-----------------------------------------------------------------------------
(* syserr: the calls of every test.                                         *)

\* Calls of syserr, by operation.
LEMMA CallIs ==
  /\ \A op \in {"read", "write", "close", "close_lots", "vidmap"}, a \in Int \cup {"null", "kernel"} :
        Call(op, a) \in Calls
  /\ \A op \in {"open", "lots"}, a \in CStrings : Call(op, a) \in Calls
  BY DEF Call, Calls

\* A call for each descriptor.
LEMMA EachIs ==
  ASSUME NEW op \in {"read", "write", "close", "close_lots", "vidmap"}, NEW lo \in 0 .. 2
  PROVE  Each(op, lo, FD_ARRAY_SIZE - 1) \in Seq(Calls)
<1> DEFINE n == (FD_ARRAY_SIZE - 1) + 1 - lo
<1>1. n \in Nat
  BY FilesAssumption
<1>2. Each(op, lo, FD_ARRAY_SIZE - 1) = [i \in 1 .. n |-> Call(op, lo + i - 1)]
  BY DEF Each
<1> HIDE DEF n
<1>3. ASSUME NEW i \in 1 .. n PROVE Call(op, lo + i - 1) \in Calls
  <2>1. lo + i - 1 \in Int
    BY <1>1
  <2> QED BY <2>1, CallIs
<1> DEFINE C == Calls
<1>4. [i \in 1 .. n |-> Call(op, lo + i - 1)] \in [1 .. n -> C]
  BY <1>3
<1> HIDE DEF C
<1>5. \A s \in [1 .. n -> C] : s \in Seq(C)
  BY <1>1
<1>6. Each(op, lo, FD_ARRAY_SIZE - 1) \in Seq(C)
  BY <1>2, <1>4, <1>5
<1> QED BY <1>6 DEF C

\* All of its tests are sequences of such calls, and so is the test of them all.
LEMMA TestsAre ==
  /\ Tests \in Seq(Seq(Calls)) /\ Len(Tests) = 7 /\ FlattenSeq(Tests) \in Seq(Calls)
<1> DEFINE C == Calls
<1>1. \A a, b, c \in C : <<a, b, c>> \in Seq(C) /\ <<a, b>> \in Seq(C)
  <2> HIDE DEF C
  <2> QED OBVIOUS
<1>2. /\ NEG_FD \in Int /\ BIG_FD \in Int
      /\ \A op \in {"read", "write", "close", "close_lots", "vidmap"}, a \in Int \cup {"null", "kernel"} :
            Call(op, a) \in C
  BY CallIs DEF NEG_FD, BIG_FD
<1>3. \A fd \in Int : BadFd(fd) \in Seq(C)
  <2> SUFFICES ASSUME NEW fd \in Int PROVE BadFd(fd) \in Seq(C)
    OBVIOUS
  <2>1. Call("read", fd) \in C /\ Call("write", fd) \in C /\ Call("close", fd) \in C
    BY <1>2
  <2> HIDE DEF C
  <2> QED BY <1>1, <2>1 DEF BadFd
<1>4. err_vidmap \in Seq(C) /\ err_stdin_out \in Seq(C)
  <2>1. /\ Call("vidmap", "null") \in C /\ Call("vidmap", "kernel") \in C
        /\ Call("write", 0) \in C /\ Call("read", 1) \in C
    BY DEF Call, Calls
  <2> HIDE DEF C
  <2> QED BY <1>1, <2>1 DEF err_vidmap, err_stdin_out
<1>5. /\ Each("close_lots", 2, FD_ARRAY_SIZE - 1) \in Seq(C)
      /\ Each("close", 0, FD_ARRAY_SIZE - 1) \in Seq(C)
      /\ Each("read", 2, FD_ARRAY_SIZE - 1) \in Seq(C)
      /\ Each("write", 2, FD_ARRAY_SIZE - 1) \in Seq(C)
  <2>1. 0 \in 0 .. 2 /\ 2 \in 0 .. 2
    OBVIOUS
  <2> QED BY <2>1, EachIs
<1>6. err_open_lots \in Seq(C)
  <2> DEFINE n == FD_ARRAY_SIZE - 1
             lots == [i \in 1 .. n |-> Call("lots", <<".">>)]
  <2>1. n \in Nat
    BY FilesAssumption
  <2>2. Call("lots", <<".">>) \in C
    BY CallIs, DotIsString
  <2> HIDE DEF C, n
  <2>3. lots \in [1 .. n -> C]
    BY <2>2
  <2>4. \A s \in [1 .. n -> C] : s \in Seq(C)
    BY <2>1
  <2>5. lots \in Seq(C)
    BY <2>3, <2>4
  <2>6. err_open_lots = lots \o Each("close_lots", 2, FD_ARRAY_SIZE - 1)
    BY DEF err_open_lots, n
  <2> HIDE DEF lots
  <2> QED BY <1>5, <2>5, <2>6, ConcatProperties
<1>7. err_open \in Seq(C)
  <2> DEFINE n == Len(WrongNames)  Str == Strings
  <2>1. WrongNames \in Seq(Str)
    BY ProgramsAssumption
  <2> HIDE DEF Str
  <2>2. n \in Nat /\ DOMAIN WrongNames = 1 .. n
    BY <2>1, LenProperties
  <2>3. ASSUME NEW i \in 1 .. n PROVE Call("open", WrongNames[i]) \in C
    <3>1. WrongNames[i] \in Strings
      BY <2>1, ElementOfSeq DEF Str
    <3>2. WrongNames[i] \in CStrings
      BY <3>1, StringsAreChars
    <3> QED BY <3>2, CallIs
  <2> HIDE DEF C, n
  <2>4. err_open = [i \in 1 .. n |-> Call("open", WrongNames[i])]
    BY <2>2 DEF err_open
  <2>5. err_open \in [1 .. n -> C]
    BY <2>3, <2>4
  <2>6. \A s \in [1 .. n -> C] : s \in Seq(C)
    BY <2>2
  <2> QED BY <2>5, <2>6
<1>8. err_unopened \in Seq(C)
  <2> DEFINE a == Each("close", 0, FD_ARRAY_SIZE - 1)
             b == Each("read", 2, FD_ARRAY_SIZE - 1)
             c == Each("write", 2, FD_ARRAY_SIZE - 1)
  <2>1. a \in Seq(C) /\ b \in Seq(C) /\ c \in Seq(C)
    BY <1>5
  <2>2. err_unopened = a \o b \o c
    BY DEF err_unopened
  <2> HIDE DEF C, a, b, c
  <2>3. a \o b \in Seq(C)
    BY <2>1, ConcatProperties
  <2>4. (a \o b) \o c \in Seq(C)
    BY <2>1, <2>3, ConcatProperties
  <2> QED BY <2>2, <2>4
<1>9. err_neg_fd \in Seq(C) /\ err_big_fd \in Seq(C)
  BY <1>2, <1>3 DEF err_neg_fd, err_big_fd
<1> HIDE DEF C
<1>10. Tests \in Seq(Seq(C)) /\ Len(Tests) = 7
  <2> DEFINE D == Seq(C)
  <2>1. \A a, b, c, d, e, f, g \in D : <<a, b, c, d, e, f, g>> \in Seq(D) /\ Len(<<a, b, c, d, e, f, g>>) = 7
    <3> HIDE DEF D
    <3> QED OBVIOUS
  <2>2. /\ err_neg_fd \in D /\ err_big_fd \in D /\ err_open_lots \in D /\ err_open \in D
        /\ err_unopened \in D /\ err_vidmap \in D /\ err_stdin_out \in D
    BY <1>4, <1>6, <1>7, <1>8, <1>9
  <2> HIDE DEF D
  <2>3. Tests \in Seq(D) /\ Len(Tests) = 7
    BY <2>1, <2>2 DEF Tests
  <2> QED BY <2>3 DEF D
<1>11. FlattenSeq(Tests) \in Seq(C)
  BY <1>10, FlattenType
<1> QED BY <1>10, <1>11 DEF C

\* syserr: the next call on its list.
LEMMA SyserrStep ==
  ASSUME ProgramsInv, syserr_start \/ syserr_call
  PROVE  ProgramsInv'
<1>0. TableInv /\ MemInv
  BY DEF ProgramsInv
<1>1. CASE syserr_start
  <2>1. PICK select \in 0 .. Len(Tests) :
          mem' = [mem EXCEPT !.data = IF select = 0 THEN FlattenSeq(Tests) ELSE Tests[select],
                             !.last = IF select \in {0, 3} THEN 0 ELSE 1]
    BY <1>1 DEF syserr_start
  <2> DEFINE C == Calls
             calls == IF select = 0 THEN FlattenSeq(Tests) ELSE Tests[select]
             count == IF select \in {0, 3} THEN 0 ELSE 1
  <2>2. calls \in Seq(C)
    <3>1. select # 0 => select \in 1 .. Len(Tests)
      BY TestsAre
    <3>2. Tests \in Seq(Seq(C)) /\ FlattenSeq(Tests) \in Seq(C)
      BY TestsAre
    <3> HIDE DEF C
    <3>3. select # 0 => Tests[select] \in Seq(C)
      BY <3>1, <3>2, ElementOfSeq
    <3> QED BY <3>2, <3>3
  <2>3. mem' = [mem EXCEPT !.data = calls, !.last = count]
    BY <2>1
  <2> HIDE DEF calls, count
  <2>4. DOMAIN mem' = Fields /\ mem'.data = calls
    BY <1>0, <2>3 DEF MemInv, Fields
  <2>5. prog' = "syserr" /\ pc' = "loop" /\ UNCHANGED vars
    BY <1>1 DEF syserr_start
  <2> QED BY <1>0, <2>2, <2>4, <2>5, SameVars DEF ProgramsInv, MemInv
<1>2. CASE syserr_call
  <2>1. CASE mem.data = <<>>
    <3>1. UNCHANGED vars /\ Return(IF mem.last = 1 THEN rval ELSE 2, <<>>)
      BY <1>2, <2>1 DEF syserr_call
    <3> QED BY <1>0, <3>1, SameVars, ReturnMem DEF ProgramsInv
  <2>2. CASE mem.data # <<>>
    <3> DEFINE c == Head(mem.data)
               rest == Tail(mem.data)
               count == IF c.op = "lots" /\ Fails(c) THEN mem.last + 1 ELSE mem.last
    <3>1. prog = "syserr" /\ pc = "loop" /\ Effect(c) /\ UNCHANGED <<prog, pc>>
      BY <1>2, <2>2 DEF syserr_call
    <3>2. mem' = [mem EXCEPT !.data = rest, !.last = count]
      BY <1>2, <2>2, Zenon DEF syserr_call
    <3>3. DOMAIN mem = Fields /\ mem.data \in Seq(Calls)
      BY <1>0, <3>1 DEF MemInv
    <3>4. c \in Calls /\ rest \in Seq(Calls)
      BY <2>2, <3>3, HeadTailProperties
    <3> HIDE DEF c, rest, count
    <3>5. DOMAIN mem' = Fields /\ mem'.data = rest
      BY <3>2, <3>3 DEF Fields
    <3>6. TableInv'
      <4>1. CASE c.op \in {"close", "close_lots"} /\ ~CloseFails(c.arg)
        <5>1. system_close(c.arg)
          BY <3>1, <4>1, Zenon DEF Effect
        <5> QED BY <1>0, <5>1, CloseTable
      <4>2. CASE c.op \in {"open", "lots"}
        <5>1. system_open(c.arg)
          BY <3>1, <4>2, Zenon DEF Effect
        <5>2. c.arg \in CStrings
          BY <3>4, <4>2 DEF Calls
        <5> QED BY <1>0, <5>1, <5>2, OpenTable
      <4>3. CASE ~(c.op \in {"close", "close_lots"} /\ ~CloseFails(c.arg)) /\ c.op \notin {"open", "lots"}
        <5>1. UNCHANGED vars
          BY <3>1, <4>3, Zenon DEF Effect
        <5> QED BY <1>0, <5>1, SameVars
      <4> QED BY <4>1, <4>2, <4>3
    <3> QED BY <3>1, <3>4, <3>5, <3>6 DEF ProgramsInv, MemInv
  <2> QED BY <2>1, <2>2
<1> QED BY <1>1, <1>2

-----------------------------------------------------------------------------
(* Other programs and the shell.                                            *)

\* A program that makes any calls in any order.
LEMMA OtherStep ==
  ASSUME ProgramsInv, other_call \/ other_return
  PROVE  ProgramsInv'
<1>0. TableInv /\ MemInv
  BY DEF ProgramsInv
<1>1. CASE other_call
  <2>1. MemInv'
    BY <1>0, <1>1 DEF other_call, MemInv
  <2>2. CASE \E fname \in Names : system_open(fname)
    <3>1. PICK fname \in Names : system_open(fname)
      BY <2>2
    <3>2. fname \in CStrings
      <4>1. fname \in Strings
        BY FilesAssumption
      <4> QED BY <4>1, StringsAreChars
    <3> QED BY <1>0, <2>1, <3>1, <3>2, OpenTable DEF ProgramsInv
  <2>3. CASE \E fd \in Fds, nbytes \in Lengths : system_read(fd, nbytes)
    <3>1. PICK fd \in Fds, nbytes \in Lengths : system_read(fd, nbytes)
      BY <2>3
    <3>2. nbytes \in Int
      BY FilesAssumption
    <3> QED BY <1>0, <2>1, <3>1, <3>2, ReadTable DEF ProgramsInv
  <2>4. CASE \E fd \in Fds : system_write(fd) \/ system_close(fd)
    BY <1>0, <2>1, <2>4, WriteTable, CloseTable DEF ProgramsInv
  <2> QED BY <1>1, <2>2, <2>3, <2>4 DEF other_call, FileCall
<1>2. CASE other_return
  <2>1. UNCHANGED vars /\ Return(0, <<>>)
    BY <1>2 DEF other_return
  <2> QED BY <1>0, <2>1, SameVars, ReturnMem DEF ProgramsInv
<1> QED BY <1>1, <1>2

\* The shell strips the newline of a line.
LEMMA StrippedIs ==
  ASSUME NEW line \in Seq(Chars)
  PROVE  (IF line # <<>> /\ Last(line) = NL THEN Front(line) ELSE line) \in Seq(Chars)
<1>1. ASSUME line # <<>> PROVE Front(line) \in Seq(Chars)
  <2>1. Len(line) \in Nat \ {0}
    BY <1>1, EmptySeq
  <2>2. Len(line) - 1 \in 0 .. Len(line) /\ 1 \in 1 .. Len(line) + 1
    BY <2>1
  <2> QED BY <2>2, PartIs DEF Front
<1> QED BY <1>1

\* The shell: a line is stripped of its newline and executed, or passed over.
LEMMA ShellStep ==
  ASSUME ProgramsInv, NEW line \in Seq(Chars), shell_line(line)
  PROVE  ProgramsInv'
<1> DEFINE buf == IF line # <<>> /\ Last(line) = NL THEN Front(line) ELSE line
<1>0. TableInv /\ MemInv
  BY DEF ProgramsInv
<1>1. buf \in Seq(Chars)
  BY StrippedIs
<1>2. CASE buf = EXIT \/ buf = <<>>
  <2>1. UNCHANGED <<vars, prog, pc, mem>>
    BY <1>2, Zenon DEF shell_line, pvars
  <2> QED BY <1>0, <2>1, SameVars DEF ProgramsInv, MemInv
<1>3. CASE ~(buf = EXIT \/ buf = <<>>)
  <2>1. prog = "shell" /\ system_execute(buf) /\ mem' = mem
        /\ IF cmdline' = <<>> THEN UNCHANGED <<prog, pc>>
           ELSE /\ pc' = "start"
                /\ prog' = LET name == Filename(Trimmed(buf))
                           IN  IF name \in DOMAIN ProgramOf THEN ProgramOf[name] ELSE "other"
    BY <1>3, Zenon DEF shell_line
  <2> HIDE DEF buf
  <2>2. TableInv'
    BY <1>0, <1>1, <2>1, ExecuteTable
  <2>3. MemInv'
    BY <1>0, <2>1 DEF MemInv
  <2> QED BY <2>2, <2>3 DEF ProgramsInv
<1> QED BY <1>2, <1>3

\* A command and its newline are characters.
LEMMA LineIs ==
  ASSUME NEW command \in Commands
  PROVE  command \o <<NL>> \in Seq(Chars)
<1> DEFINE C == Chars
<1>1. command \in Seq(C)
  <2>1. command \in Seq(STRING)
    BY ProgramsAssumption
  <2> QED BY <2>1, StringsAreChars
<1>2. <<NL>> \in Seq(C)
  <2>1. NL \in C
    BY DEF Chars
  <2>2. \A T : \A x \in T : <<x>> \in Seq(T)
    OBVIOUS
  <2> HIDE DEF C
  <2> QED BY <2>1, <2>2
<1>3. command \o <<NL>> \in Seq(C)
  <2> HIDE DEF C
  <2> QED BY <1>1, <1>2, ConcatProperties
<1> QED BY <1>3

\* No call of a program, nor the shell, breaks the table.
LEMMA ProgramsInductive == ProgramsInv /\ [Next]_pvars => ProgramsInv'
<1> SUFFICES ASSUME ProgramsInv, [Next]_pvars PROVE ProgramsInv'
  OBVIOUS
<1>0. TableInv /\ MemInv
  BY DEF ProgramsInv
<1>1. CASE Program
  BY <1>1, CatStep, LsStep, CounterStep, SyserrStep, GrepStep DEF Program
<1>2. CASE other_call \/ other_return
  BY <1>2, OtherStep
<1>3. CASE shell_resume
  <2>1. TableInv'
    BY <1>3, ReturnTable DEF shell_resume
  <2>2. MemInv'
    BY <1>3 DEF shell_resume, MemInv, NoMem, Fields
  <2> QED BY <2>1, <2>2 DEF ProgramsInv
<1>4. CASE \E command \in Commands : shell_line(command \o <<NL>>)
  <2>1. PICK command \in Commands : shell_line(command \o <<NL>>)
    BY <1>4
  <2>2. command \o <<NL>> \in Seq(Chars)
    BY LineIs
  <2> QED BY <2>1, <2>2, ShellStep
<1>5. CASE UNCHANGED pvars
  <2>1. UNCHANGED <<vars, prog, pc, mem>>
    BY <1>5 DEF pvars
  <2> QED BY <1>0, <2>1, SameVars DEF ProgramsInv, MemInv
<1> QED BY <1>1, <1>2, <1>3, <1>4, <1>5 DEF Next

\* The first shell has made no call.
LEMMA ProgramsInitInv == Init => ProgramsInv
<1> SUFFICES ASSUME Init PROVE ProgramsInv
  OBVIOUS
<1>1. TableInv
  BY FreshTable DEF Init
<1>2. MemInv
  BY DEF Init, MemInv, NoMem, Fields
<1> QED BY <1>1, <1>2 DEF ProgramsInv

\* The type invariant of the table, from its inductive invariant.
LEMMA TableInvType == TableInv => TypeOK
<1> SUFFICES ASSUME TableInv PROVE TypeOK
  OBVIOUS
<1>1. \A fd \in Fds : fd_table[fd] \in Descriptors
  BY DEF TableInv, TableType
<1>2. \A d \in Descriptors : /\ d.flags \in {"IN_USE", "NOT_IN_USE"}
                             /\ d.file_ops \in {"NULL", "stdin", "stdout", "rtc", "dir", "file"}
                             /\ d.inode \in 0 .. Len(inodes) - 1 /\ d.file_position \in Nat
  BY DEF Descriptors, Inodes
<1>3. fd_table[0].file_ops = "stdin" /\ fd_table[1].file_ops = "stdout"
  BY FdsAre DEF TableInv, FdSound
<1>4. halted \in BOOLEAN
  BY DEF TableInv, TableType
<1> QED BY <1>1, <1>2, <1>3, <1>4 DEF TypeOK

\* Fewer descriptors in use than there are: one of them is free.
LEMMA SomeFree ==
  ASSUME TableInv, Cardinality({fd \in Fds : fd_table[fd].flags = "IN_USE"}) < FD_ARRAY_SIZE
  PROVE  Free(fd_table)
<1> SUFFICES ASSUME ~Free(fd_table) PROVE FALSE
  OBVIOUS
<1> DEFINE U == {fd \in Fds : fd_table[fd].flags = "IN_USE"}
<1>0. Cardinality(U) < FD_ARRAY_SIZE
  OBVIOUS
<1>1. \A fd \in Fds : fd_table[fd].flags = "IN_USE"
  BY DEF Free, TableInv, TableType, Descriptors
<1>2. U = 0 .. FD_ARRAY_SIZE - 1
  BY <1>1 DEF Fds
<1>3. FD_ARRAY_SIZE \in Nat /\ FD_ARRAY_SIZE > 2
  BY FilesAssumption
<1>4. Cardinality(0 .. FD_ARRAY_SIZE - 1) = FD_ARRAY_SIZE
  <2>1. 0 \in Int /\ FD_ARRAY_SIZE - 1 \in Int /\ ~(0 > FD_ARRAY_SIZE - 1)
    BY <1>3
  <2>2. Cardinality(0 .. FD_ARRAY_SIZE - 1) = IF 0 > FD_ARRAY_SIZE - 1 THEN 0 ELSE (FD_ARRAY_SIZE - 1) - 0 + 1
    BY <2>1, FS_Interval
  <2> QED BY <1>3, <2>1, <2>2
<1> HIDE DEF U
<1> QED BY <1>0, <1>2, <1>3, <1>4

\* The inductive invariant says all that TableSound does.
LEMMA TableInvSound == TableInv => TableSound
<1> SUFFICES ASSUME TableInv PROVE TableSound
  OBVIOUS
<1>1. DescriptorsSound
  <2> SUFFICES ASSUME NEW fd \in 2 .. FD_ARRAY_SIZE - 1, fd_table[fd].flags = "IN_USE"
               PROVE  \E i \in DOMAIN dir_entries :
                        /\ dir_entries[i].filename = opened[fd]
                        /\ dir_entries[i].inode_num = fd_table[fd].inode
                        /\ fd_table[fd].file_ops = IF dir_entries[i].filetype \in DOMAIN Ops
                                                   THEN dir_entries[i].filetype ELSE "NULL"
    BY DEF DescriptorsSound
  <2>1. fd \in Fds /\ fd >= 2
    BY FdsAre DEF Fds
  <2>2. PICK i \in Entries : OpenedFor(fd, i)
    BY <2>1 DEF TableInv, FdSound, Used
  <2> QED BY <2>2, EntriesAre DEF OpenedFor
<1>2. Openable
  <2> SUFFICES ASSUME Cardinality({fd \in Fds : fd_table[fd].flags = "IN_USE"}) < FD_ARRAY_SIZE
               PROVE  /\ Free(fd_table) /\ fd_table[get_new_fd(fd_table)].flags = "NOT_IN_USE"
                      /\ \A i \in DOMAIN dir_entries : dir_entries[i].inode_num < Len(inodes) =>
                            Matches(dir_entries[i].filename) # {}
    BY DEF Openable
  <2>1. Free(fd_table)
    BY SomeFree
  <2>2. fd_table[get_new_fd(fd_table)].flags = "NOT_IN_USE"
    BY <2>1, NewFd
  <2>3. \A i \in DOMAIN dir_entries : dir_entries[i].inode_num < Len(inodes) =>
           Matches(dir_entries[i].filename) # {}
    BY NameFound, EntriesAre
  <2> QED BY <2>1, <2>2, <2>3
<1>3. FaultsExplained
  <2> SUFFICES ASSUME halted
               PROVE  \E fd \in Fds, i \in DOMAIN dir_entries :
                        /\ fd_table[fd].flags = "IN_USE" /\ opened[fd] = dir_entries[i].filename
                        /\ dir_entries[i].filetype \notin DOMAIN Ops
    BY DEF FaultsExplained
  <2>1. PICK fd \in Fds : fd >= 2 /\ Used(fd) /\ fd_table[fd].file_ops = "NULL"
    BY DEF TableInv
  <2>2. PICK i \in Entries : OpenedFor(fd, i)
    BY <2>1 DEF TableInv, FdSound
  <2>3. dir_entries[i].filetype \notin DOMAIN Ops
    BY <2>1, <2>2 DEF OpenedFor, Ops
  <2> QED BY <2>1, <2>2, <2>3, EntriesAre DEF OpenedFor, Used
<1> QED BY <1>1, <1>2, <1>3, TableInvType DEF TableSound

\* What has been read of a file, as a part of its content.
LEMMA ReadPrefix ==
  ASSUME TableInv, NEW fd \in Fds, Used(fd), fd_table[fd].file_ops = "file"
  PROVE  LET b == FileBytes(fd_table[fd].inode)
             p == fd_table[fd].file_position
         IN  /\ b \in Seq(Chars) /\ got[fd] \in Seq(Chars)
             /\ Len(got[fd]) = p /\ p \in Nat /\ p <= Len(b)
             /\ Len(b) = inodes[fd_table[fd].inode + 1].length
             /\ \A k \in 1 .. p : got[fd][k] = b[k]
<1> DEFINE b == FileBytes(fd_table[fd].inode)
           p == fd_table[fd].file_position
           ino == inodes[fd_table[fd].inode + 1]
<1>1. fd_table[fd].inode \in Inodes /\ p \in Nat /\ got[fd] \in Seq(Chars)
  BY DEF TableInv, TableType, Descriptors
<1>2. b \in Seq(STRING) /\ Len(b) = ino.length /\ \A k \in 1 .. ino.length : b[k] = ByteAt(ino, k - 1)
  <2> HIDE DEF ino
  <2>1. ino = inodes[fd_table[fd].inode + 1]
    BY DEF ino
  <2> QED BY <1>1, <2>1, FileBytesAre
<1>3. b \in Seq(Chars) /\ ino.length \in Nat
  BY <1>1, <1>2, StringsAreChars, ImageIs
<1>4. p <= ino.length /\ Len(got[fd]) = p /\ \A k \in 1 .. Len(got[fd]) : got[fd][k] = ByteAt(ino, k - 1)
  BY DEF TableInv, FdSound, ReadSoFar
<1>5. \A k \in 1 .. p : k \in 1 .. ino.length /\ got[fd][k] = b[k]
  <2> SUFFICES ASSUME NEW k \in 1 .. p PROVE k \in 1 .. ino.length /\ got[fd][k] = b[k]
    OBVIOUS
  <2> HIDE DEF b, p, ino
  <2>1. k \in 1 .. ino.length /\ k \in 1 .. Len(got[fd])
    BY <1>1, <1>3, <1>4
  <2> QED BY <1>2, <1>4, <2>1
<1> QED BY <1>1, <1>2, <1>3, <1>4, <1>5

\* It also says that reads are in order and that an empty one is at the end.
LEMMA TableInvReads == TableInv => ReadsInOrder /\ EofIsEnd
<1> SUFFICES ASSUME TableInv PROVE ReadsInOrder /\ EofIsEnd
  OBVIOUS
<1>1. ASSUME NEW fd \in Fds, fd_table[fd].flags = "IN_USE", fd_table[fd].file_ops = "file"
      PROVE  /\ IsPrefix(got[fd], FileBytes(fd_table[fd].inode))
             /\ fd_table[fd].file_position = Len(got[fd])
  <2> DEFINE b == FileBytes(fd_table[fd].inode)  g == got[fd]  p == fd_table[fd].file_position
  <2>1. /\ b \in Seq(Chars) /\ g \in Seq(Chars) /\ Len(g) = p /\ p \in Nat /\ p <= Len(b)
        /\ \A k \in 1 .. p : g[k] = b[k]
    BY <1>1, ReadPrefix DEF Used
  <2> HIDE DEF b, g, p
  <2>2. SubSeq(g, 1, Len(g)) = g
    BY <2>1, SubSeqFull
  <2>3. /\ SubSeq(b, 1, p) \in Seq(Chars) /\ Len(SubSeq(b, 1, p)) = p
        /\ \A k \in 1 .. p : SubSeq(b, 1, p)[k] = b[k]
    <3>1. \A k \in 1 .. p : b[k] \in Chars
      <4> SUFFICES ASSUME NEW k \in 1 .. p PROVE b[k] \in Chars
        OBVIOUS
      <4>0. Len(b) \in Nat
        BY <2>1, LenProperties
      <4>1. k \in 1 .. Len(b)
        BY <2>1, <4>0
      <4> QED BY <2>1, <4>1, ElementOfSeq
    <3>2. /\ SubSeq(b, 1, p) \in Seq(Chars)
          /\ Len(SubSeq(b, 1, p)) = IF 1 <= p THEN p - 1 + 1 ELSE 0
          /\ \A k \in 1 .. p - 1 + 1 : SubSeq(b, 1, p)[k] = b[1 + k - 1]
      BY <2>1, <3>1, 1 \in Int, p \in Int, SubSeqProperties
    <3> QED BY <2>1, <3>2
  <2>4. g = SubSeq(b, 1, p)
    BY <2>1, <2>3, SeqEqual
  <2> QED BY <2>1, <2>2, <2>4 DEF IsPrefix, b, g, p
<1>2. ASSUME NEW fd \in Fds, NEW n \in Lengths,
             fd_table[fd].flags = "IN_USE", fd_table[fd].file_ops = "file", n > 0,
             read_data(fd_table[fd].inode, fd_table[fd].file_position, n) = <<>>
      PROVE  got[fd] = FileBytes(fd_table[fd].inode)
  <2> DEFINE b == FileBytes(fd_table[fd].inode)  g == got[fd]  p == fd_table[fd].file_position
             ix == fd_table[fd].inode  ino == inodes[ix + 1]
  <2>1. /\ b \in Seq(Chars) /\ g \in Seq(Chars) /\ Len(g) = p /\ p \in Nat /\ p <= Len(b)
        /\ Len(b) = ino.length /\ \A k \in 1 .. p : g[k] = b[k]
    BY <1>2, ReadPrefix DEF Used
  <2>2. n \in Nat
    BY <1>2, FilesAssumption
  <2>3. ix \in Inodes
    BY DEF TableInv, TableType, Descriptors
  <2>4. ~(p < ino.length)
    <3> DEFINE r == read_data(ix, p, n)
    <3>1. r = <<>> /\ Len(<<>>) = 0
      BY <1>2, EmptySeq
    <3>2. r = read_data(ix, p, n) /\ ino = inodes[ix + 1]
      OBVIOUS
    <3> HIDE DEF r, ino, ix, p
    <3>3. p < ino.length /\ n > 0 => Len(r) > 0
      BY <2>1, <2>2, <2>3, <3>2, ReadDataIs
    <3> QED BY <1>2, <3>1, <3>3
  <2> HIDE DEF b, g, p, ino
  <2>5. Len(b) \in Nat
    BY <2>1, LenProperties
  <2>6. g = b
    BY <2>1, <2>4, <2>5, SeqEqual
  <2> QED BY <2>6 DEF b, g
<1> QED BY <1>1, <1>2 DEF ReadsInOrder, EofIsEnd

\* So it holds of every state of every process.
LEMMA ProgramsInvariant == Spec => []ProgramsInv
<1> QED BY ProgramsInitInv, ProgramsInductive, PTL DEF Spec

\* After any sequence of calls of any programs, each descriptor in use stands
\* for an entry of exactly the name that was opened, a free one can be had as
\* long as fewer than FD_ARRAY_SIZE are in use, and only a descriptor of an
\* entry of unknown type can make a call fault.
THEOREM TableIsSound == Spec => []TableSound
<1>1. ProgramsInv => TableSound
  BY TableInvSound DEF ProgramsInv
<1> QED BY <1>1, ProgramsInvariant, PTL

-----------------------------------------------------------------------------
(* The program that runs is the one that was loaded.                        *)

\* The part of a command that names the program is a string.
LEMMA FilenameIs ==
  ASSUME NEW command \in Seq(Chars)
  PROVE  Filename(Trimmed(command)) \in CStrings
<1> DEFINE c == Trimmed(command)  end == WordEnd(c, 0)
<1>1. c \in Seq(Chars)
  <2>1. Len(command) \in Nat /\ 0 \in 0 .. Len(command)
    BY LenProperties
  <2>2. Skip(command, 0) \in 0 .. Len(command)
    BY <2>1, Searches
  <2>3. Skip(command, 0) + 1 \in 1 .. Len(command) + 1 /\ Len(command) \in 0 .. Len(command)
    BY <2>1, <2>2
  <2> QED BY <2>3, PartIs DEF Trimmed
<1> HIDE DEF c
<1>2. Len(c) \in Nat /\ 0 \in 0 .. Len(c)
  BY <1>1, LenProperties
<1>3. end \in 0 .. Len(c)
  BY <1>1, <1>2, Searches
<1>4. \A k \in 0 .. end - 1 : CharAt(c, k) # NUL
  <2>1. \E j \in 0 .. Len(c) :
          /\ j >= TERM_BUFFER_SIZE - 1 \/ CharAt(c, j) \in {SPACE, NUL}
          /\ \A k \in 0 .. j - 1 : k < TERM_BUFFER_SIZE - 1 /\ CharAt(c, k) \notin {SPACE, NUL}
    BY <1>1, <1>2, WordStops
  <2>2. \A k \in 0 .. end - 1 : CharAt(c, k) \notin {SPACE, NUL}
    BY <2>1, Zenon DEF WordEnd
  <2> QED BY <2>2
<1> DEFINE A == Chars \ {NUL}
<1>5. \A k \in 1 .. end : c[k] \in A
  <2> SUFFICES ASSUME NEW k \in 1 .. end PROVE c[k] \in A
    OBVIOUS
  <2> HIDE DEF end
  <2>1. k \in 1 .. Len(c) /\ k - 1 \in 0 .. end - 1 /\ k - 1 < Len(c) /\ (k - 1) + 1 = k
    BY <1>2, <1>3
  <2>2. c[k] \in Chars
    BY <1>1, <2>1, ElementOfSeq
  <2>3. CharAt(c, k - 1) = c[k]
    BY <2>1 DEF CharAt
  <2> QED BY <1>4, <2>1, <2>2, <2>3
<1>6. SubSeq(c, 1, end) \in Seq(A)
  <2>1. 1 \in Int /\ end \in Int
    BY <1>2, <1>3
  <2> HIDE DEF end, A
  <2> QED BY <1>5, <2>1, SubSeqProperties
<1>7. Filename(c) = SubSeq(c, 1, end)
  BY DEF Filename
<1> QED BY <1>6, <1>7 DEF CStrings, c

\* What is loaded for a name.
LoadedFor(fname, img) ==
  /\ IsPrefix(EXEC_MAGIC_STR, img)
  /\ \E i \in DOMAIN dir_entries : /\ dir_entries[i].filename = fname
                                   /\ img = FileBytes(dir_entries[i].inode_num)

\* A file that passes the check of the loader is copied whole.
LEMMA LoaderLoads ==
  ASSUME NEW fname \in CStrings, Loads(fname)
  PROVE  LoadedFor(fname, LoadLoop(read_dentry_by_name(fname).inode_num))
<1>1. Matches(fname) # {} /\ read_data(read_dentry_by_name(fname).inode_num, 0, Len(EXEC_MAGIC_STR)) = EXEC_MAGIC_STR
  BY DEF Loads
<1>2. PICK i \in Entries : /\ read_dentry_by_name(fname) = dir_entries[i]
                           /\ dir_entries[i].inode_num \in Inodes /\ dir_entries[i].filename = fname
  BY <1>1, LookupIs
<1> DEFINE ix == dir_entries[i].inode_num  b == FileBytes(ix)  magic == EXEC_MAGIC_STR
           n == Rounds(inodes[ix + 1], 0, Len(magic))
<1>3. ix \in Inodes /\ LoadLoop(ix) = b
  BY <1>2, LoadsWhole
<1>4. magic \in Seq(STRING) /\ Len(magic) \in Nat /\ read_data(ix, 0, Len(magic)) = magic
  BY <1>1, <1>2, FilesAssumption, LenProperties
<1>5. inodes[ix + 1].length \in Nat
  BY <1>2, ImageIs
<1> HIDE DEF ix, magic
<1>6. magic = SubSeq(b, 1, n)
  <2>1. read_data(ix, 0, Len(magic)) = SubSeq(b, 0 + 1, 0 + n)
    BY <1>3, <1>4, <1>5, ReadDataExact
  <2>2. n \in Int
    BY <1>4, <1>5 DEF Rounds
  <2> HIDE DEF n, b
  <2> QED BY <1>4, <2>1, <2>2
<1>7. n = Len(magic)
  <2>1. Len(magic) = Gives(inodes[ix + 1], 0, Len(magic))
    BY <1>3, <1>4, ReadDataIs
  <2> QED BY <1>4, <1>5, <2>1 DEF Gives, Rounds
<1>8. Len(magic) <= Len(b)
  <2>1. n <= inodes[ix + 1].length
    BY <1>4, <1>5 DEF Rounds
  <2>2. Len(b) = inodes[ix + 1].length
    BY <1>3, FileBytesAre
  <2> QED BY <1>7, <2>1, <2>2
<1>9. SubSeq(magic, 1, Len(magic)) = magic
  BY <1>4, SubSeqFull
<1>10. IsPrefix(magic, b)
  <2> HIDE DEF b, n
  <2> QED BY <1>6, <1>7, <1>8, <1>9 DEF IsPrefix
<1> QED BY <1>2, <1>3, <1>10, EntriesAre DEF LoadedFor, ix, magic

ImageInv == cmdline # <<>> => LoadedFor(Filename(Trimmed(cmdline)), image)

SameProgram == cmdline' = cmdline /\ image' = image

\* No call on files changes the program.
LEMMA CallsKeepProgram ==
  ASSUME NEW x
  PROVE  /\ system_open(x) => SameProgram
         /\ \A n : system_read(x, n) => SameProgram
         /\ system_write(x) => SameProgram
         /\ system_close(x) => SameProgram
         /\ UNCHANGED vars => SameProgram
<1>1. system_open(x) => SameProgram
  BY DEF system_open, SameProgram
<1>2. UNCHANGED vars => SameProgram
  BY DEF vars, SameProgram
<1>3. Fault => SameProgram
  BY DEF Fault, SameProgram
<1>4. ASSUME NEW n, system_read(x, n) PROVE SameProgram
  BY <1>2, <1>3, <1>4, Zenon DEF system_read, SameProgram
<1>5. system_write(x) => SameProgram
  BY <1>2, <1>3 DEF system_write
<1>6. system_close(x) => SameProgram
  BY <1>3 DEF system_close, SameProgram
<1> QED BY <1>1, <1>2, <1>4, <1>5, <1>6

\* Nor does a program.
LEMMA ProgramsKeepProgram ==
  ASSUME Program \/ other_call \/ other_return
  PROVE  SameProgram
<1>1. CASE cat_start \/ cat_read \/ ls_start \/ ls_read
  BY <1>1, CallsKeepProgram DEF cat_start, cat_read, ls_start, ls_read, OpenOr
<1>2. CASE counter_start \/ counter_print
  BY <1>2, CallsKeepProgram DEF counter_start, counter_print
<1>3. CASE syserr_start
  BY <1>3, CallsKeepProgram, Zenon DEF syserr_start, vars
<1>4. CASE syserr_call
  <2>1. UNCHANGED vars \/ Effect(Head(mem.data))
    BY <1>4, Zenon DEF syserr_call
  <2> QED BY <2>1, CallsKeepProgram DEF Effect
<1>5. CASE grep_start \/ grep_name \/ grep_close
  BY <1>5, CallsKeepProgram DEF grep_start, grep_name, grep_close, OpenOr
<1>6. CASE grep_open \/ grep_read
  BY <1>6, CallsKeepProgram, Zenon DEF grep_open, grep_read, OpenOr
<1>7. CASE other_call \/ other_return
  BY <1>7, CallsKeepProgram DEF other_call, other_return, FileCall
<1> QED BY <1>1, <1>2, <1>3, <1>4, <1>5, <1>6, <1>7 DEF Program

\* An execute keeps the program, or loads the one its command names.
LEMMA ExecuteImage ==
  ASSUME ImageInv, NEW command \in Seq(Chars), system_execute(command)
  PROVE  ImageInv'
<1> DEFINE fname == Filename(Trimmed(command))
<1>1. CASE Loads(fname)
  <2>1. cmdline' = command /\ image' = LoadLoop(read_dentry_by_name(fname).inode_num)
    BY <1>1, Zenon DEF system_execute
  <2>2. fname \in CStrings
    BY FilenameIs
  <2>3. LoadedFor(fname, image')
    <3> HIDE DEF fname
    <3> QED BY <1>1, <2>1, <2>2, LoaderLoads
  <2> QED BY <2>1, <2>3 DEF ImageInv, LoadedFor
<1>2. CASE ~Loads(fname)
  <2>1. cmdline' = cmdline /\ image' = image
    BY <1>2, Zenon DEF system_execute
  <2> QED BY <2>1 DEF ImageInv, LoadedFor
<1> QED BY <1>1, <1>2

\* No step of any program or shell breaks the image.
LEMMA ImageInductive == ImageInv /\ [Next]_pvars => ImageInv'
<1> SUFFICES ASSUME ImageInv, [Next]_pvars PROVE ImageInv'
  OBVIOUS
<1>0. ASSUME SameProgram PROVE ImageInv'
  BY <1>0 DEF SameProgram, ImageInv, LoadedFor
<1>1. CASE Program \/ other_call \/ other_return
  BY <1>0, <1>1, ProgramsKeepProgram
<1>2. CASE shell_resume
  BY <1>2 DEF shell_resume, return_from_exec, ImageInv
<1>3. CASE \E command \in Commands : shell_line(command \o <<NL>>)
  <2>1. PICK command \in Commands : shell_line(command \o <<NL>>)
    BY <1>3
  <2> DEFINE line == command \o <<NL>>
             buf == IF line # <<>> /\ Last(line) = NL THEN Front(line) ELSE line
  <2>2. UNCHANGED pvars \/ system_execute(buf)
    BY <2>1, Zenon DEF shell_line
  <2>3. buf \in Seq(Chars)
    <3>1. line \in Seq(Chars)
      BY LineIs
    <3> HIDE DEF line
    <3> QED BY <3>1, StrippedIs
  <2>4. CASE UNCHANGED pvars
    BY <1>0, <2>4, CallsKeepProgram DEF pvars
  <2>5. CASE system_execute(buf)
    <3> HIDE DEF buf
    <3> QED BY <2>3, <2>5, ExecuteImage
  <2> QED BY <2>2, <2>4, <2>5
<1>4. CASE UNCHANGED pvars
  BY <1>0, <1>4, CallsKeepProgram DEF pvars
<1> QED BY <1>1, <1>2, <1>3, <1>4 DEF Next

\* Whatever was executed before and whatever the program did since, its image
\* is the whole content of the executable that its command names.
THEOREM ImageIsWhole == Spec => []ImageWhole
<1>1. Init => ImageInv
  BY DEF Init, Fresh, ImageInv
<1>2. ImageInv => ImageWhole
  BY DEF ImageInv, ImageWhole, LoadedFor
<1> QED BY <1>1, <1>2, ImageInductive, PTL DEF Spec

\* However the reads are sized and wherever the blocks lie, what was read of a
\* file is its beginning, a read that gives nothing is at its end, and what the
\* loader read is all of it.
THEOREM ReadsAreExact == Spec => []ReadsExact
<1>1. ProgramsInv => ReadsInOrder /\ EofIsEnd
  BY TableInvReads DEF ProgramsInv
<1>2. ReadsInOrder /\ EofIsEnd /\ ImageWhole => ReadsExact
  BY DEF ReadsExact
<1> QED BY <1>1, <1>2, ProgramsInvariant, ImageIsWhole, PTL

-----------------------------------------------------------------------------
(* What cat writes.                                                         *)

\* The descriptor cat reads was opened for its argument; it has written what it
\* has read, and when it is done that is all there is.
CatReads ==
  /\ mem.fd \in Fds /\ mem.fd >= 2 /\ Used(mem.fd) /\ opened[mem.fd] = StringAt(args, 0)
  /\ fd_table[mem.fd].file_ops = "file" =>
        /\ out = got[mem.fd]
        /\ pc = "done" => got[mem.fd] = FileBytes(fd_table[mem.fd].inode)

StartInv ==
  /\ prog = "shell" => pc = "start"
  /\ pc = "start" => out = <<>> /\ rval = 0

CatInv ==
  /\ StartInv
  /\ prog = "cat" /\ pc = "loop" => rval = 0
  /\ prog = "cat" /\ pc # "start" /\ rval = 0 => CatReads

\* A file's descriptor from which a read of some length gives nothing.
LEMMA NothingLeft ==
  ASSUME TableInv, NEW fd \in Fds, Used(fd), fd_table[fd].file_ops = "file",
         NEW n \in Nat, n > 0, read_data(fd_table[fd].inode, fd_table[fd].file_position, n) = <<>>
  PROVE  got[fd] = FileBytes(fd_table[fd].inode)
<1> DEFINE b == FileBytes(fd_table[fd].inode)  g == got[fd]  p == fd_table[fd].file_position
           ix == fd_table[fd].inode  ino == inodes[ix + 1]
<1>1. /\ b \in Seq(Chars) /\ g \in Seq(Chars) /\ Len(g) = p /\ p \in Nat /\ p <= Len(b)
      /\ Len(b) = ino.length /\ \A k \in 1 .. p : g[k] = b[k]
  BY ReadPrefix
<1>2. ix \in Inodes
  BY DEF TableInv, TableType, Descriptors
<1>3. ~(p < ino.length)
  <2> DEFINE r == read_data(ix, p, n)
  <2>1. r = <<>> /\ Len(<<>>) = 0
    BY EmptySeq
  <2>2. r = read_data(ix, p, n) /\ ino = inodes[ix + 1]
    OBVIOUS
  <2> HIDE DEF r, ino, ix, p
  <2>3. p < ino.length => Len(r) > 0
    BY <1>1, <1>2, <2>2, ReadDataIs
  <2> QED BY <2>1, <2>3
<1> HIDE DEF b, g, p, ino
<1>4. Len(b) \in Nat
  BY <1>1, LenProperties
<1>5. g = b
  BY <1>1, <1>3, <1>4, SeqEqual
<1> QED BY <1>5 DEF b, g

\* What a program that is not cat does to the invariant.
LEMMA OthersLeaveCat ==
  ASSUME StartInv, prog # "cat", prog # "shell", prog' = prog, pc' # "start" \/ UNCHANGED <<pc, out, rval>>
  PROVE  CatInv'
  BY DEF CatInv, StartInv

\* The programs but cat.
LEMMA OtherPrograms ==
  ASSUME CatInv, \/ ls_start \/ ls_read \/ counter_start \/ counter_print \/ syserr_start \/ syserr_call
                 \/ grep_start \/ grep_name \/ grep_open \/ grep_read \/ grep_close
                 \/ other_call \/ other_return
  PROVE  CatInv'
<1>1. StartInv
  BY DEF CatInv
<1>2. CASE ls_start \/ ls_read
  BY <1>1, <1>2, OthersLeaveCat DEF ls_start, ls_read, OpenOr, Return
<1>3. CASE counter_start \/ counter_print
  BY <1>1, <1>3, OthersLeaveCat DEF counter_start, counter_print, Return
<1>4. CASE syserr_start \/ syserr_call
  <2>1. prog = "syserr" /\ prog' = prog /\ (pc' # "start")
    <3>1. CASE syserr_start
      BY <3>1 DEF syserr_start
    <3>2. CASE syserr_call
      <4>1. prog = "syserr" /\ pc = "loop" /\ prog' = prog /\ (pc' = "done" \/ pc' = pc)
        BY <3>2, Zenon DEF syserr_call, Return
      <4> QED BY <4>1
    <3> QED BY <1>4, <3>1, <3>2
  <2> QED BY <1>1, <2>1, OthersLeaveCat
<1>5. CASE grep_start \/ grep_name \/ grep_close
  BY <1>1, <1>5, OthersLeaveCat DEF grep_start, grep_name, grep_close, OpenOr, Return
<1>6. CASE grep_open \/ grep_read
  <2>1. prog = "grep" /\ prog' = prog /\ (pc' = "done" \/ pc' = "file" \/ pc' = "close")
    <3>1. CASE grep_open
      BY <3>1, Zenon DEF grep_open, OpenOr, Return
    <3>2. CASE grep_read
      BY <3>2, Zenon DEF grep_read
    <3> QED BY <1>6, <3>1, <3>2
  <2> QED BY <1>1, <2>1, OthersLeaveCat
<1>7. CASE other_call \/ other_return
  <2>1. CASE other_call
    <3>1. prog = "other" /\ prog' = prog /\ UNCHANGED <<pc, out, rval>>
      BY <2>1 DEF other_call
    <3> QED BY <1>1, <3>1, OthersLeaveCat
  <2>2. CASE other_return
    <3>1. prog = "other" /\ prog' = prog /\ pc' = "done"
      BY <2>2 DEF other_return, Return
    <3> QED BY <1>1, <3>1, OthersLeaveCat
  <2> QED BY <1>7, <2>1, <2>2
<1> QED BY <1>2, <1>3, <1>4, <1>5, <1>6, <1>7

\* A cat that complains is done.
LEMMA CatFails ==
  ASSUME prog' = "cat", pc' = "done", rval' \in {2, 3}
  PROVE  CatInv'
  BY DEF CatInv, StartInv

\* cat opens the file its argument names.
LEMMA CatOpens ==
  ASSUME ProgramsInv, CatInv, cat_start
  PROVE  CatInv'
<1>0. TableInv /\ MemInv /\ StartInv /\ prog = "cat" /\ pc = "start" /\ out = <<>> /\ rval = 0
  BY DEF ProgramsInv, CatInv, StartInv, cat_start
<1>1. CASE system_getargs(BUFSIZE) = <<>>
  <2>1. Return(3, <<"could not read arguments">>)
    BY <1>1 DEF cat_start
  <2>2. prog' = "cat" /\ pc' = "done" /\ rval' = 3
    BY <1>0, <2>1 DEF Return
  <2> QED BY <2>2, CatFails
<1>2. CASE system_getargs(BUFSIZE) # <<>>
  <2> DEFINE name == StringAt(system_getargs(BUFSIZE), 0)
             m == [mem EXCEPT !.fd = OpenResult(name)]
  <2>1. name \in CStrings /\ name = StringAt(args, 0)
    BY <1>0, <1>2, ArgumentIs DEF system_getargs
  <2>2. OpenOr(name, "loop", m, "file not found", 2)
    BY <1>2 DEF cat_start
  <2>3. m.fd = OpenResult(name)
    BY <1>0 DEF MemInv, Fields
  <2> HIDE DEF name, m
  <2>4. CASE OpenResult(name) = -1
    <3>1. Return(2, <<"file not found">>)
      BY <2>2, <2>4 DEF OpenOr
    <3>2. prog' = "cat" /\ pc' = "done" /\ rval' = 2
      BY <1>0, <3>1 DEF Return
    <3> QED BY <3>2, CatFails
  <2>5. CASE OpenResult(name) # -1
    <3> DEFINE new == get_new_fd(fd_table)
    <3>1. Matches(name) # {} /\ Free(fd_table) /\ OpenResult(name) = new
      BY <2>5 DEF OpenResult
    <3>2. /\ fd_table' = OpenEntry(fd_table, read_dentry_by_name(name))
          /\ opened' = [opened EXCEPT ![new] = name] /\ got' = [got EXCEPT ![new] = <<>>]
          /\ args' = args
      BY <2>2, <3>1, Zenon DEF OpenOr, system_open
    <3>3. new \in Fds /\ new >= 2
      BY <1>0, <3>1, NewFd
    <3>4. pc' = "loop" /\ mem' = m /\ UNCHANGED <<prog, out, rval>>
      BY <2>2, <2>5 DEF OpenOr
    <3>5. \E e : fd_table' = [fd_table EXCEPT ![new] = e] /\ e.flags = "IN_USE"
      <4> DEFINE d == read_dentry_by_name(name)
                 e == Entry(IF d.filetype \in DOMAIN Ops THEN Ops[d.filetype] ELSE "NULL", d.inode_num)
      <4>1. e.flags = "IN_USE"
        BY DEF Entry
      <4>2. fd_table' = [fd_table EXCEPT ![new] = e]
        BY <3>2, Zenon DEF OpenEntry
      <4> HIDE DEF e
      <4> QED BY <4>1, <4>2
    <3> HIDE DEF new
    <3>6. fd_table'[new].flags = "IN_USE" /\ opened'[new] = name /\ got'[new] = <<>>
      BY <1>0, <3>2, <3>3, <3>5 DEF TableInv, TableType
    <3>7. mem'.fd = new
      BY <2>3, <3>1, <3>4
    <3> QED BY <1>0, <2>1, <3>2, <3>3, <3>4, <3>6, <3>7 DEF CatInv, StartInv, CatReads, Used
  <2> QED BY <2>4, <2>5
<1> QED BY <1>1, <1>2

\* cat writes what it reads, and stops when that is nothing.
LEMMA CatCopies ==
  ASSUME ProgramsInv, CatInv, cat_read
  PROVE  CatInv'
<1>f. PICK fd : fd = mem.fd
  OBVIOUS
<1> DEFINE r == ReadResult(fd, BUFSIZE)
<1>0. TableInv /\ StartInv /\ prog = "cat" /\ pc = "loop" /\ system_read(fd, BUFSIZE)
  BY <1>f DEF ProgramsInv, CatInv, cat_read
<1>1. BUFSIZE \in Nat /\ BUFSIZE > 0
  BY ProgramsAssumption
<1>2. prog' = prog /\ mem' = mem /\ rval' \in {0, rval} /\ out' = out \o r
      /\ pc' = IF r = <<>> THEN "done" ELSE "loop"
  <2>1. CASE r = <<>>
    BY <1>0, <1>f, <2>1 DEF cat_read, Return
  <2>2. CASE r # <<>>
    BY <1>0, <1>f, <2>2 DEF cat_read
  <2> QED BY <2>1, <2>2
<1>3. StartInv'
  BY <1>0, <1>2 DEF StartInv
<1>4. rval = 0 /\ CatReads /\ fd \in Fds /\ Used(fd)
  BY <1>0, <1>f DEF CatInv, CatReads
<1> HIDE DEF r
<1>5. CASE fd_table[fd].file_ops = "file"
  <2>1. r = read_data(fd_table[fd].inode, fd_table[fd].file_position, BUFSIZE)
    BY <1>5 DEF ReadResult, r
  <2>2. file_read(fd, BUFSIZE) /\ UNCHANGED <<args, opened>>
    BY <1>0, <1>1, <1>5 DEF system_read
  <2>3. got' = [got EXCEPT ![fd] = @ \o r]
        /\ \E n : fd_table' = [fd_table EXCEPT ![fd].file_position = n]
    BY <2>2 DEF file_read, r
  <2>4. got'[fd] = got[fd] \o r
    BY <1>0, <1>4, <2>3 DEF TableInv, TableType
  <2>5. /\ fd_table'[fd].flags = fd_table[fd].flags /\ fd_table'[fd].file_ops = fd_table[fd].file_ops
        /\ fd_table'[fd].inode = fd_table[fd].inode
    BY <1>0, <1>4, <2>3 DEF TableInv, TableType, Descriptors
  <2>6. ASSUME r = <<>> PROVE got'[fd] = FileBytes(fd_table[fd].inode)
    <3>1. got[fd] = FileBytes(fd_table[fd].inode)
      BY <1>0, <1>1, <1>4, <1>5, <2>1, <2>6, NothingLeft
    <3>2. got[fd] \in Seq(Chars)
      BY <1>0, <1>4 DEF TableInv, TableType
    <3>3. got[fd] \o <<>> = got[fd]
      BY <3>2, ConcatEmptySeq
    <3> QED BY <2>4, <2>6, <3>1, <3>3
  <2>7. out' = got'[fd]
    BY <1>2, <1>4, <1>5, <1>f, <2>4 DEF CatReads
  <2>8. mem'.fd = fd /\ fd >= 2 /\ opened[fd] = StringAt(args, 0)
    BY <1>2, <1>4, <1>f DEF CatReads
  <2>9. Used(fd)'
    BY <1>4, <2>5 DEF Used
  <2>10. pc' = "done" => got'[fd] = FileBytes(fd_table'[fd].inode)
    BY <1>2, <2>5, <2>6
  <2>11. CatReads'
    BY <1>4, <2>2, <2>7, <2>8, <2>9, <2>10 DEF CatReads
  <2> QED BY <1>2, <1>3, <1>4, <2>11 DEF CatInv
<1>6. CASE fd_table[fd].file_ops # "file"
  <2>1. /\ UNCHANGED <<args, opened>>
        /\ fd_table' = fd_table \/ \E n : fd_table' = [fd_table EXCEPT ![fd].file_position = n]
    <3>1. CASE fd_table[fd].file_ops = "NULL"
      BY <1>0, <3>1 DEF system_read, Fault, vars
    <3>2. CASE fd_table[fd].file_ops = "dir"
      <4>1. dir_read(fd, BUFSIZE) /\ UNCHANGED <<args, opened>>
        BY <1>0, <1>1, <3>2 DEF system_read
      <4> QED BY <4>1 DEF dir_read
    <3>3. CASE fd_table[fd].file_ops \notin {"NULL", "dir"}
      BY <1>0, <1>6, <3>3 DEF system_read, vars
    <3> QED BY <3>1, <3>2, <3>3
  <2>2. fd_table'[fd].flags = fd_table[fd].flags /\ fd_table'[fd].file_ops = fd_table[fd].file_ops
    BY <1>0, <1>4, <2>1 DEF TableInv, TableType, Descriptors
  <2>3. mem'.fd = fd /\ fd >= 2 /\ opened[fd] = StringAt(args, 0)
    BY <1>2, <1>4, <1>f DEF CatReads
  <2>4. Used(fd)'
    BY <1>4, <2>2 DEF Used
  <2>5. CatReads'
    BY <1>4, <1>6, <2>1, <2>2, <2>3, <2>4 DEF CatReads
  <2> QED BY <1>2, <1>3, <1>4, <2>5 DEF CatInv
<1> QED BY <1>5, <1>6

\* The shell starts every program with nothing written.
LEMMA ShellStarts ==
  ASSUME CatInv, NEW line, shell_line(line) \/ shell_resume
  PROVE  CatInv'
<1>1. CASE shell_resume
  BY <1>1 DEF shell_resume, CatInv, StartInv
<1>2. CASE shell_line(line)
  <2>1. prog = "shell" /\ UNCHANGED <<out, rval>> /\ (pc' = "start" \/ pc' = pc)
    BY <1>2, Zenon DEF shell_line, pvars
  <2> QED BY <2>1 DEF CatInv, StartInv
<1> QED BY <1>1, <1>2

\* Every step keeps it.
LEMMA CatInductive == ProgramsInv /\ CatInv /\ [Next]_pvars => CatInv'
<1> SUFFICES ASSUME ProgramsInv, CatInv, [Next]_pvars PROVE CatInv'
  OBVIOUS
<1>1. CASE cat_start \/ cat_read
  BY <1>1, CatOpens, CatCopies
<1>2. CASE Program /\ ~(cat_start \/ cat_read)
  BY <1>2, OtherPrograms DEF Program
<1>3. CASE other_call \/ other_return
  BY <1>3, OtherPrograms
<1>4. CASE shell_resume \/ \E command \in Commands : shell_line(command \o <<NL>>)
  BY <1>4, ShellStarts
<1>5. CASE UNCHANGED pvars
  BY <1>5 DEF pvars, vars, CatInv, StartInv, CatReads, Used
<1> QED BY <1>1, <1>2, <1>3, <1>4, <1>5 DEF Next

\* A cat that returns 0 found an entry with exactly the name it was given, and
\* if that is a file it has written the whole of it.
CatWhole ==
  prog = "cat" /\ pc = "done" /\ rval = 0 =>
    \E i \in DOMAIN dir_entries :
      /\ dir_entries[i].filename = StringAt(args, 0)
      /\ dir_entries[i].filetype = "file" => out = FileBytes(dir_entries[i].inode_num)

\* From the argument through the lookup, the descriptor and the blocks to the
\* terminal: what cat writes is its file.
THEOREM CatWritesFile == Spec => []CatWhole
<1>1. Init => CatInv
  BY DEF Init, CatInv, StartInv
<1>2. ProgramsInv /\ CatInv => CatWhole
  <2> SUFFICES ASSUME TableInv, CatInv, prog = "cat", pc = "done", rval = 0
               PROVE  \E i \in DOMAIN dir_entries :
                        /\ dir_entries[i].filename = StringAt(args, 0)
                        /\ dir_entries[i].filetype = "file" => out = FileBytes(dir_entries[i].inode_num)
    BY DEF ProgramsInv, CatWhole
  <2> DEFINE fd == mem.fd
  <2>1. CatReads
    BY DEF CatInv
  <2>2. fd \in Fds /\ fd >= 2 /\ Used(fd)
    BY <2>1 DEF CatReads
  <2>3. PICK i \in Entries : OpenedFor(fd, i)
    BY <2>2 DEF TableInv, FdSound
  <2>4. dir_entries[i].filetype = "file" => fd_table[fd].file_ops = "file"
    BY <2>3 DEF OpenedFor, Ops
  <2>5. i \in DOMAIN dir_entries
    BY EntriesAre
  <2> QED BY <2>1, <2>3, <2>4, <2>5 DEF CatReads, OpenedFor
<1> QED BY <1>1, <1>2, CatInductive, ProgramsInvariant, PTL DEF Spec

-----------------------------------------------------------------------------
(* The virtual real-time clock, for any number of groups and frequencies.   *)

\* Abbreviations, expanded everywhere.
USE DEF rtcVars, fds, history, Waiting, RTC_WAITING, RTC_NOT_WAITING

\* The number of interrupts a read waits for is an integer once the divider is
\* set; its value plays no part in the proofs.
LEMMA ThresholdInt ==
  ASSUME RtcTypeOK, NEW g \in Groups, rtc_freq_divider[g] # 0
  PROVE  Threshold(g) \in Int
<1>1. rtc_freq_divider[g] \in Nat \ {0}
  BY DEF RtcTypeOK
<1> QED BY <1>1, RtcAssumption DEF Threshold

\* rtc_write: a rate that passes the test makes a divider other than zero.
LEMMA RatePositive ==
  ASSUME NEW input \in Int, ValidRate(input)
  PROVE  input * RTC_OFFSET \in Nat \ {0}
<1>1. input \in Nat \ {0}
  BY RtcAssumption DEF ValidRate
<1>2. RTC_OFFSET \in Nat \ {0}
  BY RtcAssumption
<1>3. \A a, b \in Nat \ {0} : a * b \in Nat \ {0}
  OBVIOUS
<1> QED BY <1>1, <1>2, <1>3

\* The clock starts with every group idle, no descriptor open, nothing counted.
LEMMA RtcInitInv == RtcInit => RtcInv
<1> SUFFICES ASSUME RtcInit PROVE RtcInv
  OBVIOUS
<1>1. RtcTypeOK
  BY RtcAssumption DEF RtcInit, RtcTypeOK
<1>2. ASSUME NEW g \in Groups PROVE DividerOK(g) /\ CountOK(g)
  <2>1. /\ place[g] = "idle" /\ holders[g] = {} /\ counted[g] = 0
        /\ g \notin raced /\ ~Waiting(g)
    BY DEF RtcInit
  <2> QED BY <2>1 DEF DividerOK, CountOK
<1> QED BY <1>1, <1>2 DEF RtcInv

\* A step that leaves a group's clock and position alone keeps its parts of the
\* invariant, as long as no descriptor appears in it.
LEMMA SameGroup ==
  ASSUME RtcInv, NEW g \in Groups,
         Waiting(g)' <=> Waiting(g),
         rtc_intr_count'[g] = rtc_intr_count[g],
         rtc_freq_divider'[g] = rtc_freq_divider[g],
         place'[g] = place[g], counted'[g] = counted[g], (g \in raced' <=> g \in raced),
         holders[g] = {} => holders'[g] = {}
  PROVE  DividerOK(g)' /\ CountOK(g)'
<1>1. DividerOK(g) /\ CountOK(g)
  BY DEF RtcInv
<1>2. DividerOK(g)'
  BY <1>1 DEF DividerOK
<1>3. Threshold(g)' = Threshold(g)
  BY DEF Threshold
<1>4. CountOK(g)'
  BY <1>1, <1>3 DEF CountOK
<1> QED BY <1>2, <1>4

\* Spawn and Exit: a process comes with no descriptor, or takes its own away.
LEMMA ProcessStep ==
  ASSUME RtcInv, NEW g \in Groups, Spawn(g) \/ Exit(g)
  PROVE  RtcInv'
<1>1. RtcTypeOK
  BY DEF RtcInv
<1>2. RtcTypeOK'
  BY <1>1 DEF RtcTypeOK, Spawn, Exit
<1>3. ASSUME NEW h \in Groups PROVE DividerOK(h)' /\ CountOK(h)'
  <2>1. holders[h] = {} => holders'[h] = {}
    BY <1>1 DEF RtcTypeOK, Spawn, Exit
  <2>2. UNCHANGED <<rtcVars, place, history>>
    BY DEF Spawn, Exit
  <2> QED BY <2>1, <2>2, SameGroup
<1> QED BY <1>2, <1>3 DEF RtcInv

\* rtc_open, rtc_close and rtc_write, made by an idle group: the divider is
\* set before there is a descriptor to read from.
LEMMA FileStep ==
  ASSUME RtcInv, NEW g \in Groups, NEW input \in Int,
         rtc_open(g) \/ rtc_close(g) \/ rtc_write(g, input)
  PROVE  RtcInv'
<1>1. RtcTypeOK /\ place[g] = "idle"
  BY DEF RtcInv, RtcTypeOK, rtc_open, rtc_close, rtc_write
<1>3. DividerOK(g) /\ CountOK(g)
  BY DEF RtcInv
<1>4. holders'[g] # {} => rtc_open(g) \/ holders[g] # {}
  BY <1>1 DEF rtc_open, rtc_close, rtc_write, RtcTypeOK
<1>5. /\ rtc_freq_divider' \in [Groups -> Nat]
      /\ rtc_freq_divider[g] # 0 => rtc_freq_divider'[g] # 0
      /\ rtc_open(g) => rtc_freq_divider'[g] # 0
  <2>1. CASE rtc_open(g)
    BY <2>1, <1>1 DEF rtc_open, RtcTypeOK
  <2>2. CASE rtc_close(g)
    BY <2>2, <1>1 DEF rtc_close, RtcTypeOK, rtc_open
  <2>3. CASE rtc_write(g, input)
    <3>1. CASE ValidRate(input)
      <4>1. input * RTC_OFFSET \in Nat \ {0}
        BY <3>1, RatePositive
      <4>2. rtc_freq_divider' = [rtc_freq_divider EXCEPT ![g] = input * RTC_OFFSET]
        BY <2>3, <3>1 DEF rtc_write
      <4>3. rtc_freq_divider'[g] = input * RTC_OFFSET
        BY <4>2, <1>1 DEF RtcTypeOK
      <4> QED BY <4>1, <4>2, <4>3, <1>1 DEF RtcTypeOK
    <3>2. CASE ~ValidRate(input)
      <4>1. rtc_freq_divider' = rtc_freq_divider
        BY <2>3, <3>2 DEF rtc_write
      <4>2. rtc_open(g) => rtc_freq_divider'[g] # 0
        BY <1>1 DEF rtc_open, RtcTypeOK
      <4> QED BY <4>1, <4>2, <1>1 DEF RtcTypeOK
    <3> QED BY <3>1, <3>2
  <2> QED BY <2>1, <2>2, <2>3
<1>6. RtcTypeOK'
  BY <1>1, <1>4, <1>5 DEF RtcTypeOK, rtc_open, rtc_close, rtc_write
<1>7. DividerOK(g)' /\ CountOK(g)'
  <2>1. place'[g] = "idle" /\ counted'[g] = counted[g] /\ (g \in raced' <=> g \in raced)
        /\ ~Waiting(g)'
    BY <1>1, <1>3 DEF rtc_open, rtc_close, rtc_write, RtcTypeOK, DividerOK
  <2>2. DividerOK(g)'
    BY <2>1, <1>3, <1>4, <1>5 DEF DividerOK
  <2>3. CountOK(g)'
    BY <2>1, <1>1, <1>3 DEF CountOK
  <2> QED BY <2>2, <2>3
<1>8. ASSUME NEW h \in Groups \ {g} PROVE DividerOK(h)' /\ CountOK(h)'
  BY <1>1, SameGroup DEF rtc_open, rtc_close, rtc_write, RtcTypeOK
<1> QED BY <1>6, <1>7, <1>8 DEF RtcInv

\* The three steps of rtc_read.
LEMMA ReadStep ==
  ASSUME RtcInv, NEW g \in Groups, ReadMark(g) \/ ReadClear(g) \/ ReadReturn(g)
  PROVE  RtcInv'
<1>1. RtcTypeOK /\ DividerOK(g) /\ CountOK(g)
  BY DEF RtcInv
<1>2. RtcTypeOK'
  BY <1>1 DEF RtcTypeOK, ReadMark, ReadClear, ReadReturn
<1>3. Threshold(g)' = Threshold(g)
  BY DEF Threshold, ReadMark, ReadClear, ReadReturn
<1>4. DividerOK(g)' /\ CountOK(g)'
  <2>1. CASE ReadMark(g)
    <3>1. /\ Waiting(g)' /\ place'[g] = "marked" /\ place[g] = "idle"
          /\ UNCHANGED <<rtc_intr_count, rtc_freq_divider, fds, history>>
          /\ Holds(g)
      BY <2>1, <1>1 DEF ReadMark, RtcTypeOK
    <3>2. holders[g] # {}
      BY <3>1 DEF Holds
    <3>3. DividerOK(g)'
      BY <3>1, <3>2, <1>1 DEF DividerOK
    <3>4. CountOK(g)'
      BY <3>1, <1>1, <1>3 DEF CountOK, RtcTypeOK
    <3> QED BY <3>3, <3>4
  <2>2. CASE ReadClear(g)
    <3>1. /\ rtc_intr_count'[g] = 0 /\ place'[g] = "spin" /\ place[g] = "marked"
          /\ UNCHANGED <<rtc_read_waiting, rtc_freq_divider, fds, history>>
      BY <2>2, <1>1 DEF ReadClear, RtcTypeOK
    <3>2. DividerOK(g)'
      BY <3>1, <1>1 DEF DividerOK
    <3>3. Threshold(g) \in Int
      BY <3>1, <1>1, ThresholdInt DEF DividerOK
    <3>4. CountOK(g)'
      BY <3>1, <3>3, <1>1, <1>3 DEF CountOK, RtcTypeOK
    <3> QED BY <3>2, <3>4
  <2>3. CASE ReadReturn(g)
    <3>1. /\ place'[g] = "idle" /\ counted'[g] = 0 /\ g \notin raced' /\ ~Waiting(g)
          /\ UNCHANGED <<rtcVars, fds>>
      BY <2>3, <1>1 DEF ReadReturn, RtcTypeOK
    <3>2. DividerOK(g)'
      BY <3>1, <1>1 DEF DividerOK
    <3>3. CountOK(g)'
      BY <3>1 DEF CountOK
    <3> QED BY <3>2, <3>3
  <2> QED BY <2>1, <2>2, <2>3
<1>5. ASSUME NEW h \in Groups \ {g} PROVE DividerOK(h)' /\ CountOK(h)'
  BY <1>1, SameGroup DEF ReadMark, ReadClear, ReadReturn, RtcTypeOK
<1> QED BY <1>2, <1>4, <1>5 DEF RtcInv

\* rtc_wrapper counts for every waiting group and releases those that are done.
LEMMA HandlerStep ==
  ASSUME RtcInv, IrqBody
  PROVE  RtcInv'
<1>1. RtcTypeOK
  BY DEF RtcInv
<1>2. RtcTypeOK'
  BY <1>1 DEF RtcTypeOK, IrqBody, enable_irq
<1>3. ASSUME NEW g \in Groups PROVE DividerOK(g)' /\ CountOK(g)'
  <2>1. DividerOK(g) /\ CountOK(g)
    BY DEF RtcInv
  <2>2. CASE ~Waiting(g)
    <3>1. /\ rtc_intr_count'[g] = rtc_intr_count[g] /\ counted'[g] = counted[g]
          /\ (g \in raced' <=> g \in raced) /\ ~Waiting(g)'
      BY <2>2, <1>1 DEF IrqBody, RtcTypeOK
    <3>2. UNCHANGED <<rtc_freq_divider, fds, place>>
      BY DEF IrqBody
    <3> QED BY <3>1, <3>2, <2>2, <1>1, SameGroup DEF RtcTypeOK
  <2>3. CASE Waiting(g)
    <3>1. /\ rtc_intr_count'[g] = rtc_intr_count[g] + 1
          /\ counted'[g] = counted[g] + 1
          /\ (g \in raced' <=> g \in raced \/ place[g] = "marked")
          /\ Waiting(g)' <=> ~(rtc_intr_count[g] + 1 >= Threshold(g))
          /\ UNCHANGED <<rtc_freq_divider, fds, place>>
      BY <2>3, <1>1 DEF IrqBody, Done, RtcTypeOK
    <3>2. place[g] \in {"marked", "spin"} /\ rtc_freq_divider[g] # 0
      BY <2>3, <2>1, <1>1 DEF DividerOK, RtcTypeOK
    <3>3. DividerOK(g)'
      BY <3>1, <3>2, <2>1 DEF DividerOK
    <3>4. Threshold(g) \in Int /\ Threshold(g)' = Threshold(g)
      BY <3>1, <3>2, <1>1, ThresholdInt DEF Threshold
    <3>5. rtc_intr_count[g] \in Nat /\ counted[g] \in Nat
      BY <1>1 DEF RtcTypeOK
    <3>6. CASE place[g] = "marked"
      BY <3>1, <3>3, <3>4, <3>5, <3>6, <2>1, <2>3 DEF CountOK
    <3>7. CASE place[g] = "spin"
      BY <3>1, <3>3, <3>4, <3>5, <3>7, <2>1, <2>3 DEF CountOK
    <3> QED BY <3>2, <3>3, <3>6, <3>7
  <2> QED BY <2>2, <2>3
<1> QED BY <1>2, <1>3 DEF RtcInv

\* The interrupt arrives: only the handler's place changes.
LEMMA EnterStep ==
  ASSUME RtcInv, NEW g \in Groups, IrqEnter(g)
  PROVE  RtcInv'
<1>1. RtcTypeOK'
  BY DEF RtcInv, RtcTypeOK, IrqEnter
<1>2. ASSUME NEW h \in Groups PROVE DividerOK(h)' /\ CountOK(h)'
  BY SameGroup DEF IrqEnter
<1> QED BY <1>1, <1>2 DEF RtcInv

\* Every step of the clock, its readers and its interrupts keeps RtcInv.
THEOREM RtcInductive == RtcSpec => []RtcInv
<1>1. RtcInv /\ [RtcNext]_clockVars => RtcInv'
  <2> SUFFICES ASSUME RtcInv, [RtcNext]_clockVars PROVE RtcInv'
    OBVIOUS
  <2>1. CASE UNCHANGED clockVars
    <3>1. RtcTypeOK'
      BY <2>1 DEF RtcInv, RtcTypeOK, clockVars
    <3>2. ASSUME NEW h \in Groups PROVE DividerOK(h)' /\ CountOK(h)'
      BY <2>1, SameGroup DEF clockVars
    <3> QED BY <3>1, <3>2 DEF RtcInv
  <2>2. ASSUME NEW g \in Groups, Spawn(g) \/ Exit(g) PROVE RtcInv'
    BY <2>2, ProcessStep
  <2>3. ASSUME NEW g \in Groups, rtc_open(g) \/ rtc_close(g) PROVE RtcInv'
    BY <2>3, 0 \in Int, FileStep
  <2>4. ASSUME NEW g \in Groups, NEW input \in Inputs, rtc_write(g, input) PROVE RtcInv'
    BY <2>4, FileStep, RtcAssumption
  <2>5. ASSUME NEW g \in Groups, ReadMark(g) \/ ReadClear(g) \/ ReadReturn(g) PROVE RtcInv'
    BY <2>5, ReadStep
  <2>6. ASSUME NEW g \in Groups, IrqEnter(g) PROVE RtcInv'
    BY <2>6, EnterStep
  <2>7. CASE IrqBody
    BY <2>7, HandlerStep
  <2> QED BY <2>1, <2>2, <2>3, <2>4, <2>5, <2>6, <2>7 DEF RtcNext
<1> QED BY RtcInitInv, <1>1, PTL DEF RtcSpec

\* The handler never divides by zero.
THEOREM NoDivisionByZero == RtcSpec => []DividerSet
<1>1. RtcInv => DividerSet
  BY DEF RtcInv, DividerOK, DividerSet
<1> QED BY RtcInductive, <1>1, PTL

\* No read comes back before its interrupts, unless one hit the window between
\* the flag and the count.
THEOREM ReadsWaitEnough == RtcSpec => []EnoughInterrupts
<1>1. RtcInv => EnoughInterrupts
  BY DEF RtcInv, CountOK, EnoughInterrupts, Returning
<1> QED BY RtcInductive, <1>1, PTL

\* No read waits for twice the interrupts it asked for.
THEOREM ReadsAreBounded == RtcSpec => []WaitBounded
<1>1. RtcInv => WaitBounded
  <2> SUFFICES ASSUME RtcInv, NEW g \in Groups, place[g] # "idle"
               PROVE  \/ counted[g] <= 1
                      \/ counted[g] <= Threshold(g)
                      \/ g \in raced /\ counted[g] < 2 * Threshold(g)
    BY DEF WaitBounded
  <2>1. RtcTypeOK /\ CountOK(g) /\ place[g] \in {"marked", "spin"} /\ counted[g] \in Nat
        /\ rtc_intr_count[g] \in Nat
    BY DEF RtcInv, RtcTypeOK
  <2>2. Threshold(g) \in Int
    BY <2>1, ThresholdInt DEF RtcInv, DividerOK
  <2> QED BY <2>1, <2>2 DEF CountOK
<1> QED BY RtcInductive, <1>1, PTL

\* A read of any rate waits neither too short nor too long.
THEOREM WaitsAreExact == RtcSpec => []WaitExact
BY ReadsWaitEnough, ReadsAreBounded, PTL DEF WaitExact

=============================================================================
