------------------------------ MODULE TuxProofs ------------------------------
(* Proofs about the Tux line discipline, for any sizes of its buffers and of *)
(* the serial driver's, any inputs and any number of calls and of upsets.    *)
EXTENDS Tux, SequenceTheorems, FiniteSetTheorems, TLAPS

-----------------------------------------------------------------------------
(* The rings.                                                                *)

Byte == 0 .. 255
Slots == 0 .. TUXCTL_BUFSIZE - 1

Turn == 0 .. 2 * TUXCTL_BUFSIZE - 1
wrap(x) == IF x < TUXCTL_BUFSIZE THEN x ELSE x - TUXCTL_BUFSIZE

\* Indices of a ring wrap around once at most.
LEMMA Wrap ==
  ASSUME NEW x \in Turn
  PROVE  x % TUXCTL_BUFSIZE = wrap(x) /\ wrap(x) \in Slots
<1> USE DEF wrap, Turn
<1>1. \A b \in Nat \ {0} : \A a \in 0 .. b - 1 : a % b = a /\ (a + b) % b = a
  OBVIOUS
<1>2. TUXCTL_BUFSIZE \in Nat \ {0}
  BY TuxAssumption
<1>3. CASE x < TUXCTL_BUFSIZE
  BY <1>1, <1>2, <1>3 DEF Slots
<1>4. CASE ~(x < TUXCTL_BUFSIZE)
  <2>1. x - TUXCTL_BUFSIZE \in 0 .. TUXCTL_BUFSIZE - 1 /\ x = (x - TUXCTL_BUFSIZE) + TUXCTL_BUFSIZE
    BY <1>2, <1>4
  <2> QED BY <1>1, <1>2, <1>4, <2>1 DEF Slots
<1> QED BY <1>3, <1>4

\* Less than a turn apart, two indices are two slots; and the distance tells
\* how many bytes lie between them.
LEMMA WrapApart ==
  ASSUME NEW x \in Turn, NEW y \in Turn, x < y, y - x < TUXCTL_BUFSIZE
  PROVE  wrap(x) # wrap(y)
BY TuxAssumption DEF Turn, wrap

LEMMA WrapUsed ==
  ASSUME NEW a \in Slots, NEW v \in Slots
  PROVE  v = IF a <= wrap(a + v) THEN wrap(a + v) - a ELSE TUXCTL_BUFSIZE + wrap(a + v) - a
BY TuxAssumption DEF Slots, wrap

\* A ring's fields, and how many bytes it holds.
LEMMA RingFields ==
  ASSUME NEW r \in Ring
  PROVE  /\ TUXCTL_BUFSIZE \in Nat /\ TUXCTL_BUFSIZE > 8
         /\ r.buf \in [Slots -> Byte] /\ r.start \in Slots /\ r.end \in Slots
         /\ buf_used(r) \in Slots /\ buf_room(r) \in Slots
         /\ buf_room(r) = TUXCTL_BUFSIZE - 1 - buf_used(r)
         /\ r.end = wrap(r.start + buf_used(r)) /\ r.start + buf_used(r) \in Turn
<1>1. /\ TUXCTL_BUFSIZE \in Nat /\ TUXCTL_BUFSIZE > 8
      /\ r.buf \in [Slots -> Byte] /\ r.start \in Slots /\ r.end \in Slots
  BY TuxAssumption, SMTT(30) DEF Ring, Slots, Byte
<1>2. buf_used(r) \in Slots /\ buf_room(r) \in Slots
      /\ buf_room(r) = TUXCTL_BUFSIZE - 1 - buf_used(r)
  BY <1>1 DEF buf_used, buf_room, Slots
<1>3. r.start + buf_used(r) \in Turn
  BY <1>1, <1>2 DEF Slots, Turn
<1>4. r.end = wrap(r.start + buf_used(r))
  BY <1>1 DEF Slots, buf_used, wrap
<1> QED BY <1>1, <1>2, <1>3, <1>4

Least(n, m) == IF n <= m THEN n ELSE m

LEMMA LeastNat ==
  ASSUME NEW n \in Nat, NEW m \in Nat
  PROVE  Least(n, m) \in Nat /\ Least(n, m) <= n /\ Least(n, m) <= m
BY DEF Least

\* The oldest bytes, as a sequence.
LEMMA OldestBytes ==
  ASSUME NEW r \in Ring, NEW n \in Nat
  PROVE  /\ Oldest(r, n) \in Seq(Byte)
         /\ Len(Oldest(r, n)) = Least(n, buf_used(r))
         /\ \A k \in 1 .. Least(n, buf_used(r)) : Oldest(r, n)[k] = r.buf[wrap(r.start + k - 1)]
<1> DEFINE m == Least(n, buf_used(r))
<1>1. m \in Nat /\ m < TUXCTL_BUFSIZE
  BY RingFields DEF Least, Slots
<1>2. ASSUME NEW k \in 1 .. m
      PROVE  /\ (r.start + k - 1) % TUXCTL_BUFSIZE = wrap(r.start + k - 1)
             /\ wrap(r.start + k - 1) \in Slots
  <2>1. r.start + k - 1 \in Turn
    BY <1>1, RingFields, SMTT(30) DEF Slots, Turn
  <2> HIDE DEF m
  <2> QED BY <2>1, Wrap, Zenon
<1>3. Oldest(r, n) = [k \in 1 .. m |-> r.buf[(r.start + k - 1) % TUXCTL_BUFSIZE]]
  BY DEF Oldest, Least
<1> HIDE DEF m
<1>4. Oldest(r, n) = [k \in 1 .. m |-> r.buf[wrap(r.start + k - 1)]]
  BY <1>2, <1>3, Zenon
<1>5. \A k \in 1 .. m : r.buf[wrap(r.start + k - 1)] \in Byte
  BY <1>2, RingFields
<1>6. Oldest(r, n) \in [1 .. m -> Byte]
  BY <1>4, <1>5, Zenon
<1>7. Oldest(r, n) \in Seq(Byte) /\ Len(Oldest(r, n)) = m
  BY <1>1, <1>6
<1>8. \A k \in 1 .. m : Oldest(r, n)[k] = r.buf[wrap(r.start + k - 1)]
  BY <1>4, Zenon
<1> QED BY <1>7, <1>8 DEF m

\* What a ring holds: buf_used bytes from start on.
LEMMA ContentBytes ==
  ASSUME NEW r \in Ring
  PROVE  /\ Content(r) \in Seq(Byte)
         /\ Len(Content(r)) = buf_used(r)
         /\ \A k \in 1 .. buf_used(r) : Content(r)[k] = r.buf[wrap(r.start + k - 1)]
<1>1. TUXCTL_BUFSIZE \in Nat /\ Least(TUXCTL_BUFSIZE, buf_used(r)) = buf_used(r)
  BY RingFields DEF Least, Slots
<1> QED BY <1>1, OldestBytes DEF Content

\* Taking bytes from a ring: what it held is what is taken and what is left.
LEMMA DropBytes ==
  ASSUME NEW r \in Ring, NEW n \in Nat
  PROVE  /\ Drop(r, n) \in Ring
         /\ buf_used(Drop(r, n)) = buf_used(r) - Least(n, buf_used(r))
         /\ Content(r) = Oldest(r, n) \o Content(Drop(r, n))
<1> DEFINE m == Least(n, buf_used(r))
           q == Drop(r, n)
<1>1. m \in Nat /\ m <= buf_used(r)
  BY RingFields DEF Least, Slots
<1>2. r.start + m \in Turn
  BY <1>1, RingFields DEF Slots, Turn
<1>3. q = [r EXCEPT !.start = (r.start + m) % TUXCTL_BUFSIZE]
  BY DEF Drop, Least
<1> HIDE DEF m, q
<1>4. (r.start + m) % TUXCTL_BUFSIZE = wrap(r.start + m) /\ wrap(r.start + m) \in Slots
  BY <1>2, Wrap
<1>5. /\ q \in Ring /\ q.buf = r.buf /\ q.end = r.end
      /\ q.start = wrap(r.start + m) /\ q.start \in Slots
  <2>1. q = [r EXCEPT !.start = wrap(r.start + m)]
    BY <1>3, <1>4
  <2> QED BY <2>1, <1>4 DEF Ring, Slots
<1>6. /\ TUXCTL_BUFSIZE \in Nat /\ r.start \in Slots /\ r.end \in Slots /\ buf_used(r) \in Slots
      /\ r.end = wrap(r.start + buf_used(r)) /\ TUXCTL_BUFSIZE > 8
  BY RingFields
<1>7. buf_used(q) = buf_used(r) - m
  BY <1>1, <1>5, <1>6 DEF buf_used, Slots, wrap
<1> DEFINE s == Oldest(r, n)
           t == Content(q)
<1>8. /\ s \in Seq(Byte) /\ Len(s) = m
      /\ \A k \in 1 .. m : s[k] = r.buf[wrap(r.start + k - 1)]
  BY OldestBytes DEF m
<1>9. /\ t \in Seq(Byte) /\ Len(t) = buf_used(r) - m
      /\ \A k \in 1 .. buf_used(r) - m : t[k] = r.buf[wrap(q.start + k - 1)]
  BY <1>5, <1>7, ContentBytes
<1> HIDE DEF s, t
<1>10. s \o t \in Seq(Byte) /\ Len(s \o t) = buf_used(r)
  <2>1. Len(s \o t) = m + (buf_used(r) - m)
    BY <1>8, <1>9, ConcatProperties
  <2> QED BY <2>1, <1>1, <1>6, <1>8, <1>9, ConcatProperties DEF Slots
<1>11. ASSUME NEW k \in 1 .. buf_used(r) PROVE Content(r)[k] = (s \o t)[k]
  <2>1. Content(r)[k] = r.buf[wrap(r.start + k - 1)]
    BY ContentBytes
  <2>2. (s \o t)[k] = IF k <= m THEN s[k] ELSE t[k - m]
    <3>1. k \in 1 .. m + (buf_used(r) - m)
      BY <1>1, <1>6 DEF Slots
    <3> QED BY <3>1, <1>8, <1>9, ConcatProperties
  <2>3. CASE k <= m
    <3>1. k \in 1 .. m
      BY <2>3, <1>1
    <3> QED BY <3>1, <2>1, <2>2, <2>3, <1>8
  <2>4. CASE ~(k <= m)
    <3>1. k - m \in 1 .. buf_used(r) - m
      BY <2>4, <1>1, <1>6 DEF Slots
    <3>2. wrap(q.start + (k - m) - 1) = wrap(r.start + k - 1)
      BY <3>1, <1>1, <1>5, <1>6 DEF Slots, wrap
    <3>3. t[k - m] = r.buf[wrap(q.start + (k - m) - 1)]
      BY <3>1, <1>9
    <3> QED BY <3>2, <3>3, <2>1, <2>2, <2>4
  <2> QED BY <2>3, <2>4
<1>12. Content(r) = s \o t
  <2>1. Content(r) \in Seq(Byte) /\ Len(Content(r)) = buf_used(r)
    BY ContentBytes
  <2> QED BY <1>10, <1>11, <2>1, SeqEqual
<1> QED BY <1>5, <1>7, <1>12 DEF m, q, s, t

\* Storing bytes in a ring: as many as fit follow what it held.
LEMMA StoreBytes ==
  ASSUME NEW r \in Ring, NEW s \in Seq(Byte)
  PROVE  /\ Store(r, s) \in Ring
         /\ Content(Store(r, s)) = Content(r) \o SubSeq(s, 1, Least(Len(s), buf_room(r)))
<1> DEFINE n == Least(Len(s), buf_room(r))
           q == Store(r, s)
           u == buf_used(r)
<1>1. /\ TUXCTL_BUFSIZE \in Nat /\ TUXCTL_BUFSIZE > 8 /\ r.buf \in [Slots -> Byte]
      /\ r.start \in Slots /\ r.end \in Slots /\ u \in Slots /\ r.end = wrap(r.start + u)
  BY RingFields
<1>2. /\ n \in Nat /\ n <= Len(s) /\ n + u < TUXCTL_BUFSIZE
  <2>1. Len(s) \in Nat /\ buf_room(r) \in Nat /\ buf_room(r) = TUXCTL_BUFSIZE - 1 - u
    BY LenProperties, RingFields DEF Slots
  <2> QED BY <1>1, <2>1 DEF Least, Slots
<1>3. q = [r EXCEPT !.buf = [i \in Slots |->
                IF \E k \in 0 .. n - 1 : (r.end + k) % TUXCTL_BUFSIZE = i
                THEN s[1 + CHOOSE k \in 0 .. n - 1 : (r.end + k) % TUXCTL_BUFSIZE = i] ELSE r.buf[i]],
                    !.end = (r.end + n) % TUXCTL_BUFSIZE]
  BY <1>1 DEF Store, Least
<1> HIDE DEF n, q, u
<1>4. ASSUME NEW k \in 0 .. n
      PROVE  /\ (r.end + k) % TUXCTL_BUFSIZE = wrap(r.end + k)
             /\ wrap(r.end + k) \in Slots
             /\ wrap(r.end + k) = wrap(r.start + u + k)
             /\ \A j \in 0 .. n : wrap(r.end + k) = wrap(r.end + j) => j = k
  <2>1. r.end + k \in Turn
    BY <1>1, <1>2 DEF Slots, Turn
  <2>2. wrap(r.end + k) = wrap(r.start + u + k)
    BY <1>1, <1>2, SMTT(30) DEF Slots, wrap
  <2>3. ASSUME NEW j \in 0 .. n, j # k PROVE wrap(r.end + k) # wrap(r.end + j)
    <3>1. r.end + j \in Turn
      BY <1>1, <1>2 DEF Slots, Turn
    <3>2. \/ r.end + k < r.end + j /\ (r.end + j) - (r.end + k) < TUXCTL_BUFSIZE
          \/ r.end + j < r.end + k /\ (r.end + k) - (r.end + j) < TUXCTL_BUFSIZE
      BY <1>1, <1>2, <2>3 DEF Slots
    <3> QED BY <2>1, <3>1, <3>2, WrapApart
  <2> QED BY <2>1, <2>2, <2>3, Wrap
<1> DEFINE at(k) == (r.end + k) % TUXCTL_BUFSIZE
           new(i) == IF \E k \in 0 .. n - 1 : at(k) = i
                     THEN s[1 + CHOOSE k \in 0 .. n - 1 : at(k) = i] ELSE r.buf[i]
<1>5. ASSUME NEW k \in 0 .. n - 1 PROVE new(wrap(r.end + k)) = s[1 + k] /\ s[1 + k] \in Byte
  <2> DEFINE j == CHOOSE l \in 0 .. n - 1 : at(l) = wrap(r.end + k)
  <2>1. k \in 0 .. n /\ 1 + k \in 1 .. Len(s)
    BY <1>2, LenProperties
  <2>2. at(k) = wrap(r.end + k)
    BY <1>4, <2>1
  <2>3. j \in 0 .. n - 1 /\ at(j) = wrap(r.end + k)
    BY <2>2, Zenon
  <2>4. j \in 0 .. n
    BY <2>3, <1>2
  <2>5. wrap(r.end + j) = wrap(r.end + k)
    BY <2>3, <2>4, <1>4
  <2>6. j = k
    BY <2>1, <2>4, <2>5, <1>4
  <2>7. new(wrap(r.end + k)) = s[1 + j]
    BY <2>2
  <2> QED BY <2>1, <2>6, <2>7, ElementOfSeq
<1>6. ASSUME NEW i \in Slots PROVE new(i) \in Byte
  <2>1. CASE \E k \in 0 .. n - 1 : at(k) = i
    <3>1. PICK k \in 0 .. n - 1 : at(k) = i
      BY <2>1
    <3>2. k \in 0 .. n
      BY <1>2
    <3>3. wrap(r.end + k) = i
      BY <3>1, <3>2, <1>4
    <3> QED BY <3>3, <1>5
  <2>2. CASE ~\E k \in 0 .. n - 1 : at(k) = i
    <3>1. new(i) = r.buf[i]
      BY <2>2
    <3> QED BY <3>1, <1>1
  <2> QED BY <2>1, <2>2
<1>7. ASSUME NEW k \in 1 .. u
      PROVE  wrap(r.start + k - 1) \in Slots /\ new(wrap(r.start + k - 1)) = r.buf[wrap(r.start + k - 1)]
  <2>1. wrap(r.start + k - 1) \in Slots
    BY <1>1 DEF Slots, wrap
  <2>2. ASSUME NEW j \in 0 .. n - 1 PROVE at(j) # wrap(r.start + k - 1)
    <3>1. at(j) = wrap(r.start + u + j)
      <4>1. j \in 0 .. n
        BY <1>2
      <4> QED BY <4>1, <1>4
    <3>2. wrap(r.start + u + j) # wrap(r.start + k - 1)
      <4>1. /\ r.start + u + j \in Turn /\ r.start + k - 1 \in Turn
            /\ r.start + k - 1 < r.start + u + j
            /\ (r.start + u + j) - (r.start + k - 1) < TUXCTL_BUFSIZE
        BY <1>1, <1>2, SMTT(30) DEF Slots, Turn
      <4>2. ASSUME NEW x \in Turn, NEW y \in Turn, x < y, y - x < TUXCTL_BUFSIZE
            PROVE  wrap(y) # wrap(x)
        BY <4>2, WrapApart
      <4> QED BY <4>1, <4>2, Zenon
    <3> QED BY <3>1, <3>2
  <2> QED BY <2>1, <2>2
<1>8. q = [r EXCEPT !.buf = [i \in Slots |-> new(i)], !.end = wrap(r.end + n)]
  <2>1. n \in 0 .. n
    BY <1>2
  <2> QED BY <1>3, <1>4, <2>1
<1> HIDE DEF at, new
<1>9. /\ q \in Ring /\ q.buf = [i \in Slots |-> new(i)] /\ q.start = r.start
      /\ q.end = wrap(r.end + n) /\ q.end \in Slots
  <2>1. n \in 0 .. n
    BY <1>2
  <2>2. [i \in Slots |-> new(i)] \in [Slots -> Byte] /\ wrap(r.end + n) \in Slots
    BY <1>4, <1>6, <2>1
  <2> QED BY <1>8, <2>2 DEF Ring, Slots, Byte
<1>10. buf_used(q) = u + n
  <2>1. u + n \in Slots /\ n \in 0 .. n /\ r.start + u + n = r.start + (u + n)
    BY <1>1, <1>2 DEF Slots
  <2>2. q.end = wrap(r.start + (u + n))
    BY <2>1, <1>4, <1>9
  <2> QED BY <2>1, <2>2, <1>1, <1>9, WrapUsed DEF buf_used
<1> DEFINE t == SubSeq(s, 1, n)
<1>11. t \in Seq(Byte) /\ Len(t) = n /\ \A k \in 1 .. n : t[k] = s[k]
  <2>1. \A i \in 1 .. n : s[i] \in Byte
    BY <1>2, ElementOfSeq
  <2>2. /\ t \in Seq(Byte) /\ Len(t) = IF 1 <= n THEN n - 1 + 1 ELSE 0
        /\ \A i \in 1 .. n - 1 + 1 : t[i] = s[1 + i - 1]
    BY <2>1, <1>2, SubSeqProperties
  <2> QED BY <2>2, <1>2
<1> HIDE DEF t
<1>12. Content(r) \in Seq(Byte) /\ Len(Content(r)) = u /\ u \in Nat
  BY <1>1, ContentBytes DEF u, Slots
<1>13. Content(r) \o t \in Seq(Byte) /\ Len(Content(r) \o t) = u + n
  BY <1>11, <1>12, ConcatProperties
<1>14. Content(q) \in Seq(Byte) /\ Len(Content(q)) = u + n
  BY <1>9, <1>10, ContentBytes
<1>15. ASSUME NEW k \in 1 .. u + n PROVE Content(q)[k] = (Content(r) \o t)[k]
  <2>1. Content(q)[k] = q.buf[wrap(r.start + k - 1)]
    BY <1>9, <1>10, ContentBytes
  <2>2. (Content(r) \o t)[k] = IF k <= u THEN Content(r)[k] ELSE t[k - u]
    BY <1>11, <1>12, ConcatProperties
  <2>3. CASE k <= u
    <3>1. k \in 1 .. u
      BY <2>3, <1>12
    <3>2. Content(r)[k] = r.buf[wrap(r.start + k - 1)]
      BY <3>1, ContentBytes DEF u
    <3> QED BY <3>1, <3>2, <2>1, <2>2, <2>3, <1>7, <1>9
  <2>4. CASE ~(k <= u)
    <3>1. k - u \in 1 .. n /\ k - u - 1 \in 0 .. n - 1 /\ k - u - 1 \in 0 .. n
      BY <2>4, <1>2, <1>12
    <3>2. wrap(r.start + k - 1) = wrap(r.end + (k - u - 1))
      <4>1. wrap(r.end + (k - u - 1)) = wrap(r.start + u + (k - u - 1))
        BY <3>1, <1>4
      <4>2. r.start + u + (k - u - 1) = r.start + k - 1
        BY <1>1 DEF Slots
      <4> QED BY <4>1, <4>2
    <3>3. q.buf[wrap(r.start + k - 1)] = s[1 + (k - u - 1)]
      BY <3>1, <3>2, <1>4, <1>5, <1>9
    <3>4. 1 + (k - u - 1) = k - u
      BY <1>12
    <3> QED BY <3>1, <3>3, <3>4, <2>1, <2>2, <2>4, <1>11
  <2> QED BY <2>3, <2>4
<1>16. Content(q) = Content(r) \o t
  BY <1>13, <1>14, <1>15, SeqEqual
<1> QED BY <1>9, <1>16 DEF n, q, t

-----------------------------------------------------------------------------
(* The types of the driver's state.                                          *)

ProcPoints == {"idle", "put", "room", "pull", "write", "save", "test", "clear", "packetC"}
IrqPoints == {"idle", "put", "room", "pull", "write", "save", "test", "clear",
              "callback", "parse", "restore"}

DriverInv ==
  /\ ack \in 0 .. 1 /\ LED_values \in Nat
  /\ packetB \in 0 .. 15 /\ packetC \in 0 .. 15 /\ pb \in 0 .. 15 /\ cmd \in Byte

RingInv ==
  /\ rx \in Ring /\ tx \in Ring
  /\ saved \in Seq(Byte) /\ Len(saved) <= 2
  /\ packet \in Seq(Byte) /\ Len(packet) <= PACKET_BUF

CtxInv ==
  /\ pc \in [Ctx -> ProcPoints \cup IrqPoints]
  /\ pc["proc"] \in ProcPoints /\ pc["irq"] \in IrqPoints
  /\ arg \in [Ctx -> Nat]
  /\ ret \in [Ctx -> {"idle", "parse", "restore"}] /\ ret["proc"] = "idle"
  /\ out \in [Ctx -> Seq(Byte)] /\ \A c \in Ctx : Len(out[c]) < TUXCTL_BUFSIZE

LineInv ==
  /\ wire_in \in Seq(Byte) /\ wire_out \in Seq(Byte) /\ Len(wire_out) <= SERIAL_ROOM
  /\ room \in [Ctx -> Nat]
  /\ leds \in [0 .. 3 -> SUBSET Range(Segment)] /\ bioc \in BOOLEAN /\ asked \subseteq Times

TypeInv == DriverInv /\ RingInv /\ CtxInv /\ LineInv

\* The byte of one LED, and the packet.
LEMMA LedByteType ==
  ASSUME NEW a \in Nat, NEW i \in 0 .. 3
  PROVE  LedByte(a, i) \in Seq(Byte) /\ Len(LedByte(a, i)) \in 0 .. 1
<1>1. \A n \in 1 .. 16 : ledHEX[n] \in 0 .. 239
  BY DEF ledHEX
<1>2. Nibble(a, 4 * i) + 1 \in 1 .. 16
  <2>1. \A x \in Nat : (x % 16) + 1 \in 1 .. 16
    OBVIOUS
  <2>2. 2 ^ (4 * i) \in Nat \ {0}
    <3>1. CASE i = 0
      BY <3>1
    <3>2. CASE i = 1
      BY <3>2
    <3>3. CASE i = 2
      BY <3>3
    <3>4. CASE i = 3
      BY <3>4
    <3> QED BY <3>1, <3>2, <3>3, <3>4
  <2>3. a \div 2 ^ (4 * i) \in Nat
    BY <2>2
  <2> QED BY <2>1, <2>3 DEF Nibble
<1>3. PICK seg \in 0 .. 239 : seg = ledHEX[Nibble(a, 4 * i) + 1]
  BY <1>1, <1>2
<1>4. LedByte(a, i) \in {<<>>, <<seg>>, <<seg + 16>>}
  BY <1>3 DEF LedByte
<1>5. seg \in Byte /\ seg + 16 \in Byte
  BY DEF Byte
<1>6. \A x \in Byte : <<x>> \in Seq(Byte) /\ Len(<<x>>) = 1
  OBVIOUS
<1>7. <<>> \in Seq(Byte) /\ Len(<<>>) = 0
  BY EmptySeq
<1>8. 0 \in 0 .. 1 /\ 1 \in 0 .. 1
  OBVIOUS
<1> QED BY <1>4, <1>5, <1>6, <1>7, <1>8, Zenon

LEMMA LedPacketType ==
  ASSUME NEW a \in Nat
  PROVE  LedPacket(a) \in Seq(Byte) /\ Len(LedPacket(a)) \in 2 .. 6
<1>1. Nibble(a, 16) \in Byte
  BY DEF Nibble, Byte
<1> DEFINE p == <<MTCP_LED_SET, Nibble(a, 16)>>
<1>2. p \in Seq(Byte) /\ Len(p) = 2
  BY <1>1 DEF MTCP_LED_SET, Byte
<1> HIDE DEF p
<1>a. 0 \in 0 .. 3 /\ 1 \in 0 .. 3 /\ 2 \in 0 .. 3 /\ 3 \in 0 .. 3
  OBVIOUS
<1>3. PICK b0 \in Seq(Byte) : b0 = LedByte(a, 0) /\ Len(b0) \in 0 .. 1
  BY <1>a, LedByteType, Zenon
<1>4. PICK b1 \in Seq(Byte) : b1 = LedByte(a, 1) /\ Len(b1) \in 0 .. 1
  BY <1>a, LedByteType, Zenon
<1>5. PICK b2 \in Seq(Byte) : b2 = LedByte(a, 2) /\ Len(b2) \in 0 .. 1
  BY <1>a, LedByteType, Zenon
<1>6. PICK b3 \in Seq(Byte) : b3 = LedByte(a, 3) /\ Len(b3) \in 0 .. 1
  BY <1>a, LedByteType, Zenon
<1>7. \A s, t \in Seq(Byte) : s \o t \in Seq(Byte) /\ Len(s \o t) = Len(s) + Len(t)
  BY ConcatProperties
<1>8. p \o b0 \in Seq(Byte) /\ Len(p \o b0) = 2 + Len(b0)
  BY <1>2, <1>7
<1>9. p \o b0 \o b1 \in Seq(Byte) /\ Len(p \o b0 \o b1) = 2 + Len(b0) + Len(b1)
  BY <1>7, <1>8
<1>10. p \o b0 \o b1 \o b2 \in Seq(Byte) /\ Len(p \o b0 \o b1 \o b2) = 2 + Len(b0) + Len(b1) + Len(b2)
  BY <1>7, <1>9
<1>11. /\ p \o b0 \o b1 \o b2 \o b3 \in Seq(Byte)
       /\ Len(p \o b0 \o b1 \o b2 \o b3) = 2 + Len(b0) + Len(b1) + Len(b2) + Len(b3)
  BY <1>7, <1>10
<1>12. 2 + Len(b0) + Len(b1) + Len(b2) + Len(b3) \in 2 .. 6
  <2>1. \A i, j, k, m \in 0 .. 1 : 2 + i + j + k + m \in 2 .. 6
    OBVIOUS
  <2> QED BY <1>3, <1>4, <1>5, <1>6, <2>1, Zenon
<1> QED BY <1>3, <1>4, <1>5, <1>6, <1>11, <1>12 DEF LedPacket, p

\* A part of a sequence of bytes.
LEMMA SubBytes ==
  ASSUME NEW s \in Seq(Byte), NEW m \in Nat \ {0}, NEW n \in Int, n <= Len(s)
  PROVE  /\ SubSeq(s, m, n) \in Seq(Byte)
         /\ Len(SubSeq(s, m, n)) = IF m <= n THEN n - m + 1 ELSE 0
         /\ \A i \in 1 .. n - m + 1 : SubSeq(s, m, n)[i] = s[m + i - 1]
<1>1. \A i \in m .. n : s[i] \in Byte
  BY ElementOfSeq
<1> QED BY <1>1, SubSeqProperties

\* Abbreviations, expanded everywhere.
USE DEF driver, ctx, but, line, recv, Go, Runs, Call, LineMoves

LEMMA CtxMembers == "proc" \in Ctx /\ "irq" \in Ctx
BY DEF Ctx

\* The sizes.
LEMMA Sizes ==
  /\ TUXCTL_BUFSIZE \in Nat /\ TUXCTL_BUFSIZE > 8 /\ SERIAL_ROOM \in Nat
  /\ PACKET_BUF \in Nat /\ CHUNK \in Nat \ {0} /\ CHUNK + 2 <= PACKET_BUF
  /\ PACKET_BUF <= TUXCTL_BUFSIZE
BY TuxAssumption

LEMMA TimesNat == \A t \in Times : t \in Nat
<1>1. Times \subseteq 0 .. 5999
  BY TuxAssumption
<1> QED BY <1>1

\* A context's bytes to send.
LEMMA OutSet ==
  ASSUME CtxInv, NEW c \in Ctx, NEW s \in Seq(Byte), Len(s) < TUXCTL_BUFSIZE,
         out' = [out EXCEPT ![c] = s]
  PROVE  out' \in [Ctx -> Seq(Byte)] /\ \A d \in Ctx : Len(out'[d]) < TUXCTL_BUFSIZE
<1>1. out' \in [Ctx -> Seq(Byte)] /\ \A d \in Ctx : out'[d] = IF d = c THEN s ELSE out[d]
  BY DEF CtxInv
<1> QED BY <1>1 DEF CtxInv

\* tuxctl_ldisc_put and write_wakeup.
LEMMA TypePut == ASSUME TypeInv, NEW c \in Ctx, Put(c) PROVE TypeInv'
<1> USE DEF TypeInv, DriverInv, RingInv, CtxInv, LineInv
<1>1. CASE put(c)
  <2>1. tx' \in Ring
    BY <1>1, StoreBytes DEF put
  <2>2. CtxInv'
    BY <1>1 DEF put, Ctx, ProcPoints, IrqPoints
  <2> QED BY <1>1, <2>1, <2>2 DEF put
<1>2. CASE write_room(c)
  <2>1. SERIAL_ROOM - Len(wire_out) \in Nat
    BY Sizes, LenProperties
  <2>2. CtxInv'
    BY <1>2 DEF write_room, Ctx, ProcPoints, IrqPoints
  <2>3. room' \in [Ctx -> Nat]
    BY <1>2, <2>1 DEF write_room
  <2> QED BY <1>2, <2>2, <2>3 DEF write_room
<1>3. CASE pull(c)
  <2>1. room[c] + 1 \in Nat
    OBVIOUS
  <2>2. tx' \in Ring
    BY <1>3, <2>1, DropBytes DEF pull
  <2>3. Oldest(tx, room[c] + 1) \in Seq(Byte) /\ Len(Oldest(tx, room[c] + 1)) < TUXCTL_BUFSIZE
    <3>1. /\ Oldest(tx, room[c] + 1) \in Seq(Byte)
          /\ Len(Oldest(tx, room[c] + 1)) = Least(room[c] + 1, buf_used(tx))
      BY <2>1, OldestBytes
    <3>2. Least(room[c] + 1, buf_used(tx)) < TUXCTL_BUFSIZE
      <4>1. TUXCTL_BUFSIZE \in Nat /\ buf_used(tx) \in 0 .. TUXCTL_BUFSIZE - 1
        BY RingFields DEF Slots
      <4> QED BY <2>1, <4>1, SMTT(30) DEF Least
    <3> QED BY <3>1, <3>2
  <2>4. out' \in [Ctx -> Seq(Byte)] /\ \A d \in Ctx : Len(out'[d]) < TUXCTL_BUFSIZE
    BY <1>3, <2>3, OutSet DEF pull
  <2>5. CtxInv'
    BY <1>3, <2>4 DEF pull, Ctx, ProcPoints, IrqPoints
  <2> QED BY <1>3, <2>2, <2>5 DEF pull
<1>4. CASE write(c)
  <2> DEFINE free == SERIAL_ROOM - Len(wire_out)
             n == IF Len(out[c]) < free THEN Len(out[c]) ELSE free
             s == SubSeq(out[c], 1, n)
  <2>1. out[c] \in Seq(Byte) /\ Len(out[c]) \in Nat /\ Len(wire_out) \in Nat /\ free \in Nat
    <3>1. out[c] \in Seq(Byte) /\ wire_out \in Seq(Byte) /\ Len(wire_out) <= SERIAL_ROOM
      OBVIOUS
    <3>2. Len(out[c]) \in Nat /\ Len(wire_out) \in Nat
      BY <3>1, LenProperties
    <3> QED BY <3>1, <3>2, Sizes
  <2>2. n \in Nat /\ n <= Len(out[c]) /\ n <= free
    BY <2>1
  <2>3. s \in Seq(Byte) /\ Len(s) = IF 1 <= n THEN n - 1 + 1 ELSE 0
    BY <2>1, <2>2, SubBytes
  <2>4. wire_out' = wire_out \o s
    BY <1>4 DEF write
  <2>5. wire_out \o s \in Seq(Byte) /\ Len(wire_out \o s) = Len(wire_out) + Len(s)
    BY <2>3, ConcatProperties
  <2>6. Len(s) <= free
    BY <2>2, <2>3
  <2>7. wire_out' \in Seq(Byte) /\ Len(wire_out') <= SERIAL_ROOM
    <3>1. Len(wire_out) + Len(s) <= SERIAL_ROOM
      <4> HIDE DEF s
      <4> QED BY <2>1, <2>2, <2>3, <2>6, Sizes
    <3> QED BY <2>4, <2>5, <3>1
  <2>8. out' \in [Ctx -> Seq(Byte)] /\ \A d \in Ctx : Len(out'[d]) < TUXCTL_BUFSIZE
    <3>1. <<>> \in Seq(Byte) /\ Len(<<>>) < TUXCTL_BUFSIZE
      BY EmptySeq, Sizes
    <3>2. out' = [out EXCEPT ![c] = <<>>]
      BY <1>4 DEF write
    <3> QED BY <3>1, <3>2, OutSet
  <2>9. CtxInv'
    BY <1>4, <2>8 DEF write, Ctx, ProcPoints, IrqPoints
  <2> QED BY <1>4, <2>7, <2>9 DEF write
<1> QED BY <1>1, <1>2, <1>3, <1>4 DEF Put

\* The two bytes of ioctl_tux_init.
LEMMA InitBytes ==
  <<MTCP_LED_USR, MTCP_BIOC_ON>> \in Seq(Byte) /\ Len(<<MTCP_LED_USR, MTCP_BIOC_ON>>) = 2
BY DEF MTCP_LED_USR, MTCP_BIOC_ON, Byte

LEMMA InitShort == Len(<<MTCP_LED_USR, MTCP_BIOC_ON>>) < TUXCTL_BUFSIZE
BY InitBytes, Sizes

\* ioctl_tux_leds.
LEMMA TypeLeds == ASSUME TypeInv, NEW c \in Ctx, Leds(c) PROVE TypeInv'
<1> USE DEF TypeInv, DriverInv, RingInv, CtxInv, LineInv
<1>1. CASE save(c)
  BY <1>1 DEF save, Ctx, ProcPoints, IrqPoints
<1>2. CASE test(c)
  BY <1>2 DEF test, Ctx, ProcPoints, IrqPoints
<1>3. CASE clear(c)
  <2>1. /\ LedPacket(arg[c]) \in Seq(Byte) /\ Len(LedPacket(arg[c])) < TUXCTL_BUFSIZE
    <3>1. PICK a \in Nat : a = arg[c]
      OBVIOUS
    <3>2. LedPacket(a) \in Seq(Byte) /\ Len(LedPacket(a)) \in 2 .. 6
      BY LedPacketType
    <3>3. \A n \in 2 .. 6 : n < TUXCTL_BUFSIZE
      BY Sizes
    <3> QED BY <3>1, <3>2, <3>3, Zenon
  <2>2. out' \in [Ctx -> Seq(Byte)] /\ \A d \in Ctx : Len(out'[d]) < TUXCTL_BUFSIZE
    BY <1>3, <2>1, OutSet DEF clear
  <2>3. CtxInv'
    BY <1>3, <2>2 DEF clear, Ctx, ProcPoints, IrqPoints
  <2> QED BY <1>3, <2>3 DEF clear
<1> QED BY <1>1, <1>2, <1>3 DEF Leds

\* The ioctls begin and end.
LEMMA TypeCalls ==
  ASSUME TypeInv, TUX_INIT \/ TUX_SET_LED \/ TUX_BUTTONS \/ ioctl_tux_buttons PROVE TypeInv'
<1> USE DEF TypeInv, DriverInv, RingInv, CtxInv, LineInv
<1>1. CASE TUX_INIT
  <2>1. out' \in [Ctx -> Seq(Byte)] /\ \A d \in Ctx : Len(out'[d]) < TUXCTL_BUFSIZE
    <3>1. out' = [out EXCEPT !["proc"] = <<MTCP_LED_USR, MTCP_BIOC_ON>>]
      BY <1>1 DEF TUX_INIT, StartInit
    <3> QED BY <3>1, InitBytes, InitShort, CtxMembers, OutSet
  <2>2. CtxInv'
    BY <1>1, <2>1 DEF TUX_INIT, StartInit, Ctx, ProcPoints, IrqPoints
  <2> QED BY <1>1, <2>2 DEF TUX_INIT
<1>2. CASE TUX_SET_LED
  <2>1. PICK t \in Times : arg' = [arg EXCEPT !["proc"] = convertTime(t)] /\ asked' = asked \cup {t}
    BY <1>2 DEF TUX_SET_LED
  <2>2. t \in Nat
    BY TimesNat
  <2>3. convertTime(t) \in Nat
    <3>1. t \div 60 \in Nat /\ t % 60 \in Nat
      BY <2>2
    <3>2. \A m, s \in Nat : 4 * 2^24 + (IF m \div 10 # 0 THEN 15 ELSE 7) * 2^16
             + (m \div 10) * 2^12 + (m % 10) * 2^8 + (s \div 10) * 2^4 + (s % 10) \in Nat
      OBVIOUS
    <3> QED BY <3>1, <3>2 DEF convertTime
  <2> HIDE DEF LineInv
  <2>4. arg' \in [Ctx -> Nat]
    BY <2>1, <2>3
  <2>5. CtxInv'
    BY <1>2, <2>4 DEF TUX_SET_LED, Ctx, ProcPoints, IrqPoints
  <2>6. LineInv'
    BY <1>2, <2>1 DEF TUX_SET_LED, LineInv
  <2> QED BY <1>2, <2>5, <2>6 DEF TUX_SET_LED
<1>3. CASE TUX_BUTTONS
  BY <1>3 DEF TUX_BUTTONS, Ctx, ProcPoints, IrqPoints
<1>4. CASE ioctl_tux_buttons
  <2>1. buttons_byte(pb, packetC) \in Byte
    <3>1. \A x \in Nat : x % 2 \in 0 .. 1
      OBVIOUS
    <3>2. /\ Bit(packetC, 0) \in 0 .. 1 /\ Bit(packetC, 1) \in 0 .. 1
          /\ Bit(packetC, 2) \in 0 .. 1 /\ Bit(packetC, 3) \in 0 .. 1
      BY DEF Bit
    <3>3. \A i, j, k, l \in 0 .. 1, m \in 0 .. 15 :
            16 * (8 * l + i + 2 * k + 4 * j) + (m % 16) \in 0 .. 255
      OBVIOUS
    <3> QED BY <3>2, <3>3 DEF buttons_byte, Byte
  <2>2. CtxInv'
    BY <1>4 DEF ioctl_tux_buttons, Ctx, ProcPoints, IrqPoints
  <2> QED BY <1>4, <2>1, <2>2 DEF ioctl_tux_buttons
<1> QED BY <1>1, <1>2, <1>3, <1>4

\* What the controller sends: packets of three bytes, framed.
Packet == {p \in Seq(Byte) : Len(p) = 3 /\ Framed(p)}

LEMMA PacketIntro ==
  ASSUME NEW a \in 0 .. 127, NEW b \in 128 .. 255, NEW c \in 128 .. 255
  PROVE  <<a, b, c>> \in Packet
<1>1. <<a, b, c>> \in Seq(Byte)
  BY DEF Byte
<1>2. Len(<<a, b, c>>) = 3 /\ <<a, b, c>>[1] = a /\ <<a, b, c>>[2] = b /\ <<a, b, c>>[3] = c
  OBVIOUS
<1>3. a < 128 /\ b >= 128 /\ c >= 128
  OBVIOUS
<1> QED BY <1>1, <1>2, <1>3 DEF Packet, Framed

LEMMA SaidPackets ==
  /\ <<MTCP_ACK, 128, 128>> \in Packet /\ <<MTCP_RESET, 128, 128>> \in Packet
  /\ \A press : EventOf(press) \in Packet
<1>1. \A press : \A names : Held(press, names) \in 128 .. 255
  BY DEF Held
<1>2. MTCP_ACK \in 0 .. 127 /\ MTCP_RESET \in 0 .. 127 /\ MTCP_BIOC_EVENT \in 0 .. 127 /\ 128 \in 128 .. 255
  BY DEF MTCP_ACK, MTCP_RESET, MTCP_BIOC_EVENT
<1>3. \A press : EventOf(press) \in Packet
  BY <1>1, <1>2, PacketIntro, Zenon DEF EventOf
<1> QED BY <1>2, <1>3, PacketIntro, Zenon

\* Saying a packet.
LEMMA SayBytes ==
  ASSUME wire_in \in Seq(Byte), NEW p \in Packet, Say(p) PROVE wire_in' \in Seq(Byte)
BY ConcatProperties DEF Say, Packet

\* A command of the controller is at least one byte long.
LEMMA CommandLengthNat ==
  ASSUME NEW s PROVE CommandLength(s) \in Nat \ {0}
<1>1. IsFiniteSet(0 .. 3)
  <2>1. 0 \in Int /\ 3 \in Int
    OBVIOUS
  <2> QED BY <2>1, FS_Interval, Zenon
<1>2. Cardinality({i \in 0 .. 3 : Bit(s[2], i) = 1}) \in Nat
  BY <1>1, FS_Subset, FS_CardinalityType
<1> QED BY <1>2 DEF CommandLength

\* What a display byte lights.
LEMMA LitType == \A byte : Lit(byte) \in SUBSET Range(Segment)
<1>1. DOMAIN Segment = 1 .. 8
  BY DEF Segment
<1> QED BY <1>1 DEF Lit, Range

\* The line and the controller.
LEMMA TypeLine ==
  ASSUME TypeInv, Obey \/ ResetButton \/ PressButtons \/ LoseByte PROVE TypeInv'
<1> USE DEF TypeInv, DriverInv, RingInv, CtxInv, LineInv
<1>1. CASE Obey
  <2>1. wire_out' \in Seq(Byte) /\ Len(wire_out') <= SERIAL_ROOM
    <3>1. PICK n \in Nat \ {0} : n = CommandLength(wire_out)
      BY CommandLengthNat
    <3>2. wire_out' = SubSeq(wire_out, n + 1, Len(wire_out))
      BY <1>1, <3>1 DEF Obey
    <3>3. Len(wire_out) \in Nat /\ n + 1 \in Nat \ {0}
      BY LenProperties
    <3>4. /\ wire_out' \in Seq(Byte)
          /\ Len(wire_out') = IF n + 1 <= Len(wire_out) THEN Len(wire_out) - (n + 1) + 1 ELSE 0
      BY <3>2, <3>3, SubBytes
    <3> QED BY <3>3, <3>4, Sizes
  <2>2. wire_in' \in Seq(Byte)
    <3>1. CASE Say(<<MTCP_ACK, 128, 128>>)
      BY <3>1, SaidPackets, SayBytes
    <3>2. CASE UNCHANGED wire_in
      BY <3>2
    <3> QED BY <1>1, <3>1, <3>2 DEF Obey
  <2>3. leds' \in [0 .. 3 -> SUBSET Range(Segment)]
    <3> DEFINE on == SelectSeq(<<0, 1, 2, 3>>, LAMBDA i : Bit(wire_out[2], i) = 1)
               new == [i \in 0 .. 3 |-> IF Contains(on, i)
                          THEN Lit(wire_out[2 + CHOOSE k \in 1 .. Len(on) : on[k] = i])
                          ELSE leds[i]]
    <3>1. leds' = new \/ leds' = leds
      BY <1>1 DEF Obey
    <3> HIDE DEF on
    <3>2. new \in [0 .. 3 -> SUBSET Range(Segment)]
      BY LitType
    <3> QED BY <3>1, <3>2
  <2>4. bioc' \in BOOLEAN
    BY <1>1 DEF Obey
  <2>5. UNCHANGED <<driver, tx, ctx, but, recv, asked>>
    BY <1>1 DEF Obey
  <2>6. DriverInv' /\ RingInv' /\ CtxInv'
    BY <2>5
  <2>7. LineInv'
    BY <2>1, <2>2, <2>3, <2>4, <2>5
  <2> QED BY <2>6, <2>7
<1>2. CASE ResetButton
  <2>1. wire_in' \in Seq(Byte)
    BY <1>2, SaidPackets, SayBytes DEF ResetButton
  <2>2. leds' \in [0 .. 3 -> SUBSET Range(Segment)] /\ bioc' \in BOOLEAN
    BY <1>2 DEF ResetButton
  <2> QED BY <1>2, <2>1, <2>2 DEF ResetButton
<1>3. CASE PressButtons
  <2>1. wire_in' \in Seq(Byte)
    BY <1>3, SaidPackets, SayBytes DEF PressButtons
  <2> QED BY <1>3, <2>1 DEF PressButtons
<1>4. CASE LoseByte
  <2>1. wire_in' \in Seq(Byte)
    BY <1>4, HeadTailProperties DEF LoseByte
  <2> QED BY <1>4, <2>1 DEF LoseByte
<1> QED BY <1>1, <1>2, <1>3, <1>4

\* The receive interrupt.
LEMMA TypeReceive == ASSUME TypeInv, rcv_buf \/ data_callback PROVE TypeInv'
<1> USE DEF TypeInv, DriverInv, RingInv, CtxInv, LineInv
<1>1. CASE rcv_buf
  <2>1. Len(wire_in) \in Nat
    BY LenProperties
  <2>2. PICK n \in 1 .. (IF CHUNK <= Len(wire_in) THEN CHUNK ELSE Len(wire_in)) :
          /\ rx' = Store(rx, SubSeq(wire_in, 1, n))
          /\ wire_in' = SubSeq(wire_in, n + 1, Len(wire_in))
    BY <1>1 DEF rcv_buf
  <2>3. n \in Nat \ {0} /\ n <= Len(wire_in) /\ n + 1 \in Nat \ {0}
    BY <2>1, Sizes
  <2>4. SubSeq(wire_in, 1, n) \in Seq(Byte) /\ wire_in' \in Seq(Byte)
    BY <2>1, <2>2, <2>3, SubBytes, SMTT(30)
  <2>5. rx' \in Ring
    BY <2>2, <2>4, StoreBytes
  <2>6. CtxInv'
    BY <1>1 DEF rcv_buf, Ctx, ProcPoints, IrqPoints
  <2>7. RingInv'
    BY <1>1, <2>5 DEF rcv_buf
  <2>8. LineInv' /\ DriverInv'
    BY <1>1, <2>4 DEF rcv_buf
  <2> QED BY <2>6, <2>7, <2>8
<1>2. CASE data_callback
  <2>1. PACKET_BUF - Len(saved) \in Nat /\ Len(saved) \in Nat /\ PACKET_BUF \in Nat
    BY LenProperties, Sizes
  <2> DEFINE n == PACKET_BUF - Len(saved)
             s == Oldest(rx, n)
  <2>2. s \in Seq(Byte) /\ Len(s) = Least(n, buf_used(rx)) /\ Drop(rx, n) \in Ring
    BY <2>1, OldestBytes, DropBytes
  <2>3. Least(n, buf_used(rx)) <= n /\ Least(n, buf_used(rx)) \in Nat
    <3>1. buf_used(rx) \in Nat
      BY RingFields DEF Slots
    <3> QED BY <2>1, <3>1, LeastNat
  <2> HIDE DEF s
  <2>4. saved \o s \in Seq(Byte) /\ Len(saved \o s) = Len(saved) + Len(s)
    BY <2>2, ConcatProperties
  <2>5. Len(saved \o s) <= PACKET_BUF
    BY <2>1, <2>2, <2>3, <2>4
  <2>6. packet' = saved \o s /\ rx' = Drop(rx, n)
    BY <1>2 DEF data_callback, s
  <2>7. RingInv'
    BY <1>2, <2>2, <2>4, <2>5, <2>6 DEF data_callback
  <2>8. CtxInv'
    BY <1>2 DEF data_callback, Ctx, ProcPoints, IrqPoints
  <2>9. LineInv' /\ DriverInv'
    BY <1>2 DEF data_callback
  <2> QED BY <2>7, <2>8, <2>9
<1> QED BY <1>1, <1>2

\* One turn of the parser, and the two other steps of the interrupt.
LEMMA TypeParse == ASSUME TypeInv, parse PROVE TypeInv'
<1> USE DEF TypeInv, DriverInv, RingInv, CtxInv, LineInv
<1>1. Len(packet) \in Nat /\ PACKET_BUF \in Nat
  BY LenProperties, Sizes
<1>2. UNCHANGED <<tx, rx, room, but, line, asked>>
  BY DEF parse
<1>3. LineInv'
  BY <1>2
<1>4. CASE Len(packet) > 2 /\ Framed(packet) /\ handle_packet(SubSeq(packet, 1, 3))
  <2>1. 4 \in Nat \ {0} /\ 1 \in Nat \ {0} /\ 3 <= Len(packet)
    BY <1>1, <1>4
  <2>2. /\ SubSeq(packet, 4, Len(packet)) \in Seq(Byte)
        /\ Len(SubSeq(packet, 4, Len(packet))) = IF 4 <= Len(packet) THEN Len(packet) - 4 + 1 ELSE 0
    BY <1>1, <2>1, SubBytes
  <2>3. packet' = SubSeq(packet, 4, Len(packet)) /\ UNCHANGED <<saved, arg>>
    BY <1>4 DEF handle_packet
  <2>4. RingInv'
    BY <1>1, <1>2, <2>2, <2>3
  <2>5. PICK p \in Seq(Byte) : p = SubSeq(packet, 1, 3) /\ Len(p) = 3
    <3>1. /\ SubSeq(packet, 1, 3) \in Seq(Byte)
          /\ Len(SubSeq(packet, 1, 3)) = IF 1 <= 3 THEN 3 - 1 + 1 ELSE 0
      BY <2>1, SubBytes, SMTT(30)
    <3>2. (IF 1 <= 3 THEN 3 - 1 + 1 ELSE 0) = 3
      OBVIOUS
    <3> QED BY <3>1, <3>2, Zenon
  <2>6. p[1] \in Byte /\ p[2] \in Byte /\ p[3] \in Byte
    BY <2>5, ElementOfSeq
  <2>7. CASE StartInit("irq", "restore") /\ UNCHANGED driver
    <3>1. out' = [out EXCEPT !["irq"] = <<MTCP_LED_USR, MTCP_BIOC_ON>>]
      BY <2>7 DEF StartInit
    <3>2. out' \in [Ctx -> Seq(Byte)] /\ \A d \in Ctx : Len(out'[d]) < TUXCTL_BUFSIZE
      BY <3>1, InitBytes, InitShort, CtxMembers, OutSet
    <3>3. CtxInv'
      BY <2>3, <2>7, <3>2 DEF StartInit, Ctx, ProcPoints, IrqPoints
    <3>4. DriverInv'
      BY <2>7, <1>2
    <3> QED BY <1>3, <2>4, <3>3, <3>4
  <2>8. CASE ack' = 1 /\ UNCHANGED <<LED_values, packetB, packetC, pc, out, ret>>
    <3>1. CtxInv' /\ DriverInv'
      BY <1>2, <2>3, <2>8
    <3> QED BY <1>3, <2>4, <3>1
  <2>9. CASE response_bioc(p) /\ UNCHANGED <<ack, LED_values, pc, out, ret>>
    <3>1. \A x \in Byte : 15 - (x % 16) \in 0 .. 15
      BY DEF Byte
    <3>2. packetB' \in 0 .. 15 /\ packetC' \in 0 .. 15
      BY <2>6, <2>9, <3>1 DEF response_bioc
    <3>3. CtxInv' /\ DriverInv'
      BY <1>2, <2>3, <2>9, <3>2
    <3> QED BY <1>3, <2>4, <3>3
  <2>10. CASE UNCHANGED <<driver, pc, out, ret>>
    <3>1. CtxInv' /\ DriverInv'
      BY <1>2, <2>3, <2>10
    <3> QED BY <1>3, <2>4, <3>1
  <2> QED BY <1>4, <2>5, <2>7, <2>8, <2>9, <2>10 DEF handle_packet
<1>5. CASE /\ Len(packet) > 2 /\ packet' = Tail(packet)
           /\ UNCHANGED <<driver, handled, saved, pc, arg, out, ret>>
  <2>1. packet # <<>>
    BY <1>5, EmptySeq
  <2>2. packet' \in Seq(Byte) /\ Len(packet') <= PACKET_BUF
    BY <1>1, <1>5, <2>1, HeadTailProperties
  <2>3. RingInv' /\ CtxInv' /\ DriverInv'
    BY <1>2, <1>5, <2>2
  <2> QED BY <1>3, <2>3
<1>6. CASE /\ Len(packet) <= 2 /\ saved' = packet /\ packet' = <<>> /\ Go("irq", "idle")
           /\ UNCHANGED <<driver, handled, arg, out, ret>>
  <2>1. packet' \in Seq(Byte) /\ Len(packet') <= PACKET_BUF
    BY <1>1, <1>6, EmptySeq
  <2>2. RingInv' /\ DriverInv'
    BY <1>2, <1>6, <2>1
  <2>3. CtxInv'
    BY <1>6 DEF Ctx, ProcPoints, IrqPoints
  <2> QED BY <1>3, <2>2, <2>3
<1> QED BY <1>4, <1>5, <1>6 DEF parse

LEMMA TypeInterrupt == ASSUME TypeInv, response_reset \/ DriverWakeup PROVE TypeInv'
<1> USE DEF TypeInv, DriverInv, RingInv, CtxInv, LineInv
<1>1. CASE response_reset
  BY <1>1 DEF response_reset, Ctx, ProcPoints, IrqPoints
<1>2. CASE DriverWakeup
  BY <1>2 DEF DriverWakeup, Ctx, ProcPoints, IrqPoints
<1> QED BY <1>1, <1>2

LEMMA TypeInit == Init => TypeInv
<1> HAVE Init
<1>1. <<>> \in Seq(Byte) /\ Len(<<>>) = 0
  BY EmptySeq
<1>2. EmptyRing \in Ring
  BY TuxAssumption DEF EmptyRing, Ring
<1>3. DriverInv /\ RingInv
  BY <1>1, <1>2, Sizes DEF Init, DriverInv, RingInv, Byte
<1>4. CtxInv
  BY <1>1, Sizes DEF Init, CtxInv, Ctx, ProcPoints, IrqPoints
<1>5. LineInv
  <2>1. wire_in \in Seq(Byte) /\ wire_out \in Seq(Byte) /\ Len(wire_out) <= SERIAL_ROOM
    BY <1>1, Sizes DEF Init
  <2>2. leds \in [0 .. 3 -> SUBSET Range(Segment)] /\ room \in [Ctx -> Nat]
    BY DEF Init
  <2> QED BY <2>1, <2>2 DEF Init, LineInv
<1> QED BY <1>3, <1>4, <1>5 DEF TypeInv

LEMMA TypeStep == ASSUME TypeInv, [Next]_vars PROVE TypeInv'
<1>1. CASE Next
  BY <1>1, TypeCalls, TypePut, TypeLeds, TypeReceive, TypeParse, TypeInterrupt, TypeLine
     DEF Next, Interrupt
<1>2. CASE UNCHANGED vars
  BY <1>2 DEF vars, TypeInv, DriverInv, RingInv, CtxInv, LineInv
<1> QED BY <1>1, <1>2

\* Every variable keeps its type, and the rings, the bytes kept between
\* interrupts and the two contexts keep to their bounds.
THEOREM TypeCorrect == Spec => []TypeOK
<1>1. ASSUME TypeInv PROVE TypeOK
  <2>1. \A c \in Ctx : /\ arg[c] \in Nat /\ room[c] \in Int /\ ret[c] \in {"idle", "parse", "restore"}
                       /\ Len(out[c]) < TUXCTL_BUFSIZE
    BY <1>1 DEF TypeInv, CtxInv, LineInv
  <2> QED BY <1>1, <2>1 DEF TypeInv, DriverInv, RingInv, CtxInv, LineInv, TypeOK, ProcPoints,
                            IrqPoints, Byte
<1> QED BY <1>1, TypeInit, TypeStep, PTL DEF Spec

-----------------------------------------------------------------------------
(* The rings implement queues.                                               *)

\* The first bytes of the first bytes.
LEMMA PrefixTwice ==
  ASSUME NEW s \in Seq(Byte), NEW n \in Nat, n <= Len(s), NEW k \in Nat, k <= n
  PROVE  SubSeq(SubSeq(s, 1, n), 1, k) = SubSeq(s, 1, k)
<1> DEFINE t == SubSeq(s, 1, n)
           u == SubSeq(t, 1, k)
           v == SubSeq(s, 1, k)
<1>1. 1 \in Nat \ {0} /\ Len(s) \in Nat /\ n \in Int /\ k \in Int /\ k <= Len(s)
  BY LenProperties
<1>2. /\ t \in Seq(Byte) /\ Len(t) = IF 1 <= n THEN n - 1 + 1 ELSE 0
      /\ \A i \in 1 .. n - 1 + 1 : t[i] = s[1 + i - 1]
  BY <1>1, SubBytes
<1>3. /\ v \in Seq(Byte) /\ Len(v) = IF 1 <= k THEN k - 1 + 1 ELSE 0
      /\ \A i \in 1 .. k - 1 + 1 : v[i] = s[1 + i - 1]
  BY <1>1, SubBytes
<1> HIDE DEF t, v
<1>4. Len(t) = n
  BY <1>2
<1>5. /\ u \in Seq(Byte) /\ Len(u) = IF 1 <= k THEN k - 1 + 1 ELSE 0
      /\ \A i \in 1 .. k - 1 + 1 : u[i] = t[1 + i - 1]
  BY <1>1, <1>2, <1>4, SubBytes
<1> HIDE DEF u
<1>6. Len(u) = k /\ Len(v) = k
  BY <1>3, <1>5
<1>7. ASSUME NEW i \in 1 .. k PROVE u[i] = v[i]
  <2>1. i \in 1 .. k - 1 + 1 /\ i \in 1 .. n - 1 + 1 /\ 1 + i - 1 = i
    OBVIOUS
  <2> QED BY <2>1, <1>2, <1>3, <1>5
<1>8. u = v
  BY <1>3, <1>5, <1>6, <1>7, SeqEqual
<1> QED BY <1>8 DEF u, v, t

\* A ring never holds more than it has room for.
LEMMA ContentRoom == ASSUME NEW r \in Ring PROVE Len(Content(r)) <= TUXCTL_BUFSIZE - 1
<1>1. Len(Content(r)) = buf_used(r) /\ buf_used(r) \in 0 .. TUXCTL_BUFSIZE - 1 /\ TUXCTL_BUFSIZE \in Nat
  BY ContentBytes, RingFields DEF Slots
<1> QED BY <1>1

LEMMA EmptyContent == Content(EmptyRing) = <<>>
<1>1. EmptyRing \in Ring
  BY TuxAssumption DEF EmptyRing, Ring
<1>2. buf_used(EmptyRing) = 0
  BY DEF EmptyRing, buf_used
<1>3. Content(EmptyRing) \in Seq(Byte) /\ Len(Content(EmptyRing)) = 0
  BY <1>1, <1>2, ContentBytes
<1> QED BY <1>3, EmptySeq

\* The steps that leave a ring alone.
LEMMA RxAlone ==
  ASSUME [Next]_vars, ~rcv_buf, ~data_callback PROVE rx' = rx
<1>1. CASE Next
  BY <1>1 DEF Next, Interrupt, Put, Leds, put, write_room, pull, write, save, test, clear, TUX_INIT, TUX_SET_LED,
     TUX_BUTTONS, ioctl_tux_buttons, parse, response_reset, DriverWakeup, Obey, ResetButton,
     PressButtons, LoseByte
<1> QED BY <1>1, SMTT(30) DEF vars

LEMMA TxAlone ==
  ASSUME [Next]_vars, \A c \in Ctx : ~put(c) /\ ~pull(c) PROVE tx' = tx
<1>1. CASE Next
  BY <1>1 DEF Next, Interrupt, Put, Leds, write_room, write, save, test, clear, TUX_INIT, TUX_SET_LED,
     TUX_BUTTONS, ioctl_tux_buttons, rcv_buf, data_callback, parse, response_reset, DriverWakeup, Obey,
     ResetButton, PressButtons, LoseByte
<1> QED BY <1>1, SMTT(30) DEF vars

\* The end of a concatenation.
LEMMA ConcatTail ==
  ASSUME NEW s \in Seq(Byte), NEW t \in Seq(Byte)
  PROVE  SubSeq(s \o t, Len(s) + 1, Len(s \o t)) = t
<1>1. Len(s) \in Nat /\ Len(t) \in Nat /\ s \o t \in Seq(Byte) /\ Len(s \o t) = Len(s) + Len(t)
  BY LenProperties, ConcatProperties
<1> DEFINE u == SubSeq(s \o t, Len(s) + 1, Len(s \o t))
<1>2. /\ u \in Seq(Byte)
      /\ Len(u) = IF Len(s) + 1 <= Len(s \o t) THEN Len(s \o t) - (Len(s) + 1) + 1 ELSE 0
      /\ \A i \in 1 .. Len(s \o t) - (Len(s) + 1) + 1 : u[i] = (s \o t)[Len(s) + 1 + i - 1]
  BY <1>1, SubBytes
<1>3. Len(u) = Len(t)
  BY <1>1, <1>2
<1>4. ASSUME NEW i \in 1 .. Len(t) PROVE u[i] = t[i]
  <2>1. /\ i \in 1 .. Len(s \o t) - (Len(s) + 1) + 1 /\ Len(s) + 1 + i - 1 = Len(s) + i
        /\ Len(s) + i \in 1 .. Len(s) + Len(t) /\ ~(Len(s) + i <= Len(s)) /\ Len(s) + i - Len(s) = i
    BY <1>1
  <2>2. (s \o t)[Len(s) + i] = t[i]
    BY <2>1, ConcatProperties
  <2> QED BY <1>2, <2>1, <2>2
<1> HIDE DEF u
<1> QED BY <1>2, <1>3, <1>4, SeqEqual DEF u

\* tuxctl_ldisc_rcv_buf adds to the receive ring, data_callback takes from it.
LEMMA RxStep ==
  ASSUME TypeInv, [Next]_vars PROVE [RxQueue!Add \/ RxQueue!Take]_(Content(rx))
<1>1. CASE rcv_buf
  <2>1. PICK n \in 1 .. (IF CHUNK <= Len(wire_in) THEN CHUNK ELSE Len(wire_in)) :
          rx' = Store(rx, SubSeq(wire_in, 1, n))
    BY <1>1 DEF rcv_buf
  <2>2. rx \in Ring /\ wire_in \in Seq(Byte) /\ Len(wire_in) \in Nat
    BY LenProperties DEF TypeInv, RingInv, LineInv
  <2>3. n \in Nat /\ n <= Len(wire_in) /\ 1 \in Nat \ {0}
    BY <2>2, Sizes
  <2>4. PICK s \in Seq(Byte) : s = SubSeq(wire_in, 1, n)
    <3>1. SubSeq(wire_in, 1, n) \in Seq(Byte)
      BY <2>2, <2>3, SubBytes, SMTT(30)
    <3> QED BY <3>1, Zenon
  <2>5. /\ rx' \in Ring
        /\ Content(rx)' = Content(rx) \o SubSeq(s, 1, Least(Len(s), buf_room(rx)))
    BY <2>1, <2>2, <2>4, StoreBytes DEF Content, Oldest, buf_used
  <2>6. Len(s) = n
    <3>1. Len(SubSeq(wire_in, 1, n)) = IF 1 <= n THEN n - 1 + 1 ELSE 0
      BY <2>2, <2>3, SubBytes
    <3> QED BY <3>1, <2>3, <2>4
  <2>7. PICK k \in Nat : k = Least(Len(s), buf_room(rx)) /\ k <= n
    <3>1. buf_room(rx) \in Nat
      BY <2>2, RingFields DEF Slots
    <3> QED BY <3>1, <2>3, <2>6, LeastNat
  <2>8. SubSeq(s, 1, k) = SubSeq(wire_in, 1, k) /\ k \in 0 .. Len(wire_in)
    BY <2>2, <2>3, <2>4, <2>7, PrefixTwice
  <2>9. Len(Content(rx)') <= TUXCTL_BUFSIZE - 1
    BY <2>5, ContentRoom DEF Content, Oldest, buf_used
  <2>10. [w \in {"rcv_buf"} |-> wire_in]["rcv_buf"] = wire_in
    OBVIOUS
  <2> QED BY <2>5, <2>7, <2>8, <2>9, <2>10 DEF RxQueue!Add
<1>2. CASE data_callback
  <2> DEFINE n == PACKET_BUF - Len(saved)
  <2>1. rx \in Ring /\ n \in Nat /\ saved \in Seq(Byte) /\ Len(saved) \in Nat
    BY Sizes, LenProperties DEF TypeInv, RingInv
  <2>2. rx' = Drop(rx, n) /\ packet' = saved \o Oldest(rx, n) /\ saved' = saved
    BY <1>2 DEF data_callback
  <2> HIDE DEF n
  <2>3. Content(rx) = Oldest(rx, n) \o Content(rx)'
    <3>1. Content(rx) = Oldest(rx, n) \o Content(Drop(rx, n))
      BY <2>1, DropBytes
    <3>2. Content(rx)' = Content(Drop(rx, n))
      BY <2>2 DEF Content, Oldest, buf_used
    <3> QED BY <3>1, <3>2
  <2>4. PICK s \in Seq(Byte) : s = Oldest(rx, n)
    BY <2>1, OldestBytes
  <2>5. SubSeq(packet', Len(saved') + 1, Len(packet')) = s
    BY <2>1, <2>2, <2>4, ConcatTail
  <2>6. [r \in {"callback"} |-> SubSeq(packet, Len(saved) + 1, Len(packet))]'["callback"] = s
    BY <2>5
  <2> QED BY <2>3, <2>4, <2>6 DEF RxQueue!Take
<1>3. CASE ~rcv_buf /\ ~data_callback
  BY <1>3, RxAlone DEF Content, Oldest, buf_used
<1> QED BY <1>1, <1>2, <1>3

\* tuxctl_ldisc_put adds to the transmit ring and write_wakeup takes from it,
\* both in either context.
LEMMA TxStep ==
  ASSUME TypeInv, [Next]_vars PROVE [TxQueue!Add \/ TxQueue!Take]_(Content(tx))
<1>1. ASSUME NEW c \in Ctx, put(c) PROVE TxQueue!Add
  <2>1. PICK s \in Seq(Byte) : s = out[c]
    BY DEF TypeInv, CtxInv
  <2>2. tx' = Store(tx, s) /\ tx \in Ring
    BY <1>1, <2>1 DEF put, TypeInv, RingInv
  <2>3. /\ tx' \in Ring
        /\ Content(tx)' = Content(tx) \o SubSeq(s, 1, Least(Len(s), buf_room(tx)))
    BY <2>2, StoreBytes DEF Content, Oldest, buf_used
  <2>4. PICK k \in 0 .. Len(s) : k = Least(Len(s), buf_room(tx))
    <3>1. Len(s) \in Nat /\ buf_room(tx) \in Nat
      BY <2>2, LenProperties, RingFields DEF Slots
    <3> QED BY <3>1, LeastNat
  <2>5. Len(Content(tx)') <= TUXCTL_BUFSIZE - 1
    BY <2>3, ContentRoom DEF Content, Oldest, buf_used
  <2> QED BY <2>1, <2>3, <2>4, <2>5 DEF TxQueue!Add
<1>2. ASSUME NEW c \in Ctx, pull(c) PROVE TxQueue!Take
  <2>1. PICK n \in Nat : n = room[c] + 1
    BY DEF TypeInv, LineInv
  <2>2. tx \in Ring /\ tx' = Drop(tx, n) /\ out'[c] = Oldest(tx, n)
    BY <1>2, <2>1 DEF pull, TypeInv, RingInv, CtxInv
  <2>3. Content(tx) = Oldest(tx, n) \o Content(Drop(tx, n))
    BY <2>2, DropBytes
  <2>4. Content(tx)' = Content(Drop(tx, n))
    BY <2>2 DEF Content, Oldest, buf_used
  <2>5. Content(tx) = out'[c] \o Content(tx)'
    BY <2>2, <2>3, <2>4
  <2> QED BY <2>5 DEF TxQueue!Take
<1>3. CASE \A c \in Ctx : ~put(c) /\ ~pull(c)
  BY <1>3, TxAlone DEF Content, Oldest, buf_used
<1> QED BY <1>1, <1>2, <1>3

\* Both rings of the line discipline implement a queue: whatever interrupts
\* come between the steps of the process, no byte is passed over, repeated or
\* overtaken, and a full ring keeps what it holds.
THEOREM RingsImplementQueues == Spec => RingsAreQueues
<1>1. Init => RxQueue!Init /\ TxQueue!Init
  <2> HAVE Init
  <2>1. Content(rx) = <<>> /\ Content(tx) = <<>>
    BY EmptyContent DEF Init
  <2>2. SubSeq(packet, Len(saved) + 1, Len(packet)) = <<>>
    <3>1. packet = <<>> /\ saved = <<>> /\ <<>> \in Seq(Byte) /\ <<>> \o <<>> = <<>>
      BY EmptySeq, ConcatEmptySeq DEF Init
    <3> QED BY <3>1, ConcatTail
  <2> QED BY <2>1, <2>2 DEF Init, RxQueue!Init, TxQueue!Init
<1>2. TypeInv /\ [Next]_vars => [RxQueue!Add \/ RxQueue!Take]_(Content(rx))
  BY RxStep
<1>3. TypeInv /\ [Next]_vars => [TxQueue!Add \/ TxQueue!Take]_(Content(tx))
  BY TxStep
<1>4. Spec => []TypeInv
  BY TypeInit, TypeStep, PTL DEF Spec
<1> QED BY <1>1, <1>2, <1>3, <1>4, PTL DEF Spec, RingsAreQueues, RxFifo, TxFifo, RxQueue!Spec, TxQueue!Spec

-----------------------------------------------------------------------------
(* Framing: the bytes that cross the line are those of the packets sent,     *)
(* less the one at position q when one is lost.  Positions count from 0.     *)

SentByte(S, x) == S[(x \div 3) + 1][(x % 3) + 1]
LineByte(S, q, x) == SentByte(S, IF x < q THEN x ELSE x + 1)

\* S packets were sent, H handled; the driver has gone n bytes far on the line
\* and has the bytes U before it; l bytes were lost, the one at q.
Tracks(S, H, U, l, q, n) ==
  /\ q \in 0 .. 3 * Len(S) /\ n \in Nat /\ l \in 0 .. 1
  /\ l = 0 => q = 3 * Len(S)
  /\ l = 1 => q < 3 * Len(S)
  /\ Len(U) = 3 * Len(S) - l - n
  /\ \A k \in 1 .. Len(U) : U[k] = LineByte(S, q, n + k - 1)
  /\ \/ n = 3 * Len(H) /\ Len(H) <= q \div 3
     \/ l = 1 /\ Len(H) = q \div 3 /\ n = 3 * Len(H) + 1
     \/ l = 1 /\ Len(H) >= q \div 3 /\ n = 3 * Len(H) + 2
  /\ \A k \in 1 .. Len(H) : H[k] = S[IF k <= q \div 3 THEN k ELSE k + 1]

LEMMA ByThree ==
  ASSUME NEW q \in Nat
  PROVE  /\ q \div 3 \in Nat /\ 3 * (q \div 3) <= q /\ q <= 3 * (q \div 3) + 2
OBVIOUS

LEMMA SentByteAt ==
  ASSUME NEW S, NEW i \in Nat, NEW j \in 1 .. 3
  PROVE  SentByte(S, 3 * i + j - 1) = S[i + 1][j]
<1>1. (3 * i + j - 1) \div 3 = i /\ (3 * i + j - 1) % 3 = j - 1
  OBVIOUS
<1>2. (j - 1) + 1 = j
  OBVIOUS
<1> QED BY <1>1, <1>2 DEF SentByte

\* The next three bytes are a packet sent, unless the packet that lost a byte
\* is next.
LEMMA NextPacket ==
  ASSUME NEW S \in Seq(Packet), NEW H \in Seq(Packet), NEW U \in Seq(Byte), NEW l, NEW q, NEW n,
         Tracks(S, H, U, l, q, n), Len(U) >= 3,
         \/ n = 3 * Len(H) /\ Len(H) < q \div 3
         \/ l = 1 /\ Len(H) >= q \div 3 /\ n = 3 * Len(H) + 2
  PROVE  LET g == IF Len(H) + 1 <= q \div 3 THEN Len(H) + 1 ELSE Len(H) + 1 + 1
         IN  /\ g \in 1 .. Len(S)
             /\ \A j \in 1 .. 3 : U[j] = S[g][j]
             /\ Framed(U)
<1> DEFINE h == Len(H)
           z == q \div 3
           g == IF h + 1 <= z THEN h + 1 ELSE h + 1 + 1
<1>1. h \in Nat /\ Len(S) \in Nat /\ Len(U) \in Nat
  BY LenProperties
<1>2. q \in Nat /\ z \in Nat /\ 3 * z <= q /\ q <= 3 * z + 2
  BY <1>1, ByThree DEF Tracks
<1>3. /\ n \in Nat /\ l \in 0 .. 1 /\ Len(U) = 3 * Len(S) - l - n /\ q <= 3 * Len(S)
      /\ l = 0 => q = 3 * Len(S)
  BY <1>1 DEF Tracks
<1>4. \/ n = 3 * h /\ h < z
      \/ l = 1 /\ h >= z /\ n = 3 * h + 2
  OBVIOUS
<1>5. \A k \in 1 .. Len(U) : U[k] = LineByte(S, q, n + k - 1)
  BY DEF Tracks
<1> HIDE DEF h, z
<1>6. g \in 1 .. Len(S) /\ g - 1 \in Nat /\ (g - 1) + 1 = g
  BY <1>1, <1>2, <1>3, <1>4
<1>7. ASSUME NEW j \in 1 .. 3 PROVE U[j] = S[g][j]
  <2>1. j \in 1 .. Len(U)
    BY <1>1
  <2>2. (IF n + j - 1 < q THEN n + j - 1 ELSE (n + j - 1) + 1) = 3 * (g - 1) + j - 1
    BY <1>1, <1>2, <1>3, <1>4
  <2>3. U[j] = SentByte(S, 3 * (g - 1) + j - 1)
    BY <2>1, <2>2, <1>5 DEF LineByte
  <2> HIDE DEF g
  <2> QED BY <2>3, <1>6, SentByteAt
<1> HIDE DEF g
<1>8. Framed(S[g])
  BY <1>6, ElementOfSeq DEF Packet
<1>9. Framed(U)
  BY <1>7, <1>8 DEF Framed
<1> QED BY <1>6, <1>7, <1>9 DEF g, h, z

\* The bytes left of the packet that lost one do not look like a packet.
LEMMA BrokenPacket ==
  ASSUME NEW S \in Seq(Packet), NEW H \in Seq(Packet), NEW U \in Seq(Byte), NEW q, NEW n,
         Tracks(S, H, U, 1, q, n), Len(U) >= 3,
         Len(H) = q \div 3, n = 3 * Len(H) \/ n = 3 * Len(H) + 1
  PROVE  ~Framed(U)
<1> DEFINE h == Len(H)
<1>1. h \in Nat /\ Len(S) \in Nat /\ Len(U) \in Nat
  BY LenProperties
<1>2. q \in Nat /\ 3 * h <= q /\ q <= 3 * h + 2
  BY <1>1, ByThree DEF Tracks
<1>3. n \in Nat /\ Len(U) = 3 * Len(S) - 1 - n /\ (n = 3 * h \/ n = 3 * h + 1)
  BY DEF Tracks
<1>4. \A k \in 1 .. Len(U) : U[k] = LineByte(S, q, n + k - 1)
  BY DEF Tracks
<1> HIDE DEF h
<1>5. h + 2 <= Len(S) /\ h + 1 \in 1 .. Len(S) /\ h + 1 + 1 \in 1 .. Len(S) /\ h + 1 \in Nat
  BY <1>1, <1>3
<1>6. /\ S[h + 1] \in Packet /\ S[h + 1 + 1] \in Packet
  BY <1>5, ElementOfSeq
<1>7. ASSUME NEW p \in Packet PROVE p[1] \in Int /\ p[2] \in Int /\ p[3] \in Int
  <2>1. p \in Seq(Byte) /\ Len(p) = 3 /\ 1 \in 1 .. 3 /\ 2 \in 1 .. 3 /\ 3 \in 1 .. 3
    BY DEF Packet
  <2>2. p[1] \in Byte /\ p[2] \in Byte /\ p[3] \in Byte
    BY <2>1, ElementOfSeq
  <2>3. \A x \in Byte : x \in Int
    BY DEF Byte
  <2> QED BY <2>2, <2>3, Zenon
<1>8. ~(S[h + 1][2] < 128) /\ ~(S[h + 1][3] < 128) /\ ~(S[h + 1 + 1][1] >= 128)
  <2>1. S[h + 1][2] >= 128 /\ S[h + 1][3] >= 128 /\ S[h + 1 + 1][1] < 128
    BY <1>6 DEF Packet, Framed
  <2>2. S[h + 1][2] \in Int /\ S[h + 1][3] \in Int /\ S[h + 1 + 1][1] \in Int
    BY <1>6, <1>7
  <2> QED BY <2>1, <2>2
<1>9. 1 \in 1 .. 3 /\ 2 \in 1 .. 3 /\ 3 \in 1 .. 3
  OBVIOUS
<1>10. /\ SentByte(S, 3 * h + 2 - 1) = S[h + 1][2] /\ SentByte(S, 3 * h + 3 - 1) = S[h + 1][3]
       /\ SentByte(S, 3 * (h + 1) + 1 - 1) = S[h + 1 + 1][1]
  BY <1>1, <1>5, <1>9, SentByteAt
<1>11. 1 \in 1 .. Len(U) /\ 3 \in 1 .. Len(U)
  BY <1>1
<1>12. CASE n = 3 * h + 1 \/ q = 3 * h
  <2>1. (IF n + 1 - 1 < q THEN n + 1 - 1 ELSE (n + 1 - 1) + 1) \in {3 * h + 2 - 1, 3 * h + 3 - 1}
    BY <1>1, <1>2, <1>3, <1>12
  <2>2. U[1] = LineByte(S, q, n + 1 - 1)
    BY <1>4, <1>11
  <2>3. U[1] = S[h + 1][2] \/ U[1] = S[h + 1][3]
    BY <2>1, <2>2, <1>10 DEF LineByte
  <2> QED BY <2>3, <1>8, Zenon DEF Framed
<1>13. CASE n = 3 * h /\ q # 3 * h
  <2>1. (IF n + 3 - 1 < q THEN n + 3 - 1 ELSE (n + 3 - 1) + 1) = 3 * (h + 1) + 1 - 1
    BY <1>1, <1>2, <1>3, <1>13
  <2>2. U[3] = LineByte(S, q, n + 3 - 1)
    BY <1>4, <1>11
  <2>3. U[3] = S[h + 1 + 1][1]
    BY <2>1, <2>2, <1>10 DEF LineByte
  <2> QED BY <2>3, <1>8, Zenon DEF Framed
<1> QED BY <1>3, <1>12, <1>13

\* Going on by m bytes.
LEMMA GoneOn ==
  ASSUME NEW S, NEW U \in Seq(Byte), NEW q, NEW n \in Nat, NEW m \in Nat, m <= Len(U),
         \A k \in 1 .. Len(U) : U[k] = LineByte(S, q, n + k - 1)
  PROVE  LET V == SubSeq(U, m + 1, Len(U)) IN
         /\ V \in Seq(Byte) /\ Len(V) = Len(U) - m
         /\ \A k \in 1 .. Len(V) : V[k] = LineByte(S, q, (n + m) + k - 1)
<1>1. Len(U) \in Nat /\ m + 1 \in Nat \ {0}
  BY LenProperties
<1> DEFINE V == SubSeq(U, m + 1, Len(U))
<1>2. /\ V \in Seq(Byte)
      /\ Len(V) = IF m + 1 <= Len(U) THEN Len(U) - (m + 1) + 1 ELSE 0
      /\ \A i \in 1 .. Len(U) - (m + 1) + 1 : V[i] = U[m + 1 + i - 1]
  BY <1>1, SubBytes
<1> HIDE DEF V
<1>3. Len(V) = Len(U) - m
  BY <1>1, <1>2
<1>4. ASSUME NEW k \in 1 .. Len(V) PROVE V[k] = LineByte(S, q, (n + m) + k - 1)
  <2>1. /\ k \in 1 .. Len(U) - (m + 1) + 1 /\ m + 1 + k - 1 = m + k
        /\ m + k \in 1 .. Len(U) /\ n + (m + k) - 1 = (n + m) + k - 1
    BY <1>1, <1>3
  <2> QED BY <2>1, <1>2
<1> QED BY <1>2, <1>3, <1>4 DEF V

\* handle_packet: the packet it takes is the next one sent.
LEMMA TakePacket ==
  ASSUME NEW S \in Seq(Packet), NEW H \in Seq(Packet), NEW U \in Seq(Byte), NEW l, NEW q, NEW n,
         Tracks(S, H, U, l, q, n), Len(U) >= 3, Framed(U)
  PROVE  /\ SubSeq(U, 1, 3) \in Packet
         /\ Tracks(S, Append(H, SubSeq(U, 1, 3)), SubSeq(U, 4, Len(U)), l, q, n + 3)
<1> DEFINE h == Len(H)
           z == q \div 3
           g == IF h + 1 <= z THEN h + 1 ELSE h + 1 + 1
           p == SubSeq(U, 1, 3)
           V == SubSeq(U, 4, Len(U))
           G == Append(H, p)
<1>1. h \in Nat /\ Len(S) \in Nat /\ Len(U) \in Nat
  BY LenProperties
<1>2. q \in Nat /\ z \in Nat /\ 3 * z <= q /\ q <= 3 * z + 2
  BY <1>1, ByThree DEF Tracks
<1>3. /\ n \in Nat /\ l \in 0 .. 1 /\ Len(U) = 3 * Len(S) - l - n /\ q \in 0 .. 3 * Len(S)
      /\ l = 0 => q = 3 * Len(S)
      /\ l = 1 => q < 3 * Len(S)
      /\ \A k \in 1 .. Len(U) : U[k] = LineByte(S, q, n + k - 1)
      /\ \A k \in 1 .. h : H[k] = S[IF k <= z THEN k ELSE k + 1]
  BY DEF Tracks
<1>4. \/ n = 3 * h /\ h < z
      \/ l = 1 /\ h >= z /\ n = 3 * h + 2
  <2>1. l = 1 => ~(h = z /\ (n = 3 * h \/ n = 3 * h + 1))
    BY BrokenPacket
  <2>2. l = 0 => ~(n = 3 * h /\ h = z)
    BY <1>1, <1>2, <1>3
  <2>3. \/ n = 3 * h /\ h <= z
        \/ l = 1 /\ h = z /\ n = 3 * h + 1
        \/ l = 1 /\ h >= z /\ n = 3 * h + 2
    BY DEF Tracks
  <2> HIDE DEF h, z
  <2> QED BY <2>1, <2>2, <2>3, <1>1, <1>2, <1>3, SMTT(30)
<1>5. g \in 1 .. Len(S) /\ \A j \in 1 .. 3 : U[j] = S[g][j]
  BY <1>4, NextPacket
<1>6. 1 \in Nat \ {0} /\ 3 \in Int /\ 3 <= Len(U) /\ 3 - 1 + 1 = 3 /\ 1 <= 3
  BY <1>1
<1>7. p \in Seq(Byte) /\ Len(p) = 3 /\ \A i \in 1 .. 3 : p[i] = U[i]
  <2>1. /\ p \in Seq(Byte) /\ Len(p) = IF 1 <= 3 THEN 3 - 1 + 1 ELSE 0
        /\ \A i \in 1 .. 3 - 1 + 1 : p[i] = U[1 + i - 1]
    BY <1>6, SubBytes
  <2>2. \A i \in 1 .. 3 : 1 + i - 1 = i
    OBVIOUS
  <2> HIDE DEF p
  <2> QED BY <2>1, <2>2, <1>6
<1> HIDE DEF p, g
<1>8. S[g] \in Seq(Byte) /\ Len(S[g]) = 3 /\ S[g] \in Packet
  BY <1>5, ElementOfSeq DEF Packet
<1>9. p = S[g]
  <2>1. PICK r \in Seq(Byte) : r = S[g]
    BY <1>8
  <2>2. Len(p) = Len(r) /\ \A i \in 1 .. Len(p) : p[i] = r[i]
    BY <1>5, <1>7, <1>8, <2>1
  <2> QED BY <1>7, <2>1, <2>2, SeqEqual
<1>10. /\ V \in Seq(Byte) /\ Len(V) = Len(U) - 3
       /\ \A k \in 1 .. Len(V) : V[k] = LineByte(S, q, (n + 3) + k - 1)
  <2>1. PICK m \in Nat : m = 3
    OBVIOUS
  <2>2. V = SubSeq(U, m + 1, Len(U)) /\ m <= Len(U)
    BY <2>1, <1>6
  <2> HIDE DEF V
  <2>3. /\ V \in Seq(Byte) /\ Len(V) = Len(U) - m
        /\ \A k \in 1 .. Len(V) : V[k] = LineByte(S, q, (n + m) + k - 1)
    <3>1. n \in Nat
      BY <1>3
    <3>2. \A k \in 1 .. Len(U) : U[k] = LineByte(S, q, n + k - 1)
      BY <1>3
    <3> QED BY <2>2, <3>1, <3>2, GoneOn
  <2> QED BY <2>1, <2>3
<1> HIDE DEF V
<1>11. /\ Len(G) = h + 1
       /\ \A k \in 1 .. h + 1 : G[k] = IF k = h + 1 THEN p ELSE H[k]
  BY <1>8, <1>9, AppendProperties
<1> HIDE DEF G
<1>12. ASSUME NEW k \in 1 .. Len(G) PROVE G[k] = S[IF k <= z THEN k ELSE k + 1]
  <2>1. CASE k = h + 1
    BY <2>1, <1>9, <1>11 DEF g
  <2>2. CASE k # h + 1
    <3>1. k \in 1 .. h /\ k \in 1 .. h + 1
      BY <2>2, <1>1, <1>11
    <3> QED BY <3>1, <2>2, <1>3, <1>11
  <2> QED BY <2>1, <2>2
<1> HIDE DEF h, z
<1>13. /\ n + 3 \in Nat /\ Len(V) = 3 * Len(S) - l - (n + 3)
       /\ \/ n + 3 = 3 * Len(G) /\ Len(G) <= z
          \/ l = 1 /\ Len(G) >= z /\ n + 3 = 3 * Len(G) + 2
  BY <1>1, <1>2, <1>3, <1>4, <1>10, <1>11
<1>14. Tracks(S, G, V, l, q, n + 3)
  BY <1>3, <1>10, <1>12, <1>13 DEF Tracks, z
<1> QED BY <1>8, <1>9, <1>14 DEF p, V, G

\* The parser skips a byte only of the packet that lost one.
LEMMA SkipByte ==
  ASSUME NEW S \in Seq(Packet), NEW H \in Seq(Packet), NEW U \in Seq(Byte), NEW l, NEW q, NEW n,
         Tracks(S, H, U, l, q, n), Len(U) >= 3, ~Framed(U)
  PROVE  Tracks(S, H, SubSeq(U, 2, Len(U)), l, q, n + 1)
<1> DEFINE h == Len(H)
           z == q \div 3
           V == SubSeq(U, 2, Len(U))
<1>1. h \in Nat /\ Len(S) \in Nat /\ Len(U) \in Nat
  BY LenProperties
<1>2. q \in Nat /\ z \in Nat /\ 3 * z <= q /\ q <= 3 * z + 2
  BY <1>1, ByThree DEF Tracks
<1>3. /\ n \in Nat /\ l \in 0 .. 1 /\ Len(U) = 3 * Len(S) - l - n /\ q \in 0 .. 3 * Len(S)
      /\ l = 0 => q = 3 * Len(S)
      /\ l = 1 => q < 3 * Len(S)
      /\ \A k \in 1 .. Len(U) : U[k] = LineByte(S, q, n + k - 1)
      /\ \A k \in 1 .. h : H[k] = S[IF k <= z THEN k ELSE k + 1]
  BY DEF Tracks
<1>4. l = 1 /\ h = z /\ (n = 3 * h \/ n = 3 * h + 1)
  <2>1. ~(n = 3 * h /\ h < z) /\ ~(l = 1 /\ h >= z /\ n = 3 * h + 2)
    BY NextPacket
  <2>2. l = 0 => ~(n = 3 * h /\ h = z)
    BY <1>1, <1>2, <1>3
  <2>3. \/ n = 3 * h /\ h <= z
        \/ l = 1 /\ h = z /\ n = 3 * h + 1
        \/ l = 1 /\ h >= z /\ n = 3 * h + 2
    BY DEF Tracks
  <2> HIDE DEF h, z
  <2> QED BY <2>1, <2>2, <2>3, <1>1, <1>2, <1>3
<1>5. /\ V \in Seq(Byte) /\ Len(V) = Len(U) - 1
      /\ \A k \in 1 .. Len(V) : V[k] = LineByte(S, q, (n + 1) + k - 1)
  <2>1. 1 \in Nat /\ 1 + 1 = 2 /\ 1 <= Len(U)
    BY <1>1
  <2> QED BY <2>1, <1>3, GoneOn, SMTT(30)
<1> HIDE DEF V, h, z
<1>6. /\ n + 1 \in Nat /\ Len(V) = 3 * Len(S) - l - (n + 1)
      /\ \/ l = 1 /\ h = z /\ n + 1 = 3 * h + 1
         \/ l = 1 /\ h >= z /\ n + 1 = 3 * h + 2
  BY <1>1, <1>2, <1>3, <1>4, <1>5
<1> QED BY <1>3, <1>5, <1>6 DEF Tracks, V, h, z

\* The controller sends a packet.
LEMMA MoreSent ==
  ASSUME NEW S \in Seq(Packet), NEW H \in Seq(Packet), NEW U \in Seq(Byte), NEW l, NEW q, NEW n,
         Tracks(S, H, U, l, q, n), NEW p \in Packet
  PROVE  \E r : Tracks(Append(S, p), H, U \o p, l, r, n)
<1> DEFINE N == Len(S)
           h == Len(H)
           u == Len(U)
           z == q \div 3
           T == Append(S, p)
           V == U \o p
           r == IF l = 0 THEN q + 3 ELSE q
<1>1. h \in Nat /\ N \in Nat /\ u \in Nat
  BY LenProperties
<1>2. q \in Nat /\ z \in Nat /\ 3 * z <= q /\ q <= 3 * z + 2
  BY <1>1, ByThree DEF Tracks
<1>3. /\ n \in Nat /\ l \in 0 .. 1 /\ u = 3 * N - l - n /\ q \in 0 .. 3 * N
      /\ l = 0 => q = 3 * N
      /\ l = 1 => q < 3 * N
  BY DEF Tracks
<1>4. \/ n = 3 * h /\ h <= z
      \/ l = 1 /\ h = z /\ n = 3 * h + 1
      \/ l = 1 /\ h >= z /\ n = 3 * h + 2
  BY DEF Tracks
<1>5. \A k \in 1 .. u : U[k] = LineByte(S, q, n + k - 1)
  BY DEF Tracks
<1>6. \A k \in 1 .. h : H[k] = S[IF k <= z THEN k ELSE k + 1]
  BY DEF Tracks
<1>7. Len(T) = N + 1 /\ T[N + 1] = p /\ \A i \in 1 .. N : T[i] = S[i]
  <2>1. /\ Len(T) = N + 1 /\ \A i \in 1 .. N : Append(S, p)[i] = S[i]
        /\ Append(S, p)[N + 1] = p
    BY AppendProperties
  <2> QED BY <2>1
<1>8. p \in Seq(Byte) /\ Len(p) = 3
  BY DEF Packet
<1>9. Len(V) = u + 3 /\ \A k \in 1 .. u + 3 : V[k] = IF k <= u THEN U[k] ELSE p[k - u]
  <2>1. /\ Len(V) = u + Len(p)
        /\ \A k \in 1 .. u + Len(p) : V[k] = IF k <= u THEN U[k] ELSE p[k - u]
    BY <1>8, ConcatProperties
  <2> HIDE DEF V, u
  <2> QED BY <2>1, <1>8
<1> HIDE DEF N, h, u, z, T, V, r
<1>10. r \in 0 .. 3 * (N + 1) /\ (l = 0 => r = 3 * (N + 1)) /\ (l = 1 => r = q)
  BY <1>1, <1>3 DEF r
<1>11. r \div 3 = IF l = 0 THEN N + 1 ELSE z
  <2>1. CASE l = 0
    BY <2>1, <1>1, <1>10
  <2>2. CASE l = 1
    BY <2>2, <1>10 DEF z
  <2> QED BY <2>1, <2>2, <1>3
<1>12. l = 0 => z = N
  BY <1>1, <1>3 DEF z
<1>13. ASSUME NEW y \in 0 .. 3 * N - 1 PROVE SentByte(T, y) = SentByte(S, y)
  <2>1. (y \div 3) + 1 \in 1 .. N
    BY <1>1
  <2> QED BY <2>1, <1>7 DEF SentByte
<1>14. ASSUME NEW k \in 1 .. u + 3 PROVE V[k] = LineByte(T, r, n + k - 1)
  <2>1. CASE k <= u
    <3> DEFINE y == IF n + k - 1 < q THEN n + k - 1 ELSE (n + k - 1) + 1
    <3>1. y \in 0 .. 3 * N - 1 /\ y = IF n + k - 1 < r THEN n + k - 1 ELSE (n + k - 1) + 1
      BY <2>1, <1>1, <1>3, <1>10
    <3>2. k \in 1 .. u
      BY <2>1, <1>1
    <3>3. U[k] = SentByte(S, y)
      BY <3>2, <1>5 DEF LineByte
    <3> HIDE DEF y
    <3>4. SentByte(T, y) = SentByte(S, y)
      BY <3>1, <1>13
    <3>5. LineByte(T, r, n + k - 1) = SentByte(T, y)
      BY <3>1 DEF LineByte
    <3> QED BY <2>1, <3>3, <3>4, <3>5, <1>9
  <2>2. CASE ~(k <= u)
    <3>1. PICK j \in 1 .. 3 : j = k - u
      BY <2>2, <1>1
    <3>2. (IF n + k - 1 < r THEN n + k - 1 ELSE (n + k - 1) + 1) = 3 * N + j - 1
      BY <3>1, <2>2, <1>1, <1>3, <1>10
    <3>3. SentByte(T, 3 * N + j - 1) = T[N + 1][j]
      BY <1>1, SentByteAt
    <3>4. LineByte(T, r, n + k - 1) = p[j]
      BY <3>2, <3>3, <1>7 DEF LineByte
    <3> QED BY <3>1, <3>4, <2>2, <1>9
  <2> QED BY <2>1, <2>2
<1>15. ASSUME NEW k \in 1 .. h PROVE H[k] = T[IF k <= r \div 3 THEN k ELSE k + 1]
  <2>1. (IF k <= r \div 3 THEN k ELSE k + 1) = (IF k <= z THEN k ELSE k + 1)
    BY <1>1, <1>3, <1>4, <1>11, <1>12
  <2>2. (IF k <= z THEN k ELSE k + 1) \in 1 .. N
    BY <1>1, <1>2, <1>3, <1>4
  <2> QED BY <2>1, <2>2, <1>6, <1>7
<1>16. /\ \/ n = 3 * h /\ h <= r \div 3
          \/ l = 1 /\ h = r \div 3 /\ n = 3 * h + 1
          \/ l = 1 /\ h >= r \div 3 /\ n = 3 * h + 2
       /\ u + 3 = 3 * (N + 1) - l - n
       /\ l = 1 => r < 3 * (N + 1)
  BY <1>1, <1>2, <1>3, <1>4, <1>10, <1>11, <1>12
<1>17. Tracks(T, H, V, l, r, n)
  BY <1>3, <1>7, <1>9, <1>10, <1>14, <1>15, <1>16 DEF Tracks, h
<1> QED BY <1>17 DEF T, V

\* A byte is lost on the line.
LEMMA ByteLost ==
  ASSUME NEW S \in Seq(Packet), NEW H \in Seq(Packet), NEW a \in Seq(Byte), NEW w \in Seq(Byte),
         w # <<>>, NEW q, NEW n, Tracks(S, H, a \o w, 0, q, n)
  PROVE  Tracks(S, H, a \o Tail(w), 1, n + Len(a), n)
<1> DEFINE N == Len(S)
           h == Len(H)
           b == Len(a)
           U == a \o w
           V == a \o Tail(w)
           r == n + b
<1>1. h \in Nat /\ N \in Nat /\ b \in Nat /\ Len(w) \in Nat /\ Len(w) # 0
  BY LenProperties, EmptySeq
<1>2. /\ Tail(w) \in Seq(Byte) /\ Len(Tail(w)) = Len(w) - 1
      /\ \A i \in 1 .. Len(w) - 1 : Tail(w)[i] = w[i + 1]
  BY HeadTailProperties
<1>3. Len(U) = b + Len(w) /\ \A k \in 1 .. b + Len(w) : U[k] = IF k <= b THEN a[k] ELSE w[k - b]
  BY ConcatProperties
<1>4. /\ Len(V) = b + (Len(w) - 1)
      /\ \A k \in 1 .. b + (Len(w) - 1) : V[k] = IF k <= b THEN a[k] ELSE Tail(w)[k - b]
  BY <1>2, ConcatProperties
<1>5. /\ n \in Nat /\ n = 3 * h /\ Len(U) = 3 * N - n /\ q = 3 * N /\ h <= q \div 3
      /\ \A k \in 1 .. Len(U) : U[k] = LineByte(S, q, n + k - 1)
      /\ \A k \in 1 .. h : H[k] = S[IF k <= q \div 3 THEN k ELSE k + 1]
  <2>1. 0 # 1 /\ 3 * N - 0 - n = 3 * N - n
    BY <1>1 DEF Tracks
  <2> HIDE DEF U
  <2> QED BY <2>1 DEF Tracks, U
<1> HIDE DEF N, h, b, U, V
<1>6. r \in 0 .. 3 * N /\ r < 3 * N /\ Len(V) = 3 * N - 1 - n /\ h <= r \div 3
  <2>1. r \in Nat /\ r < 3 * N /\ r >= 3 * h /\ Len(V) = 3 * N - 1 - n
    <3>1. /\ n \in Nat /\ n = 3 * h /\ Len(U) = 3 * N - n /\ Len(U) = b + Len(w)
          /\ Len(V) = b + (Len(w) - 1)
      BY <1>3, <1>4, <1>5
    <3>2. PICK x \in Nat, c \in Nat, d \in Nat, e \in Nat : x = h /\ c = b /\ d = N /\ e = Len(w)
      BY <1>1
    <3>3. n = 3 * x /\ 3 * d - n = c + e /\ e # 0
      BY <1>1, <3>1, <3>2
    <3>4. n + c \in Nat /\ n + c < 3 * d /\ n + c >= 3 * x /\ c + (e - 1) = 3 * d - 1 - n
      BY <3>3
    <3> QED BY <3>1, <3>2, <3>4
  <2> HIDE DEF r
  <2>2. r \div 3 \in Nat /\ r <= 3 * (r \div 3) + 2
    BY <2>1, ByThree
  <2>3. h <= r \div 3
    BY <2>1, <2>2, <1>1
  <2> QED BY <2>1, <2>3, <1>1
<1>7. ASSUME NEW k \in 1 .. Len(V) PROVE V[k] = LineByte(S, r, n + k - 1)
  <2>1. CASE k <= b
    <3>1. k \in 1 .. b + (Len(w) - 1) /\ k \in 1 .. b + Len(w) /\ n + k - 1 < q /\ n + k - 1 < r
      BY <2>1, <1>1, <1>3, <1>4, <1>5
    <3>2. V[k] = U[k] /\ U[k] = LineByte(S, q, n + k - 1)
      BY <3>1, <2>1, <1>3, <1>4, <1>5
    <3> HIDE DEF r
    <3> QED BY <3>1, <3>2 DEF LineByte
  <2>2. CASE ~(k <= b)
    <3>1. /\ k \in 1 .. b + (Len(w) - 1) /\ k + 1 \in 1 .. b + Len(w) /\ ~(k + 1 <= b)
          /\ k - b \in 1 .. Len(w) - 1 /\ (k - b) + 1 = (k + 1) - b
          /\ n + (k + 1) - 1 < q /\ ~(n + k - 1 < r) /\ n + (k + 1) - 1 = (n + k - 1) + 1
      BY <2>2, <1>1, <1>3, <1>4, <1>5
    <3>2. V[k] = Tail(w)[k - b]
      BY <3>1, <2>2, <1>4
    <3>3. Tail(w)[k - b] = w[(k + 1) - b]
      BY <3>1, <1>2
    <3>4. U[k + 1] = w[(k + 1) - b]
      BY <3>1, <1>3
    <3>5. U[k + 1] = LineByte(S, q, n + (k + 1) - 1)
      BY <3>1, <1>3, <1>5
    <3> HIDE DEF r
    <3>6. LineByte(S, q, n + (k + 1) - 1) = LineByte(S, r, n + k - 1)
      BY <3>1 DEF LineByte
    <3> QED BY <3>2, <3>3, <3>4, <3>5, <3>6
  <2> QED BY <2>1, <2>2
<1>8. ASSUME NEW k \in 1 .. h PROVE H[k] = S[IF k <= r \div 3 THEN k ELSE k + 1]
  <2>1. (IF k <= r \div 3 THEN k ELSE k + 1) = k /\ (IF k <= q \div 3 THEN k ELSE k + 1) = k
    BY <1>1, <1>5, <1>6
  <2> QED BY <2>1, <1>5
<1> HIDE DEF r
<1>9. Tracks(S, H, V, 1, r, n)
  <2>1. 1 \in 0 .. 1 /\ 1 # 0
    OBVIOUS
  <2> QED BY <2>1, <1>5, <1>6, <1>7, <1>8 DEF Tracks, N, h
<1> QED BY <1>9 DEF V, r, b

LEMMA BytesAssociative ==
  ASSUME NEW r \in Seq(Byte), NEW s \in Seq(Byte), NEW t \in Seq(Byte)
  PROVE  (r \o s) \o t = r \o (s \o t)
BY ConcatAssociative, SMTT(30)

\* What is left of a concatenation once m bytes of its first part are taken.
LEMMA CutConcat ==
  ASSUME NEW s \in Seq(Byte), NEW t \in Seq(Byte), NEW m \in Nat, m <= Len(s)
  PROVE  /\ s = SubSeq(s, 1, m) \o SubSeq(s, m + 1, Len(s))
         /\ SubSeq(s, m + 1, Len(s)) \o t = SubSeq(s \o t, m + 1, Len(s \o t))
<1> DEFINE x == SubSeq(s, 1, m)
           y == SubSeq(s, m + 1, Len(s))
<1>1. Len(s) \in Nat /\ 1 \in 1 .. Len(s) + 1 /\ m \in 1 - 1 .. Len(s) /\ Len(s) \in m .. Len(s)
      /\ 1 \in Nat \ {0} /\ m + 1 \in Nat \ {0} /\ m \in Int /\ Len(s) \in Int
  BY LenProperties
<1>2. x \o y = SubSeq(s, 1, Len(s))
  BY <1>1, ConcatAdjacentSubSeq
<1>3. SubSeq(s, 1, Len(s)) = s
  BY SubSeqFull
<1>4. x \in Seq(Byte) /\ Len(x) = (IF 1 <= m THEN m - 1 + 1 ELSE 0) /\ y \in Seq(Byte)
  BY <1>1, SubBytes
<1> HIDE DEF x, y
<1>5. Len(x) = m
  BY <1>4, <1>1
<1>6. s \o t = x \o (y \o t)
  <2>1. (x \o y) \o t = x \o (y \o t)
    BY <1>4, BytesAssociative, Zenon
  <2> QED BY <2>1, <1>2, <1>3
<1>7. y \o t \in Seq(Byte)
  BY <1>4, ConcatProperties
<1>8. SubSeq(x \o (y \o t), Len(x) + 1, Len(x \o (y \o t))) = y \o t
  BY <1>4, <1>7, ConcatTail
<1> QED BY <1>2, <1>3, <1>5, <1>6, <1>8 DEF x, y

\* The interrupt is in the loop of data_callback, or in what that calls.
Parsing ==
  \/ pc["irq"] \in {"parse", "restore", "save", "test", "clear"}
  \/ pc["irq"] \in {"put", "room", "pull", "write"} /\ ret["irq"] # "idle"

\* The bytes the driver has taken off the line and not yet looked at, and all
\* that are before it.
InHand == IF Parsing THEN packet
          ELSE IF pc["irq"] = "callback" THEN saved \o Content(rx) ELSE saved
Unread == InHand \o wire_in

\* The receive ring is empty but between the two halves of the interrupt.
RxInv == IF pc["irq"] = "callback" THEN Len(Content(rx)) <= CHUNK ELSE Content(rx) = <<>>

FrameInv ==
  /\ sent \in Seq(Packet) /\ handled \in Seq(Packet) /\ lost \in 0 .. 1 /\ RxInv
  /\ \E q, n : Tracks(sent, handled, Unread, lost, q, n)

LEMMA ContentKept == ASSUME rx' = rx PROVE Content(rx)' = Content(rx)
BY DEF Content, Oldest, buf_used

LEMMA UnreadBytes == ASSUME TypeInv PROVE InHand \in Seq(Byte) /\ Unread \in Seq(Byte)
<1>1. saved \in Seq(Byte) /\ packet \in Seq(Byte) /\ Content(rx) \in Seq(Byte) /\ wire_in \in Seq(Byte)
  BY ContentBytes DEF TypeInv, RingInv, LineInv
<1>2. InHand \in Seq(Byte)
  BY <1>1, ConcatProperties DEF InHand
<1> QED BY <1>1, <1>2, ConcatProperties DEF Unread

LEMMA FrameKept ==
  ASSUME FrameInv, UNCHANGED <<sent, handled, lost>>, Unread' = Unread, RxInv' PROVE FrameInv'
<1>1. PICK q, n : Tracks(sent, handled, Unread, lost, q, n)
  BY DEF FrameInv
<1>2. Tracks(sent, handled, Unread, lost, q, n)'
  BY <1>1 DEF Tracks, LineByte, SentByte
<1> QED BY <1>2 DEF FrameInv

\* The steps that do not move a byte.
LEMMA FrameRest ==
  ASSUME FrameInv, rx' = rx, saved' = saved, packet' = packet, wire_in' = wire_in,
         UNCHANGED <<sent, handled, lost>>, Parsing' <=> Parsing,
         pc'["irq"] = "callback" <=> pc["irq"] = "callback"
  PROVE  FrameInv'
<1>1. Content(rx)' = Content(rx)
  BY ContentKept
<1>2. Unread' = Unread /\ RxInv'
  BY <1>1 DEF FrameInv, RxInv, Unread, InHand
<1> QED BY <1>2, FrameKept

LEMMA FrameCalls ==
  ASSUME TypeInv, FrameInv,
         \/ TUX_INIT \/ TUX_SET_LED \/ TUX_BUTTONS \/ ioctl_tux_buttons
         \/ response_reset \/ DriverWakeup \/ UNCHANGED vars
  PROVE  FrameInv'
<1>1. /\ UNCHANGED <<rx, saved, packet, wire_in, sent, handled, lost>>
  BY DEF TUX_INIT, TUX_SET_LED, TUX_BUTTONS, ioctl_tux_buttons, response_reset, DriverWakeup, vars
<1>2. CASE TUX_INIT \/ TUX_SET_LED \/ TUX_BUTTONS \/ ioctl_tux_buttons \/ UNCHANGED vars
  <2>1. pc'["irq"] = pc["irq"] /\ ret'["irq"] = ret["irq"]
    <3> USE CtxMembers DEF TypeInv, CtxInv
    <3>1. CASE TUX_INIT
      BY <3>1 DEF TUX_INIT, StartInit
    <3>2. CASE TUX_SET_LED
      BY <3>2 DEF TUX_SET_LED
    <3>3. CASE TUX_BUTTONS \/ ioctl_tux_buttons
      BY <3>3 DEF TUX_BUTTONS, ioctl_tux_buttons
    <3>4. CASE UNCHANGED vars
      BY <3>4 DEF vars
    <3> QED BY <1>2, <3>1, <3>2, <3>3, <3>4
  <2> QED BY <1>1, <2>1, FrameRest DEF Parsing
<1>3. CASE response_reset
  <2>1. pc["irq"] = "restore" /\ pc'["irq"] = "save"
    BY <1>3, CtxMembers DEF response_reset, TypeInv, CtxInv
  <2> QED BY <1>1, <2>1, FrameRest DEF Parsing
<1>4. CASE DriverWakeup
  <2>1. pc["irq"] = "idle" /\ pc'["irq"] = "room" /\ ret'["irq"] = "idle"
    BY <1>4, CtxMembers DEF DriverWakeup, TypeInv, CtxInv
  <2> QED BY <1>1, <2>1, FrameRest DEF Parsing
<1> QED BY <1>2, <1>3, <1>4

LEMMA FrameSends ==
  ASSUME TypeInv, FrameInv, NEW c \in Ctx, Put(c) \/ Leds(c) PROVE FrameInv'
<1> USE DEF Put, Leds, put, write_room, pull, write, save, test, clear
<1>1. UNCHANGED <<rx, saved, packet, wire_in, sent, handled, lost>>
  OBVIOUS
<1>2. CASE c = "proc"
  <2>1. pc'["irq"] = pc["irq"] /\ ret'["irq"] = ret["irq"]
    <3> USE CtxMembers DEF TypeInv, CtxInv
    <3>1. CASE put(c) \/ write_room(c) \/ pull(c) \/ save(c) \/ test(c)
      BY <1>2, <3>1
    <3>2. CASE write(c)
      BY <1>2, <3>2
    <3>3. CASE clear(c)
      BY <1>2, <3>3
    <3> QED BY <3>1, <3>2, <3>3
  <2> QED BY <1>1, <2>1, FrameRest DEF Parsing
<1>3. CASE c = "irq"
  <2>1. pc \in [Ctx -> ProcPoints \cup IrqPoints] /\ ret \in [Ctx -> {"idle", "parse", "restore"}]
    BY DEF TypeInv, CtxInv
  <2>2. (Parsing' <=> Parsing) /\ pc'["irq"] # "callback" /\ pc["irq"] # "callback"
    <3>1. CASE put(c) \/ write_room(c) \/ pull(c)
      BY <1>3, <2>1, <3>1 DEF Parsing
    <3>2. CASE write(c)
      BY <1>3, <2>1, <3>2 DEF Parsing
    <3>3. CASE save(c) \/ test(c)
      BY <1>3, <2>1, <3>3 DEF Parsing
    <3>4. CASE clear(c)
      BY <1>3, <2>1, <3>4 DEF Parsing
    <3> QED BY <3>1, <3>2, <3>3, <3>4
  <2> QED BY <1>1, <2>2, FrameRest
<1> QED BY <1>2, <1>3 DEF Ctx
\* tuxctl_ldisc_rcv_buf: the ring is empty, so that all of the bytes fit.
LEMMA FrameReceive == ASSUME TypeInv, FrameInv, rcv_buf PROVE FrameInv'
<1>1. wire_in \in Seq(Byte) /\ Len(wire_in) \in Nat /\ rx \in Ring /\ saved \in Seq(Byte)
  BY LenProperties DEF TypeInv, RingInv, LineInv
<1>2. PICK n \in 1 .. (IF CHUNK <= Len(wire_in) THEN CHUNK ELSE Len(wire_in)) :
        /\ rx' = Store(rx, SubSeq(wire_in, 1, n))
        /\ wire_in' = SubSeq(wire_in, n + 1, Len(wire_in))
  BY DEF rcv_buf
<1>3. n \in Nat /\ n <= CHUNK /\ n <= Len(wire_in) /\ 1 \in Nat \ {0} /\ n \in Int
  BY <1>1, Sizes
<1>4. PICK s \in Seq(Byte) : s = SubSeq(wire_in, 1, n) /\ Len(s) = n
  <2>1. /\ SubSeq(wire_in, 1, n) \in Seq(Byte)
        /\ Len(SubSeq(wire_in, 1, n)) = IF 1 <= n THEN n - 1 + 1 ELSE 0
    BY <1>1, <1>3, SubBytes
  <2>2. (IF 1 <= n THEN n - 1 + 1 ELSE 0) = n
    BY <1>3
  <2> QED BY <2>1, <2>2
<1>5. pc["irq"] = "idle" /\ pc'["irq"] = "callback" /\ UNCHANGED <<saved, packet, handled, sent, lost>>
  BY CtxMembers DEF rcv_buf, TypeInv, CtxInv
<1>6. Content(rx) = <<>>
  BY <1>5 DEF FrameInv, RxInv
<1>7. Len(s) <= buf_room(rx) /\ buf_room(rx) \in Nat
  <2>1. buf_used(rx) = 0
    BY <1>1, <1>6, ContentBytes, EmptySeq
  <2>2. buf_room(rx) = TUXCTL_BUFSIZE - 1
    BY <1>1, <2>1, RingFields, Sizes
  <2> QED BY <1>3, <1>4, <2>2, Sizes
<1>8. Content(Store(rx, s)) = s
  <2>1. Content(Store(rx, s)) = Content(rx) \o SubSeq(s, 1, Least(Len(s), buf_room(rx)))
    BY <1>1, StoreBytes
  <2>2. Least(Len(s), buf_room(rx)) = Len(s)
    BY <1>7 DEF Least
  <2>3. SubSeq(s, 1, Len(s)) = s /\ <<>> \o s = s
    BY SubSeqFull, ConcatEmptySeq
  <2> QED BY <2>1, <2>2, <2>3, <1>6
<1>9. Content(rx)' = s
  BY <1>2, <1>4, <1>8 DEF Content, Oldest, buf_used
<1>10. RxInv'
  BY <1>3, <1>4, <1>5, <1>9 DEF RxInv
<1>11. Unread' = (saved \o s) \o wire_in'
  BY <1>5, <1>9 DEF Unread, InHand, Parsing
<1>12. Unread = saved \o wire_in
  BY <1>5 DEF Unread, InHand, Parsing
<1>13. wire_in = s \o wire_in'
  BY <1>1, <1>2, <1>3, <1>4, CutConcat
<1>14. wire_in' \in Seq(Byte)
  <2>1. n + 1 \in Nat \ {0} /\ Len(wire_in) \in Int
    BY <1>1, <1>3
  <2> QED BY <2>1, <1>1, <1>2, SubBytes
<1>15. Unread' = Unread
  BY <1>1, <1>11, <1>12, <1>13, <1>14, BytesAssociative
<1> QED BY <1>5, <1>10, <1>15, FrameKept

\* tuxctl_ldisc_data_callback takes all that the ring holds.
LEMMA FrameCallback == ASSUME TypeInv, FrameInv, data_callback PROVE FrameInv'
<1> DEFINE n == PACKET_BUF - Len(saved)
<1>1. rx \in Ring /\ saved \in Seq(Byte) /\ Len(saved) \in Nat /\ Len(saved) <= 2
  BY LenProperties DEF TypeInv, RingInv
<1>2. /\ pc["irq"] = "callback" /\ pc'["irq"] = "parse" /\ packet' = saved \o Oldest(rx, n)
      /\ rx' = Drop(rx, n) /\ UNCHANGED <<wire_in, sent, handled, lost>>
  BY CtxMembers DEF data_callback, TypeInv, CtxInv
<1>3. buf_used(rx) \in Nat /\ buf_used(rx) <= CHUNK /\ Len(Content(rx)) = buf_used(rx)
  <2>1. Len(Content(rx)) = buf_used(rx) /\ buf_used(rx) \in Nat
    BY <1>1, ContentBytes, RingFields DEF Slots
  <2> QED BY <2>1, <1>2 DEF FrameInv, RxInv
<1>4. n \in Nat /\ buf_used(rx) <= n
  BY <1>1, <1>3, Sizes
<1> HIDE DEF n
<1>5. Least(n, buf_used(rx)) = buf_used(rx)
  BY <1>3, <1>4 DEF Least
<1>6. /\ Drop(rx, n) \in Ring /\ buf_used(Drop(rx, n)) = buf_used(rx) - Least(n, buf_used(rx))
      /\ Content(rx) = Oldest(rx, n) \o Content(Drop(rx, n))
  BY <1>1, <1>4, DropBytes
<1>7. Content(Drop(rx, n)) = <<>>
  <2>1. buf_used(Drop(rx, n)) = 0
    BY <1>3, <1>5, <1>6
  <2>2. Content(Drop(rx, n)) \in Seq(Byte) /\ Len(Content(Drop(rx, n))) = 0
    BY <1>6, <2>1, ContentBytes
  <2> QED BY <2>2, EmptySeq
<1>8. Oldest(rx, n) = Content(rx)
  <2>1. Oldest(rx, n) \in Seq(Byte)
    BY <1>1, <1>4, OldestBytes
  <2>2. Oldest(rx, n) \o <<>> = Oldest(rx, n)
    BY <2>1, ConcatEmptySeq
  <2> QED BY <1>6, <1>7, <2>2
<1>9. Content(rx)' = <<>>
  BY <1>2, <1>7 DEF Content, Oldest, buf_used
<1>10. RxInv'
  BY <1>2, <1>9 DEF RxInv
<1>11. Unread' = Unread
  BY <1>2, <1>8 DEF Unread, InHand, Parsing
<1> QED BY <1>2, <1>10, <1>11, FrameKept

\* The first three bytes before the parser.
LEMMA FirstThree ==
  ASSUME NEW s \in Seq(Byte), NEW t \in Seq(Byte), Len(s) > 2
  PROVE  /\ s \o t \in Seq(Byte) /\ Len(s \o t) >= 3 /\ Len(s) \in Nat
         /\ SubSeq(s \o t, 1, 3) = SubSeq(s, 1, 3)
         /\ Framed(s \o t) <=> Framed(s)
<1>1. /\ Len(s) \in Nat /\ Len(t) \in Nat /\ s \o t \in Seq(Byte)
      /\ Len(s \o t) = Len(s) + Len(t)
      /\ \A i \in 1 .. Len(s) + Len(t) : (s \o t)[i] = IF i <= Len(s) THEN s[i] ELSE t[i - Len(s)]
  BY LenProperties, ConcatProperties
<1>2. 1 \in 1 .. Len(s) /\ 3 \in 1 .. Len(s) /\ Len(s) + Len(t) >= 3
  BY <1>1
<1>3. SubSeq(s \o t, 1, 3) = SubSeq(s, 1, 3)
  BY <1>2, SubSeqOfConcat1
<1>4. /\ 1 \in 1 .. Len(s) + Len(t) /\ 2 \in 1 .. Len(s) + Len(t) /\ 3 \in 1 .. Len(s) + Len(t)
      /\ 1 <= Len(s) /\ 2 <= Len(s) /\ 3 <= Len(s)
  BY <1>1
<1>5. (s \o t)[1] = s[1] /\ (s \o t)[2] = s[2] /\ (s \o t)[3] = s[3]
  BY <1>1, <1>4
<1>6. Framed(s \o t) <=> Framed(s)
  BY <1>5, Zenon DEF Framed
<1> QED BY <1>1, <1>2, <1>3, <1>6

\* A state of the interrupt in the loop of data_callback.
LEMMA FrameParsing ==
  ASSUME FrameInv, rx' = rx, wire_in' = wire_in, sent' = sent, lost' = lost,
         pc["irq"] # "callback", pc'["irq"] # "callback", Parsing', handled' \in Seq(Packet),
         NEW q, NEW n, Tracks(sent, handled', packet' \o wire_in, lost, q, n)
  PROVE  FrameInv'
<1>1. RxInv'
  BY ContentKept DEF FrameInv, RxInv
<1>2. Unread' = packet' \o wire_in
  BY DEF Unread, InHand
<1>3. Tracks(sent, handled, Unread, lost, q, n)'
  BY <1>2 DEF Tracks, LineByte, SentByte
<1> QED BY <1>1, <1>3 DEF FrameInv

\* The parser.
LEMMA FrameParse == ASSUME TypeInv, FrameInv, parse PROVE FrameInv'
<1> DEFINE U == packet \o wire_in
<1>1. /\ pc["irq"] = "parse" /\ UNCHANGED <<rx, wire_in, sent, lost>>
      /\ packet \in Seq(Byte) /\ wire_in \in Seq(Byte) /\ Len(packet) \in Nat
  BY LenProperties DEF parse, TypeInv, RingInv, LineInv
<1>2. PICK q, n : Tracks(sent, handled, U, lost, q, n)
  BY <1>1 DEF FrameInv, Unread, InHand, Parsing
<1>3. sent \in Seq(Packet) /\ handled \in Seq(Packet)
  BY DEF FrameInv
<1>4. U \in Seq(Byte)
  BY <1>1, ConcatProperties
<1>5. CASE Len(packet) > 2 /\ Framed(packet) /\ handle_packet(SubSeq(packet, 1, 3))
  <2>1. Len(U) >= 3 /\ Framed(U) /\ SubSeq(U, 1, 3) = SubSeq(packet, 1, 3)
    BY <1>1, <1>5, FirstThree
  <2> HIDE DEF U
  <2>2. /\ SubSeq(U, 1, 3) \in Packet
        /\ Tracks(sent, Append(handled, SubSeq(U, 1, 3)), SubSeq(U, 4, Len(U)), lost, q, n + 3)
    BY <1>2, <1>3, <1>4, <2>1, TakePacket
  <2>3. handled' = Append(handled, SubSeq(U, 1, 3)) /\ packet' = SubSeq(packet, 4, Len(packet))
    BY <1>5, <2>1 DEF handle_packet
  <2>4. handled' \in Seq(Packet)
    BY <1>3, <2>2, <2>3, AppendProperties
  <2>5. SubSeq(U, 4, Len(U)) = packet' \o wire_in
    <3>1. PICK m \in Nat : m = 3
      OBVIOUS
    <3>2. m <= Len(packet) /\ m + 1 = 4
      BY <1>1, <1>5, <3>1
    <3>3. SubSeq(packet, m + 1, Len(packet)) \o wire_in
            = SubSeq(packet \o wire_in, m + 1, Len(packet \o wire_in))
      BY <1>1, <3>2, CutConcat
    <3> QED BY <3>2, <3>3, <2>3 DEF U
  <2>6. pc'["irq"] # "callback" /\ Parsing'
    <3>1. CASE UNCHANGED <<pc, ret>>
      BY <3>1, <1>1 DEF Parsing
    <3>2. CASE StartInit("irq", "restore")
      <4>1. pc'["irq"] = "put" /\ ret'["irq"] = "restore"
        BY <3>2, CtxMembers DEF StartInit, TypeInv, CtxInv
      <4> QED BY <4>1 DEF Parsing
    <3> QED BY <1>5, <3>1, <3>2 DEF handle_packet
  <2>7. Tracks(sent, handled', packet' \o wire_in, lost, q, n + 3)
    BY <2>2, <2>3, <2>5
  <2> QED BY <1>1, <2>4, <2>6, <2>7, FrameParsing
<1>6. CASE /\ Len(packet) > 2 /\ ~Framed(packet) /\ packet' = Tail(packet)
           /\ UNCHANGED <<driver, handled, saved, pc, arg, out, ret>>
  <2>1. Len(U) >= 3 /\ ~Framed(U)
    BY <1>1, <1>6, FirstThree
  <2> HIDE DEF U
  <2>2. Tracks(sent, handled, SubSeq(U, 2, Len(U)), lost, q, n + 1)
    BY <1>2, <1>3, <1>4, <2>1, SkipByte
  <2>3. packet' = SubSeq(packet, 2, Len(packet))
    <3>1. packet # <<>>
      BY <1>6, EmptySeq
    <3> QED BY <1>1, <1>6, <3>1, TailIsSubSeq
  <2>4. SubSeq(U, 2, Len(U)) = packet' \o wire_in
    <3>1. 1 \in Nat /\ 1 <= Len(packet) /\ 1 + 1 = 2
      BY <1>1, <1>6
    <3> QED BY <3>1, <1>1, <2>3, CutConcat DEF U
  <2>5. pc'["irq"] # "callback" /\ Parsing'
    BY <1>1, <1>6 DEF Parsing
  <2>6. Tracks(sent, handled', packet' \o wire_in, lost, q, n + 1)
    BY <1>6, <2>2, <2>4
  <2> QED BY <1>1, <1>3, <1>6, <2>5, <2>6, FrameParsing
<1>7. CASE /\ Len(packet) <= 2 /\ saved' = packet /\ packet' = <<>> /\ Go("irq", "idle")
           /\ UNCHANGED <<driver, handled, arg, out, ret>>
  <2>1. pc'["irq"] = "idle"
    BY <1>7, CtxMembers DEF TypeInv, CtxInv
  <2>2. Unread' = Unread
    BY <1>1, <1>7, <2>1 DEF Unread, InHand, Parsing
  <2>3. RxInv'
    BY <1>1, <2>1, ContentKept DEF FrameInv, RxInv
  <2> QED BY <1>1, <1>7, <2>2, <2>3, FrameKept
<1> QED BY <1>5, <1>6, <1>7 DEF parse

\* The controller sends a packet while no interrupt is served.
LEMMA FrameSay ==
  ASSUME TypeInv, FrameInv, NEW p \in Packet, Say(p), pc["irq"] = "idle",
         UNCHANGED <<ctx, recv, lost>>
  PROVE  FrameInv'
<1>1. PICK q, n : Tracks(sent, handled, saved \o wire_in, lost, q, n)
  BY DEF FrameInv, Unread, InHand, Parsing
<1>2. /\ sent \in Seq(Packet) /\ handled \in Seq(Packet) /\ saved \in Seq(Byte) /\ wire_in \in Seq(Byte)
      /\ p \in Seq(Byte)
  BY DEF FrameInv, TypeInv, RingInv, LineInv, Packet
<1>3. saved \o wire_in \in Seq(Byte)
  BY <1>2, ConcatProperties
<1>4. PICK r : Tracks(Append(sent, p), handled, (saved \o wire_in) \o p, lost, r, n)
  BY <1>1, <1>2, <1>3, MoreSent
<1>5. sent' = Append(sent, p) /\ wire_in' = wire_in \o p
  BY DEF Say
<1>6. Unread' = (saved \o wire_in) \o p
  <2>1. Unread' = saved \o (wire_in \o p)
    BY <1>5 DEF Unread, InHand, Parsing
  <2> QED BY <2>1, <1>2, BytesAssociative
<1>7. Tracks(sent, handled, Unread, lost, r, n)'
  BY <1>4, <1>5, <1>6 DEF Tracks, LineByte, SentByte
<1>8. sent' \in Seq(Packet)
  BY <1>2, <1>5, AppendProperties
<1>9. RxInv'
  BY ContentKept DEF FrameInv, RxInv
<1> QED BY <1>7, <1>8, <1>9 DEF FrameInv

\* The line and the controller.
LEMMA FrameLine ==
  ASSUME TypeInv, FrameInv, Obey \/ ResetButton \/ PressButtons \/ LoseByte PROVE FrameInv'
<1>1. CASE Obey
  <2>1. pc["irq"] = "idle" /\ UNCHANGED <<ctx, recv, lost>>
    BY <1>1 DEF Obey
  <2>2. CASE Say(<<MTCP_ACK, 128, 128>>)
    BY <2>1, <2>2, SaidPackets, FrameSay
  <2>3. CASE UNCHANGED <<sent, wire_in>>
    <3>1. (Parsing' <=> Parsing) /\ (pc'["irq"] = "callback" <=> pc["irq"] = "callback")
      BY <2>1 DEF Parsing
    <3> QED BY <2>1, <2>3, <3>1, FrameRest
  <2> QED BY <1>1, <2>2, <2>3 DEF Obey
<1>2. CASE ResetButton
  BY <1>2, SaidPackets, FrameSay DEF ResetButton
<1>3. CASE PressButtons
  <2>1. PICK press \in Presses : Say(EventOf(press))
    BY <1>3 DEF PressButtons
  <2>2. EventOf(press) \in Packet
    BY SaidPackets
  <2> QED BY <1>3, <2>1, <2>2, FrameSay DEF PressButtons
<1>4. CASE LoseByte
  <2>1. /\ pc["irq"] = "idle" /\ wire_in # <<>> /\ lost = 0 /\ wire_in' = Tail(wire_in) /\ lost' = 1
        /\ UNCHANGED <<ctx, recv, sent>>
    BY <1>4 DEF LoseByte
  <2>2. PICK q, n : Tracks(sent, handled, saved \o wire_in, 0, q, n)
    BY <2>1 DEF FrameInv, Unread, InHand, Parsing
  <2>3. sent \in Seq(Packet) /\ handled \in Seq(Packet) /\ saved \in Seq(Byte) /\ wire_in \in Seq(Byte)
    BY DEF FrameInv, TypeInv, RingInv, LineInv
  <2>4. Tracks(sent, handled, saved \o Tail(wire_in), 1, n + Len(saved), n)
    BY <2>1, <2>2, <2>3, ByteLost
  <2>5. Unread' = saved \o Tail(wire_in)
    BY <2>1 DEF Unread, InHand, Parsing
  <2>6. PICK r : r = n + Len(saved)
    OBVIOUS
  <2>7. Tracks(sent, handled, Unread, lost, r, n)'
    BY <2>1, <2>4, <2>5, <2>6 DEF Tracks, LineByte, SentByte
  <2>8. RxInv'
    BY <2>1, ContentKept DEF FrameInv, RxInv
  <2> QED BY <2>1, <2>3, <2>7, <2>8 DEF FrameInv
<1> QED BY <1>1, <1>2, <1>3, <1>4

LEMMA FrameInit == Init => FrameInv
<1> HAVE Init
<1>1. /\ sent = <<>> /\ handled = <<>> /\ lost = 0 /\ wire_in = <<>> /\ saved = <<>> /\ pc["irq"] = "idle"
      /\ Content(rx) = <<>>
  BY EmptyContent, CtxMembers DEF Init
<1>2. <<>> \in Seq(Packet) /\ <<>> \in Seq(Byte) /\ Len(<<>>) = 0 /\ <<>> \o <<>> = <<>>
  BY EmptySeq, ConcatEmptySeq
<1>3. Unread = <<>> /\ RxInv
  BY <1>1, <1>2 DEF Unread, InHand, Parsing, RxInv
<1>4. Tracks(<<>>, <<>>, <<>>, 0, 0, 0)
  <2>1. /\ 0 \in 0 .. 3 * Len(<<>>) /\ 0 \in Nat /\ 0 \in 0 .. 1 /\ 0 = 3 * Len(<<>>) /\ 0 # 1
        /\ Len(<<>>) = 3 * Len(<<>>) - 0 - 0 /\ Len(<<>>) <= 0 \div 3
        /\ \A k \in 1 .. Len(<<>>) : FALSE
    BY <1>2
  <2> QED BY <2>1 DEF Tracks
<1>5. lost \in 0 .. 1
  BY <1>1
<1> QED BY <1>1, <1>2, <1>3, <1>4, <1>5 DEF FrameInv

LEMMA FrameStep == ASSUME TypeInv, FrameInv, [Next]_vars PROVE FrameInv'
BY FrameCalls, FrameSends, FrameReceive, FrameCallback, FrameParse, FrameLine DEF Next, Interrupt

LEMMA PrefixIntro ==
  ASSUME NEW s \in Seq(Packet), NEW t \in Seq(Packet), Len(s) <= Len(t),
         \A k \in 1 .. Len(s) : s[k] = t[k]
  PROVE  IsPrefix(s, t)
<1>1. Len(s) \in Nat /\ Len(t) \in Nat /\ 1 \in Int /\ Len(s) \in Int
  BY LenProperties
<1>2. \A i \in 1 .. Len(s) : t[i] \in Packet
  BY <1>1, ElementOfSeq
<1> DEFINE u == SubSeq(t, 1, Len(s))
<1>3. /\ u \in Seq(Packet) /\ Len(u) = IF 1 <= Len(s) THEN Len(s) - 1 + 1 ELSE 0
      /\ \A i \in 1 .. Len(s) - 1 + 1 : u[i] = t[1 + i - 1]
  BY <1>1, <1>2, SubSeqProperties
<1> HIDE DEF u
<1>4. Len(u) = Len(s) /\ \A i \in 1 .. Len(s) : u[i] = s[i]
  <2>1. Len(u) = Len(s) /\ Len(s) - 1 + 1 = Len(s) /\ \A i \in 1 .. Len(s) : 1 + i - 1 = i
    BY <1>1, <1>3
  <2> QED BY <2>1, <1>3
<1>5. u = s
  BY <1>3, <1>4, SeqEqual
<1>6. SubSeq(s, 1, Len(s)) = s
  BY SubSeqFull
<1> QED BY <1>5, <1>6 DEF u, IsPrefix

\* The packets without one of them.
LEMMA WithoutPackets ==
  ASSUME NEW S \in Seq(Packet), NEW z \in 0 .. Len(S) - 1
  PROVE  /\ Without(S, z + 1) \in Seq(Packet) /\ Len(Without(S, z + 1)) = Len(S) - 1
         /\ \A k \in 1 .. Len(S) - 1 : Without(S, z + 1)[k] = S[IF k <= z THEN k ELSE k + 1]
<1> DEFINE N == Len(S)
           x == SubSeq(S, 1, z)
           y == SubSeq(S, z + 2, N)
<1>1. N \in Nat /\ z \in Nat /\ z < N /\ z + 1 - 1 = z /\ z + 1 + 1 = z + 2 /\ 1 \in Int /\ z + 2 \in Int
  BY LenProperties
<1>2. (\A i \in 1 .. z : S[i] \in Packet) /\ \A i \in z + 2 .. N : S[i] \in Packet
  BY <1>1, ElementOfSeq
<1>3. /\ x \in Seq(Packet) /\ Len(x) = IF 1 <= z THEN z - 1 + 1 ELSE 0
      /\ \A i \in 1 .. z - 1 + 1 : x[i] = S[1 + i - 1]
  BY <1>1, <1>2, SubSeqProperties
<1>4. /\ y \in Seq(Packet) /\ Len(y) = IF z + 2 <= N THEN N - (z + 2) + 1 ELSE 0
      /\ \A i \in 1 .. N - (z + 2) + 1 : y[i] = S[z + 2 + i - 1]
  BY <1>1, <1>2, SubSeqProperties
<1>5. Without(S, z + 1) = x \o y
  <2>1. PICK i : i = z + 1
    OBVIOUS
  <2>2. i - 1 = z /\ i + 1 = z + 2
    BY <1>1, <2>1
  <2>3. Without(S, i) = x \o y
    BY <2>2, Zenon DEF Without
  <2> QED BY <2>1, <2>3
<1> HIDE DEF N, x, y
<1>6. Len(x) = z /\ Len(y) = N - z - 1
  BY <1>1, <1>3, <1>4
<1>7. /\ x \o y \in Seq(Packet) /\ Len(x \o y) = Len(x) + Len(y)
      /\ \A i \in 1 .. Len(x) + Len(y) : (x \o y)[i] = IF i <= Len(x) THEN x[i] ELSE y[i - Len(x)]
  BY <1>3, <1>4, ConcatProperties
<1>8. Len(x) + Len(y) = N - 1
  BY <1>1, <1>6
<1>9. ASSUME NEW k \in 1 .. N - 1 PROVE (x \o y)[k] = S[IF k <= z THEN k ELSE k + 1]
  <2>1. CASE k <= z
    <3>1. k \in 1 .. z - 1 + 1 /\ 1 + k - 1 = k
      BY <1>1, <2>1
    <3> QED BY <2>1, <3>1, <1>3, <1>6, <1>7, <1>8
  <2>2. CASE ~(k <= z)
    <3>1. k - z \in 1 .. N - (z + 2) + 1 /\ z + 2 + (k - z) - 1 = k + 1
      BY <1>1, <2>2
    <3> QED BY <2>2, <3>1, <1>4, <1>6, <1>7, <1>8
  <2> QED BY <2>1, <2>2
<1> QED BY <1>5, <1>7, <1>8, <1>9 DEF N

LEMMA FrameSound == ASSUME TypeInv, FrameInv PROVE FramingSound
<1> DEFINE N == Len(sent)
           h == Len(handled)
<1>1. PICK q, n : Tracks(sent, handled, Unread, lost, q, n)
  BY DEF FrameInv
<1>2. /\ sent \in Seq(Packet) /\ handled \in Seq(Packet) /\ Unread \in Seq(Byte)
      /\ N \in Nat /\ h \in Nat /\ Len(Unread) \in Nat
  BY UnreadBytes, LenProperties DEF FrameInv
<1> DEFINE z == q \div 3
<1>3. /\ q \in Nat /\ n \in Nat /\ lost \in 0 .. 1
      /\ lost = 0 => q = 3 * N
      /\ lost = 1 => q < 3 * N
      /\ Len(Unread) = 3 * N - lost - n
      /\ \A k \in 1 .. h : handled[k] = sent[IF k <= z THEN k ELSE k + 1]
  BY <1>1, <1>2 DEF Tracks
<1>4. \/ n = 3 * h /\ h <= z
      \/ lost = 1 /\ h = z /\ n = 3 * h + 1
      \/ lost = 1 /\ h >= z /\ n = 3 * h + 2
  BY <1>1 DEF Tracks
<1>5. z \in Nat /\ 3 * z <= q /\ q <= 3 * z + 2
  BY <1>3, ByThree
<1> HIDE DEF N, h, z
<1>6. CASE lost = 0
  <2>1. z = N /\ h <= N
    BY <1>2, <1>3, <1>4, <1>5, <1>6
  <2>2. \A k \in 1 .. h : handled[k] = sent[k]
    <3>1. \A k \in 1 .. h : (IF k <= z THEN k ELSE k + 1) = k
      BY <1>2, <2>1
    <3> QED BY <3>1, <1>3
  <2>3. IsPrefix(handled, sent)
    BY <1>2, <2>1, <2>2, PrefixIntro DEF N, h
  <2> QED BY <2>3 DEF FramingSound
<1>7. CASE lost = 1
  <2>1. z \in 0 .. N - 1 /\ h <= N - 1 /\ z + 1 \in 1 .. N /\ lost > 0
    BY <1>2, <1>3, <1>4, <1>5, <1>7
  <2>2. PICK t : t = Without(sent, z + 1)
    OBVIOUS
  <2>3. /\ t \in Seq(Packet) /\ Len(t) = N - 1
        /\ \A k \in 1 .. N - 1 : t[k] = sent[IF k <= z THEN k ELSE k + 1]
    BY <1>2, <2>1, <2>2, WithoutPackets DEF N
  <2>4. \A k \in 1 .. h : handled[k] = t[k]
    <3>1. \A k \in 1 .. h : k \in 1 .. N - 1
      BY <1>2, <2>1
    <3> QED BY <3>1, <2>3, <1>3
  <2>5. IsPrefix(handled, t)
    BY <1>2, <2>1, <2>3, <2>4, PrefixIntro DEF h
  <2>6. z + 1 \in DOMAIN sent
    BY <1>2, <2>1, LenProperties DEF N
  <2> QED BY <2>1, <2>2, <2>5, <2>6 DEF FramingSound
<1> QED BY <1>3, <1>6, <1>7

\* The packets the driver acts on are the ones the controller sent, in order:
\* how the bytes are cut into interrupts, which of them are kept for the next
\* one and what the process does in between make no difference, and a byte lost
\* on the line costs at most the packet it belongs to.
THEOREM FramesAreSound == Spec => []FramingSound
<1>1. TypeInv /\ FrameInv /\ [Next]_vars => TypeInv' /\ FrameInv'
  BY TypeStep, FrameStep
<1>2. TypeInv /\ FrameInv => FramingSound
  BY FrameSound
<1> QED BY <1>1, <1>2, TypeInit, FrameInit, PTL DEF Spec

=============================================================================
