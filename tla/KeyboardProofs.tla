---------------------------- MODULE KeyboardProofs ----------------------------
(* Proofs about the keyboard driver, for a command ring of any size, any     *)
(* keys, any number of bytes on their way and any number of refused bytes.   *)
EXTENDS Keyboard, SequenceTheorems, TLAPS

-----------------------------------------------------------------------------
(* The inductive invariant.                                                  *)

\* What the keyboard can hold for the driver.
Bytes == {Byte("ack"), Byte("resend"), Byte("extended")}
         \cup {Scan(c, r) : c \in {"caps", "ctrl"}, r \in BOOLEAN}

Keys == {"caps", "lctrl", "rctrl"}

\* The i-th byte of f comes after the extended prefix, read already (x) or not.
Prefixed(f, x, i) == IF i = 1 THEN x ELSE f[i - 1].type = "extended"

\* A prefix is followed by the scan code it belongs to, and nothing else is
\* prefixed.
Framed(f, x) ==
  \A i \in 1 .. Len(f) + 1 :
    Prefixed(f, x, i) => i <= Len(f) /\ f[i].type = "scan" /\ f[i].code = "ctrl"

\* The i-th byte of f is a scan code of key k.
Reports(f, x, i, k) ==
  /\ f[i].type = "scan"
  /\ k = IF f[i].code # "ctrl" THEN f[i].code
         ELSE IF Prefixed(f, x, i) THEN "rctrl" ELSE "lctrl"

\* The last report of k in f says whether it is down; with no report left the
\* driver's K says the same as the keyboard's P.
InStep(f, x, K, P, k) ==
  /\ (\A i \in 1 .. Len(f) : ~Reports(f, x, i, k)) => (k \in K <=> k \in P)
  /\ \A i \in 1 .. Len(f) :
       Reports(f, x, i, k) /\ (\A j \in i + 1 .. Len(f) : ~Reports(f, x, j, k))
         => (f[i].release <=> k \notin P)

IsAnswer(b) == b.type \in {"ack", "resend"}
NoAnswer(f) == \A i \in 1 .. Len(f) : ~IsAnswer(f[i])
OneAnswer(f) == \E i \in 1 .. Len(f) :
                  IsAnswer(f[i]) /\ \A j \in 1 .. Len(f) : IsAnswer(f[j]) => j = i

\* Slot 0, which send_head sends, has been written as soon as the ring was used.
SlotZero == (start # 0 \/ end # 0) => cmd_queue[0] # "none"

RingInv == TypeOK /\ CommandsWhole /\ SlotZero
AnswerInv == /\ empty(start, end) => NoAnswer(fifo)
             /\ ~empty(start, end) => OneAnswer(fifo)
KeyInv == /\ fifo \in Seq(Bytes)
          /\ keys \subseteq Keys
          /\ Framed(fifo, scan_code_extended)
          /\ ~muted => \A k \in Keys :
               InStep(fifo, scan_code_extended, keys, pressed, k)

IInv == RingInv /\ AnswerInv /\ KeyInv

-----------------------------------------------------------------------------
(* The bytes on their way.                                                   *)

\* The fields of a byte.
LEMMA BytesDef ==
  ASSUME NEW b \in Bytes
  PROVE  /\ b.type \in {"ack", "resend", "extended", "scan"}
         /\ b.type = "scan" => b.code \in {"caps", "ctrl"} /\ b.release \in BOOLEAN
BY DEF Bytes, Byte, Scan

\* Reading the first byte: what it says is taken over, the reports left keep
\* their order and their prefixes.
LEMMA TakeByte ==
  ASSUME NEW f \in Seq(Bytes), f # <<>>, NEW x \in BOOLEAN, Framed(f, x)
  PROVE  /\ Tail(f) \in Seq(Bytes)
         /\ Framed(Tail(f), f[1].type = "extended")
         /\ \A k \in Keys, i \in 1 .. Len(Tail(f)) :
              Reports(Tail(f), f[1].type = "extended", i, k) <=> Reports(f, x, i + 1, k)
<1> DEFINE t == Tail(f)
           y == (f[1].type = "extended")
<1>1. /\ t \in Seq(Bytes) /\ Len(t) = Len(f) - 1 /\ Len(f) \in Nat \ {0}
      /\ \A i \in 1 .. Len(t) : t[i] = f[i + 1]
  BY HeadTailProperties, EmptySeq
<1>2. \A i \in 1 .. Len(t) + 1 : Prefixed(t, y, i) <=> Prefixed(f, x, i + 1)
  <2> TAKE i \in 1 .. Len(t) + 1
  <2>1. CASE i = 1
    BY <2>1, <1>1 DEF Prefixed
  <2>2. CASE i # 1
    <3>1. i - 1 \in 1 .. Len(t) /\ i + 1 # 1 /\ (i + 1) - 1 = (i - 1) + 1
      BY <2>2, <1>1
    <3>2. t[i - 1] = f[(i + 1) - 1]
      BY <3>1, <1>1
    <3> QED BY <2>2, <3>1, <3>2 DEF Prefixed
  <2> QED BY <2>1, <2>2
<1>3. Framed(t, y)
  <2> SUFFICES ASSUME NEW i \in 1 .. Len(t) + 1, Prefixed(t, y, i)
               PROVE  i <= Len(t) /\ t[i].type = "scan" /\ t[i].code = "ctrl"
    BY DEF Framed
  <2>1. i + 1 \in 1 .. Len(f) + 1 /\ Prefixed(f, x, i + 1)
    BY <1>1, <1>2
  <2>2. i + 1 <= Len(f) /\ f[i + 1].type = "scan" /\ f[i + 1].code = "ctrl"
    BY <2>1 DEF Framed
  <2> QED BY <2>2, <1>1
<1>4. \A k \in Keys, i \in 1 .. Len(t) : Reports(t, y, i, k) <=> Reports(f, x, i + 1, k)
  BY <1>1, <1>2 DEF Reports
<1> HIDE DEF t, y
<1> QED BY <1>1, <1>3, <1>4 DEF t, y
\* Reading the first byte brings the driver's state of a key one report on.
LEMMA TakeReport ==
  ASSUME NEW f \in Seq(Bytes), f # <<>>, NEW x \in BOOLEAN, Framed(f, x),
         NEW K, NEW L, NEW P, NEW k \in Keys, InStep(f, x, K, P, k),
         k \in L <=> IF Reports(f, x, 1, k) THEN ~f[1].release ELSE k \in K
  PROVE  InStep(Tail(f), f[1].type = "extended", L, P, k)
<1> DEFINE t == Tail(f)
           y == (f[1].type = "extended")
<1>1. Len(t) = Len(f) - 1 /\ Len(f) \in Nat \ {0} /\ \A i \in 1 .. Len(t) : t[i] = f[i + 1]
  BY HeadTailProperties, EmptySeq
<1>2. \A i \in 1 .. Len(t) : Reports(t, y, i, k) <=> Reports(f, x, i + 1, k)
  BY TakeByte
<1> HIDE DEF t, y
<1>3. ASSUME \A i \in 1 .. Len(t) : ~Reports(t, y, i, k)
      PROVE  k \in L <=> k \in P
  <2>1. \A i \in 2 .. Len(f) : i - 1 \in 1 .. Len(t) /\ (i - 1) + 1 = i
    BY <1>1
  <2>2. ASSUME NEW i \in 2 .. Len(f) PROVE ~Reports(f, x, i, k)
    <3>1. i - 1 \in 1 .. Len(t) /\ (i - 1) + 1 = i
      BY <2>1
    <3> QED BY <1>2, <1>3, <3>1
  <2>3. CASE Reports(f, x, 1, k)
    <3>1. f[1].release <=> k \notin P
      BY <2>2, <2>3, <1>1 DEF InStep
    <3> QED BY <3>1, <2>3
  <2>4. CASE ~Reports(f, x, 1, k)
    <3>1. \A i \in 1 .. Len(f) : ~Reports(f, x, i, k)
      <4> TAKE i \in 1 .. Len(f)
      <4>1. i = 1 \/ i \in 2 .. Len(f)
        BY <1>1
      <4> QED BY <4>1, <2>2, <2>4
    <3> QED BY <3>1, <2>4 DEF InStep
  <2> QED BY <2>3, <2>4
<1>4. ASSUME NEW i \in 1 .. Len(t), Reports(t, y, i, k),
             \A j \in i + 1 .. Len(t) : ~Reports(t, y, j, k)
      PROVE  t[i].release <=> k \notin P
  <2>2. ASSUME NEW j \in (i + 1) + 1 .. Len(f) PROVE ~Reports(f, x, j, k)
    <3>1. j - 1 \in i + 1 .. Len(t) /\ j - 1 \in 1 .. Len(t) /\ (j - 1) + 1 = j
      BY <1>1
    <3> QED BY <1>2, <1>4, <3>1
  <2>3. i + 1 \in 1 .. Len(f) /\ Reports(f, x, i + 1, k) /\ t[i] = f[i + 1]
    BY <1>1, <1>2, <1>4
  <2> QED BY <2>2, <2>3 DEF InStep
<1>5. InStep(t, y, L, P, k)
  BY <1>3, <1>4 DEF InStep
<1> QED BY <1>5 DEF t, y

\* With g behind f, the bytes of both report what they did.
SameReports(f, x, g) ==
  /\ \A k \in Keys : \A i \in 1 .. Len(f) :
       Reports(f \o g, x, i, k) <=> Reports(f, x, i, k)
  /\ \A k \in Keys : \A i \in Len(f) + 1 .. Len(f) + Len(g) :
       Reports(f \o g, x, i, k) <=> Reports(g, FALSE, i - Len(f), k)

\* Bytes put behind f that are framed by themselves change no report of f.
LEMMA AddBytes ==
  ASSUME NEW f \in Seq(Bytes), NEW x \in BOOLEAN, Framed(f, x),
         NEW g \in Seq(Bytes), Framed(g, FALSE)
  PROVE  /\ f \o g \in Seq(Bytes)
         /\ Framed(f \o g, x)
         /\ SameReports(f, x, g)
<1> DEFINE h == f \o g
<1>1. /\ h \in Seq(Bytes) /\ Len(h) = Len(f) + Len(g) /\ Len(f) \in Nat /\ Len(g) \in Nat
      /\ \A i \in 1 .. Len(f) : h[i] = f[i]
      /\ \A i \in Len(f) + 1 .. Len(f) + Len(g) : h[i] = g[i - Len(f)]
  BY ConcatProperties, LenProperties
<1> HIDE DEF h
<1>2. \A i \in 1 .. Len(f) + 1 : Prefixed(h, x, i) <=> Prefixed(f, x, i)
  <2> TAKE i \in 1 .. Len(f) + 1
  <2>1. i = 1 \/ i - 1 \in 1 .. Len(f)
    BY <1>1
  <2> QED BY <2>1, <1>1 DEF Prefixed
<1>3. ~Prefixed(h, x, Len(f) + 1)
  <2>1. Len(f) + 1 \in 1 .. Len(f) + 1 /\ ~(Len(f) + 1 <= Len(f))
    BY <1>1
  <2> QED BY <2>1, <1>2 DEF Framed
<1>4. \A i \in Len(f) + 1 .. Len(f) + Len(g) + 1 :
        Prefixed(h, x, i) <=> Prefixed(g, FALSE, i - Len(f))
  <2> TAKE i \in Len(f) + 1 .. Len(f) + Len(g) + 1
  <2>1. CASE i = Len(f) + 1
    <3>1. i - Len(f) = 1
      BY <2>1, <1>1
    <3> QED BY <2>1, <3>1, <1>3 DEF Prefixed
  <2>2. CASE i # Len(f) + 1
    <3>1. /\ i # 1 /\ i - Len(f) # 1 /\ i - 1 \in Len(f) + 1 .. Len(f) + Len(g)
          /\ (i - 1) - Len(f) = (i - Len(f)) - 1
      BY <2>2, <1>1
    <3>2. h[i - 1] = g[(i - Len(f)) - 1]
      BY <3>1, <1>1
    <3> QED BY <3>1, <3>2 DEF Prefixed
  <2> QED BY <2>1, <2>2
<1>5. Framed(h, x)
  <2> SUFFICES ASSUME NEW i \in 1 .. Len(h) + 1, Prefixed(h, x, i)
               PROVE  i <= Len(h) /\ h[i].type = "scan" /\ h[i].code = "ctrl"
    BY DEF Framed
  <2>1. CASE i <= Len(f)
    <3>1. i \in 1 .. Len(f) /\ i \in 1 .. Len(f) + 1
      BY <2>1, <1>1
    <3>2. f[i].type = "scan" /\ f[i].code = "ctrl"
      BY <3>1, <1>2 DEF Framed
    <3> QED BY <3>1, <3>2, <1>1
  <2>2. CASE ~(i <= Len(f))
    <3>1. i \in Len(f) + 1 .. Len(f) + Len(g) + 1 /\ i - Len(f) \in 1 .. Len(g) + 1
      BY <2>2, <1>1
    <3>2. /\ i - Len(f) <= Len(g)
          /\ g[i - Len(f)].type = "scan" /\ g[i - Len(f)].code = "ctrl"
      BY <3>1, <1>4 DEF Framed
    <3>3. i \in Len(f) + 1 .. Len(f) + Len(g)
      BY <3>1, <3>2, <1>1
    <3> QED BY <3>2, <3>3, <1>1
  <2> QED BY <2>1, <2>2
<1>6. ASSUME NEW k \in Keys, NEW i \in 1 .. Len(f)
      PROVE  Reports(h, x, i, k) <=> Reports(f, x, i, k)
  <2>1. i \in 1 .. Len(f) + 1
    BY <1>1
  <2> QED BY <2>1, <1>1, <1>2 DEF Reports
<1>7. ASSUME NEW k \in Keys, NEW i \in Len(f) + 1 .. Len(f) + Len(g)
      PROVE  Reports(h, x, i, k) <=> Reports(g, FALSE, i - Len(f), k)
  <2>1. i \in Len(f) + 1 .. Len(f) + Len(g) + 1
    BY <1>1
  <2> QED BY <2>1, <1>1, <1>4 DEF Reports
<1> QED BY <1>1, <1>5, <1>6, <1>7 DEF h, SameReports

\* Bytes with no report of k put behind f keep it in step.
LEMMA AddOthers ==
  ASSUME NEW f \in Seq(Bytes), NEW x \in BOOLEAN, Framed(f, x),
         NEW g \in Seq(Bytes), Framed(g, FALSE),
         NEW K, NEW P, NEW Q, NEW k \in Keys, InStep(f, x, K, P, k),
         k \in Q <=> k \in P, \A i \in 1 .. Len(g) : ~Reports(g, FALSE, i, k)
  PROVE  InStep(f \o g, x, K, Q, k)
<1> DEFINE h == f \o g
<1>1. /\ Len(h) = Len(f) + Len(g) /\ Len(f) \in Nat /\ Len(g) \in Nat
      /\ \A i \in 1 .. Len(f) : h[i] = f[i]
  BY ConcatProperties, LenProperties
<1>2. /\ \A i \in 1 .. Len(f) : Reports(h, x, i, k) <=> Reports(f, x, i, k)
      /\ \A i \in Len(f) + 1 .. Len(f) + Len(g) : ~Reports(h, x, i, k)
  <2>1. \A i \in Len(f) + 1 .. Len(f) + Len(g) : i - Len(f) \in 1 .. Len(g)
    BY <1>1
  <2>2. SameReports(f, x, g)
    BY AddBytes
  <2>3. /\ \A i \in 1 .. Len(f) : Reports(f \o g, x, i, k) <=> Reports(f, x, i, k)
        /\ \A i \in Len(f) + 1 .. Len(f) + Len(g) :
             Reports(f \o g, x, i, k) <=> Reports(g, FALSE, i - Len(f), k)
    <3> HIDE DEF h
    <3> QED BY <2>2 DEF SameReports
  <2> QED BY <2>1, <2>3
<1> HIDE DEF h
<1>3. ASSUME \A i \in 1 .. Len(h) : ~Reports(h, x, i, k)
      PROVE  k \in K <=> k \in Q
  <2>1. \A i \in 1 .. Len(f) : i \in 1 .. Len(h)
    BY <1>1
  <2> QED BY <2>1, <1>2, <1>3 DEF InStep
<1>4. ASSUME NEW i \in 1 .. Len(h), Reports(h, x, i, k),
             \A j \in i + 1 .. Len(h) : ~Reports(h, x, j, k)
      PROVE  h[i].release <=> k \notin Q
  <2>1. i \in 1 .. Len(f)
    BY <1>1, <1>2, <1>4
  <2>2. \A j \in i + 1 .. Len(f) : j \in i + 1 .. Len(h) /\ j \in 1 .. Len(f)
    BY <1>1, <2>1
  <2> QED BY <2>1, <2>2, <1>1, <1>2, <1>4 DEF InStep
<1>5. InStep(h, x, K, Q, k)
  BY <1>3, <1>4 DEF InStep
<1> QED BY <1>5 DEF h

\* A report of k put behind f last brings it in step.
LEMMA AddOwn ==
  ASSUME NEW f \in Seq(Bytes), NEW x \in BOOLEAN, Framed(f, x),
         NEW g \in Seq(Bytes), Framed(g, FALSE), g # <<>>,
         NEW K, NEW Q, NEW k \in Keys, Reports(g, FALSE, Len(g), k),
         \A i \in 1 .. Len(g) : Reports(g, FALSE, i, k) => i = Len(g),
         g[Len(g)].release <=> k \notin Q
  PROVE  InStep(f \o g, x, K, Q, k)
<1> DEFINE h == f \o g
<1>1. /\ Len(h) = Len(f) + Len(g) /\ Len(f) \in Nat /\ Len(g) \in Nat \ {0}
      /\ \A i \in Len(f) + 1 .. Len(f) + Len(g) : h[i] = g[i - Len(f)]
  BY ConcatProperties, LenProperties, EmptySeq
<1>2. \A i \in Len(f) + 1 .. Len(f) + Len(g) :
        Reports(h, x, i, k) <=> Reports(g, FALSE, i - Len(f), k)
  <2>1. SameReports(f, x, g)
    BY AddBytes
  <2> QED BY <2>1 DEF SameReports
<1> HIDE DEF h
<1>3. Len(h) \in Len(f) + 1 .. Len(f) + Len(g) /\ Len(h) - Len(f) = Len(g) /\ Len(h) \in 1 .. Len(h)
  BY <1>1, SMTT(30)
<1>4. Reports(h, x, Len(h), k) /\ h[Len(h)] = g[Len(g)]
  BY <1>1, <1>2, <1>3
<1>5. ASSUME NEW i \in 1 .. Len(h), Reports(h, x, i, k),
             \A j \in i + 1 .. Len(h) : ~Reports(h, x, j, k)
      PROVE  h[i].release <=> k \notin Q
  <2>1. i # Len(h) => Len(h) \in i + 1 .. Len(h)
    BY <1>1
  <2>2. i = Len(h)
    BY <2>1, <1>4, <1>5
  <2> QED BY <2>2, <1>4
<1>6. InStep(h, x, K, Q, k)
  BY <1>3, <1>4, <1>5 DEF InStep
<1> QED BY <1>6 DEF h

-----------------------------------------------------------------------------
(* The ring.                                                                 *)

\* Adding less than the size to an index wraps at most once.
LEMMA IncWraps ==
  ASSUME NEW i \in Slots, NEW n \in Slots
  PROVE  inc(i, n) = IF i + n < CMD_QUEUE_SIZE THEN i + n ELSE i + n - CMD_QUEUE_SIZE
<1>1. \A S \in Nat \ {0} : \A a \in 0 .. S - 1 : a % S = a /\ (a + S) % S = a
  OBVIOUS
<1>2. CASE i + n < CMD_QUEUE_SIZE
  BY <1>1, <1>2, KeyboardAssumption DEF inc, Slots
<1>3. CASE ~(i + n < CMD_QUEUE_SIZE)
  <2>1. i + n - CMD_QUEUE_SIZE \in 0 .. CMD_QUEUE_SIZE - 1
        /\ (i + n - CMD_QUEUE_SIZE) + CMD_QUEUE_SIZE = i + n
    BY <1>3, KeyboardAssumption DEF Slots
  <2> QED BY <2>1, <1>1, <1>3, KeyboardAssumption DEF inc
<1> QED BY <1>2, <1>3

\* So does the distance from one index to another.
LEMMA DistanceWraps ==
  ASSUME NEW i \in Slots, NEW e \in Slots
  PROVE  (i - e) % CMD_QUEUE_SIZE = IF e <= i THEN i - e ELSE i - e + CMD_QUEUE_SIZE
<1>1. \A S \in Nat \ {0} : \A a \in 0 .. S - 1 : a % S = a /\ (a - S) % S = a
  OBVIOUS
<1>2. CASE e <= i
  BY <1>1, <1>2, KeyboardAssumption DEF Slots
<1>3. CASE ~(e <= i)
  <2>1. i - e + CMD_QUEUE_SIZE \in 0 .. CMD_QUEUE_SIZE - 1
        /\ (i - e + CMD_QUEUE_SIZE) - CMD_QUEUE_SIZE = i - e
    BY <1>3, KeyboardAssumption DEF Slots
  <2> QED BY <2>1, <1>1, <1>3, KeyboardAssumption
<1> QED BY <1>2, <1>3

\* A command that there is room for is queued behind the bytes waiting, which
\* it leaves alone, and the ring is not full after it.
LEMMA QueuedBehind ==
  ASSUME start \in Slots, end \in Slots, NEW l \in Nat, room(start, end) > l
  PROVE  /\ inc(end, l) \in Slots
         /\ used(start, end) \in 0 .. CMD_QUEUE_SIZE - 1
         /\ used(start, inc(end, l)) = used(start, end) + l
         /\ used(start, end) + l < CMD_QUEUE_SIZE
         /\ \A n \in 1 .. used(start, end) + l :
              /\ inc(start, n - 1) \in Slots
              /\ ((inc(start, n - 1) - end) % CMD_QUEUE_SIZE) + 1
                   = IF n <= used(start, end) THEN CMD_QUEUE_SIZE - used(start, end) + n
                                              ELSE n - used(start, end)
<1>1. /\ used(start, end) \in 0 .. CMD_QUEUE_SIZE - 1
      /\ used(start, end) + l < CMD_QUEUE_SIZE
      /\ l \in Slots
  BY KeyboardAssumption DEF used, room, Slots
<1>2. inc(end, l) = IF end + l < CMD_QUEUE_SIZE THEN end + l ELSE end + l - CMD_QUEUE_SIZE
  BY <1>1, IncWraps
<1>3. inc(end, l) \in Slots /\ used(start, inc(end, l)) = used(start, end) + l
  BY <1>1, <1>2, KeyboardAssumption DEF used, Slots
<1>4. ASSUME NEW n \in 1 .. used(start, end) + l
      PROVE  /\ inc(start, n - 1) \in Slots
             /\ ((inc(start, n - 1) - end) % CMD_QUEUE_SIZE) + 1
                  = IF n <= used(start, end) THEN CMD_QUEUE_SIZE - used(start, end) + n
                                             ELSE n - used(start, end)
  <2> DEFINE i == inc(start, n - 1)
  <2>1. n - 1 \in Slots
    BY <1>1, KeyboardAssumption DEF Slots
  <2>2. i = IF start + (n - 1) < CMD_QUEUE_SIZE THEN start + (n - 1)
                                                ELSE start + (n - 1) - CMD_QUEUE_SIZE
    BY <2>1, IncWraps
  <2> HIDE DEF i
  <2>3. i \in Slots
    BY <2>1, <2>2, KeyboardAssumption DEF Slots
  <2>4. (i - end) % CMD_QUEUE_SIZE = IF end <= i THEN i - end ELSE i - end + CMD_QUEUE_SIZE
    BY <2>3, DistanceWraps
  <2>5. (IF end <= i THEN i - end ELSE i - end + CMD_QUEUE_SIZE) + 1
          = IF n <= used(start, end) THEN CMD_QUEUE_SIZE - used(start, end) + n
                                     ELSE n - used(start, end)
    BY <2>2, <2>3, <1>1, KeyboardAssumption DEF used, Slots
  <2> QED BY <2>3, <2>4, <2>5 DEF i
<1> QED BY <1>1, <1>3, <1>4

\* The commands the driver sends.
Sendable == {<<"F5">>, <<"F4">>, <<"ED", "on">>, <<"ED", "off">>}

LEMMA SendableDef ==
  ASSUME NEW cmd \in Sendable
  PROVE  /\ Len(cmd) \in {1, 2}
         /\ \A i \in 1 .. Len(cmd) : cmd[i] \in Commands
         /\ cmd[1] \in Commands
         /\ \A i \in 1 .. Len(cmd) :
              cmd[i] = "ED" => i < Len(cmd) /\ cmd[i + 1] \in {"on", "off"}
<1>1. CASE Len(cmd) = 1
  BY <1>1 DEF Sendable, Commands
<1>2. CASE Len(cmd) = 2
  BY <1>2 DEF Sendable, Commands
<1>3. Len(cmd) \in {1, 2}
  BY DEF Sendable
<1> QED BY <1>1, <1>2, <1>3

\* cmd_queue_queue: whatever the room, the ring is sound after it, and not
\* empty: an empty ring has room for any command.
LEMMA QueueKeeps ==
  ASSUME RingInv, NEW cmd \in Sendable, Queue(cmd), start' = start
  PROVE  /\ cmd_queue' \in [Slots -> Commands \cup {"none"}]
         /\ end' \in Slots
         /\ CommandsWhole' /\ SlotZero'
         /\ start' # end'
<1>1. /\ start \in Slots /\ end \in Slots /\ CMD_QUEUE_SIZE \in Nat /\ CMD_QUEUE_SIZE > 3
      /\ cmd_queue \in [Slots -> Commands \cup {"none"}]
      /\ CommandsWhole /\ SlotZero
  BY KeyboardAssumption DEF RingInv, TypeOK
<1>2. CASE ~(room(start, end) > Len(cmd))
  <2>1. cmd_queue' = cmd_queue /\ end' = end
    BY <1>2 DEF Queue
  <2>2. start # end
    BY <1>1, <1>2, SendableDef DEF room, used, Slots
  <2>3. CommandsWhole' /\ SlotZero'
    BY <2>1, <1>1 DEF CommandsWhole, SlotZero, Waiting, used, inc
  <2> QED BY <2>1, <2>2, <2>3, <1>1
<1>3. CASE room(start, end) > Len(cmd)
  <2> DEFINE l == Len(cmd)
             u == used(start, end)
  <2>1. l \in {1, 2} /\ l \in Nat
    BY SendableDef
  <2>2. cmd_queue' = Filled(cmd) /\ end' = inc(end, l)
    BY <1>3 DEF Queue
  <2>3. /\ end' \in Slots /\ u \in 0 .. CMD_QUEUE_SIZE - 1
        /\ used(start', end') = u + l /\ u + l < CMD_QUEUE_SIZE
    BY <1>1, <1>3, <2>1, <2>2, QueuedBehind
  <2>4. ASSUME NEW i \in Slots
        PROVE  /\ ((i - end) % CMD_QUEUE_SIZE) + 1 \in 1 .. CMD_QUEUE_SIZE
               /\ cmd_queue'[i] = IF ((i - end) % CMD_QUEUE_SIZE) + 1 <= l
                                  THEN cmd[((i - end) % CMD_QUEUE_SIZE) + 1]
                                  ELSE cmd_queue[i]
    <3>1. ((i - end) % CMD_QUEUE_SIZE) + 1 \in 1 .. CMD_QUEUE_SIZE
      BY <1>1, DistanceWraps DEF Slots
    <3>2. cmd_queue'[i] = IF ((i - end) % CMD_QUEUE_SIZE) + 1 <= l
                          THEN cmd[((i - end) % CMD_QUEUE_SIZE) + 1] ELSE cmd_queue[i]
      BY <2>2 DEF Filled
    <3> QED BY <3>1, <3>2
  <2>5. ASSUME NEW i \in Slots
        PROVE  /\ cmd_queue'[i] \in Commands \cup {"none"}
               /\ cmd_queue[i] # "none" => cmd_queue'[i] # "none"
    <3>1. CASE ((i - end) % CMD_QUEUE_SIZE) + 1 <= l
      <4>1. ((i - end) % CMD_QUEUE_SIZE) + 1 \in 1 .. l
        BY <3>1, <2>4, <2>1
      <4>2. cmd_queue'[i] \in Commands
        BY <4>1, <3>1, <2>4, SendableDef
      <4> QED BY <4>2 DEF Commands
    <3>2. CASE ~(((i - end) % CMD_QUEUE_SIZE) + 1 <= l)
      BY <3>2, <2>4, <1>1
    <3> QED BY <3>1, <3>2
  <2>6. cmd_queue' \in [Slots -> Commands \cup {"none"}]
    <3>1. cmd_queue' = [i \in Slots |-> cmd_queue'[i]]
      BY <2>2 DEF Filled
    <3> QED BY <3>1, <2>5
  <2>7. SlotZero'
    <3>1. 0 \in Slots
      BY <1>1 DEF Slots
    <3>2. CASE start = 0 /\ end = 0
      <4>1. ((0 - end) % CMD_QUEUE_SIZE) + 1 = 1
        BY <3>1, <3>2, DistanceWraps
      <4>2. cmd_queue'[0] = cmd[1]
        BY <4>1, <3>1, <2>4, <2>1
      <4> QED BY <4>2, SendableDef DEF SlotZero, Commands
    <3>3. CASE start # 0 \/ end # 0
      BY <3>1, <3>3, <2>5, <1>1 DEF SlotZero
    <3> QED BY <3>2, <3>3
  <2>8. ASSUME NEW n \in 1 .. u + l
        PROVE  Waiting(n)' = IF n <= u THEN Waiting(n) ELSE cmd[n - u]
    <3> DEFINE i == inc(start, n - 1)
    <3>1. i \in Slots /\ ((i - end) % CMD_QUEUE_SIZE) + 1
                           = IF n <= u THEN CMD_QUEUE_SIZE - u + n ELSE n - u
      BY <1>1, <1>3, <2>1, QueuedBehind
    <3>2. Waiting(n)' = cmd_queue'[i] /\ Waiting(n) = cmd_queue[i]
      BY DEF Waiting, inc
    <3> HIDE DEF i
    <3>3. CASE n <= u
      <4>1. ~(CMD_QUEUE_SIZE - u + n <= l)
        BY <2>1, <2>3, <1>1
      <4> QED BY <4>1, <3>1, <3>2, <3>3, <2>4
    <3>4. CASE ~(n <= u)
      <4>1. n - u <= l
        BY <2>1, <2>3
      <4> QED BY <4>1, <3>1, <3>2, <3>4, <2>4
    <3> QED BY <3>3, <3>4
  <2>9. CommandsWhole'
    <3> SUFFICES ASSUME NEW n \in 1 .. u + l, Waiting(n)' = "ED"
                 PROVE  n < u + l /\ Waiting(n + 1)' \in {"on", "off"}
      BY <2>3 DEF CommandsWhole
    <3>1. CASE n <= u
      <4>1. n \in 1 .. u /\ Waiting(n) = "ED"
        BY <3>1, <2>1, <2>3, <2>8
      <4>2. n < u /\ Waiting(n + 1) \in {"on", "off"}
        BY <4>1, <1>1 DEF CommandsWhole
      <4>3. n + 1 \in 1 .. u + l /\ n + 1 <= u /\ n < u + l
        BY <4>2, <2>1, <2>3
      <4> QED BY <4>2, <4>3, <2>8
    <3>2. CASE ~(n <= u)
      <4>1. n - u \in 1 .. l /\ cmd[n - u] = "ED"
        BY <3>2, <2>1, <2>3, <2>8
      <4>2. n - u < l /\ cmd[(n - u) + 1] \in {"on", "off"}
        BY <4>1, SendableDef
      <4>3. n + 1 \in 1 .. u + l /\ ~(n + 1 <= u) /\ n < u + l /\ (n + 1) - u = (n - u) + 1
        BY <4>2, <3>2, <2>1, <2>3
      <4> QED BY <4>2, <4>3, <2>8
    <3> QED BY <3>1, <3>2
  <2>10. start' # end'
    <3>1. used(start', end') # 0
      BY <2>1, <2>3
    <3> QED BY <3>1, <1>1 DEF used, Slots
  <2> QED BY <2>3, <2>6, <2>7, <2>9, <2>10
<1> QED BY <1>2, <1>3

\* The head of a ring that is not empty can be dropped: the bytes behind it
\* move up by one.
LEMMA PopKeeps ==
  ASSUME RingInv, start # end, start' = inc(start, 1), UNCHANGED <<cmd_queue, end>>
  PROVE  start' \in Slots /\ CommandsWhole' /\ SlotZero'
<1>1. /\ start \in Slots /\ end \in Slots /\ CMD_QUEUE_SIZE \in Nat /\ CMD_QUEUE_SIZE > 3
      /\ CommandsWhole /\ SlotZero
  BY KeyboardAssumption DEF RingInv, TypeOK
<1>2. /\ 1 \in Slots
      /\ start' = IF start + 1 < CMD_QUEUE_SIZE THEN start + 1 ELSE start + 1 - CMD_QUEUE_SIZE
  BY <1>1, IncWraps DEF Slots
<1>3. start' \in Slots
  BY <1>1, <1>2 DEF Slots
<1>4. used(start, end) \in 1 .. CMD_QUEUE_SIZE - 1 /\ used(start', end') = used(start, end) - 1
  BY <1>1, <1>2 DEF used, Slots
<1>5. ASSUME NEW n \in 1 .. used(start, end) - 1 PROVE Waiting(n)' = Waiting(n + 1)
  <2>1. n - 1 \in Slots /\ n \in Slots /\ (n + 1) - 1 = n
    BY <1>1, <1>4 DEF Slots
  <2>2. inc(start', n - 1) = inc(start, n)
    <3>1. inc(start', n - 1) = IF start' + (n - 1) < CMD_QUEUE_SIZE
                               THEN start' + (n - 1) ELSE start' + (n - 1) - CMD_QUEUE_SIZE
      BY <1>3, <2>1, IncWraps
    <3>2. inc(start, n) = IF start + n < CMD_QUEUE_SIZE
                          THEN start + n ELSE start + n - CMD_QUEUE_SIZE
      BY <1>1, <2>1, IncWraps
    <3> QED BY <3>1, <3>2, <1>1, <1>2, <2>1 DEF Slots
  <2> QED BY <2>1, <2>2 DEF Waiting, inc
<1>6. CommandsWhole'
  <2> SUFFICES ASSUME NEW n \in 1 .. used(start, end) - 1, Waiting(n)' = "ED"
               PROVE  n < used(start, end) - 1 /\ Waiting(n + 1)' \in {"on", "off"}
    BY <1>4 DEF CommandsWhole
  <2>1. n + 1 \in 1 .. used(start, end) /\ Waiting(n + 1) = "ED"
    BY <1>4, <1>5
  <2>2. n + 1 < used(start, end) /\ Waiting((n + 1) + 1) \in {"on", "off"}
    BY <2>1, <1>1 DEF CommandsWhole
  <2>3. n + 1 \in 1 .. used(start, end) - 1
    BY <2>2, <1>4
  <2> QED BY <2>2, <2>3, <1>5, <1>4
<1>7. SlotZero'
  BY <1>1 DEF SlotZero, Slots
<1> QED BY <1>3, <1>6, <1>7

-----------------------------------------------------------------------------
(* Answers.                                                                  *)

\* An answer put behind bytes that hold none is the only one, and reports no key.
LEMMA AddAnswer ==
  ASSUME NEW f \in Seq(Bytes), NEW x \in BOOLEAN, Framed(f, x), NoAnswer(f),
         NEW b \in {Byte("ack"), Byte("resend")}
  PROVE  /\ Append(f, b) \in Seq(Bytes)
         /\ Framed(Append(f, b), x)
         /\ OneAnswer(Append(f, b))
         /\ \A K, P : \A k \in Keys : InStep(f, x, K, P, k) => InStep(Append(f, b), x, K, P, k)
<1> DEFINE g == <<b>>
           h == Append(f, b)
<1>1. b \in Bytes /\ IsAnswer(b) /\ b.type # "scan" /\ b.type # "extended"
  BY DEF Bytes, Byte, IsAnswer
<1>2. g \in Seq(Bytes) /\ Len(g) = 1 /\ g[1] = b /\ h = f \o g
  BY <1>1, AppendIsConcat
<1> HIDE DEF g
<1>3. Framed(g, FALSE)
  <2> SUFFICES ASSUME NEW i \in 1 .. Len(g) + 1, Prefixed(g, FALSE, i) PROVE FALSE
    BY DEF Framed
  <2>1. i = 1 \/ i = 2
    BY <1>2
  <2> QED BY <2>1, <1>1, <1>2 DEF Prefixed
<1>4. \A k \in Keys : \A i \in 1 .. Len(g) : ~Reports(g, FALSE, i, k)
  <2>1. \A i \in 1 .. Len(g) : i = 1
    BY <1>2
  <2> QED BY <2>1, <1>1, <1>2 DEF Reports
<1>5. /\ Len(h) = Len(f) + 1 /\ Len(f) \in Nat /\ h[Len(f) + 1] = b
      /\ \A i \in 1 .. Len(f) : h[i] = f[i]
  BY <1>1, AppendProperties, LenProperties
<1> HIDE DEF h
<1>6. h \in Seq(Bytes) /\ Framed(h, x)
  BY <1>2, <1>3, AddBytes
<1>7. ASSUME NEW K, NEW P, NEW k \in Keys, InStep(f, x, K, P, k)
      PROVE  InStep(h, x, K, P, k)
  BY <1>2, <1>3, <1>4, <1>7, AddOthers
<1>8. OneAnswer(h)
  <2>1. Len(f) + 1 \in 1 .. Len(h) /\ IsAnswer(h[Len(f) + 1])
    BY <1>1, <1>5
  <2>2. ASSUME NEW j \in 1 .. Len(h), IsAnswer(h[j]) PROVE j = Len(f) + 1
    <3>1. j # Len(f) + 1 => j \in 1 .. Len(f)
      BY <1>5
    <3> QED BY <3>1, <2>2, <1>5 DEF NoAnswer
  <2> QED BY <2>1, <2>2 DEF OneAnswer
<1> QED BY <1>6, <1>7, <1>8 DEF h

\* Reading the only answer leaves none; reading anything else leaves them all.
LEMMA TakeAnswer ==
  ASSUME NEW f \in Seq(Bytes), f # <<>>
  PROVE  /\ IsAnswer(f[1]) => ~NoAnswer(f)
         /\ IsAnswer(f[1]) /\ OneAnswer(f) => NoAnswer(Tail(f))
         /\ NoAnswer(f) => NoAnswer(Tail(f))
         /\ ~IsAnswer(f[1]) /\ OneAnswer(f) => OneAnswer(Tail(f))
<1> DEFINE t == Tail(f)
<1>1. Len(t) = Len(f) - 1 /\ Len(f) \in Nat \ {0} /\ \A i \in 1 .. Len(t) : t[i] = f[i + 1]
  BY HeadTailProperties, EmptySeq
<1> HIDE DEF t
<1>2. 1 \in 1 .. Len(f) /\ \A i \in 1 .. Len(t) : i + 1 \in 1 .. Len(f) /\ i + 1 # 1
  BY <1>1
<1>3. IsAnswer(f[1]) => ~NoAnswer(f)
  BY <1>2 DEF NoAnswer
<1>4. IsAnswer(f[1]) /\ OneAnswer(f) => NoAnswer(t)
  BY <1>1, <1>2 DEF NoAnswer, OneAnswer
<1>5. NoAnswer(f) => NoAnswer(t)
  BY <1>1, <1>2 DEF NoAnswer
<1>6. ASSUME ~IsAnswer(f[1]), OneAnswer(f) PROVE OneAnswer(t)
  <2>1. PICK i \in 1 .. Len(f) : IsAnswer(f[i]) /\ \A j \in 1 .. Len(f) : IsAnswer(f[j]) => j = i
    BY <1>6 DEF OneAnswer
  <2>2. i - 1 \in 1 .. Len(t) /\ (i - 1) + 1 = i
    BY <2>1, <1>6, <1>1
  <2>3. IsAnswer(t[i - 1])
    BY <2>1, <2>2, <1>1
  <2>4. ASSUME NEW j \in 1 .. Len(t), IsAnswer(t[j]) PROVE j = i - 1
    <3>1. j + 1 = i
      BY <2>1, <2>4, <1>1, <1>2
    <3> QED BY <3>1, <1>1
  <2> QED BY <2>2, <2>3, <2>4 DEF OneAnswer
<1> QED BY <1>3, <1>4, <1>5, <1>6 DEF t

\* outb: whether the keyboard obeys or refuses, it answers, once.
LEMMA OutbAnswers ==
  ASSUME TypeOK, NEW byte \in Commands, NEW f, outb(byte, f)
  PROVE  /\ \E b \in {Byte("ack"), Byte("resend")} : fifo' = Append(f, b)
         /\ leds' \in Commands /\ scanning' \in BOOLEAN /\ data' \in BOOLEAN
         /\ resends' \in 0 .. MaxResends
<1>1. CASE Obey(byte, f)
  BY <1>1 DEF Obey, TypeOK
<1>2. CASE Refuse(f)
  <2>1. resends' \in 0 .. MaxResends
    BY <1>2, KeyboardAssumption DEF Refuse, TypeOK
  <2> QED BY <2>1, <1>2 DEF Refuse, TypeOK
<1> QED BY <1>1, <1>2 DEF outb

-----------------------------------------------------------------------------
(* The invariant is inductive.                                               *)

\* What a step made of a read byte and a command sent leaves true of the ring,
\* the device and the bytes, x being the prefix flag and f the bytes not read.
Kept(f, x) ==
  /\ cmd_queue' \in [Slots -> Commands \cup {"none"}]
  /\ start' \in Slots /\ end' \in Slots
  /\ CommandsWhole' /\ SlotZero'
  /\ leds' \in Commands /\ scanning' \in BOOLEAN /\ data' \in BOOLEAN
  /\ resends' \in 0 .. MaxResends
  /\ AnswerInv'
  /\ fifo' \in Seq(Bytes) /\ Framed(fifo', x)
  /\ \A K, P : \A k \in Keys : InStep(f, x, K, P, k) => InStep(fifo', x, K, P, k)

\* send_cmd: into an empty ring the byte goes out and is answered; into any
\* other the byte out already is the only one.
LEMMA SendKeeps ==
  ASSUME RingInv, NEW f \in Seq(Bytes), NEW x \in BOOLEAN, Framed(f, x),
         empty(start, end) => NoAnswer(f), ~empty(start, end) => OneAnswer(f),
         NEW cmd \in Sendable, send_cmd(cmd, f)
  PROVE  Kept(f, x)
<1>1. /\ cmd_queue' \in [Slots -> Commands \cup {"none"}]
      /\ start' = start /\ start \in Slots /\ end' \in Slots
      /\ CommandsWhole' /\ SlotZero' /\ start' # end' /\ TypeOK
  BY QueueKeeps DEF send_cmd, RingInv, TypeOK
<1>2. CASE empty(start, end)
  <2>1. cmd[1] \in Commands /\ outb(cmd[1], f) /\ NoAnswer(f)
    BY <1>2, SendableDef DEF send_cmd
  <2>2. PICK b \in {Byte("ack"), Byte("resend")} : fifo' = Append(f, b)
    BY <2>1, <1>1, OutbAnswers
  <2>3. /\ fifo' \in Seq(Bytes) /\ Framed(fifo', x) /\ OneAnswer(fifo')
        /\ \A K, P : \A k \in Keys : InStep(f, x, K, P, k) => InStep(fifo', x, K, P, k)
    BY <2>1, <2>2, AddAnswer
  <2>4. /\ leds' \in Commands /\ scanning' \in BOOLEAN /\ data' \in BOOLEAN
        /\ resends' \in 0 .. MaxResends
    BY <2>1, <1>1, OutbAnswers
  <2>5. AnswerInv'
    BY <2>3, <1>1 DEF AnswerInv, empty, OneAnswer, IsAnswer
  <2> QED BY <1>1, <2>3, <2>4, <2>5 DEF Kept
<1>3. CASE ~empty(start, end)
  <2>1. NoOutput(f) /\ OneAnswer(f)
    BY <1>3 DEF send_cmd
  <2>2. fifo' = f /\ UNCHANGED <<leds, scanning, data, resends>>
    BY <2>1 DEF NoOutput
  <2>3. AnswerInv'
    BY <2>1, <2>2, <1>1 DEF AnswerInv, empty, OneAnswer, IsAnswer
  <2> QED BY <1>1, <2>2, <2>3 DEF Kept, TypeOK
<1> QED BY <1>2, <1>3

\* cmd_queue_send_head, with no answer due: a byte goes out if any waits.
LEMMA HeadKeeps ==
  ASSUME RingInv, NEW f \in Seq(Bytes), NEW x \in BOOLEAN, Framed(f, x),
         NoAnswer(f), start' \in Slots, start # end, UNCHANGED <<cmd_queue, end>>,
         CommandsWhole', SlotZero', send_head(start', f)
  PROVE  Kept(f, x)
<1>1. /\ TypeOK /\ end \in Slots /\ 0 \in Slots /\ SlotZero
      /\ cmd_queue' \in [Slots -> Commands \cup {"none"}] /\ end' \in Slots
  BY KeyboardAssumption DEF RingInv, TypeOK, Slots
<1>2. CASE empty(start', end)
  <2>1. fifo' = f /\ UNCHANGED <<leds, scanning, data, resends>> /\ start' = end'
    BY <1>2 DEF send_head, NoOutput, empty
  <2>2. AnswerInv'
    BY <2>1 DEF AnswerInv, empty, NoAnswer, IsAnswer
  <2> QED BY <1>1, <2>1, <2>2 DEF Kept, TypeOK
<1>3. CASE ~empty(start', end)
  <2>1. outb(cmd_queue[0], f) /\ start' # end'
    BY <1>3 DEF send_head, empty
  <2>2. cmd_queue[0] \in Commands
    BY <1>1 DEF SlotZero, TypeOK
  <2>3. PICK b \in {Byte("ack"), Byte("resend")} : fifo' = Append(f, b)
    BY <2>1, <2>2, <1>1, OutbAnswers
  <2>4. /\ fifo' \in Seq(Bytes) /\ Framed(fifo', x) /\ OneAnswer(fifo')
        /\ \A K, P : \A k \in Keys : InStep(f, x, K, P, k) => InStep(fifo', x, K, P, k)
    BY <2>3, AddAnswer
  <2>5. /\ leds' \in Commands /\ scanning' \in BOOLEAN /\ data' \in BOOLEAN
        /\ resends' \in 0 .. MaxResends
    BY <2>1, <2>2, <1>1, OutbAnswers
  <2>6. AnswerInv'
    BY <2>1, <2>4 DEF AnswerInv, empty, OneAnswer, IsAnswer
  <2> QED BY <1>1, <2>4, <2>5, <2>6 DEF Kept
<1> QED BY <1>2, <1>3

LEMMA InitInv == Init => IInv
<1> SUFFICES ASSUME Init PROVE IInv
  OBVIOUS
<1>1. 0 \in Slots /\ MaxResends \in Nat
  BY KeyboardAssumption DEF Slots
<1>2. TypeOK /\ SlotZero
  BY <1>1 DEF Init, TypeOK, SlotZero, Commands
<1>3. CommandsWhole
  <2>1. used(start, end) = 0
    BY DEF Init, used
  <2> QED BY <2>1 DEF CommandsWhole
<1>4. Len(fifo) = 0 /\ fifo \in Seq(Bytes) /\ start = end
  BY DEF Init
<1>5. AnswerInv
  BY <1>4 DEF AnswerInv, NoAnswer, empty
<1>6. Framed(fifo, scan_code_extended)
  <2>1. \A i \in 1 .. Len(fifo) + 1 : i = 1
    BY <1>4
  <2>2. scan_code_extended = FALSE
    BY DEF Init
  <2> QED BY <2>1, <2>2 DEF Framed, Prefixed
<1>7. ASSUME NEW k \in Keys
      PROVE  InStep(fifo, scan_code_extended, keys, pressed, k)
  <2>1. keys = {} /\ pressed = {}
    BY DEF Init
  <2>2. \A i \in 1 .. Len(fifo) : FALSE
    BY <1>4
  <2> QED BY <2>1, <2>2 DEF InStep
<1>8. keys \subseteq Keys
  BY DEF Init
<1> QED BY <1>2, <1>3, <1>4, <1>5, <1>6, <1>7, <1>8 DEF IInv, RingInv, KeyInv

\* keyboard_init's two commands.
LEMMA BootStep == ASSUME IInv, DisableScan \/ EnableScan PROVE IInv'
<1>1. /\ RingInv /\ fifo \in Seq(Bytes) /\ scan_code_extended \in BOOLEAN
      /\ Framed(fifo, scan_code_extended)
      /\ empty(start, end) => NoAnswer(fifo)
      /\ ~empty(start, end) => OneAnswer(fifo)
  BY DEF IInv, RingInv, TypeOK, KeyInv, AnswerInv
<1>2. \E cmd \in Sendable : send_cmd(cmd, fifo)
  BY DEF DisableScan, EnableScan, Sendable
<1>3. Kept(fifo, scan_code_extended)
  BY <1>1, <1>2, SendKeeps
<1>4. boot' \in {"disable", "enable", "done"} /\ UNCHANGED <<keyVars, pressed, muted>>
  BY DEF DisableScan, EnableScan
<1>5. TypeOK'
  BY <1>3, <1>4 DEF Kept, IInv, RingInv, TypeOK, keyVars
<1>6. KeyInv'
  BY <1>3, <1>4 DEF Kept, IInv, KeyInv, keyVars
<1> QED BY <1>3, <1>5, <1>6 DEF Kept, IInv, RingInv

\* The byte at the head of the queue, read by the interrupt.
LEMMA ReadFirst ==
  ASSUME IInv, NEW t, Read(t)
  PROVE  /\ fifo \in Seq(Bytes) /\ fifo # <<>> /\ fifo[1].type = t /\ Head(fifo) = fifo[1]
         /\ fifo[1] \in Bytes /\ scan_code_extended \in BOOLEAN
         /\ Framed(fifo, scan_code_extended)
         /\ scan_code_extended => fifo[1].type = "scan" /\ fifo[1].code = "ctrl"
<1>1. fifo \in Seq(Bytes) /\ fifo # <<>> /\ Head(fifo) = fifo[1] /\ fifo[1].type = t
  BY DEF IInv, KeyInv, Read
<1>2. Len(fifo) \in Nat \ {0}
  BY <1>1, EmptySeq
<1>3. fifo[1] \in Bytes /\ 1 \in 1 .. Len(fifo) + 1
  BY <1>1, <1>2, ElementOfSeq
<1>4. Framed(fifo, scan_code_extended) /\ scan_code_extended \in BOOLEAN
  BY DEF IInv, KeyInv, RingInv, TypeOK
<1>5. scan_code_extended => fifo[1].type = "scan" /\ fifo[1].code = "ctrl"
  BY <1>3, <1>4 DEF Framed, Prefixed
<1> QED BY <1>1, <1>3, <1>4, <1>5

\* A byte that is no scan code says nothing of any key.
LEMMA ReadOther ==
  ASSUME IInv, NEW t \in {"ack", "resend", "extended"}, Read(t)
  PROVE  /\ Tail(fifo) \in Seq(Bytes) /\ Framed(Tail(fifo), t = "extended")
         /\ ~muted => \A k \in Keys : InStep(Tail(fifo), t = "extended", keys, pressed, k)
<1>1. /\ fifo \in Seq(Bytes) /\ fifo # <<>> /\ fifo[1].type = t
      /\ scan_code_extended \in BOOLEAN /\ Framed(fifo, scan_code_extended)
  BY ReadFirst
<1>2. Tail(fifo) \in Seq(Bytes) /\ Framed(Tail(fifo), t = "extended")
  BY <1>1, TakeByte
<1>3. ASSUME ~muted, NEW k \in Keys
      PROVE  InStep(Tail(fifo), t = "extended", keys, pressed, k)
  <2>1. InStep(fifo, scan_code_extended, keys, pressed, k)
    BY <1>3 DEF IInv, KeyInv
  <2>2. ~Reports(fifo, scan_code_extended, 1, k)
    BY <1>1 DEF Reports
  <2>3. InStep(Tail(fifo), fifo[1].type = "extended", keys, pressed, k)
    BY <1>1, <2>1, <2>2, TakeReport
  <2> QED BY <2>3, <1>1
<1> QED BY <1>2, <1>3

\* The answers to a command: the next byte of the ring, or the same again.
LEMMA AnswerStep == ASSUME IInv, HandleAck \/ HandleResend PROVE IInv'
<1>1. PICK t \in {"ack", "resend"} : Read(t)
  BY DEF HandleAck, HandleResend
<1>2. /\ fifo \in Seq(Bytes) /\ fifo # <<>> /\ fifo[1].type = t
      /\ scan_code_extended = FALSE
  BY <1>1, ReadFirst
<1>3. /\ Tail(fifo) \in Seq(Bytes) /\ Framed(Tail(fifo), FALSE)
      /\ ~muted => \A k \in Keys : InStep(Tail(fifo), FALSE, keys, pressed, k)
  BY <1>1, ReadOther
<1>4. IsAnswer(fifo[1])
  BY <1>2 DEF IsAnswer
<1>5. start # end /\ NoAnswer(Tail(fifo))
  BY <1>2, <1>4, TakeAnswer DEF IInv, AnswerInv, empty
<1>6. RingInv /\ CommandsWhole /\ SlotZero /\ start \in Slots
  BY DEF IInv, RingInv, TypeOK
<1>7. /\ start' \in Slots /\ CommandsWhole' /\ SlotZero' /\ send_head(start', Tail(fifo))
      /\ UNCHANGED <<cmd_queue, end>>
  <2>1. CASE HandleAck
    <3>1. /\ start' = inc(start, 1) /\ UNCHANGED <<cmd_queue, end>>
          /\ send_head(start', Tail(fifo))
      BY <2>1, <1>5 DEF HandleAck, pop_head, empty
    <3> QED BY <3>1, <1>5, <1>6, PopKeeps
  <2>2. CASE HandleResend
    <3>1. UNCHANGED <<cmd_queue, start, end>> /\ send_head(start, Tail(fifo))
      BY <2>2 DEF HandleResend, ringVars
    <3>2. CommandsWhole' /\ SlotZero'
      BY <3>1, <1>6 DEF CommandsWhole, SlotZero, Waiting, used, inc
    <3> QED BY <3>1, <3>2, <1>6
  <2> QED BY <2>1, <2>2
<1>8. Kept(Tail(fifo), FALSE)
  BY <1>3, <1>5, <1>6, <1>7, HeadKeeps
<1>9. UNCHANGED <<keyVars, boot, pressed, muted>>
  BY DEF HandleAck, HandleResend
<1>10. TypeOK'
  BY <1>8, <1>9 DEF Kept, IInv, RingInv, TypeOK, keyVars
<1>11. KeyInv'
  BY <1>2, <1>3, <1>8, <1>9 DEF Kept, IInv, KeyInv, keyVars
<1> QED BY <1>8, <1>10, <1>11 DEF Kept, IInv, RingInv

\* The extended prefix.
LEMMA ExtendedStep == ASSUME IInv, HandleExtended PROVE IInv'
<1>1. /\ Read("extended") /\ scan_code_extended' = TRUE /\ fifo' = Tail(fifo)
      /\ UNCHANGED <<leds, scanning, data, resends>>
      /\ UNCHANGED <<cmd_queue, start, end, keys, lock_states, boot, pressed, muted>>
  BY DEF HandleExtended, NoOutput, ringVars
<1>2. /\ Tail(fifo) \in Seq(Bytes) /\ Framed(Tail(fifo), TRUE)
      /\ ~muted => \A k \in Keys : InStep(Tail(fifo), TRUE, keys, pressed, k)
  BY <1>1, ReadOther
<1>3. fifo \in Seq(Bytes) /\ fifo # <<>> /\ ~IsAnswer(fifo[1])
  BY <1>1, ReadFirst DEF IsAnswer
<1>4. AnswerInv'
  <2>1. AnswerInv
    BY DEF IInv
  <2> QED BY <1>1, <1>3, <2>1, TakeAnswer DEF AnswerInv, empty
<1>5. RingInv'
  BY <1>1 DEF IInv, RingInv, TypeOK, CommandsWhole, SlotZero, Waiting, used, inc
<1>6. KeyInv'
  BY <1>1, <1>2 DEF IInv, KeyInv
<1> QED BY <1>4, <1>5, <1>6 DEF IInv

\* A scan code: the key it names is the one that moved, since the prefix is
\* set for it alone; a lock that is pressed sends its two bytes.
LEMMA ScanStep == ASSUME IInv, HandleScan PROVE IInv'
<1> DEFINE x       == scan_code_extended
           mapping == scan_map(Head(fifo).code)
           release == Head(fifo).release
           lock    == ~release /\ mapping = "caps"
           rest    == Tail(fifo)
<1>1. /\ Read("scan")
      /\ keys' = IF release THEN keys \ {mapping} ELSE keys \cup {mapping}
      /\ lock_states' = IF lock THEN Toggle(lock_states) ELSE lock_states
      /\ IF lock THEN send_cmd(<<"ED", Toggle(lock_states)>>, rest)
                 ELSE NoOutput(rest) /\ UNCHANGED <<cmd_queue, start, end>>
      /\ scan_code_extended' = FALSE
      /\ UNCHANGED <<boot, pressed, muted>>
  BY DEF HandleScan, ringVars
<1>2. /\ fifo \in Seq(Bytes) /\ fifo # <<>> /\ fifo[1].type = "scan" /\ Head(fifo) = fifo[1]
      /\ fifo[1] \in Bytes /\ x \in BOOLEAN /\ Framed(fifo, x)
      /\ x => fifo[1].code = "ctrl"
  BY <1>1, ReadFirst
<1>3. fifo[1].code \in {"caps", "ctrl"} /\ release \in BOOLEAN
  BY <1>2, BytesDef
<1>4. mapping \in Keys /\ \A k \in Keys : Reports(fifo, x, 1, k) <=> k = mapping
  BY <1>2, <1>3 DEF Reports, Prefixed, scan_map, Keys
<1>5. rest \in Seq(Bytes) /\ Framed(rest, FALSE)
  BY <1>2, TakeByte
<1>6. ASSUME ~muted, NEW k \in Keys PROVE InStep(rest, FALSE, keys', pressed, k)
  <2>1. InStep(fifo, x, keys, pressed, k)
    BY <1>6 DEF IInv, KeyInv
  <2>2. k \in keys' <=> IF Reports(fifo, x, 1, k) THEN ~fifo[1].release ELSE k \in keys
    BY <1>1, <1>2, <1>3, <1>4
  <2>3. InStep(rest, fifo[1].type = "extended", keys', pressed, k)
    BY <1>2, <2>1, <2>2, TakeReport
  <2>4. (fifo[1].type = "extended") = FALSE
    BY <1>2
  <2> QED BY <2>3, <2>4
<1>7. RingInv /\ AnswerInv /\ keys \subseteq Keys /\ lock_states \in {"on", "off"}
  BY DEF IInv, RingInv, TypeOK, KeyInv
<1>8. /\ empty(start, end) => NoAnswer(rest)
      /\ ~empty(start, end) => OneAnswer(rest)
  <2>1. ~IsAnswer(fifo[1])
    BY <1>2 DEF IsAnswer
  <2> QED BY <2>1, <1>2, <1>7, TakeAnswer DEF AnswerInv
<1>9. keys' \subseteq Keys
  BY <1>1, <1>4, <1>7
<1> HIDE DEF mapping, release, rest
<1>10. Kept(rest, FALSE)
  <2>1. CASE lock
    <3>1. <<"ED", Toggle(lock_states)>> \in Sendable
      BY <1>7 DEF Toggle, Sendable
    <3> QED BY <2>1, <3>1, <1>1, <1>5, <1>7, <1>8, SendKeeps
  <2>2. CASE ~lock
    <3>1. fifo' = rest /\ UNCHANGED <<leds, scanning, data, resends, cmd_queue, start, end>>
      BY <2>2, <1>1 DEF NoOutput
    <3>2. AnswerInv'
      BY <3>1, <1>8 DEF AnswerInv, empty, NoAnswer, OneAnswer, IsAnswer
    <3>3. CommandsWhole' /\ SlotZero'
      BY <3>1, <1>7 DEF RingInv, CommandsWhole, SlotZero, Waiting, used, inc
    <3> QED BY <3>1, <3>2, <3>3, <1>5, <1>7 DEF Kept, RingInv, TypeOK
  <2> QED BY <2>1, <2>2
<1>11. TypeOK'
  <2>1. lock_states' \in {"on", "off"} /\ keys' \subseteq {"caps", "lctrl", "rctrl", "escape"}
    BY <1>1, <1>7, <1>9 DEF Toggle, Keys
  <2> QED BY <2>1, <1>1, <1>7, <1>10 DEF Kept, RingInv, TypeOK
<1>12. KeyInv'
  BY <1>1, <1>6, <1>9, <1>10 DEF Kept, KeyInv
<1> QED BY <1>10, <1>11, <1>12 DEF Kept, IInv, RingInv

\* The bytes the keyboard sends when key k moves.
KeyBytes(k, r) == (IF k = "rctrl" THEN <<Byte("extended")>> ELSE <<>>) \o <<Scan(CodeOf(k), r)>>

\* They are framed, end in the one scan code, and name k and no other key.
LEMMA KeyBytesName ==
  ASSUME NEW k \in Keys, NEW r \in BOOLEAN
  PROVE  /\ KeyBytes(k, r) \in Seq(Bytes) /\ KeyBytes(k, r) # <<>>
         /\ Framed(KeyBytes(k, r), FALSE)
         /\ NoAnswer(KeyBytes(k, r))
         /\ \A i \in 1 .. Len(KeyBytes(k, r)) : \A j \in Keys :
              Reports(KeyBytes(k, r), FALSE, i, j) <=> i = Len(KeyBytes(k, r)) /\ j = k
         /\ KeyBytes(k, r)[Len(KeyBytes(k, r))].release = r
<1> DEFINE g == KeyBytes(k, r)
           s == Scan(CodeOf(k), r)
<1>1. /\ s \in Bytes /\ s.type = "scan" /\ s.code = CodeOf(k) /\ s.release = r
      /\ Byte("extended") \in Bytes /\ Byte("extended").type = "extended"
  BY DEF Bytes, Scan, Byte, CodeOf
<1> HIDE DEF s
<1>2. CASE k = "rctrl"
  <2>1. g = <<Byte("extended")>> \o <<s>>
    BY <1>2 DEF KeyBytes, s
  <2>2. g \in Seq(Bytes) /\ g # <<>> /\ Len(g) = 2 /\ g[1] = Byte("extended") /\ g[2] = s
    BY <2>1, <1>1
  <2> HIDE DEF g
  <2>3. s.code = "ctrl"
    BY <1>1, <1>2 DEF CodeOf
  <2>4. ~Prefixed(g, FALSE, 1) /\ Prefixed(g, FALSE, 2) /\ ~Prefixed(g, FALSE, 3)
    BY <2>2, <1>1 DEF Prefixed
  <2>5. \A i \in 1 .. Len(g) + 1 : i \in {1, 2, 3}
    BY <2>2
  <2>6. Framed(g, FALSE)
    <3> SUFFICES ASSUME NEW i \in 1 .. Len(g) + 1, Prefixed(g, FALSE, i)
                 PROVE  i <= Len(g) /\ g[i].type = "scan" /\ g[i].code = "ctrl"
      BY DEF Framed
    <3>1. i = 2
      BY <2>4, <2>5
    <3> QED BY <3>1, <2>2, <2>3, <1>1
  <2>7. \A i \in 1 .. Len(g) : i \in {1, 2}
    BY <2>2
  <2>8. NoAnswer(g)
    BY <2>2, <2>7, <1>1 DEF NoAnswer, IsAnswer
  <2>9. ASSUME NEW i \in 1 .. Len(g), NEW j \in Keys
        PROVE  Reports(g, FALSE, i, j) <=> i = Len(g) /\ j = k
    <3>1. ~Reports(g, FALSE, 1, j)
      BY <2>2, <1>1 DEF Reports
    <3>2. Reports(g, FALSE, 2, j) <=> j = k
      BY <2>2, <2>3, <2>4, <1>1, <1>2 DEF Reports
    <3> QED BY <3>1, <3>2, <2>2, <2>7
  <2> QED BY <2>2, <2>6, <2>8, <2>9, <1>1 DEF g
<1>3. CASE k # "rctrl"
  <2>1. g = <<>> \o <<s>>
    BY <1>3 DEF KeyBytes, s
  <2>2. g \in Seq(Bytes) /\ g # <<>> /\ Len(g) = 1 /\ g[1] = s
    BY <2>1, <1>1
  <2> HIDE DEF g
  <2>3. ~Prefixed(g, FALSE, 1) /\ ~Prefixed(g, FALSE, 2)
    BY <2>2, <1>1 DEF Prefixed
  <2>4. \A i \in 1 .. Len(g) + 1 : i \in {1, 2}
    BY <2>2
  <2>5. Framed(g, FALSE)
    BY <2>3, <2>4 DEF Framed
  <2>6. \A i \in 1 .. Len(g) : i = 1
    BY <2>2
  <2>7. NoAnswer(g)
    BY <2>2, <2>6, <1>1 DEF NoAnswer, IsAnswer
  <2>8. ASSUME NEW i \in 1 .. Len(g), NEW j \in Keys
        PROVE  Reports(g, FALSE, i, j) <=> i = Len(g) /\ j = k
    <3>1. Reports(g, FALSE, 1, j) <=> j = k
      BY <2>2, <2>3, <1>1, <1>3 DEF Reports, CodeOf, Keys
    <3> QED BY <3>1, <2>2, <2>6
  <2> QED BY <2>2, <2>5, <2>7, <2>8, <1>1 DEF g
<1> QED BY <1>2, <1>3

\* Bytes without answers put behind f change no answer.
LEMMA AddNoAnswer ==
  ASSUME NEW f \in Seq(Bytes), NEW g \in Seq(Bytes), NoAnswer(g)
  PROVE  /\ NoAnswer(f) => NoAnswer(f \o g)
         /\ OneAnswer(f) => OneAnswer(f \o g)
<1> DEFINE h == f \o g
<1>1. /\ Len(h) = Len(f) + Len(g) /\ Len(f) \in Nat /\ Len(g) \in Nat
      /\ \A i \in 1 .. Len(f) : h[i] = f[i]
      /\ \A i \in Len(f) + 1 .. Len(f) + Len(g) : h[i] = g[i - Len(f)]
  BY ConcatProperties, LenProperties
<1> HIDE DEF h
<1>2. ASSUME NEW i \in 1 .. Len(h), IsAnswer(h[i]) PROVE i \in 1 .. Len(f) /\ IsAnswer(f[i])
  <2>1. CASE i \in 1 .. Len(f)
    BY <2>1, <1>1, <1>2
  <2>2. CASE i \notin 1 .. Len(f)
    <3>1. i \in Len(f) + 1 .. Len(f) + Len(g) /\ i - Len(f) \in 1 .. Len(g)
      BY <2>2, <1>1
    <3> QED BY <3>1, <1>1, <1>2 DEF NoAnswer
  <2> QED BY <2>1, <2>2
<1>3. NoAnswer(f) => NoAnswer(h)
  BY <1>2 DEF NoAnswer
<1>4. ASSUME OneAnswer(f) PROVE OneAnswer(h)
  <2>1. PICK i \in 1 .. Len(f) : IsAnswer(f[i]) /\ \A j \in 1 .. Len(f) : IsAnswer(f[j]) => j = i
    BY <1>4 DEF OneAnswer
  <2>2. i \in 1 .. Len(h) /\ IsAnswer(h[i])
    BY <2>1, <1>1
  <2> QED BY <2>1, <2>2, <1>2 DEF OneAnswer
<1> QED BY <1>3, <1>4 DEF h

\* The user: a key that moves is reported, or the keyboard is not scanning.
LEMMA UserStep == ASSUME IInv, NEW k \in KeyCodes, Press(k) \/ Release(k) PROVE IInv'
<1>1. PICK r \in BOOLEAN : /\ Report(k, r)
                           /\ pressed' = IF r THEN pressed \ {k} ELSE pressed \cup {k}
  BY DEF Press, Release
<1>2. k \in Keys
  BY KeyboardAssumption DEF Keys
<1>3. /\ UNCHANGED <<cmd_queue, start, end, scan_code_extended, keys, lock_states, boot,
                     leds, scanning, data, resends>>
      /\ muted' = (muted \/ ~scanning)
  BY <1>1 DEF Report, ringVars, keyVars
<1>4. RingInv'
  BY <1>1, <1>3 DEF IInv, RingInv, TypeOK, CommandsWhole, SlotZero, Waiting, used, inc
<1>5. AnswerInv /\ fifo \in Seq(Bytes) /\ scan_code_extended \in BOOLEAN
      /\ Framed(fifo, scan_code_extended)
  BY DEF IInv, RingInv, TypeOK, KeyInv
<1>6. CASE ~scanning
  <2>1. fifo' = fifo /\ muted'
    BY <1>1, <1>6 DEF Report
  <2>2. AnswerInv'
    BY <2>1, <1>3, <1>5 DEF AnswerInv, empty, NoAnswer, OneAnswer, IsAnswer
  <2>3. KeyInv'
    BY <2>1, <1>3, <1>5 DEF IInv, KeyInv
  <2> QED BY <2>2, <2>3, <1>4 DEF IInv
<1>7. CASE scanning
  <2> DEFINE g == KeyBytes(k, r)
             x == scan_code_extended
  <2>1. /\ g \in Seq(Bytes) /\ g # <<>> /\ Framed(g, FALSE) /\ NoAnswer(g)
        /\ \A i \in 1 .. Len(g) : \A j \in Keys :
             Reports(g, FALSE, i, j) <=> i = Len(g) /\ j = k
        /\ g[Len(g)].release = r
    BY <1>2, KeyBytesName
  <2>2. fifo' = fifo \o g /\ muted' = muted
    <3>1. /\ Scan(CodeOf(k), r) \in Bytes /\ Byte("extended") \in Bytes
      BY DEF Bytes, Scan, CodeOf
    <3>2. /\ <<Scan(CodeOf(k), r)>> \in Seq(Bytes)
          /\ (IF k = "rctrl" THEN <<Byte("extended")>> ELSE <<>>) \in Seq(Bytes)
      BY <3>1
    <3>3. fifo' = fifo \o (IF k = "rctrl" THEN <<Byte("extended")>> ELSE <<>>)
                       \o <<Scan(CodeOf(k), r)>>
      BY <1>1, <1>7 DEF Report
    <3>4. muted' = muted
      BY <1>3, <1>7 DEF IInv, RingInv, TypeOK
    <3>5. fifo' = fifo \o g
      <4> DEFINE p == IF k = "rctrl" THEN <<Byte("extended")>> ELSE <<>>
                 q == <<Scan(CodeOf(k), r)>>
      <4>1. p \in Seq(Bytes) /\ q \in Seq(Bytes) /\ g = p \o q /\ fifo' = (fifo \o p) \o q
        BY <3>2, <3>3 DEF KeyBytes
      <4> HIDE DEF p, q, g
      <4> QED BY <4>1, <1>5, ConcatAssociative, SMTT(30)
    <3> QED BY <3>4, <3>5
  <2> HIDE DEF g
  <2>3. AnswerInv'
    BY <2>1, <2>2, <1>3, <1>5, AddNoAnswer DEF AnswerInv, empty
  <2>4. fifo' \in Seq(Bytes) /\ Framed(fifo', x)
    BY <2>1, <2>2, <1>5, AddBytes
  <2>5. ASSUME ~muted, NEW j \in Keys PROVE InStep(fifo', x, keys, pressed', j)
    <3>1. InStep(fifo, x, keys, pressed, j)
      BY <2>5 DEF IInv, KeyInv
    <3>2. Len(g) \in 1 .. Len(g)
      <4>1. Len(g) \in Nat \ {0}
        BY <2>1, EmptySeq
      <4> QED BY <4>1
    <3>3. CASE j = k
      <4>1. g[Len(g)].release <=> k \notin pressed'
        BY <1>1, <2>1
      <4>2. Reports(g, FALSE, Len(g), k) /\ \A i \in 1 .. Len(g) : Reports(g, FALSE, i, k) => i = Len(g)
        BY <1>2, <2>1, <3>2
      <4> QED BY <4>1, <4>2, <3>3, <1>2, <1>5, <2>1, <2>2, AddOwn
    <3>4. CASE j # k
      <4>1. j \in pressed' <=> j \in pressed
        BY <1>1, <3>4
      <4>2. \A i \in 1 .. Len(g) : ~Reports(g, FALSE, i, j)
        BY <2>1, <3>4
      <4> QED BY <4>1, <4>2, <3>1, <1>5, <2>1, <2>2, AddOthers
    <3> QED BY <3>3, <3>4
  <2>6. KeyInv'
    BY <2>2, <2>4, <2>5, <1>3 DEF IInv, KeyInv
  <2> QED BY <2>3, <2>6, <1>4 DEF IInv
<1>8. scanning \in BOOLEAN
  BY DEF IInv, RingInv, TypeOK
<1> QED BY <1>6, <1>7, <1>8

-----------------------------------------------------------------------------
(* The theorems.                                                             *)

\* The keyboard driver's invariant: the ring, the answers and the reports.
THEOREM Inductive == Spec => []IInv
<1>1. IInv /\ [Next]_vars => IInv'
  <2> SUFFICES ASSUME IInv, [Next]_vars PROVE IInv'
    OBVIOUS
  <2>1. CASE Next
    BY <2>1, BootStep, AnswerStep, ExtendedStep, ScanStep, UserStep DEF Next
  <2>2. CASE UNCHANGED vars
    BY <2>2 DEF vars, IInv, RingInv, TypeOK, CommandsWhole, SlotZero, Waiting, used, inc,
                AnswerInv, empty, NoAnswer, OneAnswer, IsAnswer, KeyInv
  <2> QED BY <2>1, <2>2
<1> QED BY <1>1, InitInv, PTL DEF Spec

\* keyboard.c's command ring is sound whatever is pressed and refused: its
\* indices stay inside the array, exactly one byte is out while it holds any,
\* and set-LEDs never waits in it without its data byte.
THEOREM RingIsSound == Spec => []RingSound
<1>1. IInv => RingSound
  <2> SUFFICES ASSUME IInv PROVE RingSound
    OBVIOUS
  <2>1. Answers = {i \in 1 .. Len(fifo) : IsAnswer(fifo[i])}
    BY DEF Answers, IsAnswer
  <2>2. empty(start, end) => Answers = {}
    BY <2>1 DEF IInv, AnswerInv, NoAnswer
  <2>3. ASSUME ~empty(start, end) PROVE \E i \in Answers : Answers = {i}
    <3>1. PICK i \in 1 .. Len(fifo) :
            IsAnswer(fifo[i]) /\ \A j \in 1 .. Len(fifo) : IsAnswer(fifo[j]) => j = i
      BY <2>3 DEF IInv, AnswerInv, OneAnswer
    <3>2. i \in Answers /\ Answers = {i}
      BY <3>1, <2>1
    <3> QED BY <3>2
  <2> QED BY <2>2, <2>3 DEF IInv, RingInv, RingSound, OneOutstanding
<1> QED BY <1>1, Inductive, PTL

\* Once the interrupt handler has read every byte, the driver's key states are
\* the keyboard's, unless a key moved while scanning was off: the extended
\* prefix is never applied to another key's code.
THEOREM KeysStayInSync == Spec => []KeysInSync
<1>1. IInv => KeysInSync
  <2> SUFFICES ASSUME IInv, fifo = <<>>, ~muted PROVE keys = pressed
    BY DEF KeysInSync
  <2>1. \A i \in 1 .. Len(fifo) : FALSE
    OBVIOUS
  <2>2. \A k \in Keys : k \in keys <=> k \in pressed
    BY <2>1 DEF IInv, KeyInv, InStep
  <2>3. keys \subseteq Keys /\ pressed \subseteq Keys
    BY KeyboardAssumption DEF IInv, KeyInv, RingInv, TypeOK, Keys
  <2> QED BY <2>2, <2>3
<1> QED BY <1>1, Inductive, PTL

=============================================================================
