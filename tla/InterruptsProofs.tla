--------------------------- MODULE InterruptsProofs ---------------------------
(* Proofs about the entry to and the return from the mp3 kernel, for any     *)
(* number of process groups and of PIDs, any depth of nesting and any number *)
(* of interrupts.                                                            *)
EXTENDS Interrupts, SequenceTheorems, FiniteSetTheorems, WellFoundedInduction, TLAPS

-----------------------------------------------------------------------------
(* Frames, and sequences of them.                                            *)

Device == {IRQ_KB, IRQ_RTC}
Kinds == Irqs \cup {BOOT, CALL, EXC}
BootPoints == {"i8259_init", "rtc_init", "keyboard_init", "shells", "pit_init", "loop"}
\* Where the rest of execute removes the process that has halted.
Torn == {"freed", "moved", "aimed"}
Loose == {"tail"} \cup Torn
Points == BootPoints \cup {"start", "masked", "acknowledged", "switch", "body", "exec", "return", "iret"}
          \cup Loose

\* The points at which a frame of a kind can be.
PointsOf(kind) ==
  IF kind = IRQ_PIT THEN {"start", "switch", "return", "iret"}
  ELSE IF kind \in Device THEN {"start", "masked", "acknowledged", "return", "iret"}
  ELSE IF kind = CALL THEN {"body", "exec", "return", "iret"} \cup Loose
  ELSE IF kind = EXC THEN {"body"}
  ELSE BootPoints \cup {"exec"}

Frame == [kind : Kinds, pc : Points, pid : Pids, esp : Nat, ring : {0, 3}, flags : BOOLEAN]
Spot == [pid : Pids, depth : Nat]

Turn(T, x) == Append(Front(T), [Last(T) EXCEPT !.pc = x])

LEMMA KindsApart ==
  /\ IRQ_PIT # IRQ_KB /\ IRQ_PIT # IRQ_RTC /\ IRQ_KB # IRQ_RTC /\ SLAVE_IRQ_LINE \notin Irqs
  /\ CALL \notin Irqs /\ EXC \notin Irqs /\ BOOT \notin Irqs /\ CALL # EXC /\ CALL # BOOT /\ EXC # BOOT
BY DEF IRQ_PIT, IRQ_KB, IRQ_RTC, SLAVE_IRQ_LINE, CALL, EXC, BOOT, Irqs

LEMMA FrontOf ==
  ASSUME NEW S, NEW T \in Seq(S), T # <<>>
  PROVE  /\ Len(T) \in Nat \ {0} /\ Last(T) = T[Len(T)] /\ T[Len(T)] \in S
         /\ Front(T) \in Seq(S) /\ Len(Front(T)) = Len(T) - 1
         /\ \A i \in 1 .. Len(T) - 1 : Front(T)[i] = T[i]
<1>1. Len(T) \in Nat \ {0}
  BY LenProperties, EmptySeq
<1>2. \A i \in 1 .. Len(T) : T[i] \in S
  BY ElementOfSeq
<1>3. 1 \in Int /\ Len(T) - 1 \in Int /\ \A i \in 1 .. Len(T) - 1 : T[i] \in S
  BY <1>1, <1>2
<1>4. /\ SubSeq(T, 1, Len(T) - 1) \in Seq(S)
      /\ Len(SubSeq(T, 1, Len(T) - 1)) = IF 1 <= Len(T) - 1 THEN Len(T) - 1 - 1 + 1 ELSE 0
      /\ \A i \in 1 .. Len(T) - 1 - 1 + 1 : SubSeq(T, 1, Len(T) - 1)[i] = T[1 + i - 1]
  BY <1>3, SubSeqProperties
<1>5. Len(T) - 1 - 1 + 1 = Len(T) - 1 /\ \A i \in 1 .. Len(T) - 1 : 1 + i - 1 = i
  BY <1>1
<1>6. Len(SubSeq(T, 1, Len(T) - 1)) = Len(T) - 1
  <2>1. \A n \in Nat \ {0} : (IF 1 <= n - 1 THEN n - 1 - 1 + 1 ELSE 0) = n - 1
    OBVIOUS
  <2>2. (IF 1 <= Len(T) - 1 THEN Len(T) - 1 - 1 + 1 ELSE 0) = Len(T) - 1
    BY <1>1, <2>1, Zenon
  <2>3. Len(SubSeq(T, 1, Len(T) - 1)) = IF 1 <= Len(T) - 1 THEN Len(T) - 1 - 1 + 1 ELSE 0
    BY <1>4
  <2> QED BY <2>2, <2>3
<1> QED BY <1>1, <1>2, <1>4, <1>5, <1>6 DEF Front, Last

LEMMA PushFields ==
  ASSUME NEW S, NEW T \in Seq(S), NEW f \in S
  PROVE  /\ Append(T, f) \in Seq(S) /\ Len(T) \in Nat /\ Len(Append(T, f)) = Len(T) + 1
         /\ \A i \in 1 .. Len(T) : Append(T, f)[i] = T[i]
         /\ Append(T, f)[Len(T) + 1] = f /\ Append(T, f) # <<>>
<1>1. Len(T) \in Nat
  BY LenProperties
<1>2. /\ Append(T, f) \in Seq(S) /\ Len(Append(T, f)) = Len(T) + 1
      /\ \A i \in 1 .. Len(T) : Append(T, f)[i] = T[i]
      /\ Append(T, f)[Len(T) + 1] = f
  BY AppendProperties
<1>3. Append(T, f) # <<>>
  BY <1>1, <1>2, EmptySeq
<1> QED BY <1>1, <1>2, <1>3

LEMMA TurnFields ==
  ASSUME NEW T \in Seq(Frame), T # <<>>, NEW x \in Points
  PROVE  LET U == Turn(T, x) IN
         /\ Len(T) \in Nat \ {0} /\ U \in Seq(Frame) /\ Len(U) = Len(T) /\ U # <<>>
         /\ \A i \in 1 .. Len(T) :
               /\ U[i].kind = T[i].kind /\ U[i].pid = T[i].pid /\ U[i].esp = T[i].esp
               /\ U[i].ring = T[i].ring /\ U[i].flags = T[i].flags
               /\ U[i].pc = IF i = Len(T) THEN x ELSE T[i].pc
<1> DEFINE n == Len(T)
           f == [T[n] EXCEPT !.pc = x]
           U == Turn(T, x)
<1>1. /\ n \in Nat \ {0} /\ Last(T) = T[n] /\ T[n] \in Frame
      /\ Front(T) \in Seq(Frame) /\ Len(Front(T)) = n - 1
      /\ \A i \in 1 .. n - 1 : Front(T)[i] = T[i]
  BY FrontOf
<1>2. f \in Frame /\ f.kind = T[n].kind /\ f.pid = T[n].pid /\ f.esp = T[n].esp
      /\ f.ring = T[n].ring /\ f.flags = T[n].flags /\ f.pc = x
  BY <1>1 DEF Frame
<1>3. U = Append(Front(T), f)
  BY <1>1 DEF Turn
<1> HIDE DEF f, U
<1>4. /\ U \in Seq(Frame) /\ Len(U) = (n - 1) + 1 /\ U # <<>>
      /\ \A i \in 1 .. n - 1 : U[i] = Front(T)[i]
      /\ U[(n - 1) + 1] = f
  BY <1>1, <1>2, <1>3, PushFields
<1>5. (n - 1) + 1 = n
  BY <1>1
<1>6. ASSUME NEW i \in 1 .. n
      PROVE  /\ U[i].kind = T[i].kind /\ U[i].pid = T[i].pid /\ U[i].esp = T[i].esp
             /\ U[i].ring = T[i].ring /\ U[i].flags = T[i].flags
             /\ U[i].pc = IF i = n THEN x ELSE T[i].pc
  <2>1. CASE i = n
    BY <2>1, <1>2, <1>4, <1>5
  <2>2. CASE i # n
    <3>1. i \in 1 .. n - 1
      BY <2>2, <1>1
    <3> QED BY <2>2, <3>1, <1>1, <1>4
  <2> QED BY <2>1, <2>2
<1> QED BY <1>1, <1>4, <1>5, <1>6 DEF U
-----------------------------------------------------------------------------
(* The frames of one group: T; b tells the group that boots.                 *)

\* A frame is at a point of its kind.  Boot is the first frame of its group; a
\* frame starts a stack if it came from user mode, where nothing or an execute
\* is below it.
Shaped(T, b) ==
  \A i \in 1 .. Len(T) :
    /\ T[i].pc \in PointsOf(T[i].kind)
    /\ T[i].kind = BOOT <=> (b /\ i = 1)
    /\ T[i].kind # BOOT => T[i].esp >= FrameWords(T[i].ring)
    /\ T[i].kind \in {CALL, EXC} => T[i].ring = 3
    /\ T[i].ring = 3 <=> (T[i].kind # BOOT /\ (i = 1 \/ T[i - 1].pc = "exec"))

LEMMA PointsCovered ==
  /\ \A kind : PointsOf(kind) \subseteq Points
  /\ \A kind \in Irqs : "start" \in PointsOf(kind)
  /\ "body" \in PointsOf(CALL) /\ "body" \in PointsOf(EXC)
BY KindsApart DEF PointsOf, Points, BootPoints, Device, Irqs, Loose, Torn

LEMMA ShapedPush ==
  ASSUME NEW T \in Seq(Frame), NEW b \in BOOLEAN, NEW f \in Frame, Shaped(T, b),
         f.pc \in PointsOf(f.kind), f.kind # BOOT, f.esp >= FrameWords(f.ring), f.kind \in {CALL, EXC} => f.ring = 3,
         b => T # <<>>, f.ring = 3 <=> (T = <<>> \/ T[Len(T)].pc = "exec")
  PROVE  Shaped(Append(T, f), b)
<1> DEFINE U == Append(T, f)
           n == Len(T)
<1>1. /\ n \in Nat /\ Len(U) = n + 1 /\ \A i \in 1 .. n : U[i] = T[i]
      /\ U[n + 1] = f
  BY PushFields
<1>2. T = <<>> <=> n = 0
  BY EmptySeq
<1> HIDE DEF U, n
<1>3. SUFFICES ASSUME NEW i \in 1 .. n + 1
               PROVE  /\ U[i].pc \in PointsOf(U[i].kind)
                      /\ U[i].kind = BOOT <=> (b /\ i = 1)
                      /\ U[i].kind # BOOT => U[i].esp >= FrameWords(U[i].ring)
                      /\ U[i].kind \in {CALL, EXC} => U[i].ring = 3
                      /\ U[i].ring = 3 <=> (U[i].kind # BOOT /\ (i = 1 \/ U[i - 1].pc = "exec"))
  BY <1>1 DEF Shaped, U
<1>4. CASE i = n + 1
  <2>1. U[i] = f
    BY <1>1, <1>4
  <2>2. ~(b /\ i = 1)
    BY <1>1, <1>2, <1>4
  <2>3. f.ring = 3 <=> (i = 1 \/ U[i - 1].pc = "exec")
    <3>1. CASE n = 0
      BY <3>1, <1>2, <1>4
    <3>2. CASE n # 0
      <4>1. i - 1 = n /\ n \in 1 .. n /\ i # 1
        BY <3>2, <1>1, <1>4
      <4> QED BY <4>1, <3>2, <1>1, <1>2 DEF n
    <3> QED BY <3>1, <3>2
  <2> QED BY <2>1, <2>2, <2>3
<1>5. CASE i # n + 1
  <2>1. i \in 1 .. n /\ (i # 1 => i - 1 \in 1 .. n)
    BY <1>1, <1>5
  <2>2. U[i] = T[i] /\ (i # 1 => U[i - 1] = T[i - 1])
    BY <1>1, <2>1
  <2> QED BY <2>1, <2>2 DEF Shaped, n
<1> QED BY <1>4, <1>5

LEMMA ShapedTurn ==
  ASSUME NEW T \in Seq(Frame), T # <<>>, NEW b, Shaped(T, b), NEW x, x \in PointsOf(T[Len(T)].kind)
  PROVE  Shaped(Turn(T, x), b)
<1> DEFINE U == Turn(T, x)
           n == Len(T)
<1>1. x \in Points
  BY PointsCovered
<1>2. /\ n \in Nat \ {0} /\ Len(U) = n
      /\ \A i \in 1 .. n : /\ U[i].kind = T[i].kind /\ U[i].esp = T[i].esp /\ U[i].ring = T[i].ring
                           /\ U[i].pc = IF i = n THEN x ELSE T[i].pc
  BY <1>1, TurnFields
<1> HIDE DEF U
<1>3. \A i \in 1 .. n : i # 1 => (i - 1 \in 1 .. n /\ i - 1 # n)
  BY <1>2
<1> QED BY <1>2, <1>3 DEF Shaped, U

LEMMA ShapedPop ==
  ASSUME NEW T \in Seq(Frame), T # <<>>, NEW b, Shaped(T, b)
  PROVE  Shaped(Front(T), b)
<1> DEFINE U == Front(T)
           n == Len(T)
<1>1. n \in Nat \ {0} /\ Len(U) = n - 1 /\ \A i \in 1 .. n - 1 : U[i] = T[i]
  BY FrontOf
<1> HIDE DEF U
<1>2. \A i \in 1 .. n - 1 : i \in 1 .. n /\ (i # 1 => i - 1 \in 1 .. n - 1)
  BY <1>1
<1> QED BY <1>1, <1>2 DEF Shaped, U

\* The frames lie on the stacks of the group's processes.  One that starts a
\* stack has none of the earlier frames on it, another goes on where the frame
\* before it is; on one stack, each lies below the ones before it.
Placed(T, P) ==
  /\ \A i \in 1 .. Len(T) : T[i].pid \in Range(P)
  /\ \A i, j \in 1 .. Len(T) : j < i /\ T[i].ring = 3 => T[j].pid # T[i].pid
  /\ \A i \in 2 .. Len(T) : T[i].ring = 0 => T[i].pid = T[i - 1].pid
  /\ \A i, j \in 1 .. Len(T) :
        i < j /\ T[i].pid = T[j].pid => T[i].esp <= T[j].esp - FrameWords(T[j].ring)

LEMMA FrameTypes ==
  ASSUME NEW T \in Seq(Frame), NEW i \in 1 .. Len(T)
  PROVE  /\ T[i] \in Frame /\ T[i].kind \in Kinds /\ T[i].esp \in Nat /\ T[i].pid \in Pids
         /\ T[i].ring \in {0, 3} /\ T[i].flags \in BOOLEAN /\ FrameWords(T[i].ring) \in 3 .. 5
<1>1. T[i] \in Frame
  BY ElementOfSeq
<1> QED BY <1>1 DEF Frame, FrameWords

LEMMA PlacedPush ==
  ASSUME NEW T \in Seq(Frame), NEW P, NEW f \in Frame, Placed(T, P), f.pid \in Range(P),
         \/ f.ring = 3 /\ \A j \in 1 .. Len(T) : T[j].pid # f.pid
         \/ /\ f.ring = 0 /\ T # <<>> /\ f.pid = T[Len(T)].pid
            /\ T[Len(T)].esp <= f.esp - FrameWords(0)
  PROVE  Placed(Append(T, f), P)
<1> DEFINE U == Append(T, f)
           n == Len(T)
<1>1. /\ n \in Nat /\ Len(U) = n + 1 /\ \A i \in 1 .. n : U[i] = T[i]
      /\ U[n + 1] = f
  BY PushFields
<1>2. T = <<>> <=> n = 0
  BY EmptySeq
<1>3. \A i \in 1 .. n : T[i].esp \in Nat /\ T[i].pid \in Pids /\ FrameWords(T[i].ring) \in 3 .. 5
  BY FrameTypes
<1>4. f.esp \in Nat /\ FrameWords(f.ring) \in 3 .. 5 /\ f.ring \in {0, 3}
  BY DEF Frame, FrameWords
<1> HIDE DEF U
<1>5. ASSUME NEW i \in 1 .. n + 1 PROVE U[i].pid \in Range(P)
  <2>1. CASE i = n + 1
    BY <1>1, <2>1
  <2>2. CASE i # n + 1
    <3>1. i \in 1 .. n
      BY <1>1, <2>2
    <3> QED BY <3>1, <1>1 DEF Placed
  <2> QED BY <2>1, <2>2
<1>6. ASSUME NEW i \in 1 .. n + 1, NEW j \in 1 .. n + 1, j < i, U[i].ring = 3
      PROVE  U[j].pid # U[i].pid
  <2>1. j \in 1 .. n
    BY <1>1, <1>6
  <2>2. CASE i = n + 1
    <3>1. U[i] = f /\ U[j] = T[j]
      BY <1>1, <2>1, <2>2
    <3>2. f.ring = 3
      BY <1>6, <3>1
    <3>3. ~(f.ring = 0)
      BY <3>2
    <3> QED BY <2>1, <3>1, <3>3
  <2>3. CASE i # n + 1
    <3>1. i \in 1 .. n
      BY <1>1, <2>3
    <3> QED BY <2>1, <3>1, <1>1, <1>6 DEF Placed
  <2> QED BY <2>2, <2>3
<1>7. ASSUME NEW i \in 2 .. n + 1, U[i].ring = 0 PROVE U[i].pid = U[i - 1].pid
  <2>1. i - 1 \in 1 .. n
    BY <1>1
  <2>2. CASE i = n + 1
    <3>1. U[i] = f /\ i - 1 = n /\ U[i - 1] = T[n]
      BY <1>1, <2>1, <2>2
    <3>2. ~(f.ring = 3)
      BY <1>7, <3>1
    <3> QED BY <3>1, <3>2
  <2>3. CASE i # n + 1
    <3>1. i \in 2 .. n /\ i \in 1 .. n
      BY <1>1, <2>3
    <3> QED BY <2>1, <3>1, <1>1, <1>7 DEF Placed
  <2> QED BY <2>2, <2>3
<1>8. ASSUME NEW i \in 1 .. n + 1, NEW j \in 1 .. n + 1, i < j, U[i].pid = U[j].pid
      PROVE  U[i].esp <= U[j].esp - FrameWords(U[j].ring)
  <2>1. i \in 1 .. n /\ U[i] = T[i]
    BY <1>1, <1>8
  <2>2. CASE j = n + 1
    <3>1. U[j] = f
      BY <1>1, <2>2
    <3>2. T # <<>> /\ f.ring = 0 /\ f.pid = T[n].pid /\ T[n].esp <= f.esp - FrameWords(0)
      BY <2>1, <3>1, <1>8
    <3>3. n \in 1 .. n /\ T[i].esp \in Nat /\ T[n].esp \in Nat /\ FrameWords(T[n].ring) \in Nat
          /\ FrameWords(0) \in Nat
      BY <1>1, <1>2, <1>3, <1>4, <2>1, <3>2
    <3>4. T[i].esp <= T[n].esp
      <4>1. CASE i = n
        BY <3>3, <4>1
      <4>2. CASE i # n
        <5>1. i < n /\ T[i].pid = T[n].pid
          BY <4>2, <2>1, <3>1, <3>2, <1>1, <1>8
        <5>2. T[i].esp <= T[n].esp - FrameWords(T[n].ring)
          BY <5>1, <2>1, <3>3 DEF Placed
        <5> QED BY <5>2, <3>3
      <4> QED BY <4>1, <4>2
    <3> QED BY <2>1, <3>1, <3>2, <3>3, <3>4, <1>4
  <2>3. CASE j # n + 1
    <3>1. j \in 1 .. n
      BY <1>1, <2>3
    <3>2. U[j] = T[j]
      BY <3>1, <1>1
    <3> QED BY <2>1, <3>1, <3>2, <1>8 DEF Placed
  <2> QED BY <2>2, <2>3
<1> QED BY <1>1, <1>5, <1>6, <1>7, <1>8 DEF Placed, U

LEMMA PlacedTurn ==
  ASSUME NEW T \in Seq(Frame), T # <<>>, NEW P, NEW Q, Placed(T, P), NEW x \in Points,
         \A i \in 1 .. Len(T) : T[i].pid \in Range(Q)
  PROVE  Placed(Turn(T, x), Q)
<1> DEFINE U == Turn(T, x)
           n == Len(T)
<1>1. /\ n \in Nat \ {0} /\ Len(U) = n
      /\ \A i \in 1 .. n : U[i].pid = T[i].pid /\ U[i].esp = T[i].esp /\ U[i].ring = T[i].ring
  BY TurnFields
<1> HIDE DEF U
<1>2. \A i \in 2 .. n : i \in 1 .. n /\ i - 1 \in 1 .. n
  BY <1>1
<1> QED BY <1>1, <1>2, SMTT(30) DEF Placed, U

LEMMA PlacedPop ==
  ASSUME NEW T \in Seq(Frame), T # <<>>, NEW P, Placed(T, P)
  PROVE  Placed(Front(T), P)
<1> DEFINE U == Front(T)
           n == Len(T)
<1>1. n \in Nat \ {0} /\ Len(U) = n - 1 /\ \A i \in 1 .. n - 1 : U[i] = T[i]
  BY FrontOf
<1> HIDE DEF U
<1>2. \A i \in 1 .. n - 1 : i \in 1 .. n
  BY <1>1
<1>3. \A i \in 2 .. n - 1 : i \in 2 .. n /\ i \in 1 .. n - 1 /\ i - 1 \in 1 .. n - 1
  BY <1>1
<1> QED BY <1>1, <1>2, <1>3 DEF Placed, U

\* P are the group's processes, the running one last.  Where a frame is an
\* execute, the frame after it is on the stack of the child of its process.
Children(T, P) ==
  \A i \in 1 .. Len(T) - 1 : T[i].pc = "exec" =>
     \E x \in 1 .. Len(P) - 1 : T[i].pid = P[x] /\ T[i + 1].pid = P[x + 1]

\* The last process has no frame, and its parent has the last frame.
NewChild(T, P) ==
  /\ Len(P) >= 2 /\ T[Len(T)].pid = P[Len(P) - 1]
  /\ \A j \in 1 .. Len(T) : T[j].pid # P[Len(P)]

\* So it is when a program has been started, and when it has halted and the
\* rest of its parent's execute has not removed it yet; otherwise the last frame
\* is on the stack of the last process.
Tailed(T) == \E i \in 1 .. Len(T) : T[i].pc = "tail"
Tops(T, P) ==
  /\ \A i, k \in 1 .. Len(T) : T[i].pc = "tail" /\ i < k => T[k].kind \in Irqs
  /\ T # <<>> /\ (Tailed(T) \/ T[Len(T)].pc = "exec") => NewChild(T, P)
  /\ T # <<>> /\ ~Tailed(T) /\ T[Len(T)].pc # "exec" => T[Len(T)].pid = P[Len(P)]

Distinct(P) == P # <<>> /\ \A x, y \in 1 .. Len(P) : P[x] = P[y] => x = y

StackOf(T, P, b) == Shaped(T, b) /\ Placed(T, P) /\ Children(T, P) /\ Tops(T, P) /\ Distinct(P)

\* The CPU is in user mode, as far as the group is concerned.
InUser(T) == T = <<>> \/ T[Len(T)].pc = "exec"

LEMMA LastInRange ==
  ASSUME NEW P \in Seq(Pids), P # <<>>
  PROVE  /\ Len(P) \in Nat \ {0} /\ P[Len(P)] \in Range(P) /\ P[Len(P)] \in Pids
         /\ \A x \in 1 .. Len(P) : P[x] \in Range(P)
<1>1. Len(P) \in Nat \ {0} /\ DOMAIN P = 1 .. Len(P)
  BY LenProperties, EmptySeq
<1>2. Len(P) \in 1 .. Len(P)
  BY <1>1
<1> QED BY <1>1, <1>2, ElementOfSeq DEF Range

\* An execute leaves only interrupts, of the kernel, above it once the child
\* has halted; so that there is no execute among them.
LEMMA NoTail ==
  ASSUME NEW T \in Seq(Frame), T # <<>>, NEW P, NEW b, Shaped(T, b), Tops(T, P),
         NEW i \in 1 .. Len(T), T[i].pc # "tail", T[i].pc = "exec" \/ T[i].kind \notin Irqs,
         i = Len(T) \/ (i = Len(T) - 1 /\ T[Len(T)].pc # "tail")
  PROVE  ~Tailed(T)
<1> DEFINE n == Len(T)
<1>1. n \in Nat \ {0}
  BY FrontOf
<1>2. T[i].kind \notin Irqs
  <2>1. "exec" \notin PointsOf(IRQ_PIT) /\ "exec" \notin PointsOf(IRQ_KB) /\ "exec" \notin PointsOf(IRQ_RTC)
    BY KindsApart DEF PointsOf, Device
  <2>2. T[i].pc \in PointsOf(T[i].kind)
    BY DEF Shaped
  <2> QED BY <2>1, <2>2 DEF Irqs
<1>3. SUFFICES ASSUME NEW k \in 1 .. n, T[k].pc = "tail" PROVE FALSE
  BY DEF Tailed
<1>4. k # i /\ (k = n => i = n)
  BY <1>3
<1>5. k < i
  BY <1>1, <1>4
<1> QED BY <1>2, <1>3, <1>5 DEF Tops

\* Entry from user mode.
LEMMA StackPushUser ==
  ASSUME NEW T \in Seq(Frame), NEW P \in Seq(Pids), NEW b \in BOOLEAN, NEW f \in Frame, StackOf(T, P, b),
         InUser(T), b => T # <<>>, f.pc \in PointsOf(f.kind), f.pc \notin {"exec", "tail"},
         f.kind # BOOT, f.ring = 3, f.esp >= FrameWords(3), f.pid = P[Len(P)]
  PROVE  StackOf(Append(T, f), P, b)
<1> DEFINE U == Append(T, f)
           n == Len(T)
           m == Len(P)
<1>1. /\ n \in Nat /\ Len(U) = n + 1 /\ \A i \in 1 .. n : U[i] = T[i]
      /\ U[n + 1] = f /\ U # <<>>
  BY PushFields
<1>2. T = <<>> <=> n = 0
  BY EmptySeq
<1>3. m \in Nat \ {0} /\ P[m] \in Range(P)
  BY LastInRange DEF StackOf, Distinct
<1>4. T # <<>> => NewChild(T, P) /\ ~Tailed(T) /\ T[n].pc = "exec"
  <2> HAVE T # <<>>
  <2>1. T[n].pc = "exec" /\ n \in 1 .. n
    BY <1>1, <1>2 DEF InUser
  <2> QED BY <2>1, NoTail DEF StackOf, Tops
<1>5. Shaped(U, b)
  BY ShapedPush DEF StackOf, InUser
<1>6. Placed(U, P)
  <2>1. \A j \in 1 .. n : T[j].pid # f.pid
    <3>1. CASE n = 0
      BY <3>1
    <3>2. CASE n # 0
      BY <3>2, <1>2, <1>4 DEF NewChild
    <3> QED BY <3>1, <3>2
  <2> QED BY <2>1, <1>3, PlacedPush DEF StackOf
<1> HIDE DEF U
<1>7. Children(U, P)
  <2>1. SUFFICES ASSUME NEW i \in 1 .. n, U[i].pc = "exec"
                 PROVE  \E x \in 1 .. m - 1 : U[i].pid = P[x] /\ U[i + 1].pid = P[x + 1]
    BY <1>1 DEF Children
  <2>2. CASE i = n
    <3>1. NewChild(T, P) /\ U[i] = T[n] /\ U[i + 1] = f
      BY <1>1, <1>2, <1>4, <2>2
    <3>2. m - 1 \in 1 .. m - 1 /\ (m - 1) + 1 = m
      BY <3>1, <1>3 DEF NewChild
    <3> QED BY <3>1, <3>2 DEF NewChild
  <2>3. CASE i # n
    <3>1. i \in 1 .. n - 1 /\ i + 1 \in 1 .. n
      BY <1>1, <2>3
    <3>2. U[i] = T[i] /\ U[i + 1] = T[i + 1]
      BY <3>1, <1>1
    <3> QED BY <2>1, <3>1, <3>2 DEF StackOf, Children
  <2> QED BY <2>2, <2>3
<1>8. ~Tailed(U)
  <2>1. SUFFICES ASSUME NEW i \in 1 .. n + 1, U[i].pc = "tail" PROVE FALSE
    BY <1>1 DEF Tailed
  <2>2. i # n + 1
    BY <1>1, <2>1
  <2>3. i \in 1 .. n /\ T # <<>>
    BY <1>1, <1>2, <2>2
  <2> QED BY <2>1, <2>3, <1>1, <1>4 DEF Tailed
<1>9. Tops(U, P)
  <2>1. U[Len(U)].pc # "exec" /\ U[Len(U)].pid = P[m]
    BY <1>1
  <2>2. \A i \in 1 .. Len(U) : U[i].pc # "tail"
    BY <1>8 DEF Tailed
  <2> QED BY <1>8, <2>1, <2>2 DEF Tops
<1> QED BY <1>5, <1>6, <1>7, <1>9 DEF StackOf, U

\* An interrupt of the kernel.
LEMMA StackPushKernel ==
  ASSUME NEW T \in Seq(Frame), T # <<>>, NEW P \in Seq(Pids), NEW b \in BOOLEAN, NEW f \in Frame, StackOf(T, P, b),
         T[Len(T)].pc # "exec", f.pc \in PointsOf(f.kind), f.pc \notin {"exec", "tail"},
         f.kind \in Irqs, f.ring = 0, f.pid = T[Len(T)].pid, T[Len(T)].esp <= f.esp - FrameWords(0)
  PROVE  StackOf(Append(T, f), P, b)
<1> DEFINE U == Append(T, f)
           n == Len(T)
<1>1. /\ n \in Nat /\ Len(U) = n + 1 /\ \A i \in 1 .. n : U[i] = T[i]
      /\ U[n + 1] = f /\ U # <<>>
  BY PushFields
<1>2. n # 0 /\ n \in 1 .. n
  BY <1>1, EmptySeq
<1>3. T[n].pid \in Range(P)
  BY <1>2 DEF StackOf, Placed
<1>4. Shaped(U, b)
  <2>1. f.kind # BOOT /\ f.kind \notin {CALL, EXC} /\ f.ring # 3
    BY KindsApart
  <2>2. f.esp >= FrameWords(f.ring)
    <3>1. f.esp \in Nat /\ T[n].esp \in Nat
      BY <1>2, FrameTypes DEF Frame
    <3> QED BY <3>1 DEF FrameWords
  <2> QED BY <2>1, <2>2, ShapedPush DEF StackOf
<1>5. Placed(U, P)
  BY <1>3, PlacedPush DEF StackOf
<1> HIDE DEF U
<1>6. Children(U, P)
  <2>1. SUFFICES ASSUME NEW i \in 1 .. n, U[i].pc = "exec"
                 PROVE  \E x \in 1 .. Len(P) - 1 : U[i].pid = P[x] /\ U[i + 1].pid = P[x + 1]
    <3>1. Len(U) - 1 = n
      BY <1>1
    <3> QED BY <3>1, Zenon DEF Children
  <2>2. i # n
    BY <2>1, <1>1
  <2>3. i \in 1 .. n - 1 /\ i + 1 \in 1 .. n
    BY <1>1, <2>2
  <2>4. U[i] = T[i] /\ U[i + 1] = T[i + 1]
    BY <2>3, <1>1
  <2> QED BY <2>1, <2>3, <2>4 DEF StackOf, Children
<1>7. Tailed(U) <=> Tailed(T)
  <2>1. n + 1 \in 1 .. n + 1 /\ \A i \in 1 .. n + 1 : i = n + 1 \/ i \in 1 .. n
    BY <1>1
  <2>2. \A i \in 1 .. n : i \in 1 .. n + 1
    BY <1>1
  <2> QED BY <2>1, <2>2, <1>1 DEF Tailed
<1>8. Tops(U, P)
  <2>1. U[Len(U)].pc # "exec" /\ U[Len(U)].pid = T[n].pid
    BY <1>1
  <2>2. ASSUME NEW i \in 1 .. n + 1, NEW k \in 1 .. n + 1, U[i].pc = "tail", i < k
        PROVE  U[k].kind \in Irqs
    <3>1. i \in 1 .. n /\ U[i] = T[i]
      BY <1>1, <2>2
    <3>2. CASE k = n + 1
      BY <1>1, <3>2
    <3>3. CASE k # n + 1
      <4>1. k \in 1 .. n /\ U[k] = T[k]
        BY <1>1, <3>3
      <4> QED BY <4>1, <3>1, <2>2 DEF StackOf, Tops
    <3> QED BY <3>2, <3>3
  <2>3. NewChild(T, P) => NewChild(U, P)
    <3> HAVE NewChild(T, P)
    <3>1. \A j \in 1 .. n + 1 : j = n + 1 \/ j \in 1 .. n
      BY <1>1
    <3> QED BY <3>1, <1>1, <1>2 DEF NewChild
  <2> QED BY <2>1, <2>2, <2>3, <1>1, <1>7 DEF StackOf, Tops
<1> QED BY <1>4, <1>5, <1>6, <1>8 DEF StackOf, U

\* A frame goes from a point to another, neither of them execute's.
LEMMA StackTurn ==
  ASSUME NEW T \in Seq(Frame), T # <<>>, NEW P, NEW b, StackOf(T, P, b),
         T[Len(T)].pc \notin {"exec", "tail"}, NEW x, x \in PointsOf(T[Len(T)].kind), x \notin {"exec", "tail"}
  PROVE  StackOf(Turn(T, x), P, b)
<1> DEFINE U == Turn(T, x)
           n == Len(T)
<1>1. x \in Points
  BY PointsCovered
<1>2. /\ n \in Nat \ {0} /\ Len(U) = n /\ U # <<>>
      /\ \A i \in 1 .. n : U[i].kind = T[i].kind /\ U[i].pid = T[i].pid
      /\ \A i \in 1 .. n : U[i].pc = IF i = n THEN x ELSE T[i].pc
  BY <1>1, TurnFields
<1>3. Shaped(U, b) /\ Placed(U, P)
  BY <1>1, ShapedTurn, PlacedTurn DEF StackOf, Placed
<1> HIDE DEF U
<1>4. \A i \in 1 .. n : (U[i].pc = "tail" <=> T[i].pc = "tail") /\ (U[i].pc = "exec" <=> T[i].pc = "exec")
  BY <1>2
<1>5. \A i \in 1 .. n - 1 : i \in 1 .. n /\ i + 1 \in 1 .. n
  BY <1>2
<1>6. Children(U, P)
  BY <1>2, <1>4, <1>5 DEF StackOf, Children
<1>7. (Tailed(U) <=> Tailed(T)) /\ n \in 1 .. n
  BY <1>2, <1>4 DEF Tailed
<1>8. NewChild(T, P) => NewChild(U, P)
  BY <1>2, <1>7 DEF NewChild
<1>9. Tops(U, P)
  BY <1>2, <1>4, <1>7, <1>8 DEF StackOf, Tops
<1> QED BY <1>3, <1>6, <1>9 DEF StackOf, U

\* system_execute starts a program.
LEMMA StackExec ==
  ASSUME NEW T \in Seq(Frame), T # <<>>, NEW P \in Seq(Pids), NEW b, StackOf(T, P, b), NEW p \in Pids, p \notin Range(P),
         T[Len(T)].pc \notin {"exec", "tail"}, T[Len(T)].kind \notin Irqs, "exec" \in PointsOf(T[Len(T)].kind)
  PROVE  StackOf(Turn(T, "exec"), Append(P, p), b)
<1> DEFINE U == Turn(T, "exec")
           n == Len(T)
           Q == Append(P, p)
           m == Len(P)
<1>1. "exec" \in Points
  BY DEF Points
<1>2. /\ n \in Nat \ {0} /\ Len(U) = n /\ U # <<>>
      /\ \A i \in 1 .. n : U[i].kind = T[i].kind /\ U[i].pid = T[i].pid
      /\ \A i \in 1 .. n : U[i].pc = IF i = n THEN "exec" ELSE T[i].pc
  BY <1>1, TurnFields
<1>3. m \in Nat \ {0} /\ P[m] \in Range(P) /\ \A y \in 1 .. m : P[y] \in Range(P)
  BY LastInRange DEF StackOf, Distinct
<1>4. /\ Q \in Seq(Pids) /\ Len(Q) = m + 1 /\ \A y \in 1 .. m : Q[y] = P[y]
      /\ Q[m + 1] = p /\ Q # <<>>
  BY PushFields
<1>5. \A i \in 1 .. n : T[i].pid \in Range(P) /\ T[i].pid \in Range(Q)
  <2>1. \A v \in Range(P) : v \in Range(Q)
    <3>1. DOMAIN Q = 1 .. m + 1 /\ DOMAIN P = 1 .. m
      BY <1>4, LenProperties
    <3>2. \A y \in 1 .. m : y \in 1 .. m + 1
      BY <1>3
    <3> QED BY <3>1, <3>2, <1>4 DEF Range
  <2> QED BY <2>1 DEF StackOf, Placed
<1>6. Shaped(U, b) /\ Placed(U, Q)
  BY <1>1, <1>5, ShapedTurn, PlacedTurn DEF StackOf
<1>7. n \in 1 .. n /\ ~Tailed(T)
  <2>1. n \in 1 .. n
    BY <1>2
  <2> QED BY <2>1, NoTail DEF StackOf
<1>8. T[n].pid = P[m]
  BY <1>7 DEF StackOf, Tops
<1> HIDE DEF U, Q, m
<1>9. Children(U, Q)
  <2>1. SUFFICES ASSUME NEW i \in 1 .. n - 1, U[i].pc = "exec"
                 PROVE  \E y \in 1 .. m : U[i].pid = Q[y] /\ U[i + 1].pid = Q[y + 1]
    <3>1. Len(U) - 1 = n - 1 /\ Len(Q) - 1 = m
      BY <1>2, <1>3, <1>4
    <3> QED BY <3>1, Zenon DEF Children
  <2>2. i \in 1 .. n /\ i + 1 \in 1 .. n /\ i # n
    BY <1>2
  <2>3. T[i].pc = "exec" /\ U[i].pid = T[i].pid /\ U[i + 1].pid = T[i + 1].pid
    BY <1>2, <2>1, <2>2
  <2>4. PICK y \in 1 .. m - 1 : T[i].pid = P[y] /\ T[i + 1].pid = P[y + 1]
    BY <2>3 DEF StackOf, Children, m
  <2>5. y \in 1 .. m /\ y + 1 \in 1 .. m
    BY <1>3
  <2> QED BY <2>3, <2>4, <2>5, <1>4
<1>10. NewChild(U, Q)
  <2>1. Len(Q) >= 2 /\ Len(Q) - 1 = m /\ m \in 1 .. m
    BY <1>3, <1>4
  <2>2. U[Len(U)].pid = P[m]
    BY <1>2, <1>7, <1>8
  <2>3. \A j \in 1 .. n : U[j].pid # p
    BY <1>2, <1>5
  <2> QED BY <2>1, <2>2, <2>3, <1>2, <1>4 DEF NewChild
<1>11. Tops(U, Q)
  <2>1. \A i \in 1 .. n : U[i].pc # "tail"
    BY <1>2, <1>7 DEF Tailed
  <2>2. U[n].pc = "exec"
    BY <1>2, <1>7
  <2> QED BY <2>1, <2>2, <1>2, <1>10 DEF Tops
<1>12. Distinct(Q)
  <2>1. ASSUME NEW y \in 1 .. m + 1, NEW z \in 1 .. m + 1, Q[y] = Q[z] PROVE y = z
    <3>1. (y = m + 1 \/ y \in 1 .. m) /\ (z = m + 1 \/ z \in 1 .. m)
      BY <1>3
    <3> QED BY <3>1, <2>1, <1>3, <1>4 DEF StackOf, Distinct, m
  <2> QED BY <2>1, <1>4 DEF Distinct
<1> QED BY <1>6, <1>9, <1>11, <1>12 DEF StackOf, U, Q

\* system_halt goes on in the parent's execute.
LEMMA StackTail ==
  ASSUME NEW T \in Seq(Frame), T # <<>>, NEW P, NEW b, StackOf(T, P, b),
         T[Len(T)].pc = "exec", T[Len(T)].kind = CALL
  PROVE  StackOf(Turn(T, "tail"), P, b)
<1> DEFINE U == Turn(T, "tail")
           n == Len(T)
<1>1. "tail" \in Points /\ "tail" \in PointsOf(CALL)
  BY KindsApart DEF Points, PointsOf, Device, Irqs, Loose, Torn
<1>2. /\ n \in Nat \ {0} /\ Len(U) = n /\ U # <<>>
      /\ \A i \in 1 .. n : U[i].kind = T[i].kind /\ U[i].pid = T[i].pid
      /\ \A i \in 1 .. n : U[i].pc = IF i = n THEN "tail" ELSE T[i].pc
  BY <1>1, TurnFields
<1>3. Shaped(U, b) /\ Placed(U, P)
  <2>1. "tail" \in PointsOf(T[Len(T)].kind)
    BY <1>1
  <2>2. Shaped(T, b) /\ Placed(T, P) /\ \A i \in 1 .. Len(T) : T[i].pid \in Range(P)
    BY DEF StackOf, Placed
  <2>3. Shaped(U, b)
    BY <2>1, <2>2, ShapedTurn
  <2> QED BY <1>1, <2>2, <2>3, PlacedTurn
<1>4. n \in 1 .. n /\ ~Tailed(T)
  <2>1. n \in 1 .. n
    BY <1>2
  <2> QED BY <2>1, NoTail DEF StackOf
<1> HIDE DEF U
<1>5. \A i \in 1 .. n - 1 : i \in 1 .. n /\ i # n /\ i + 1 \in 1 .. n
  BY <1>2
<1>6. Children(U, P)
  <2>1. \A i \in 1 .. n - 1 : U[i].pc = T[i].pc /\ U[i].pid = T[i].pid /\ U[i + 1].pid = T[i + 1].pid
    BY <1>2, <1>5
  <2> QED BY <2>1, <1>2 DEF StackOf, Children
<1>7. NewChild(U, P)
  BY <1>2, <1>4 DEF StackOf, Tops, NewChild
<1>8. \A i \in 1 .. n : U[i].pc = "tail" <=> i = n
  BY <1>2, <1>4 DEF Tailed
<1>9. Tailed(U) /\ \A i, k \in 1 .. n : U[i].pc = "tail" /\ i < k => FALSE
  BY <1>2, <1>4, <1>8 DEF Tailed
<1> QED BY <1>2, <1>3, <1>6, <1>7, <1>9 DEF StackOf, Tops, U

\* The rest of execute frees the PID of the process.
LEMMA StackTeardown ==
  ASSUME NEW T \in Seq(Frame), T # <<>>, NEW P \in Seq(Pids), NEW b, StackOf(T, P, b),
         T[Len(T)].pc = "tail", T[Len(T)].kind = CALL
  PROVE  StackOf(Turn(T, "freed"), Front(P), b) /\ Front(P) # <<>>
<1> DEFINE U == Turn(T, "freed")
           n == Len(T)
           Q == Front(P)
           m == Len(P)
<1>1. "freed" \in Points /\ "freed" \in PointsOf(CALL)
  BY KindsApart DEF Points, PointsOf, Device, Irqs, Loose, Torn
<1>2. /\ n \in Nat \ {0} /\ Len(U) = n /\ U # <<>>
      /\ \A i \in 1 .. n : U[i].kind = T[i].kind /\ U[i].pid = T[i].pid
      /\ \A i \in 1 .. n : U[i].pc = IF i = n THEN "freed" ELSE T[i].pc
  BY <1>1, TurnFields
<1>3. n \in 1 .. n /\ Tailed(T)
  BY <1>2 DEF Tailed
<1>4. NewChild(T, P) /\ m \in Nat /\ m >= 2
  <2>1. m \in Nat
    BY LenProperties
  <2> QED BY <2>1, <1>3 DEF StackOf, Tops, NewChild
<1>5. /\ Q \in Seq(Pids) /\ Len(Q) = m - 1 /\ \A y \in 1 .. m - 1 : Q[y] = P[y]
  BY FrontOf DEF StackOf, Distinct
<1>6. Q # <<>> /\ DOMAIN Q = 1 .. m - 1 /\ DOMAIN P = 1 .. m
  <2>1. Len(Q) # 0
    BY <1>4, <1>5
  <2> QED BY <2>1, <1>5, EmptySeq, LenProperties
<1> HIDE DEF Q, m
<1>7. \A i \in 1 .. n : T[i].pid \in Range(Q)
  <2> TAKE i \in 1 .. n
  <2>1. PICK y \in 1 .. m : T[i].pid = P[y]
    BY <1>6 DEF StackOf, Placed, Range
  <2>2. y # m
    BY <2>1, <1>4 DEF NewChild, m
  <2>3. y \in 1 .. m - 1
    BY <2>2, <1>4
  <2> QED BY <2>1, <2>3, <1>5, <1>6 DEF Range
<1>8. Shaped(U, b) /\ Placed(U, Q)
  BY <1>1, <1>7, ShapedTurn, PlacedTurn DEF StackOf
<1> HIDE DEF U
<1>9. Children(U, Q)
  <2>1. SUFFICES ASSUME NEW i \in 1 .. n - 1, U[i].pc = "exec"
                 PROVE  \E y \in 1 .. (m - 1) - 1 : U[i].pid = Q[y] /\ U[i + 1].pid = Q[y + 1]
    BY <1>2, <1>5 DEF Children
  <2>2. i \in 1 .. n /\ i + 1 \in 1 .. n /\ i # n
    BY <1>2
  <2>3. T[i].pc = "exec" /\ U[i].pid = T[i].pid /\ U[i + 1].pid = T[i + 1].pid
    BY <1>2, <2>1, <2>2
  <2>4. PICK y \in 1 .. m - 1 : T[i].pid = P[y] /\ T[i + 1].pid = P[y + 1]
    BY <2>3 DEF StackOf, Children, m
  <2>5. y + 1 # m
    BY <2>2, <2>4, <1>4 DEF NewChild, m
  <2>6. y \in 1 .. (m - 1) - 1 /\ y + 1 \in 1 .. m - 1
    BY <2>5, <1>4
  <2> QED BY <2>3, <2>4, <2>6, <1>5
<1>10. Tops(U, Q)
  <2>1. \A i \in 1 .. n : U[i].pc # "tail"
    <3> SUFFICES ASSUME NEW i \in 1 .. n, U[i].pc = "tail" PROVE FALSE
      OBVIOUS
    <3>1. i # n /\ T[i].pc = "tail"
      BY <1>2, <1>3
    <3>2. i < n
      BY <3>1, <1>2
    <3>3. T[n].kind \in Irqs
      BY <3>1, <3>2, <1>3 DEF StackOf, Tops
    <3> QED BY <3>3, KindsApart
  <2>2. U[n].pc = "freed" /\ U[n].pid = T[n].pid
    BY <1>2, <1>3
  <2>3. T[n].pid = Q[Len(Q)]
    <3>1. m - 1 \in 1 .. m - 1
      BY <1>4
    <3> QED BY <3>1, <1>4, <1>5 DEF NewChild, m
  <2> QED BY <2>1, <2>2, <2>3, <1>2 DEF Tops, Tailed
<1>11. Distinct(Q)
  <2>1. \A y \in 1 .. m - 1 : y \in 1 .. m
    BY <1>4
  <2> QED BY <2>1, <1>5, <1>6 DEF StackOf, Distinct, m
<1> QED BY <1>6, <1>8, <1>9, <1>10, <1>11 DEF StackOf, U, Q

\* A frame is popped: by its iret, or by the halt of its process.
LEMMA StackPop ==
  ASSUME NEW T \in Seq(Frame), T # <<>>, NEW P \in Seq(Pids), NEW b, StackOf(T, P, b),
         T[Len(T)].pc \notin {"exec", "tail"}, ~(b /\ Len(T) = 1)
  PROVE  /\ StackOf(Front(T), P, b)
         /\ InUser(Front(T)) => T[Len(T)].ring = 3 /\ T[Len(T)].pid = P[Len(P)]
         /\ ~InUser(Front(T)) => /\ T[Len(T)].ring = 0 /\ Len(T) - 1 \in 1 .. Len(T)
                                 /\ T[Len(T)].pid = T[Len(T) - 1].pid
<1> DEFINE U == Front(T)
           n == Len(T)
           m == Len(P)
<1>1. n \in Nat \ {0} /\ U \in Seq(Frame) /\ Len(U) = n - 1 /\ \A i \in 1 .. n - 1 : U[i] = T[i]
  BY FrontOf
<1>2. U = <<>> <=> n = 1
  <2>1. U = <<>> <=> n - 1 = 0
    BY <1>1, EmptySeq
  <2> QED BY <2>1, <1>1
<1>3. Shaped(U, b) /\ Placed(U, P)
  BY ShapedPop, PlacedPop DEF StackOf
<1> HIDE DEF U
<1>4. n \in 1 .. n /\ T[n].kind # BOOT /\ T[n].ring \in {0, 3}
  <2>1. n \in 1 .. n
    BY <1>1
  <2>2. T[n].kind = BOOT <=> (b /\ n = 1)
    BY <2>1 DEF StackOf, Shaped
  <2> QED BY <2>1, <2>2, FrameTypes
<1>5. n # 1 => /\ n - 1 \in 1 .. n /\ n - 1 \in 1 .. n - 1 /\ U[n - 1] = T[n - 1]
  BY <1>1
<1>6. InUser(U) <=> T[n].ring = 3
  <2>1. T[n].ring = 3 <=> (n = 1 \/ T[n - 1].pc = "exec")
    BY <1>4 DEF StackOf, Shaped
  <2> QED BY <2>1, <1>1, <1>2, <1>5 DEF InUser
<1>7. Children(U, P)
  <2>1. \A i \in 1 .. n - 1 - 1 : i \in 1 .. n - 1 /\ i + 1 \in 1 .. n - 1
    BY <1>1
  <2> QED BY <2>1, <1>1 DEF StackOf, Children
<1>8. \A i \in 1 .. n - 1 : i \in 1 .. n
  BY <1>1
<1>9. Tailed(U) <=> Tailed(T)
  <2>1. \A i \in 1 .. n : i = n \/ i \in 1 .. n - 1
    BY <1>1
  <2> QED BY <2>1, <1>1, <1>8 DEF Tailed
<1>10. \A i, k \in 1 .. n - 1 : U[i].pc = "tail" /\ i < k => U[k].kind \in Irqs
  BY <1>1, <1>8 DEF StackOf, Tops
<1>11. CASE T[n].ring = 3
  <2>1. ~Tailed(T)
    <3>1. CASE n = 1
      <4>1. \A i \in 1 .. n : i = n
        BY <3>1
      <4> QED BY <4>1 DEF Tailed
    <3>2. CASE n # 1
      <4>1. T[n - 1].pc = "exec"
        BY <3>2, <1>2, <1>1, <1>5, <1>6, <1>11 DEF InUser
      <4>2. T[n - 1].pc # "tail"
        BY <4>1
      <4> QED BY <4>1, <4>2, <3>2, <1>5, NoTail DEF StackOf
    <3> QED BY <3>1, <3>2
  <2>2. T[n].pid = P[m]
    BY <2>1 DEF StackOf, Tops
  <2>3. n # 1 => NewChild(U, P)
    <3> HAVE n # 1
    <3>1. T[n - 1].pc = "exec" /\ n - 1 \in 1 .. n - 1 /\ (n - 1) + 1 = n
      BY <1>2, <1>1, <1>5, <1>6, <1>11 DEF InUser
    <3>2. PICK x \in 1 .. m - 1 : T[n - 1].pid = P[x] /\ T[n].pid = P[x + 1]
      BY <3>1 DEF StackOf, Children
    <3>3. m \in Nat
      BY LenProperties
    <3>4. x + 1 \in 1 .. m /\ m \in 1 .. m
      BY <3>3
    <3>5. x + 1 = m
      BY <3>2, <3>4, <2>2 DEF StackOf, Distinct
    <3>6. x = m - 1 /\ m >= 2
      BY <3>3, <3>5
    <3>7. \A j \in 1 .. n - 1 : j < n /\ j \in 1 .. n
      BY <1>1
    <3>8. \A j \in 1 .. n - 1 : T[j].pid # T[n].pid
      BY <3>7, <1>4, <1>11 DEF StackOf, Placed
    <3> QED BY <3>1, <3>2, <3>6, <3>8, <2>2, <1>1, <1>5 DEF NewChild
  <2>4. Tops(U, P)
    BY <2>1, <2>3, <1>1, <1>2, <1>6, <1>9, <1>10, <1>11 DEF Tops, InUser
  <2> QED BY <2>2, <2>4, <1>3, <1>6, <1>7, <1>11 DEF StackOf, U
<1>12. CASE T[n].ring = 0
  <2>1. ~InUser(U) /\ n # 1
    BY <1>2, <1>6, <1>12 DEF InUser
  <2>2. T[n].pid = T[n - 1].pid
    <3>1. n \in 2 .. n
      BY <2>1, <1>1
    <3> QED BY <3>1, <1>12 DEF StackOf, Placed
  <2>3. NewChild(T, P) => NewChild(U, P)
    BY <2>1, <2>2, <1>1, <1>5, <1>8 DEF NewChild
  <2>4. Tops(U, P)
    BY <2>1, <2>2, <2>3, <1>1, <1>5, <1>9, <1>10 DEF StackOf, Tops, InUser
  <2> QED BY <2>1, <2>2, <2>4, <1>3, <1>5, <1>7, <1>12 DEF StackOf, U
<1> QED BY <1>4, <1>11, <1>12
-----------------------------------------------------------------------------
(* How deep stacks start.                                                    *)

\* Frame i interrupted the iret of the one before it, that one the iret of the
\* one before it, and so on down to a frame that came from user mode.
InChain(T, i) == \E j \in 1 .. i : T[j].ring = 3 /\ \A k \in j .. i - 1 : T[k].pc = "iret"

\* Only such interrupts, r in number, lower the start of a stack.
Drifts(T, r) == \A i \in 1 .. Len(T) : InChain(T, i) => T[i].esp - FrameWords(T[i].ring) <= 8 * r

LEMMA SameChain ==
  ASSUME NEW T, NEW U, NEW i \in Nat, \A k \in 1 .. i : U[k].ring = T[k].ring,
         \A k \in 1 .. i - 1 : U[k].pc = T[k].pc
  PROVE  InChain(U, i) <=> InChain(T, i)
<1>1. \A j \in 1 .. i : \A k \in j .. i - 1 : k \in 1 .. i - 1
  OBVIOUS
<1> QED BY <1>1 DEF InChain

LEMMA NextInChain ==
  ASSUME NEW T, NEW n \in Nat
  PROVE  /\ T[n + 1].ring = 3 => InChain(T, n + 1)
         /\ InChain(T, n + 1) => T[n + 1].ring = 3 \/ (n # 0 /\ T[n].pc = "iret" /\ InChain(T, n))
         /\ n # 0 /\ T[n].pc = "iret" /\ InChain(T, n) => InChain(T, n + 1)
<1>1. n + 1 \in 1 .. n + 1 /\ (n + 1) .. (n + 1) - 1 = {} /\ (n + 1) - 1 = n
  OBVIOUS
<1>2. T[n + 1].ring = 3 => InChain(T, n + 1)
  BY <1>1 DEF InChain
<1>3. ASSUME InChain(T, n + 1), T[n + 1].ring # 3 PROVE n # 0 /\ T[n].pc = "iret" /\ InChain(T, n)
  <2>1. PICK j \in 1 .. n + 1 : T[j].ring = 3 /\ \A k \in j .. n : T[k].pc = "iret"
    BY <1>1, <1>3 DEF InChain
  <2>2. j \in 1 .. n /\ n \in j .. n /\ n # 0 /\ \A k \in j .. n - 1 : k \in j .. n
    BY <1>3, <2>1
  <2> QED BY <2>1, <2>2 DEF InChain
<1>4. ASSUME n # 0, T[n].pc = "iret", InChain(T, n) PROVE InChain(T, n + 1)
  <2>1. PICK j \in 1 .. n : T[j].ring = 3 /\ \A k \in j .. n - 1 : T[k].pc = "iret"
    BY <1>4 DEF InChain
  <2>2. j \in 1 .. n + 1 /\ \A k \in j .. n : k = n \/ k \in j .. n - 1
    OBVIOUS
  <2> QED BY <1>1, <1>4, <2>1, <2>2 DEF InChain
<1> QED BY <1>2, <1>3, <1>4

LEMMA DriftsPush ==
  ASSUME NEW T \in Seq(Frame), NEW f \in Frame, NEW r \in Nat, NEW s \in Nat, r <= s, Drifts(T, r),
         \/ f.ring = 3 /\ f.esp - FrameWords(3) <= 8 * s
         \/ f.ring = 0 /\ T # <<>> /\ T[Len(T)].pc # "iret"
         \/ f.ring = 0 /\ T # <<>> /\ r < s /\ f.esp - FrameWords(0) <= T[Len(T)].esp + 3
  PROVE  Drifts(Append(T, f), s)
<1> DEFINE U == Append(T, f)
           n == Len(T)
<1>1. /\ n \in Nat /\ Len(U) = n + 1 /\ \A i \in 1 .. n : U[i] = T[i]
      /\ U[n + 1] = f
  BY PushFields
<1>2. T = <<>> <=> n = 0
  BY EmptySeq
<1>3. \A i \in 1 .. n : T[i].esp \in Nat /\ FrameWords(T[i].ring) \in 3 .. 5
  BY FrameTypes
<1>4. f.esp \in Nat /\ f.ring \in {0, 3}
  BY DEF Frame
<1> HIDE DEF U
<1>5. ASSUME NEW i \in 1 .. n + 1, InChain(U, i)
      PROVE  U[i].esp - FrameWords(U[i].ring) <= 8 * s
  <2>1. CASE i = n + 1
    <3>1. U[i] = f /\ (f.ring = 3 \/ (n # 0 /\ U[n].pc = "iret" /\ InChain(U, n)))
      BY <2>1, <1>1, <1>5, NextInChain
    <3>2. CASE f.ring = 3
      BY <3>1, <3>2
    <3>3. CASE f.ring = 0
      <4>1. n \in 1 .. n /\ U[n].pc = "iret" /\ InChain(U, n)
        BY <3>1, <3>3, <1>1
      <4>2. r < s /\ f.esp - FrameWords(0) <= T[n].esp + 3
        BY <4>1, <3>3, <1>1
      <4>3. InChain(T, n)
        <5>1. \A k \in 1 .. n - 1 : k \in 1 .. n
          BY <1>1
        <5> QED BY <5>1, <4>1, <1>1, SameChain
      <4>4. T[n].esp - FrameWords(T[n].ring) <= 8 * r /\ T[n].esp \in Nat /\ FrameWords(T[n].ring) \in 3 .. 5
        BY <4>1, <4>3, <1>3 DEF Drifts
      <4>5. T[n].esp + 3 <= 8 * s
        BY <4>2, <4>4
      <4>6. FrameWords(0) = 3
        BY DEF FrameWords
      <4> QED BY <4>2, <4>4, <4>5, <4>6, <3>1, <3>3, <1>4
    <3> QED BY <1>4, <3>2, <3>3
  <2>2. CASE i # n + 1
    <3>1. i \in 1 .. n /\ i \in Nat /\ (\A k \in 1 .. i : k \in 1 .. n) /\ (\A k \in 1 .. i - 1 : k \in 1 .. n)
      BY <2>2, <1>1
    <3>2. InChain(T, i)
      BY <3>1, <1>1, <1>5, SameChain
    <3>3. T[i].esp - FrameWords(T[i].ring) <= 8 * r /\ T[i].esp \in Nat /\ FrameWords(T[i].ring) \in 3 .. 5
      BY <3>1, <3>2, <1>3 DEF Drifts
    <3>4. T[i].esp - FrameWords(T[i].ring) <= 8 * s
      BY <3>3
    <3> QED BY <3>1, <3>4, <1>1
  <2> QED BY <2>1, <2>2
<1> QED BY <1>1, <1>5 DEF Drifts, U

LEMMA TurnChain ==
  ASSUME NEW T \in Seq(Frame), T # <<>>, NEW x \in Points, NEW i \in 1 .. Len(T)
  PROVE  InChain(Turn(T, x), i) <=> InChain(T, i)
<1> DEFINE U == Turn(T, x)
           n == Len(T)
<1>1. /\ n \in Nat \ {0}
      /\ \A k \in 1 .. n : U[k].ring = T[k].ring /\ U[k].pc = IF k = n THEN x ELSE T[k].pc
  BY TurnFields
<1> HIDE DEF U
<1>2. i \in Nat /\ (\A k \in 1 .. i : k \in 1 .. n) /\ \A k \in 1 .. i - 1 : k \in 1 .. n /\ k # n
  BY <1>1
<1>3. (\A k \in 1 .. i : U[k].ring = T[k].ring) /\ \A k \in 1 .. i - 1 : U[k].pc = T[k].pc
  BY <1>1, <1>2
<1> QED BY <1>2, <1>3, SameChain DEF U

LEMMA DriftsTurn ==
  ASSUME NEW T \in Seq(Frame), T # <<>>, NEW x \in Points, NEW r, Drifts(T, r)
  PROVE  Drifts(Turn(T, x), r)
<1> DEFINE U == Turn(T, x)
           n == Len(T)
<1>1. Len(U) = n /\ \A k \in 1 .. n : U[k].ring = T[k].ring /\ U[k].esp = T[k].esp
  BY TurnFields
<1>2. \A i \in 1 .. n : InChain(U, i) <=> InChain(T, i)
  BY TurnChain
<1> HIDE DEF U
<1> QED BY <1>1, <1>2 DEF Drifts, U

LEMMA PopChain ==
  ASSUME NEW T \in Seq(Frame), T # <<>>, NEW i \in 1 .. Len(T) - 1
  PROVE  InChain(Front(T), i) <=> InChain(T, i)
<1> DEFINE U == Front(T)
           n == Len(T)
<1>1. n \in Nat \ {0} /\ \A k \in 1 .. n - 1 : U[k] = T[k]
  BY FrontOf
<1> HIDE DEF U
<1>2. i \in Nat /\ (\A k \in 1 .. i : k \in 1 .. n - 1) /\ \A k \in 1 .. i - 1 : k \in 1 .. n - 1
  BY <1>1
<1>3. (\A k \in 1 .. i : U[k].ring = T[k].ring) /\ \A k \in 1 .. i - 1 : U[k].pc = T[k].pc
  BY <1>1, <1>2
<1> QED BY <1>2, <1>3, SameChain DEF U

LEMMA DriftsPop ==
  ASSUME NEW T \in Seq(Frame), T # <<>>, NEW r, Drifts(T, r)
  PROVE  Drifts(Front(T), r)
<1> DEFINE U == Front(T)
           n == Len(T)
<1>1. n \in Nat \ {0} /\ Len(U) = n - 1 /\ \A k \in 1 .. n - 1 : U[k] = T[k]
  BY FrontOf
<1>2. \A i \in 1 .. n - 1 : InChain(U, i) <=> InChain(T, i)
  BY PopChain
<1> HIDE DEF U
<1>3. \A i \in 1 .. n - 1 : i \in 1 .. n
  BY <1>1
<1> QED BY <1>1, <1>2, <1>3 DEF Drifts, U

LEMMA DriftsMore ==
  ASSUME NEW T \in Seq(Frame), NEW r \in Nat, NEW s \in Nat, r <= s, Drifts(T, r)
  PROVE  Drifts(T, s)
<1>1. \A i \in 1 .. Len(T) : T[i].esp \in Nat /\ FrameWords(T[i].ring) \in 3 .. 5
  BY FrameTypes
<1>2. \A e \in Nat, w \in 3 .. 5 : e - w <= 8 * r => e - w <= 8 * s
  OBVIOUS
<1> QED BY <1>1, <1>2 DEF Drifts
-----------------------------------------------------------------------------
(* Types.                                                                    *)

TypeInv ==
  /\ isr \in SUBSET Lines /\ imr \in SUBSET Lines /\ IF_flag \in BOOLEAN
  /\ current_group \in Groups /\ races \in 0 .. MAX_RACES
  /\ procs \in [Groups -> Seq(Pids)] /\ thread \in [Groups -> Seq(Frame)]
  /\ tss_esp0 \in Spot /\ pcb \in [Pids -> PCB]
  /\ active_pid \in [Groups -> Pids] /\ dying \in [Groups -> Pids \cup {NoPid}]
  /\ crashed \in BOOLEAN /\ stolen \in BOOLEAN

USE DEF pic, tables, fate, pcb_teardown

LEMMA GroupNumbers ==
  /\ NUM_OF_PROCESS_GROUPS \in Nat \ {0} /\ MAX_PID \in Nat /\ MAX_PID > NUM_OF_PROCESS_GROUPS
  /\ LOCALS \in Nat /\ MAX_RACES \in Nat /\ IretWords \subseteq 0 .. 3
  /\ 0 \in Groups /\ 0 \in Pids
  /\ \A g \in Groups : BaseShell(g) \in Pids /\ BaseShell(g) # 0
  /\ \A g, h \in Groups : BaseShell(g) = BaseShell(h) => g = h
BY InterruptsAssumption DEF Groups, Pids, BaseShell

LEMMA Current ==
  ASSUME TypeInv
  PROVE  /\ current_group \in Groups /\ thread[current_group] \in Seq(Frame)
         /\ procs[current_group] \in Seq(Pids)
         /\ UserMode <=> InUser(thread[current_group])
         /\ ~UserMode => /\ thread[current_group] # <<>>
                         /\ Top = thread[current_group][Len(thread[current_group])] /\ Top \in Frame
BY FrontOf DEF TypeInv, UserMode, InUser, Top, Last

LEMMA TurnedThread ==
  ASSUME TypeInv, ~UserMode, NEW x, GoTo(x)
  PROVE  thread' = [thread EXCEPT ![current_group] = Turn(thread[current_group], x)]
BY DEF GoTo, SetTop, Turn, Top

LEMMA PlaceType ==
  /\ \A p \in Pids, d \in Nat : Place(p, d) \in Spot /\ Place(p, d).pid = p /\ Place(p, d).depth = d
  /\ \A p \in Pids : get_kstack_addr(p) \in Spot /\ get_kstack_addr(p).pid = p /\ get_kstack_addr(p).depth = 0
BY GroupNumbers DEF Place, Spot, get_kstack_addr

LEMMA ContextTypes ==
  /\ ZeroPCB \in PCB /\ ZeroPCB.kernel_esp = NoContext
  /\ NoPid \notin Pids /\ NoContext \notin Groups
BY GroupNumbers, PlaceType DEF ZeroPCB, PCB, NoContext, NoPid, Groups, Pids, Spot

\* What a step writes to a PCB.
LEMMA ContextUpdates ==
  ASSUME NEW c \in PCB
  PROVE  /\ c.tss_esp0 \in Spot
         /\ \A k \in Groups \cup {NoContext} :
               /\ [c EXCEPT !.kernel_esp = k] \in PCB
               /\ [c EXCEPT !.kernel_esp = k].kernel_esp = k
               /\ [c EXCEPT !.kernel_esp = k].parent_pid = c.parent_pid
               /\ [c EXCEPT !.kernel_esp = k].eip = c.eip
               /\ [c EXCEPT !.kernel_esp = k].tss_esp0 = c.tss_esp0
         /\ \A t \in Spot :
               /\ [c EXCEPT !.tss_esp0 = t] \in PCB
               /\ [c EXCEPT !.tss_esp0 = t].parent_pid = c.parent_pid
               /\ [c EXCEPT !.tss_esp0 = t].eip = c.eip
         /\ \A p \in Pids \cup {NoPid} :
               /\ [c EXCEPT !.parent_pid = p] \in PCB
               /\ [c EXCEPT !.parent_pid = p].parent_pid = p
               /\ [c EXCEPT !.parent_pid = p].kernel_esp = c.kernel_esp
         /\ [c EXCEPT !.eip = "return_from_exec"] \in PCB
         /\ [c EXCEPT !.eip = "return_from_exec"].eip = "return_from_exec"
         /\ [c EXCEPT !.eip = "return_from_exec"].parent_pid = c.parent_pid
         /\ [c EXCEPT !.eip = "return_from_exec"].kernel_esp = c.kernel_esp
BY DEF PCB, Spot

\* Every set of natural numbers that is not empty has a least element.
LEMMA LeastElement ==
  ASSUME NEW T, T \subseteq Nat, T # {}
  PROVE  \E x \in T : \A y \in T : ~(y < x)
<1> DEFINE R == OpToRel(<, Nat)
<1>1. IsWellFoundedOn(R, Nat)
  BY NatLessThanWellFounded DEF OpToRel
<1>2. \A x, y \in Nat : y < x => <<y, x>> \in R
  BY DEF OpToRel
<1> HIDE DEF R
<1>3. \E x \in T : \A y \in T : <<y, x>> \notin R
  BY <1>1, WFMin
<1> QED BY <1>2, <1>3

\* The least free PID.
LEMMA NewPid ==
  ASSUME Free # {}
  PROVE  get_new_pid \in Pids /\ \A g \in Groups : get_new_pid \notin Range(procs[g])
<1>1. \E p \in Free : \A q \in Free : p <= q
  <2>1. Free \subseteq Nat
    BY DEF Free, Pids
  <2>2. PICK p \in Free : \A q \in Free : ~(q < p)
    BY <2>1, LeastElement
  <2>3. p \in Nat /\ \A q \in Free : q \in Nat
    BY <2>1
  <2> QED BY <2>2, <2>3
<1>2. get_new_pid \in Free
  BY <1>1 DEF get_new_pid
<1> QED BY <1>2 DEF Free

LEMMA LineTypes ==
  /\ Irqs \subseteq Lines
  /\ \A irq \in Irqs : Line(irq) \in Lines
BY DEF Lines, Line

\* The frame f has been pushed.
Entered(f, kind, x, w) ==
  /\ thread' = [thread EXCEPT ![current_group] = Append(thread[current_group], f)]
  /\ f.kind = kind /\ f.pc = x /\ f.flags = IF_flag
  /\ UserMode => f.ring = 3 /\ f.pid = tss_esp0.pid /\ f.esp = tss_esp0.depth + FrameWords(3)
  /\ ~UserMode => f.ring = 0 /\ f.pid = Top.pid /\ f.esp = (Top.esp + w) + FrameWords(0)

\* What entry pushes is a frame.
LEMMA EnteredThread ==
  ASSUME TypeInv, NEW kind \in Irqs \cup {CALL, EXC}, NEW x \in Points, NEW w \in Nat, Enter(kind, x, w)
  PROVE  \E f \in Frame : Entered(f, kind, x, w)
<1>1. kind \in Kinds /\ IF_flag \in BOOLEAN /\ FrameWords(3) = 5 /\ FrameWords(0) = 3
  BY DEF Kinds, TypeInv, FrameWords
<1>2. CASE UserMode
  <2>1. tss_esp0.pid \in Pids /\ tss_esp0.depth \in Nat
    BY DEF TypeInv, Spot
  <2> DEFINE f == [kind |-> kind, pc |-> x, pid |-> tss_esp0.pid, esp |-> tss_esp0.depth + FrameWords(3),
                   ring |-> 3, flags |-> IF_flag]
  <2>2. f \in Frame
    <3>1. tss_esp0.depth + FrameWords(3) \in Nat
      BY <1>1, <2>1
    <3> QED BY <1>1, <2>1, <3>1 DEF Frame
  <2>3. thread' = [thread EXCEPT ![current_group] = Append(thread[current_group], f)]
    BY <1>2 DEF Enter
  <2> QED BY <1>2, <2>2, <2>3 DEF Entered
<1>3. CASE ~UserMode
  <2>1. Top \in Frame
    BY <1>3, Current
  <2>2. Top.pid \in Pids /\ Top.esp \in Nat
    BY <2>1 DEF Frame
  <2> DEFINE f == [kind |-> kind, pc |-> x, pid |-> Top.pid, esp |-> (Top.esp + w) + FrameWords(0),
                   ring |-> 0, flags |-> IF_flag]
  <2>3. f \in Frame
    <3>1. (Top.esp + w) + FrameWords(0) \in Nat
      BY <1>1, <2>2
    <3> QED BY <1>1, <2>2, <3>1 DEF Frame
  <2>4. thread' = [thread EXCEPT ![current_group] = Append(thread[current_group], f)]
    BY <1>3 DEF Enter, Place
  <2> QED BY <1>3, <2>3, <2>4 DEF Entered
<1> QED BY <1>2, <1>3

\* An update of the current group's thread.
LEMMA SetThread ==
  ASSUME TypeInv, NEW U, thread' = [thread EXCEPT ![current_group] = U]
  PROVE  /\ thread'[current_group] = U /\ \A g \in Groups : g # current_group => thread'[g] = thread[g]
         /\ U \in Seq(Frame) => thread' \in [Groups -> Seq(Frame)]
BY DEF TypeInv

LEMMA SetProcs ==
  ASSUME TypeInv, NEW U, procs' = [procs EXCEPT ![current_group] = U]
  PROVE  /\ procs'[current_group] = U /\ \A g \in Groups : g # current_group => procs'[g] = procs[g]
         /\ U \in Seq(Pids) => procs' \in [Groups -> Seq(Pids)]
BY DEF TypeInv

LEMMA TypeInit == Init => TypeInv
<1> HAVE Init
<1>1. thread \in [Groups -> Seq(Frame)]
  <2>1. BootFrame \in Frame
    BY GroupNumbers DEF BootFrame, Frame, Kinds, Points, BootPoints
  <2>2. <<BootFrame>> \in Seq(Frame) /\ <<>> \in Seq(Frame)
    BY <2>1
  <2> HIDE DEF Frame
  <2> QED BY <2>2 DEF Init
<1>2. procs \in [Groups -> Seq(Pids)]
  <2>1. <<0>> \in Seq(Pids)
    BY GroupNumbers
  <2> QED BY <2>1 DEF Init
<1>3. /\ tss_esp0 \in Spot /\ active_pid \in [Groups -> Pids] /\ dying \in [Groups -> Pids \cup {NoPid}]
      /\ crashed \in BOOLEAN /\ stolen \in BOOLEAN
  BY GroupNumbers, PlaceType DEF Init
<1>7. pcb \in [Pids -> PCB]
  <2>1. ZeroPCB \in PCB /\ [ZeroPCB EXCEPT !.parent_pid = NoPid] \in PCB
    BY ContextTypes, ContextUpdates
  <2> QED BY <2>1 DEF Init
<1>4. current_group \in Groups
  BY GroupNumbers DEF Init
<1>5. races \in 0 .. MAX_RACES
  BY GroupNumbers DEF Init
<1>6. isr \in SUBSET Lines /\ imr \in SUBSET Lines /\ IF_flag \in BOOLEAN
  BY DEF Init
<1> QED BY <1>1, <1>2, <1>3, <1>4, <1>5, <1>6, <1>7 DEF TypeInv

LEMMA TypeEntry ==
  ASSUME TypeInv, SystemCall \/ Exception \/ \E irq \in Irqs : Interrupt(irq) PROVE TypeInv'
<1>1. "start" \in Points /\ "body" \in Points
  BY DEF Points
<1>2. ASSUME NEW f \in Frame, thread' = [thread EXCEPT ![current_group] = Append(thread[current_group], f)]
      PROVE  thread' \in [Groups -> Seq(Frame)]
  <2>1. Append(thread[current_group], f) \in Seq(Frame)
    BY Current, PushFields
  <2> QED BY <1>2, <2>1, SetThread
<1>3. CASE SystemCall
  <2>1. Enter(CALL, "body", LOCALS) /\ LOCALS \in Nat
    BY <1>3, GroupNumbers DEF SystemCall
  <2>2. thread' \in [Groups -> Seq(Frame)]
    BY <1>1, <1>2, <2>1, EnteredThread DEF Entered
  <2> QED BY <1>3, <2>2 DEF SystemCall, TypeInv
<1>4. CASE Exception
  <2>1. Enter(EXC, "body", LOCALS) /\ LOCALS \in Nat
    BY <1>4, GroupNumbers DEF Exception
  <2>2. thread' \in [Groups -> Seq(Frame)]
    BY <1>1, <1>2, <2>1, EnteredThread DEF Entered
  <2> QED BY <1>4, <2>2 DEF Exception, TypeInv
<1>5. ASSUME NEW irq \in Irqs, Interrupt(irq) PROVE TypeInv'
  <2>1. PICK w \in Nat : Enter(irq, "start", w)
    BY <1>5, GroupNumbers DEF Interrupt
  <2>2. thread' \in [Groups -> Seq(Frame)]
    BY <1>1, <1>2, <2>1, EnteredThread DEF Entered
  <2>3. isr' \in SUBSET Lines
    BY <1>5, LineTypes DEF Interrupt, TypeInv
  <2>4. races' \in 0 .. MAX_RACES
    BY <1>5, GroupNumbers DEF Interrupt, TypeInv
  <2> QED BY <1>5, <2>2, <2>3, <2>4 DEF Interrupt, TypeInv
<1> QED BY <1>3, <1>4, <1>5

\* The address above a frame.
LEMMA AboveType ==
  ASSUME NEW f \in Frame, f.esp >= FrameWords(f.ring)
  PROVE  LET p == Place(f.pid, f.esp - FrameWords(f.ring)) IN
         p \in Spot /\ p.pid = f.pid /\ p.depth = f.esp - FrameWords(f.ring)
<1>1. f.pid \in Pids /\ f.esp \in Nat /\ f.ring \in {0, 3}
  BY DEF Frame
<1>2. f.esp - FrameWords(f.ring) \in Nat
  BY <1>1 DEF FrameWords
<1> QED BY <1>1, <1>2, PlaceType
-----------------------------------------------------------------------------
(* The invariant of the stacks.                                              *)

StackInv == \A g \in Groups : StackOf(thread[g], procs[g], g = 0) /\ Drifts(thread[g], races)

\* The points of pcb_teardown at which a thread has a frame.
Marks(T) == {x \in Loose : \E i \in 1 .. Len(T) : T[i].pc = x}

\* The process, with the point of its group's teardown, that has executed the
\* active one.
ParentIn(P, M) == IF "tail" \in M THEN P[Len(P) - 1] ELSE P[Len(P)]

\* A group's active process is the last of its processes, or the one it has just
\* freed.  Between the halt and the statement that moves active_pid back, the
\* PCB of the active process names the parent, as long as the group runs or the
\* PCB still holds the context with which it will run again.
LeafOf(g) ==
  LET M == Marks(thread[g])
      p == active_pid[g]
  IN  /\ dying[g] # NoPid <=> M \cap Torn # {}
      /\ p = IF "freed" \in M THEN dying[g] ELSE procs[g][Len(procs[g])]
      /\ ~crashed /\ M \cap {"tail", "freed"} # {} /\ (g = current_group \/ pcb[p].kernel_esp = g)
           => pcb[p].parent_pid = ParentIn(procs[g], M)

LeafInv == \A g \in Groups : LeafOf(g)

\* The last frame of the current group, while its code runs in the kernel.
LEMMA Working ==
  ASSUME TypeInv, StackInv, ~UserMode
  PROVE  LET T == thread[current_group] IN
         /\ T \in Seq(Frame) /\ T # <<>> /\ Len(T) \in Nat \ {0} /\ Len(T) \in 1 .. Len(T)
         /\ Top = T[Len(T)] /\ Top \in Frame /\ Top.kind \in Kinds /\ Top.pc \in PointsOf(Top.kind) /\ Top.pc # "exec"
         /\ Top.kind # BOOT => Top.esp >= FrameWords(Top.ring)
         /\ Top.kind = BOOT => current_group = 0 /\ Len(T) = 1
         /\ StackOf(T, procs[current_group], current_group = 0) /\ Drifts(T, races)
<1> DEFINE T == thread[current_group]
<1>1. current_group \in Groups /\ T \in Seq(Frame) /\ T # <<>> /\ Top = T[Len(T)] /\ Top \in Frame
  BY Current
<1>2. Len(T) \in Nat \ {0}
  BY <1>1, FrontOf
<1>3. Len(T) \in 1 .. Len(T)
  BY <1>2
<1>4. StackOf(T, procs[current_group], current_group = 0) /\ Drifts(T, races)
  BY <1>1 DEF StackInv
<1>5. Top.kind \in Kinds
  BY <1>1 DEF Frame
<1>6. Top.pc # "exec"
  BY <1>1 DEF UserMode
<1> HIDE DEF T
<1> QED BY <1>1, <1>2, <1>3, <1>4, <1>5, <1>6 DEF StackOf, Shaped, T

\* A step from point to point.
LEMMA Turning ==
  ASSUME TypeInv, ~UserMode, NEW x \in Points, GoTo(x)
  PROVE  /\ thread' \in [Groups -> Seq(Frame)] /\ thread'[current_group] = Turn(thread[current_group], x)
         /\ \A g \in Groups : g # current_group => thread'[g] = thread[g]
<1>1. thread' = [thread EXCEPT ![current_group] = Turn(thread[current_group], x)]
  BY TurnedThread
<1>2. Turn(thread[current_group], x) \in Seq(Frame)
  BY Current, TurnFields
<1> QED BY <1>1, <1>2, SetThread

LEMMA HandlerPoints ==
  /\ \A x \in {"masked", "acknowledged", "switch", "exec", "tail", "return", "iret", "rtc_init",
               "keyboard_init", "shells", "pit_init", "loop"} \cup Loose : x \in Points
  /\ \A kind \in Irqs \cup {CALL} : {"return", "iret"} \subseteq PointsOf(kind)
  /\ \A kind \in Device : {"masked", "acknowledged"} \subseteq PointsOf(kind)
  /\ "switch" \in PointsOf(IRQ_PIT) /\ {"exec"} \cup Loose \subseteq PointsOf(CALL)
  /\ BootPoints \cup {"exec"} \subseteq PointsOf(BOOT)
  /\ Irqs = {IRQ_PIT} \cup Device /\ Loose = {"tail", "freed", "moved", "aimed"}
BY KindsApart DEF Points, BootPoints, PointsOf, Irqs, Device, Loose, Torn

LEMMA MaskTypes ==
  ASSUME TypeInv, NEW irq \in Irqs
  PROVE  /\ disable_irq(irq) \/ enable_irq(irq) => imr' \in SUBSET Lines
         /\ send_eoi(irq) => isr' \in SUBSET Lines
BY LineTypes DEF TypeInv, disable_irq, enable_irq, send_eoi

LEMMA NextType == ASSUME TypeInv PROVE NextGroup \in Groups
BY GroupNumbers DEF NextGroup, TypeInv, Groups

LEMMA SelfType ==
  ASSUME TypeInv
  PROVE  /\ Self = active_pid[current_group] /\ Self \in Pids /\ pcb[Self] \in PCB
         /\ \A g \in Groups : active_pid[g] \in Pids /\ pcb[active_pid[g]] \in PCB
         /\ pcb \in [Pids -> PCB] /\ \A p \in Pids : pcb[p] \in PCB
BY DEF TypeInv, Self

\* What a tick does to the contexts: that of the group it leaves is saved, that
\* of the group it goes on with is used up.
LEMMA TickContexts ==
  ASSUME TypeInv, StackInv, schedule_next
  PROVE  LET next == active_pid[NextGroup] IN
         /\ pcb' \in [Pids -> PCB] /\ tss_esp0' \in Spot /\ crashed' \in BOOLEAN
         /\ \A p \in Pids : pcb'[p].parent_pid = pcb[p].parent_pid /\ pcb'[p].eip = pcb[p].eip
         /\ pcb'[next].kernel_esp = NoContext
         /\ Self # next => pcb'[Self].kernel_esp = current_group
         /\ \A p \in Pids \ {Self, next} : pcb'[p].kernel_esp = pcb[p].kernel_esp
         /\ crashed' <=> (IF next = Self THEN current_group ELSE pcb[next].kernel_esp) # NextGroup
<1> DEFINE esp0  == Place(Top.pid, Top.esp - FrameWords(Top.ring))
           saved == [pcb EXCEPT ![Self].tss_esp0 = esp0, ![Self].kernel_esp = current_group]
           next  == active_pid[NextGroup]
           c     == [pcb[Self] EXCEPT !.tss_esp0 = esp0]
           d     == [c EXCEPT !.kernel_esp = current_group]
<1>1. ~UserMode /\ Top.kind # BOOT
  BY KindsApart DEF schedule_next, At, Irqs
<1>2. esp0 \in Spot
  BY <1>1, Working, AboveType
<1>3. /\ pcb \in [Pids -> PCB] /\ Self \in Pids /\ next \in Pids /\ pcb[Self] \in PCB /\ current_group \in Groups
      /\ \A p \in Pids : pcb[p] \in PCB
  BY SelfType, NextType DEF TypeInv
<1>4. /\ pcb' = [saved EXCEPT ![next].kernel_esp = NoContext] /\ tss_esp0' = saved[next].tss_esp0
      /\ crashed' = (saved[next].kernel_esp # NextGroup)
  BY DEF schedule_next
<1>5. saved = [pcb EXCEPT ![Self] = d]
  BY <1>3
<1> HIDE DEF esp0
<1>6. c \in PCB /\ c.parent_pid = pcb[Self].parent_pid /\ c.eip = pcb[Self].eip
  BY <1>2, <1>3, ContextUpdates
<1> HIDE DEF c
<1>7. d \in PCB /\ d.parent_pid = c.parent_pid /\ d.eip = c.eip /\ d.kernel_esp = current_group
  BY <1>3, <1>6, ContextUpdates
<1> HIDE DEF d, saved, next
<1>8. /\ saved \in [Pids -> PCB] /\ saved[Self] = d
      /\ \A p \in Pids : saved[p] \in PCB /\ (p # Self => saved[p] = pcb[p])
  BY <1>3, <1>5, <1>7
<1> DEFINE e == [saved[next] EXCEPT !.kernel_esp = NoContext]
<1>9. /\ e \in PCB /\ e.parent_pid = saved[next].parent_pid /\ e.eip = saved[next].eip
      /\ e.kernel_esp = NoContext /\ saved[next].tss_esp0 \in Spot
  <2>1. saved[next] \in PCB
    BY <1>3, <1>8
  <2> QED BY <2>1, ContextUpdates
<1>10. pcb' = [saved EXCEPT ![next] = e]
  <2>1. pcb' = [saved EXCEPT ![next].kernel_esp = NoContext]
    BY <1>4
  <2> QED BY <1>3, <1>8, <2>1
<1> HIDE DEF e
<1>11. /\ pcb' \in [Pids -> PCB] /\ pcb'[next] = e /\ \A p \in Pids : p # next => pcb'[p] = saved[p]
  BY <1>3, <1>8, <1>9, <1>10
<1>12. saved[next].kernel_esp = IF next = Self THEN current_group ELSE pcb[next].kernel_esp
  BY <1>3, <1>7, <1>8
<1>13. \A p \in Pids : pcb'[p].parent_pid = pcb[p].parent_pid /\ pcb'[p].eip = pcb[p].eip
  BY <1>6, <1>7, <1>8, <1>9, <1>11
<1>14. /\ pcb'[next].kernel_esp = NoContext
       /\ Self # next => pcb'[Self].kernel_esp = current_group
       /\ \A p \in Pids \ {Self, next} : pcb'[p].kernel_esp = pcb[p].kernel_esp
  BY <1>3, <1>7, <1>8, <1>9, <1>11
<1> QED BY <1>4, <1>9, <1>11, <1>12, <1>13, <1>14 DEF next

LEMMA TypeReturn == ASSUME TypeInv, StackInv, save_tss_esp \/ iret \/ schedule_next PROVE TypeInv'
<1>1. /\ ~UserMode
      /\ save_tss_esp \/ schedule_next => Top.kind # BOOT
  BY KindsApart DEF save_tss_esp, iret, schedule_next, At, InIretStub, Irqs
<1>2. save_tss_esp \/ schedule_next => Place(Top.pid, Top.esp - FrameWords(Top.ring)) \in Spot
  BY <1>1, Working, AboveType
<1>3. CASE save_tss_esp
  <2>1. thread' \in [Groups -> Seq(Frame)]
    BY <1>1, <1>3, HandlerPoints, Turning DEF save_tss_esp
  <2> QED BY <1>2, <1>3, <2>1 DEF save_tss_esp, TypeInv
<1>4. CASE iret
  <2>1. Front(thread[current_group]) \in Seq(Frame)
    BY <1>1, Working, FrontOf
  <2>2. thread' \in [Groups -> Seq(Frame)]
    BY <1>4, <2>1, SetThread DEF iret
  <2>3. Top.flags \in BOOLEAN
    BY <1>1, Working DEF Frame
  <2> QED BY <1>4, <2>2, <2>3 DEF iret, TypeInv
<1>5. CASE schedule_next
  <2>1. thread' \in [Groups -> Seq(Frame)]
    BY <1>1, <1>5, HandlerPoints, Turning DEF schedule_next
  <2>2. NextGroup \in Groups
    BY NextType
  <2>3. pcb' \in [Pids -> PCB] /\ tss_esp0' \in Spot /\ crashed' \in BOOLEAN
    BY <1>5, TickContexts
  <2> QED BY <1>5, <2>1, <2>2, <2>3 DEF schedule_next, TypeInv
<1> QED BY <1>3, <1>4, <1>5

LEMMA TypeHandler == ASSUME TypeInv, StackInv, DeviceMask \/ DeviceEoi \/ DeviceUnmask \/ TickEoi PROVE TypeInv'
<1>1. /\ ~UserMode
      /\ DeviceMask \/ DeviceEoi \/ DeviceUnmask => Top.kind \in Irqs
      /\ IRQ_PIT \in Irqs
  BY DEF DeviceMask, DeviceEoi, DeviceUnmask, TickEoi, At, Irqs
<1>2. thread' \in [Groups -> Seq(Frame)]
  BY <1>1, HandlerPoints, Turning DEF DeviceMask, DeviceEoi, DeviceUnmask, TickEoi
<1>3. isr' \in SUBSET Lines /\ imr' \in SUBSET Lines
  <2>1. CASE DeviceMask
    BY <1>1, <2>1, MaskTypes DEF DeviceMask, TypeInv
  <2>2. CASE DeviceEoi
    BY <1>1, <2>2, MaskTypes DEF DeviceEoi, TypeInv
  <2>3. CASE DeviceUnmask
    BY <1>1, <2>3, MaskTypes DEF DeviceUnmask, TypeInv
  <2>4. CASE TickEoi
    BY <1>1, <2>4, MaskTypes DEF TickEoi, TypeInv
  <2> QED BY <2>1, <2>2, <2>3, <2>4
<1> QED BY <1>2, <1>3 DEF DeviceMask, DeviceEoi, DeviceUnmask, TickEoi, TypeInv

LEMMA CallKinds ==
  /\ Executing => ~UserMode /\ Top.kind \in {CALL, BOOT} /\ Top.pc \in {"body", "loop"}
  /\ ExecuteFails \/ OtherCall => ~UserMode /\ Top.kind = CALL /\ Top.pc = "body"
  /\ system_halt => ~UserMode /\ Top.kind \in {CALL, EXC} /\ Top.pc = "body"
  /\ TeardownFree => ~UserMode /\ Top.kind = CALL /\ Top.pc = "tail"
  /\ TeardownActive \/ TeardownEsp0 \/ TeardownClear => ~UserMode /\ Top.kind = CALL /\ Top.pc \in Torn
BY DEF Executing, ExecuteFails, OtherCall, system_halt, TeardownFree, TeardownActive, TeardownEsp0, TeardownClear, At, Torn

\* A halt leaves the frame below its own, the execute of the parent, if the
\* PCBs lead back to it.
LEMMA Halting ==
  ASSUME TypeInv, StackInv, system_halt
  PROVE  LET T == thread[current_group]
             U == Front(T) IN
         /\ U \in Seq(Frame) /\ U # <<>> /\ U[Len(U)].kind = CALL /\ U[Len(U)].pc = "exec" /\ Len(T) # 1
         /\ StackOf(U, procs[current_group], current_group = 0) /\ Drifts(U, races)
         /\ Turn(U, "tail") \in Seq(Frame)
         /\ \/ /\ thread' = [thread EXCEPT ![current_group] = Turn(U, "tail")]
               /\ crashed' = crashed /\ pcb[Self].parent_pid = U[Len(U)].pid
            \/ /\ thread' = thread /\ crashed' = TRUE
               /\ pcb[Self].parent_pid = U[Len(U)].pid => pcb[U[Len(U)].pid].eip # "return_from_exec"
<1> DEFINE T == thread[current_group]
           U == Front(T)
           P == procs[current_group]
           b == current_group = 0
<1>1. ~UserMode /\ Top.kind \in {CALL, EXC} /\ Top.pc = "body"
  BY CallKinds
<1>2. /\ T \in Seq(Frame) /\ T # <<>> /\ Len(T) \in Nat \ {0} /\ Len(T) \in 1 .. Len(T) /\ Top = T[Len(T)]
      /\ StackOf(T, P, b) /\ Drifts(T, races)
  BY <1>1, Working
<1>3. U # <<>> /\ Last(U).kind = CALL
      /\ \/ /\ thread' = [thread EXCEPT ![current_group] = Append(Front(U), [Last(U) EXCEPT !.pc = "tail"])]
            /\ crashed' = crashed /\ pcb[Self].parent_pid = Last(U).pid
         \/ /\ thread' = thread /\ crashed' = TRUE
            /\ pcb[Self].parent_pid = Last(U).pid => pcb[Last(U).pid].eip # "return_from_exec"
  BY DEF system_halt
<1>4. U \in Seq(Frame) /\ Len(U) = Len(T) - 1 /\ \A i \in 1 .. Len(T) - 1 : U[i] = T[i]
  BY <1>2, FrontOf
<1>5. Last(U) = U[Len(U)] /\ Len(U) \in Nat \ {0}
  BY <1>3, <1>4, FrontOf
<1>6. Len(T) # 1
  BY <1>2, <1>4, <1>5
<1>7. P \in Seq(Pids)
  BY Current
<1> HIDE DEF T, P, b
<1>8. StackOf(U, P, b)
  BY <1>1, <1>2, <1>6, <1>7, StackPop
<1>9. Drifts(U, races)
  BY <1>2, DriftsPop
<1>10. T[Len(T)].ring = 3
  BY <1>1, <1>2 DEF StackOf, Shaped
<1>11. T[Len(T) - 1].pc = "exec"
  BY <1>2, <1>6, <1>10 DEF StackOf, Shaped
<1>12. U[Len(U)].pc = "exec"
  <2>1. \A n \in Nat \ {0} : n # 1 => n - 1 \in 1 .. n - 1
    OBVIOUS
  <2>2. Len(T) - 1 \in 1 .. Len(T) - 1
    BY <2>1, <1>2, <1>6, Zenon
  <2> QED BY <2>2, <1>4, <1>11
<1> HIDE DEF U
<1>13. Turn(U, "tail") \in Seq(Frame)
  BY <1>3, <1>4, HandlerPoints, TurnFields
<1> QED BY <1>3, <1>4, <1>5, <1>6, <1>8, <1>9, <1>12, <1>13 DEF Turn, T, U, P, b

\* What pcb_setup makes of the PCBs.
LEMMA SetUp ==
  ASSUME TypeInv, get_new_pid \in Pids
  PROVE  /\ ExecutePCBs \in [Pids -> PCB]
         /\ \A p \in Pids \ {get_new_pid} : /\ ExecutePCBs[p].parent_pid = pcb[p].parent_pid
                                            /\ ExecutePCBs[p].kernel_esp = pcb[p].kernel_esp
                                            /\ p # Self => ExecutePCBs[p] = pcb[p]
         /\ ExecutePCBs[Self].eip = "return_from_exec"
         /\ ExecutePCBs[get_new_pid].parent_pid = Self /\ ExecutePCBs[get_new_pid].kernel_esp = NoContext
<1> DEFINE n == get_new_pid
           c == [ZeroPCB EXCEPT !.parent_pid = Self]
           set == [pcb EXCEPT ![n] = c]
           d == [set[Self] EXCEPT !.eip = "return_from_exec"]
<1>1. Self \in Pids /\ pcb \in [Pids -> PCB] /\ n \in Pids
  BY SelfType
<1>2. c \in PCB /\ c.parent_pid = Self /\ c.kernel_esp = NoContext
  BY <1>1, ContextTypes, ContextUpdates
<1>3. ExecutePCBs = [set EXCEPT ![Self].eip = "return_from_exec"]
  BY DEF ExecutePCBs
<1> HIDE DEF c, n
<1>4. set \in [Pids -> PCB] /\ set[n] = c /\ \A p \in Pids : p # n => set[p] = pcb[p]
  BY <1>1, <1>2
<1> HIDE DEF set
<1>5. /\ d \in PCB /\ d.eip = "return_from_exec" /\ d.parent_pid = set[Self].parent_pid
      /\ d.kernel_esp = set[Self].kernel_esp
  BY <1>1, <1>4, ContextUpdates
<1>6. ExecutePCBs = [set EXCEPT ![Self] = d]
  BY <1>1, <1>3, <1>4
<1> HIDE DEF d
<1>7. /\ ExecutePCBs \in [Pids -> PCB] /\ ExecutePCBs[Self] = d
      /\ \A p \in Pids : p # Self => ExecutePCBs[p] = set[p]
  BY <1>1, <1>4, <1>5, <1>6
<1> QED BY <1>1, <1>2, <1>4, <1>5, <1>7 DEF n

LEMMA TypeCall ==
  ASSUME TypeInv, StackInv, Execute \/ ExecuteFails \/ OtherCall \/ system_halt PROVE TypeInv'
<1>1. Execute => Executing
  BY DEF Execute
<1>2. ~UserMode
  BY <1>1, CallKinds
<1>3. ~system_halt => thread' \in [Groups -> Seq(Frame)]
  BY <1>2, HandlerPoints, Turning DEF Execute, ExecuteFails, OtherCall
<1>4. procs[current_group] \in Seq(Pids) /\ procs[current_group] # <<>>
  BY Current DEF StackInv, StackOf, Distinct
<1>5. Self \in Pids
  BY SelfType
<1>6. CASE Execute
  <2>1. get_new_pid \in Pids
    BY <1>6, NewPid DEF Execute
  <2>2. procs' \in [Groups -> Seq(Pids)]
    <3>1. Append(procs[current_group], get_new_pid) \in Seq(Pids)
      BY <1>4, <2>1, PushFields
    <3> QED BY <1>6, <3>1, SetProcs DEF Execute
  <2>3. tss_esp0' \in Spot
    BY <1>6, <2>1, PlaceType DEF Execute
  <2>4. thread' \in [Groups -> Seq(Frame)]
    BY <1>2, <1>6, HandlerPoints, Turning DEF Execute
  <2>5. pcb' \in [Pids -> PCB] /\ active_pid' \in [Groups -> Pids] /\ stolen' \in BOOLEAN
    BY <1>6, <2>1, SetUp DEF Execute, TypeInv, Take
  <2> QED BY <1>6, <2>2, <2>3, <2>4, <2>5 DEF Execute, TypeInv
<1>7. CASE ExecuteFails
  <2>1. tss_esp0' \in Spot
    BY <1>5, <1>7, PlaceType DEF ExecuteFails, TypeInv
  <2>2. thread' \in [Groups -> Seq(Frame)]
    BY <1>2, <1>7, HandlerPoints, Turning DEF ExecuteFails
  <2>3. pcb' \in [Pids -> PCB] /\ stolen' \in BOOLEAN
    BY <1>7, ContextTypes DEF ExecuteFails, TypeInv, Take
  <2> QED BY <1>7, <2>1, <2>2, <2>3 DEF ExecuteFails, TypeInv
<1>8. CASE OtherCall
  <2>1. thread' \in [Groups -> Seq(Frame)]
    BY <1>2, <1>8, HandlerPoints, Turning DEF OtherCall
  <2> QED BY <1>8, <2>1 DEF OtherCall, TypeInv
<1>9. CASE system_halt
  <2>1. thread' \in [Groups -> Seq(Frame)] /\ crashed' \in BOOLEAN
    BY <1>9, Halting, SetThread DEF TypeInv
  <2> QED BY <1>9, <2>1 DEF system_halt, TypeInv
<1> QED BY <1>6, <1>7, <1>8, <1>9

\* Above a frame that tears down there are only interrupts.
LEMMA LooseBelow ==
  ASSUME NEW T \in Seq(Frame), NEW b, Shaped(T, b), NEW i \in 1 .. Len(T), T[i].pc \in Loose,
         NEW k \in 1 .. Len(T), i < k
  PROVE  T[k].kind \in Irqs
<1> DEFINE B == {m \in 1 .. Len(T) : i < m /\ T[m].kind \notin Irqs}
<1>1. SUFFICES ASSUME B # {} PROVE FALSE
  OBVIOUS
<1>2. B \subseteq Nat
  OBVIOUS
<1>3. PICK m \in B : \A y \in B : ~(y < m)
  <2> HIDE DEF B
  <2> QED BY <1>1, <1>2, LeastElement
<1>4. m \in 1 .. Len(T) /\ i < m /\ T[m].kind \notin Irqs /\ m # 1 /\ m - 1 \in 1 .. Len(T)
  BY LenProperties
<1>5. T[m].ring = 3
  <2>1. T[m].kind \in Kinds /\ T[m].kind # BOOT
    BY <1>4, FrameTypes DEF Shaped
  <2> QED BY <1>4, <2>1 DEF Kinds, Shaped
<1>6. T[m - 1].pc = "exec"
  BY <1>4, <1>5 DEF Shaped
<1>7. "exec" \notin Loose /\ \A kind \in Irqs : "exec" \notin PointsOf(kind)
  BY KindsApart DEF Loose, Torn, PointsOf, Irqs, Device
<1>8. CASE m - 1 = i
  BY <1>6, <1>7, <1>8
<1>9. CASE m - 1 # i
  <2>1. i < m - 1 /\ m - 1 < m
    BY <1>4, <1>9
  <2>2. T[m - 1].kind \in Irqs
    BY <1>3, <1>4, <2>1
  <2> QED BY <1>4, <1>6, <1>7, <2>2 DEF Shaped
<1> QED BY <1>8, <1>9

\* So a thread tears down where its last frame does, if that is none of an
\* interrupt, and nowhere in user mode.
LEMMA MarksTop ==
  ASSUME NEW T \in Seq(Frame), NEW b, Shaped(T, b)
  PROVE  /\ T # <<>> /\ T[Len(T)].kind \notin Irqs => Marks(T) = {T[Len(T)].pc} \cap Loose
         /\ InUser(T) => Marks(T) = {}
<1>1. "exec" \notin Loose /\ \A kind \in Irqs : "exec" \notin PointsOf(kind)
  BY KindsApart DEF Loose, Torn, PointsOf, Irqs, Device
<1>2. CASE T = <<>>
  <2>1. Len(T) = 0
    BY <1>2
  <2> QED BY <1>2, <2>1 DEF Marks
<1>3. CASE T # <<>>
  <2>1. Len(T) \in Nat \ {0} /\ Len(T) \in 1 .. Len(T)
    BY <1>3, FrontOf
  <2>2. ASSUME T[Len(T)].kind \notin Irqs PROVE Marks(T) = {T[Len(T)].pc} \cap Loose
    <3>1. ASSUME NEW i \in 1 .. Len(T), T[i].pc \in Loose PROVE i = Len(T)
      <4>1. ~(i < Len(T))
        BY <2>1, <2>2, <3>1, LooseBelow
      <4> QED BY <2>1, <4>1
    <3> QED BY <2>1, <3>1 DEF Marks
  <2>3. InUser(T) => T[Len(T)].pc = "exec" /\ T[Len(T)].kind \notin Irqs
    BY <1>1, <1>3, <2>1 DEF InUser, Shaped
  <2> QED BY <1>1, <2>2, <2>3
<1> QED BY <1>2, <1>3

\* A step at none of the points of pcb_teardown leaves them as they are.
LEMMA MarksTurn ==
  ASSUME NEW T \in Seq(Frame), T # <<>>, NEW x \in Points, x \notin Loose, T[Len(T)].pc \notin Loose
  PROVE  Marks(Turn(T, x)) = Marks(T)
<1> DEFINE U == Turn(T, x)
<1>1. /\ Len(U) = Len(T) /\ \A i \in 1 .. Len(T) : U[i].pc = IF i = Len(T) THEN x ELSE T[i].pc
  BY TurnFields
<1> HIDE DEF U
<1> QED BY <1>1 DEF Marks, U

LEMMA MarksPush ==
  ASSUME NEW T \in Seq(Frame), NEW f \in Frame, f.pc \notin Loose
  PROVE  Marks(Append(T, f)) = Marks(T)
<1> DEFINE U == Append(T, f)
<1>1. Len(T) \in Nat /\ Len(U) = Len(T) + 1 /\ U[Len(T) + 1] = f /\ \A i \in 1 .. Len(T) : U[i] = T[i]
  BY PushFields
<1>2. 1 .. Len(T) + 1 = 1 .. Len(T) \cup {Len(T) + 1}
  BY <1>1
<1> HIDE DEF U
<1> QED BY <1>1, <1>2 DEF Marks, U

LEMMA MarksPop ==
  ASSUME NEW T \in Seq(Frame), T # <<>>, T[Len(T)].pc \notin Loose
  PROVE  Marks(Front(T)) = Marks(T)
<1> DEFINE U == Front(T)
<1>1. Len(T) \in Nat \ {0} /\ Len(U) = Len(T) - 1 /\ \A i \in 1 .. Len(T) - 1 : U[i] = T[i]
  BY FrontOf
<1>2. 1 .. Len(T) = 1 .. (Len(T) - 1) \cup {Len(T)}
  BY <1>1
<1> HIDE DEF U
<1> QED BY <1>1, <1>2 DEF Marks, U

\* Where the thread of the current group tears down, while it runs.
LEMMA CurrentMarks ==
  ASSUME TypeInv, StackInv
  PROVE  LET T == thread[current_group] IN
         /\ UserMode => Marks(T) = {}
         /\ ~UserMode /\ Top.kind \notin Irqs => Marks(T) = {Top.pc} \cap Loose
<1> DEFINE T == thread[current_group]
<1>1. T \in Seq(Frame) /\ Shaped(T, current_group = 0) /\ (UserMode <=> InUser(T))
  BY Current DEF StackInv, StackOf
<1>2. ~UserMode => T # <<>> /\ Top = T[Len(T)]
  BY Current
<1> HIDE DEF T
<1> QED BY <1>1, <1>2, MarksTop DEF T

\* A PID that has been freed and not left yet still leads to its parent.
LEMMA FreedParent ==
  ASSUME TypeInv, StackInv, LeafInv, ~crashed, TeardownActive
  PROVE  LET P == procs[current_group] IN
         pcb[dying[current_group]].parent_pid = P[Len(P)] /\ P[Len(P)] \in Pids
<1>1. ~UserMode /\ Top.kind = CALL /\ Top.pc = "freed"
  BY DEF TeardownActive, At
<1>2. "freed" \in Loose /\ "freed" # "tail" /\ CALL \notin Irqs
  BY KindsApart DEF Loose, Torn
<1>3. Marks(thread[current_group]) = {"freed"}
  BY <1>1, <1>2, CurrentMarks
<1>4. pcb[dying[current_group]].parent_pid = procs[current_group][Len(procs[current_group])]
  BY <1>2, <1>3 DEF LeafInv, LeafOf, ParentIn, TypeInv
<1>5. procs[current_group] \in Seq(Pids) /\ procs[current_group] # <<>>
  BY Current DEF StackInv, StackOf, Distinct
<1> QED BY <1>4, <1>5, LastInRange

LEMMA TypeTeardown ==
  ASSUME TypeInv, StackInv, LeafInv, ~crashed, pcb_teardown PROVE TypeInv'
<1>1. ~UserMode
  BY CallKinds
<1>2. thread' \in [Groups -> Seq(Frame)]
  BY <1>1, HandlerPoints, Turning DEF TeardownFree, TeardownActive, TeardownEsp0, TeardownClear
<1>3. CASE TeardownFree
  <2>1. procs[current_group] \in Seq(Pids) /\ procs[current_group] # <<>>
    BY Current DEF StackInv, StackOf, Distinct
  <2>2. Front(procs[current_group]) \in Seq(Pids)
    BY <2>1, FrontOf
  <2>3. procs' \in [Groups -> Seq(Pids)] /\ dying' \in [Groups -> Pids \cup {NoPid}]
    BY <1>3, <2>2, SelfType, SetProcs DEF TeardownFree, TypeInv
  <2> QED BY <1>2, <1>3, <2>3 DEF TeardownFree, TypeInv
<1>4. CASE TeardownActive
  <2>1. pcb[dying[current_group]].parent_pid \in Pids
    BY <1>4, FreedParent
  <2> QED BY <1>2, <1>4, <2>1 DEF TeardownActive, TypeInv
<1>5. CASE TeardownEsp0
  <2>1. tss_esp0' \in Spot
    BY <1>5, SelfType, PlaceType DEF TeardownEsp0
  <2> QED BY <1>2, <1>5, <2>1 DEF TeardownEsp0, TypeInv
<1>6. CASE TeardownClear
  <2>1. pcb' \in [Pids -> PCB] /\ dying' \in [Groups -> Pids \cup {NoPid}]
    BY <1>6, ContextTypes DEF TeardownClear, TypeInv
  <2> QED BY <1>2, <1>6, <2>1 DEF TeardownClear, TypeInv
<1> QED BY <1>3, <1>4, <1>5, <1>6

\* The contexts that the boot makes for the shells.
LEMMA ShellContexts ==
  ASSUME TypeInv, static_start_shells
  PROVE  /\ pcb' \in [Pids -> PCB]
         /\ \A g \in Groups \ {0} : pcb'[BaseShell(g)].kernel_esp = g
<1> DEFINE c(p) == [[ZeroPCB EXCEPT !.kernel_esp = p - 1] EXCEPT !.tss_esp0 = get_kstack_addr(p)]
<1>1. ASSUME NEW p \in Pids, p - 1 \in Groups PROVE c(p) \in PCB /\ c(p).kernel_esp = p - 1
  <2>1. [ZeroPCB EXCEPT !.kernel_esp = p - 1] \in PCB /\ [ZeroPCB EXCEPT !.kernel_esp = p - 1].kernel_esp = p - 1
    BY <1>1, ContextTypes, ContextUpdates
  <2>2. get_kstack_addr(p) \in Spot
    BY PlaceType
  <2> QED BY <2>1, <2>2 DEF PCB, Spot
<1>2. pcb' = [p \in Pids |-> IF p - 1 \in Groups \ {0} THEN c(p) ELSE pcb[p]]
  BY DEF static_start_shells
<1> HIDE DEF c
<1>3. \A g \in Groups : BaseShell(g) \in Pids /\ BaseShell(g) - 1 = g
  BY GroupNumbers DEF BaseShell, Groups
<1> QED BY <1>1, <1>2, <1>3, SelfType

LEMMA TypeBoot == ASSUME TypeInv, StackInv, Boot PROVE TypeInv'
<1>1. ~UserMode /\ IRQ_PIT \in Irqs /\ IRQ_KB \in Irqs /\ IRQ_RTC \in Irqs
  BY DEF Boot, i8259_init, rtc_init, keyboard_init, static_start_shells, pit_init, At, Irqs
<1>2. CASE i8259_init
  <2>1. thread' \in [Groups -> Seq(Frame)]
    BY <1>1, <1>2, HandlerPoints, Turning DEF i8259_init
  <2> QED BY <1>2, <2>1 DEF i8259_init, TypeInv
<1>3. CASE rtc_init
  <2>1. thread' \in [Groups -> Seq(Frame)]
    BY <1>1, <1>3, HandlerPoints, Turning DEF rtc_init
  <2>2. imr' \in SUBSET Lines
    BY <1>1, <1>3, MaskTypes DEF rtc_init
  <2> QED BY <1>3, <2>1, <2>2 DEF rtc_init, TypeInv
<1>4. CASE keyboard_init
  <2>1. thread' \in [Groups -> Seq(Frame)]
    BY <1>1, <1>4, HandlerPoints, Turning DEF keyboard_init
  <2>2. imr' \in SUBSET Lines
    BY <1>1, <1>4, MaskTypes DEF keyboard_init
  <2> QED BY <1>4, <2>1, <2>2 DEF keyboard_init, TypeInv
<1>5. CASE pit_init
  <2>1. thread' \in [Groups -> Seq(Frame)]
    BY <1>1, <1>5, HandlerPoints, Turning DEF pit_init
  <2>2. imr' \in SUBSET Lines
    BY <1>1, <1>5, MaskTypes DEF pit_init
  <2> QED BY <1>5, <2>1, <2>2 DEF pit_init, TypeInv
<1>6. CASE static_start_shells
  <2>1. thread' \in [Groups -> Seq(Frame)]
    <3>1. [Top EXCEPT !.pc = "pit_init"] \in Frame
      BY <1>1, Working, HandlerPoints DEF Frame
    <3>2. \A g \in Groups : FakeFrame(BaseShell(g)) \in Frame
      BY GroupNumbers, HandlerPoints DEF FakeFrame, Frame, FrameWords, Kinds, Irqs
    <3>3. /\ <<[Top EXCEPT !.pc = "pit_init"]>> \in Seq(Frame)
          /\ \A g \in Groups : <<FakeFrame(BaseShell(g))>> \in Seq(Frame)
      BY <3>1, <3>2
    <3>4. thread' = [g \in Groups |-> IF g = 0 THEN <<[Top EXCEPT !.pc = "pit_init"]>>
                                               ELSE <<FakeFrame(BaseShell(g))>>]
      BY <1>6 DEF static_start_shells
    <3> QED BY <3>3, <3>4
  <2>2. procs' \in [Groups -> Seq(Pids)]
    <3>1. \A g \in Groups : <<BaseShell(g)>> \in Seq(Pids)
      BY GroupNumbers
    <3> QED BY <1>6, <3>1, GroupNumbers DEF static_start_shells, TypeInv
  <2>3. pcb' \in [Pids -> PCB] /\ active_pid' \in [Groups -> Pids]
    BY <1>6, ShellContexts, GroupNumbers DEF static_start_shells
  <2> QED BY <1>6, <2>1, <2>2, <2>3 DEF static_start_shells, TypeInv
<1> QED BY <1>2, <1>3, <1>4, <1>5, <1>6 DEF Boot

LEMMA NotCrashed ==
  /\ Execute \/ ExecuteFails \/ system_halt \/ schedule_next => ~crashed
  /\ pcb_teardown \/ static_start_shells => ~crashed
BY DEF Execute, Executing, ExecuteFails, system_halt, schedule_next, TeardownFree, TeardownActive, TeardownEsp0,
       TeardownClear, static_start_shells, At

LEMMA TypeStep == ASSUME TypeInv, StackInv, LeafInv, [Next]_vars PROVE TypeInv'
<1>1. CASE UNCHANGED vars
  BY <1>1 DEF vars, TypeInv
<1>2. CASE Next
  BY <1>2, NotCrashed, TypeReturn, TypeHandler, TypeCall, TypeTeardown, TypeBoot, TypeEntry DEF Next, Code
<1> QED BY <1>1, <1>2
-----------------------------------------------------------------------------
(* The groups.                                                               *)

Starting == {"i8259_init", "rtc_init", "keyboard_init", "shells"}
BootPc == thread[0][1].pc
Started == BootPc \notin Starting

\* Before the shells are started only the boot runs; from then on every other
\* group is inside the tick that took the CPU from it, or in the frame its shell
\* was given, and no process is in two groups.
GroupInv ==
  /\ thread[0] # <<>>
  /\ ~Started => /\ current_group = 0 /\ \A g \in Groups \ {0} : thread[g] = <<>>
                 /\ procs = [g \in Groups |-> <<0>>]
  /\ BootPc = "pit_init" => current_group = 0
  /\ Started => /\ \A g \in Groups \ {current_group} : thread[g] # <<>>
                /\ \A g, h \in Groups : g # h => Range(procs[g]) \cap Range(procs[h]) = {}
  /\ \A g \in Groups \ {current_group} : thread[g] # <<>> =>
        thread[g][Len(thread[g])].kind = IRQ_PIT /\ thread[g][Len(thread[g])].pc = "return"

\* What a step does to the stacks of its own group is all it does to the stacks.
LEMMA StackKept ==
  ASSUME TypeInv, StackInv, races' \in Nat, races <= races',
         NEW U, NEW Q, StackOf(U, Q, current_group = 0), Drifts(U, races'),
         thread'[current_group] = U, procs'[current_group] = Q,
         \A g \in Groups : g # current_group => thread'[g] = thread[g] /\ procs'[g] = procs[g]
  PROVE  StackInv'
<1>1. races \in Nat
  BY GroupNumbers DEF TypeInv
<1>2. ASSUME NEW g \in Groups PROVE StackOf(thread'[g], procs'[g], g = 0) /\ Drifts(thread'[g], races')
  <2>1. CASE g = current_group
    BY <2>1
  <2>2. CASE g # current_group
    <3>1. thread[g] \in Seq(Frame)
      BY DEF TypeInv
    <3>2. Drifts(thread[g], races) /\ StackOf(thread[g], procs[g], g = 0)
      BY DEF StackInv
    <3>3. Drifts(thread[g], races')
      BY <1>1, <3>1, <3>2, DriftsMore
    <3> QED BY <2>2, <3>2, <3>3
  <2> QED BY <2>1, <2>2
<1> QED BY <1>2 DEF StackInv

LEMMA StackTurned ==
  ASSUME TypeInv, StackInv, ~UserMode, Top.pc # "tail", NEW x \in PointsOf(Top.kind), x \notin {"exec", "tail"},
         GoTo(x), UNCHANGED <<procs, races>>
  PROVE  StackInv'
<1> DEFINE T == thread[current_group]
<1>1. x \in Points
  BY PointsCovered
<1>2. thread'[current_group] = Turn(T, x) /\ \A g \in Groups : g # current_group => thread'[g] = thread[g]
  BY <1>1, Turning
<1>3. /\ T \in Seq(Frame) /\ T # <<>> /\ Top = T[Len(T)] /\ Top.pc # "exec"
      /\ StackOf(T, procs[current_group], current_group = 0) /\ Drifts(T, races)
  BY Working
<1> HIDE DEF T
<1>4. StackOf(Turn(T, x), procs[current_group], current_group = 0)
  BY <1>3, StackTurn
<1>5. Drifts(Turn(T, x), races)
  BY <1>1, <1>3, DriftsTurn
<1>6. races \in Nat
  BY GroupNumbers DEF TypeInv
<1> QED BY <1>2, <1>4, <1>5, <1>6, StackKept

LEMMA StackHandler ==
  ASSUME TypeInv, StackInv,
         save_tss_esp \/ schedule_next \/ DeviceMask \/ DeviceEoi \/ DeviceUnmask \/ TickEoi
                      \/ ExecuteFails \/ OtherCall \/ TeardownActive \/ TeardownEsp0 \/ TeardownClear
  PROVE  StackInv'
<1>1. CASE save_tss_esp
  <2>1. ~UserMode /\ Top.kind \in Irqs \cup {CALL} /\ Top.pc = "return" /\ GoTo("iret") /\ UNCHANGED <<procs, races>>
    BY <1>1 DEF save_tss_esp, At, Irqs
  <2> QED BY <2>1, HandlerPoints, StackTurned
<1>2. CASE schedule_next
  <2>1. ~UserMode /\ Top.kind \in Irqs \cup {CALL} /\ Top.pc = "switch" /\ GoTo("return") /\ UNCHANGED <<procs, races>>
    BY <1>2 DEF schedule_next, At, Irqs
  <2> QED BY <2>1, HandlerPoints, StackTurned
<1>3. CASE DeviceMask
  <2>1. ~UserMode /\ Top.kind \in Device /\ Top.pc = "start" /\ GoTo("masked") /\ UNCHANGED <<procs, races>>
    BY <1>3 DEF DeviceMask, At, Device
  <2> QED BY <2>1, HandlerPoints, StackTurned
<1>4. CASE DeviceEoi
  <2>1. ~UserMode /\ Top.kind \in Device /\ Top.pc = "masked" /\ GoTo("acknowledged") /\ UNCHANGED <<procs, races>>
    BY <1>4 DEF DeviceEoi, At, Device
  <2> QED BY <2>1, HandlerPoints, StackTurned
<1>5. CASE DeviceUnmask
  <2>1. ~UserMode /\ Top.kind \in Irqs \cup {CALL} /\ Top.pc = "acknowledged" /\ GoTo("return") /\ UNCHANGED <<procs, races>>
    BY <1>5 DEF DeviceUnmask, At, Irqs
  <2> QED BY <2>1, HandlerPoints, StackTurned
<1>6. CASE TickEoi
  <2>1. ~UserMode /\ Top.kind = IRQ_PIT /\ Top.pc = "start" /\ GoTo("switch") /\ UNCHANGED <<procs, races>>
    BY <1>6 DEF TickEoi, At
  <2> QED BY <2>1, HandlerPoints, StackTurned
<1>7. CASE ExecuteFails \/ OtherCall
  <2>1. ~UserMode /\ Top.kind \in Irqs \cup {CALL} /\ Top.pc = "body" /\ GoTo("return") /\ UNCHANGED <<procs, races>>
    BY <1>7 DEF ExecuteFails, OtherCall, At
  <2> QED BY <2>1, HandlerPoints, StackTurned
<1>8. CASE TeardownActive \/ TeardownEsp0 \/ TeardownClear
  <2>1. ~UserMode /\ Top.kind = CALL /\ Top.pc # "tail"
    BY <1>8, CallKinds DEF Torn
  <2>2. PICK x \in {"moved", "aimed", "return"} : GoTo(x) /\ UNCHANGED <<procs, races>>
    BY <1>8 DEF TeardownActive, TeardownEsp0, TeardownClear
  <2>3. x \in PointsOf(CALL) /\ x \notin {"exec", "tail"}
    BY HandlerPoints
  <2> QED BY <2>1, <2>2, <2>3, StackTurned
<1> QED BY <1>1, <1>2, <1>3, <1>4, <1>5, <1>6, <1>7, <1>8

\* iret does not end the boot.
LEMMA Popping ==
  ASSUME TypeInv, StackInv, iret
  PROVE  LET T == thread[current_group] IN
         /\ ~UserMode /\ T \in Seq(Frame) /\ T # <<>> /\ Top = T[Len(T)] /\ T[Len(T)].pc = "iret"
         /\ T[Len(T)].kind # BOOT /\ ~(current_group = 0 /\ Len(T) = 1)
         /\ procs[current_group] \in Seq(Pids) /\ StackOf(T, procs[current_group], current_group = 0)
         /\ Front(T) \in Seq(Frame) /\ thread'[current_group] = Front(T)
         /\ \A g \in Groups : g # current_group => thread'[g] = thread[g]
<1> DEFINE T == thread[current_group]
<1>1. ~UserMode /\ Top.pc = "iret" /\ thread' = [thread EXCEPT ![current_group] = Front(T)]
  BY DEF iret, InIretStub
<1>2. /\ T \in Seq(Frame) /\ T # <<>> /\ Len(T) \in 1 .. Len(T) /\ Top = T[Len(T)] /\ Top.pc \in PointsOf(Top.kind)
      /\ StackOf(T, procs[current_group], current_group = 0)
  BY <1>1, Working
<1>3. Top.kind # BOOT
  BY <1>1, <1>2, KindsApart DEF PointsOf, BootPoints, Irqs, Device
<1>4. Len(T) = 1 /\ current_group = 0 => T[Len(T)].kind = BOOT
  BY <1>2 DEF StackOf, Shaped
<1>5. procs[current_group] \in Seq(Pids)
  BY Current
<1>6. Front(T) \in Seq(Frame)
  BY <1>2, FrontOf
<1> QED BY <1>1, <1>2, <1>3, <1>4, <1>5, <1>6, SetThread

LEMMA StackIret == ASSUME TypeInv, StackInv, iret PROVE StackInv'
<1> DEFINE T == thread[current_group]
           P == procs[current_group]
<1>1. /\ ~UserMode /\ T \in Seq(Frame) /\ T # <<>> /\ Top = T[Len(T)] /\ T[Len(T)].pc = "iret"
      /\ ~(current_group = 0 /\ Len(T) = 1)
      /\ P \in Seq(Pids) /\ StackOf(T, P, current_group = 0)
      /\ thread'[current_group] = Front(T)
      /\ \A g \in Groups : g # current_group => thread'[g] = thread[g]
  BY Popping
<1>2. Drifts(T, races)
  BY <1>1, Working
<1>3. races \in Nat /\ procs' = procs /\ races' = races
  BY GroupNumbers DEF TypeInv, iret
<1>4. procs'[current_group] = P /\ \A g \in Groups : g # current_group => procs'[g] = procs[g]
  BY <1>3
<1> HIDE DEF T, P
<1>5. StackOf(Front(T), P, current_group = 0)
  BY <1>1, StackPop
<1>6. Drifts(Front(T), races')
  BY <1>1, <1>2, <1>3, DriftsPop
<1>7. races' \in Nat /\ races <= races'
  BY <1>3
<1>8. thread'[current_group] = Front(T)
      /\ \A g \in Groups : g # current_group => thread'[g] = thread[g] /\ procs'[g] = procs[g]
  BY <1>1, <1>4
<1> QED BY <1>4, <1>5, <1>6, <1>7, <1>8, StackKept

LEMMA StackCall == ASSUME TypeInv, StackInv, Execute \/ system_halt \/ TeardownFree PROVE StackInv'
<1> DEFINE T == thread[current_group]
           P == procs[current_group]
<1>1. Execute => Executing
  BY DEF Execute
<1>2. ~UserMode
  BY <1>1, CallKinds
<1>3. /\ T \in Seq(Frame) /\ T # <<>> /\ Top = T[Len(T)] /\ Top.pc # "exec"
      /\ StackOf(T, P, current_group = 0) /\ Drifts(T, races)
  BY <1>2, Working
<1>4. races \in Nat /\ races' = races /\ P \in Seq(Pids)
  BY GroupNumbers, Current DEF TypeInv, Execute, system_halt, TeardownFree
<1>5. CASE Execute
  <2>1. get_new_pid \in Pids /\ get_new_pid \notin Range(P)
    BY <1>5, NewPid, Current DEF Execute
  <2>2. thread'[current_group] = Turn(T, "exec") /\ \A g \in Groups : g # current_group => thread'[g] = thread[g]
    BY <1>2, <1>5, HandlerPoints, Turning DEF Execute
  <2>3. procs'[current_group] = Append(P, get_new_pid) /\ \A g \in Groups : g # current_group => procs'[g] = procs[g]
    BY <1>5, SetProcs DEF Execute
  <2>4. Top.kind \in {CALL, BOOT} /\ Top.pc \notin {"exec", "tail"}
    BY <1>1, <1>5, CallKinds
  <2>5. Top.kind \notin Irqs /\ "exec" \in PointsOf(Top.kind)
    BY <2>4, KindsApart, HandlerPoints
  <2> HIDE DEF T, P
  <2>6. StackOf(Turn(T, "exec"), Append(P, get_new_pid), current_group = 0)
    BY <1>3, <1>4, <2>1, <2>4, <2>5, StackExec
  <2>7. Drifts(Turn(T, "exec"), races)
    BY <1>3, HandlerPoints, DriftsTurn
  <2>8. races' \in Nat /\ races <= races'
    BY <1>4
  <2>9. \A g \in Groups : g # current_group => thread'[g] = thread[g] /\ procs'[g] = procs[g]
    BY <2>2, <2>3
  <2>10. Drifts(Turn(T, "exec"), races')
    BY <1>4, <2>7
  <2> QED BY <2>2, <2>3, <2>6, <2>8, <2>9, <2>10, StackKept
<1>6. CASE system_halt
  <2>1. /\ Front(T) \in Seq(Frame) /\ Front(T) # <<>>
        /\ Front(T)[Len(Front(T))].kind = CALL /\ Front(T)[Len(Front(T))].pc = "exec"
        /\ StackOf(Front(T), P, current_group = 0) /\ Drifts(Front(T), races)
        /\ \/ thread' = [thread EXCEPT ![current_group] = Turn(Front(T), "tail")]
           \/ thread' = thread
    BY <1>6, Halting
  <2>3. procs' = procs
    BY <1>6 DEF system_halt
  <2>6. CASE thread' = thread
    BY <1>4, <2>3, <2>6 DEF StackInv
  <2>7. CASE thread' = [thread EXCEPT ![current_group] = Turn(Front(T), "tail")]
    <3>1. /\ thread'[current_group] = Turn(Front(T), "tail")
          /\ \A g \in Groups : g # current_group => thread'[g] = thread[g]
      BY <2>7, SetThread
    <3> HIDE DEF T
    <3>2. StackOf(Turn(Front(T), "tail"), P, current_group = 0)
      BY <2>1, StackTail
    <3>3. Drifts(Turn(Front(T), "tail"), races)
      BY <2>1, HandlerPoints, DriftsTurn
    <3> QED BY <1>4, <2>3, <3>1, <3>2, <3>3, StackKept
  <2> QED BY <2>1, <2>6, <2>7
<1>7. CASE TeardownFree
  <2>1. Top.kind = CALL /\ Top.pc = "tail"
    BY <1>7, CallKinds
  <2>2. thread'[current_group] = Turn(T, "freed") /\ \A g \in Groups : g # current_group => thread'[g] = thread[g]
    BY <1>2, <1>7, HandlerPoints, Turning DEF TeardownFree
  <2>3. procs'[current_group] = Front(P) /\ \A g \in Groups : g # current_group => procs'[g] = procs[g]
    BY <1>7, SetProcs DEF TeardownFree
  <2> HIDE DEF T, P
  <2>4. StackOf(Turn(T, "freed"), Front(P), current_group = 0)
    BY <1>3, <1>4, <2>1, StackTeardown
  <2>5. Drifts(Turn(T, "freed"), races)
    BY <1>3, HandlerPoints, DriftsTurn
  <2> QED BY <1>4, <2>2, <2>3, <2>4, <2>5, StackKept
<1> QED BY <1>5, <1>6, <1>7

\* tss.esp0: in user mode, and where an iret is about to go back, it is on the
\* stack of the process that runs, as high as the interrupts of the stub allow.
TssInv ==
  LET T == thread[current_group]
      P == procs[current_group]
  IN  /\ UserMode => tss_esp0.pid = P[Len(P)] /\ tss_esp0.depth <= 8 * races
      /\ ~UserMode /\ T[Len(T)].pc = "iret" =>
            /\ tss_esp0.pid = T[Len(T)].pid
            /\ InChain(T, Len(T)) => tss_esp0.depth <= 8 * races

LEMMA StackEntered ==
  ASSUME TypeInv, StackInv, GroupInv, TssInv, NEW kind \in Irqs \cup {CALL, EXC}, NEW x \in PointsOf(kind),
         x \notin {"exec", "tail"}, kind \notin Irqs => UserMode, NEW w \in Nat, Enter(kind, x, w),
         UNCHANGED procs, races' \in Nat, races <= races', InIretStub => races < races' /\ w <= 3
  PROVE  StackInv'
<1>1. x \in Points
  BY PointsCovered
<1>2. PICK f \in Frame : Entered(f, kind, x, w)
  BY <1>1, EnteredThread
<1> DEFINE T == thread[current_group]
           P == procs[current_group]
           b == current_group = 0
<1>3. /\ thread'[current_group] = Append(T, f)
      /\ \A g \in Groups : g # current_group => thread'[g] = thread[g]
  BY <1>2, SetThread DEF Entered
<1>4. races \in Nat /\ FrameWords(3) = 5 /\ FrameWords(0) = 3 /\ kind # BOOT
  BY GroupNumbers, KindsApart DEF TypeInv, FrameWords
<1>5. T \in Seq(Frame) /\ P \in Seq(Pids) /\ StackOf(T, P, b) /\ Drifts(T, races) /\ (b => T # <<>>)
      /\ (UserMode <=> InUser(T))
  BY Current DEF StackInv, GroupInv
<1>6. procs'[current_group] = P /\ \A g \in Groups : g # current_group => procs'[g] = procs[g]
  OBVIOUS
<1>7. CASE UserMode
  <2>1. tss_esp0.depth \in Nat /\ tss_esp0.pid = P[Len(P)] /\ tss_esp0.depth <= 8 * races
    BY <1>7 DEF TypeInv, Spot, TssInv
  <2>2. f.ring = 3 /\ f.pid = P[Len(P)] /\ f.esp >= FrameWords(3) /\ f.esp - FrameWords(3) <= 8 * races'
    BY <1>2, <1>4, <1>7, <2>1 DEF Entered
  <2> HIDE DEF T, P, b
  <2>3. b \in BOOLEAN
    BY DEF b
  <2>4. StackOf(Append(T, f), P, b)
    BY <1>2, <1>4, <1>5, <1>7, <2>2, <2>3, StackPushUser DEF Entered
  <2>5. Drifts(Append(T, f), races')
    BY <1>4, <1>5, <2>2, DriftsPush
  <2> QED BY <1>3, <1>6, <2>4, <2>5, StackKept DEF b
<1>8. CASE ~UserMode
  <2>1. T # <<>> /\ Top = T[Len(T)] /\ Top \in Frame /\ Top.pc # "exec" /\ (Top.pc = "iret" => InIretStub)
    BY <1>8, Working DEF InIretStub
  <2>2. Top.esp \in Nat
    BY <2>1 DEF Frame
  <2>3. f.ring = 0 /\ f.pid = T[Len(T)].pid /\ f.kind \in Irqs /\ f.esp = (Top.esp + w) + 3
    BY <1>2, <1>4, <1>8, <2>1 DEF Entered
  <2>4. Top.esp <= f.esp - FrameWords(0) /\ (w <= 3 => f.esp - FrameWords(0) <= Top.esp + 3)
    BY <1>4, <2>2, <2>3
  <2> HIDE DEF T, P, b
  <2>5. b \in BOOLEAN
    BY DEF b
  <2>6. StackOf(Append(T, f), P, b)
    BY <1>2, <1>5, <2>1, <2>3, <2>4, <2>5, StackPushKernel DEF Entered
  <2>7. Drifts(Append(T, f), races')
    BY <1>4, <1>5, <2>1, <2>3, <2>4, DriftsPush
  <2> QED BY <1>3, <1>6, <2>6, <2>7, StackKept DEF b
<1> QED BY <1>7, <1>8

LEMMA StackEntry ==
  ASSUME TypeInv, StackInv, GroupInv, TssInv, SystemCall \/ Exception \/ \E irq \in Irqs : Interrupt(irq)
  PROVE  StackInv'
<1>1. races \in Nat /\ LOCALS \in Nat
  BY GroupNumbers DEF TypeInv
<1>2. CASE SystemCall
  <2>1. UserMode /\ ~InIretStub /\ Enter(CALL, "body", LOCALS) /\ UNCHANGED <<procs, races>>
    BY <1>2 DEF SystemCall, InIretStub
  <2>2. races' \in Nat /\ races <= races'
    BY <1>1, <2>1
  <2> QED BY <1>1, <2>1, <2>2, PointsCovered, StackEntered
<1>3. CASE Exception
  <2>1. UserMode /\ ~InIretStub /\ Enter(EXC, "body", LOCALS) /\ UNCHANGED <<procs, races>>
    BY <1>3 DEF Exception, InIretStub
  <2>2. races' \in Nat /\ races <= races'
    BY <1>1, <2>1
  <2> QED BY <1>1, <2>1, <2>2, PointsCovered, StackEntered
<1>4. ASSUME NEW irq \in Irqs, Interrupt(irq) PROVE StackInv'
  <2>1. PICK w \in IF InIretStub THEN IretWords ELSE {LOCALS} : Enter(irq, "start", w)
    BY <1>4 DEF Interrupt
  <2>2. w \in Nat /\ (InIretStub => w <= 3)
    BY <2>1, <1>1, GroupNumbers
  <2>3. races' \in Nat /\ races <= races' /\ (InIretStub => races < races') /\ UNCHANGED procs
    BY <1>1, <1>4 DEF Interrupt
  <2> QED BY <2>1, <2>2, <2>3, PointsCovered, StackEntered
<1> QED BY <1>2, <1>3, <1>4

\* A shell as the boot leaves it.
LEMMA FakeStack ==
  ASSUME NEW p \in Pids, NEW r \in Nat
  PROVE  StackOf(<<FakeFrame(p)>>, <<p>>, FALSE) /\ Drifts(<<FakeFrame(p)>>, r)
<1> DEFINE f == FakeFrame(p)
           T == <<f>>
           P == <<p>>
<1>1. /\ f.kind = IRQ_PIT /\ f.pc = "return" /\ f.pid = p /\ f.esp = FrameWords(3) /\ f.ring = 3
      /\ FrameWords(3) = 5 /\ "return" \in PointsOf(IRQ_PIT)
  BY HandlerPoints DEF FakeFrame, FrameWords, Irqs
<1>2. Len(T) = 1 /\ T[1] = f /\ Len(P) = 1 /\ P[1] = p /\ p \in Range(P)
  BY DEF Range
<1>3. 1 .. 1 = {1} /\ \A i \in 2 .. 1 : FALSE
  OBVIOUS
<1> HIDE DEF f, T, P
<1>4. Shaped(T, FALSE)
  BY <1>1, <1>2, <1>3, KindsApart DEF Shaped, Irqs
<1>5. Placed(T, P)
  BY <1>1, <1>2, <1>3 DEF Placed
<1>6. Children(T, P)
  BY <1>1, <1>2, <1>3 DEF Children
<1>7. Tops(T, P)
  BY <1>1, <1>2, <1>3 DEF Tops, Tailed
<1>8. Distinct(P)
  BY <1>2, <1>3 DEF Distinct, P
<1>9. Drifts(T, r)
  BY <1>1, <1>2, <1>3 DEF Drifts
<1> QED BY <1>4, <1>5, <1>6, <1>7, <1>8, <1>9 DEF StackOf, f, T, P

LEMMA BootKinds ==
  ASSUME TypeInv, StackInv, Boot
  PROVE  ~UserMode /\ Top.kind = BOOT /\ current_group = 0 /\ Len(thread[0]) = 1 /\ Top = thread[0][1] /\ Top.pc # "tail"
<1>1. ~UserMode /\ Top.kind = BOOT /\ Top.pc # "tail"
  BY DEF Boot, i8259_init, rtc_init, keyboard_init, static_start_shells, pit_init, At
<1> QED BY <1>1, Working

\* The threads and the processes once the shells have been started.
LEMMA ShellThreads ==
  ASSUME TypeInv, StackInv, static_start_shells
  PROVE  /\ thread'[0] = Turn(thread[0], "pit_init") /\ procs'[0] = procs[0]
         /\ \A g \in Groups \ {0} : thread'[g] = <<FakeFrame(BaseShell(g))>> /\ procs'[g] = <<BaseShell(g)>>
<1>1. ~UserMode /\ current_group = 0 /\ Len(thread[0]) = 1 /\ Top = thread[0][1]
  BY BootKinds DEF Boot
<1>2. thread[0] \in Seq(Frame) /\ thread[0] # <<>>
  BY <1>1, Working
<1>3. Front(thread[0]) = <<>> /\ Last(thread[0]) = Top
  <2>1. Front(thread[0]) \in Seq(Frame) /\ Len(Front(thread[0])) = 1 - 1 /\ Last(thread[0]) = thread[0][1]
    BY <1>1, <1>2, FrontOf
  <2>2. Len(Front(thread[0])) = 0
    BY <2>1
  <2> QED BY <1>1, <2>1, <2>2, EmptySeq
<1>4. Turn(thread[0], "pit_init") = <<[Top EXCEPT !.pc = "pit_init"]>>
  BY <1>3 DEF Turn
<1> QED BY <1>4, GroupNumbers DEF static_start_shells

LEMMA StackBoot == ASSUME TypeInv, StackInv, Boot PROVE StackInv'
<1>1. ~UserMode /\ Top.kind = BOOT /\ current_group = 0 /\ Len(thread[0]) = 1 /\ Top = thread[0][1] /\ Top.pc # "tail"
  BY BootKinds
<1>2. \A x \in {"rtc_init", "keyboard_init", "shells", "pit_init", "loop"} :
         x \in PointsOf(BOOT) /\ x \notin {"exec", "tail"}
  BY HandlerPoints DEF BootPoints
<1>3. CASE i8259_init \/ rtc_init \/ keyboard_init \/ pit_init
  <2>1. PICK x \in {"rtc_init", "keyboard_init", "shells", "pit_init", "loop"} : GoTo(x)
    BY <1>3 DEF i8259_init, rtc_init, keyboard_init, pit_init
  <2>2. UNCHANGED <<procs, races>>
    BY <1>3 DEF i8259_init, rtc_init, keyboard_init, pit_init
  <2> QED BY <1>1, <1>2, <2>1, <2>2, StackTurned
<1>4. CASE static_start_shells
  <2>1. /\ thread'[0] = Turn(thread[0], "pit_init") /\ procs'[0] = procs[0] /\ races' = races
        /\ \A g \in Groups \ {0} : thread'[g] = <<FakeFrame(BaseShell(g))>> /\ procs'[g] = <<BaseShell(g)>>
    BY <1>4, ShellThreads DEF static_start_shells
  <2>2. StackOf(Turn(thread[0], "pit_init"), procs[0], 0 = 0) /\ Drifts(Turn(thread[0], "pit_init"), races)
    BY <1>1, <1>2, Working, HandlerPoints, StackTurn, DriftsTurn
  <2>3. races \in Nat
    BY GroupNumbers DEF TypeInv
  <2>4. ASSUME NEW g \in Groups PROVE StackOf(thread'[g], procs'[g], g = 0) /\ Drifts(thread'[g], races')
    <3>1. CASE g = 0
      BY <2>1, <2>2, <3>1
    <3>2. CASE g # 0
      <4>1. StackOf(<<FakeFrame(BaseShell(g))>>, <<BaseShell(g)>>, FALSE) /\ Drifts(<<FakeFrame(BaseShell(g))>>, races)
        BY <2>3, GroupNumbers, FakeStack
      <4>2. (g = 0) = FALSE
        BY <3>2
      <4> QED BY <2>1, <3>2, <4>1, <4>2
    <3> QED BY <3>1, <3>2
  <2> QED BY <2>4 DEF StackInv
<1> QED BY <1>3, <1>4 DEF Boot

LEMMA StackStep == ASSUME TypeInv, StackInv, GroupInv, TssInv, [Next]_vars PROVE StackInv'
<1>1. CASE UNCHANGED vars
  BY <1>1 DEF vars, StackInv
<1>2. CASE Next
  BY <1>2, StackHandler, StackIret, StackCall, StackBoot, StackEntry DEF Next, Code
<1> QED BY <1>1, <1>2
-----------------------------------------------------------------------------
(* The boot.                                                                 *)

\* Interrupts are off until the RTC is started, ticks masked until the PIT is,
\* and nothing but interrupts nests in the boot before it has executed a shell.
BootInv ==
  /\ BootPc \in {"i8259_init", "rtc_init"} => ~IF_flag /\ Len(thread[0]) = 1
  /\ BootPc \in Starting \cup {"pit_init"} =>
        IRQ_PIT \in imr /\ \A i \in 1 .. Len(thread[0]) : thread[0][i].kind # IRQ_PIT
  /\ BootPc # "exec" => \A i \in 2 .. Len(thread[0]) : thread[0][i].kind \in Irqs

LEMMA MoreThanOne ==
  \A n \in Nat \ {0} : n # 1 => n \in 2 .. n /\ 1 \in 1 .. n - 1 /\ n - 1 <= n /\ n - 1 # 0
OBVIOUS

LEMMA FirstFrame ==
  ASSUME TypeInv, StackInv, GroupInv
  PROVE  /\ 0 \in Groups /\ thread[0] \in Seq(Frame) /\ thread[0] # <<>> /\ Len(thread[0]) \in Nat \ {0}
         /\ 1 \in 1 .. Len(thread[0]) /\ thread[0][1].kind = BOOT /\ BootPc \in BootPoints \cup {"exec"}
         /\ \A i \in 1 .. Len(thread[0]) : thread[0][i].kind = BOOT <=> i = 1
<1>1. 0 \in Groups /\ thread[0] \in Seq(Frame) /\ thread[0] # <<>>
  BY GroupNumbers DEF TypeInv, GroupInv
<1>2. Len(thread[0]) \in Nat \ {0}
  BY <1>1, FrontOf
<1>3. Shaped(thread[0], 0 = 0)
  BY <1>1 DEF StackInv, StackOf
<1>4. 1 \in 1 .. Len(thread[0])
  BY <1>2
<1>5. /\ thread[0][1].kind = BOOT /\ thread[0][1].pc \in PointsOf(BOOT)
      /\ \A i \in 1 .. Len(thread[0]) : thread[0][i].kind = BOOT <=> i = 1
  BY <1>3, <1>4 DEF Shaped
<1>6. PointsOf(BOOT) = BootPoints \cup {"exec"}
  BY KindsApart DEF PointsOf, Irqs, Device
<1> QED BY <1>1, <1>2, <1>4, <1>5, <1>6 DEF BootPc

\* In user mode in the first group, the boot has executed a shell.
LEMMA BootUser == ASSUME TypeInv, StackInv, GroupInv, BootInv, current_group = 0, UserMode PROVE BootPc = "exec"
<1> DEFINE T == thread[0]
           n == Len(T)
<1>1. T \in Seq(Frame) /\ T # <<>> /\ n \in Nat \ {0} /\ T[n].pc = "exec" /\ n \in 1 .. n
  BY FirstFrame, Current DEF InUser
<1>2. Shaped(T, 0 = 0)
  BY FirstFrame DEF StackInv, StackOf
<1>3. CASE n = 1
  BY <1>1, <1>3 DEF BootPc
<1>4. CASE n # 1
  <2>1. n \in 2 .. n
    BY <1>1, <1>4, MoreThanOne, Zenon
  <2>2. T[n].pc \in PointsOf(T[n].kind)
    BY <1>1, <1>2 DEF Shaped
  <2>3. T[n].kind \notin Irqs
    BY <1>1, <2>2, KindsApart DEF PointsOf, Irqs, Device
  <2> QED BY <2>1, <2>3 DEF BootInv
<1> QED BY <1>3, <1>4

\* Before that, the frame that runs in the first group is the boot's or an
\* interrupt's; and before the PIT is started it is no tick's.
LEMMA BootTop ==
  ASSUME TypeInv, StackInv, GroupInv, BootInv, current_group = 0, ~UserMode
  PROVE  /\ BootPc # "exec" => Top.kind \in Irqs \cup {BOOT}
         /\ BootPc \in Starting \cup {"pit_init"} => Top.kind # IRQ_PIT
         /\ BootPc \in {"i8259_init", "rtc_init"} => Top.kind = BOOT
<1> DEFINE n == Len(thread[0])
<1>1. n \in 1 .. n /\ Top = thread[0][n] /\ (n = 1 => Top.kind = BOOT) /\ n \in Nat \ {0}
  BY Working, FirstFrame
<1>2. n # 1 => n \in 2 .. n
  BY <1>1, MoreThanOne, Zenon
<1> QED BY <1>1, <1>2 DEF BootInv

\* The steps other than those of the boot and the entries.
Plain ==
  \/ save_tss_esp \/ iret \/ DeviceMask \/ DeviceEoi \/ DeviceUnmask \/ TickEoi \/ schedule_next
  \/ Execute /\ Top.kind = CALL
  \/ ExecuteFails \/ OtherCall \/ system_halt \/ pcb_teardown

\* A step that leaves the boot where it is and pushes nothing on its group.
Quiet ==
  /\ thread'[0] \in Seq(Frame) /\ thread'[0] # <<>> /\ BootPc' = BootPc /\ Len(thread'[0]) <= Len(thread[0])
  /\ \A i \in 1 .. Len(thread'[0]) : thread'[0][i].kind = thread[0][i].kind

LEMMA QuietElsewhere ==
  ASSUME TypeInv, StackInv, GroupInv, thread'[0] = thread[0]
  PROVE  Quiet
<1>1. thread[0] \in Seq(Frame) /\ thread[0] # <<>> /\ Len(thread[0]) \in Nat
  BY FirstFrame
<1> QED BY <1>1 DEF Quiet, BootPc

LEMMA QuietTurn ==
  ASSUME TypeInv, StackInv, GroupInv, ~UserMode, Top.kind # BOOT, NEW x \in Points, GoTo(x)
  PROVE  Quiet
<1>1. /\ thread'[current_group] = Turn(thread[current_group], x)
      /\ \A g \in Groups : g # current_group => thread'[g] = thread[g]
  BY Turning
<1>2. CASE current_group # 0
  BY <1>1, <1>2, GroupNumbers, QuietElsewhere
<1>3. CASE current_group = 0
  <2> DEFINE T == thread[0]
             U == Turn(T, x)
             n == Len(T)
  <2>1. T \in Seq(Frame) /\ T # <<>> /\ thread'[0] = U /\ n # 1
    <3>1. Top = T[n]
      BY <1>3, Working
    <3> QED BY <1>1, <1>3, <3>1, FirstFrame
  <2>2. /\ n \in Nat \ {0} /\ U \in Seq(Frame) /\ Len(U) = n /\ U # <<>>
        /\ \A i \in 1 .. n : U[i].kind = T[i].kind /\ U[i].pc = IF i = n THEN x ELSE T[i].pc
    BY <2>1, TurnFields
  <2>3. 1 \in 1 .. n /\ n <= n
    BY <2>2
  <2> HIDE DEF U
  <2>4. U[1].pc = T[1].pc
    BY <2>1, <2>2, <2>3
  <2> QED BY <2>1, <2>2, <2>3, <2>4 DEF Quiet, BootPc
<1> QED BY <1>2, <1>3

LEMMA QuietPop == ASSUME TypeInv, StackInv, GroupInv, iret PROVE Quiet
<1>1. CASE current_group # 0
  BY <1>1, GroupNumbers, Popping, QuietElsewhere
<1>2. CASE current_group = 0
  <2> DEFINE T == thread[0]
             U == Front(T)
             n == Len(T)
  <2>1. T \in Seq(Frame) /\ T # <<>> /\ thread'[0] = U /\ n # 1
    BY <1>2, Popping
  <2>2. n \in Nat \ {0} /\ U \in Seq(Frame) /\ Len(U) = n - 1 /\ \A i \in 1 .. n - 1 : U[i] = T[i]
    BY <2>1, FrontOf
  <2>3. 1 \in 1 .. n - 1 /\ n - 1 <= n /\ n - 1 # 0
    BY <2>1, <2>2, MoreThanOne, Zenon
  <2> HIDE DEF U
  <2>4. U # <<>>
    BY <2>2, <2>3, EmptySeq
  <2> QED BY <2>1, <2>2, <2>3, <2>4 DEF Quiet, BootPc
<1> QED BY <1>1, <1>2

LEMMA QuietHalt == ASSUME TypeInv, StackInv, GroupInv, system_halt PROVE Quiet
<1> DEFINE V == Front(thread[current_group])
<1>1. /\ V \in Seq(Frame) /\ V # <<>> /\ V[Len(V)].kind = CALL
      /\ thread' = thread \/ thread' = [thread EXCEPT ![current_group] = Turn(V, "tail")]
      /\ StackOf(V, procs[current_group], current_group = 0)
  BY Halting
<1>5. CASE thread' = thread
  BY <1>5, QuietElsewhere
<1>6. SUFFICES ASSUME thread' = [thread EXCEPT ![current_group] = Turn(V, "tail")] PROVE Quiet
  BY <1>1, <1>5
<1>2. /\ thread'[current_group] = Turn(V, "tail")
      /\ \A g \in Groups : g # current_group => thread'[g] = thread[g]
  BY <1>6, SetThread
<1>3. CASE current_group # 0
  BY <1>2, <1>3, GroupNumbers, QuietElsewhere
<1>4. CASE current_group = 0
  <2> DEFINE T == thread[0]
             n == Len(T)
             m == Len(V)
             U == Turn(V, "tail")
  <2>1. T \in Seq(Frame) /\ T # <<>> /\ n \in Nat \ {0}
    BY FirstFrame
  <2>2. m = n - 1 /\ \A i \in 1 .. n - 1 : V[i] = T[i]
    BY <1>4, <2>1, FrontOf
  <2>3. /\ m \in Nat \ {0} /\ U \in Seq(Frame) /\ Len(U) = m /\ U # <<>>
        /\ \A i \in 1 .. m : U[i].kind = V[i].kind /\ U[i].pc = IF i = m THEN "tail" ELSE V[i].pc
    BY <1>1, HandlerPoints, TurnFields
  <2>4. 1 \in 1 .. m /\ 1 \in 1 .. n - 1 /\ m <= n
    BY <2>1, <2>2, <2>3
  <2>5. V[1].kind = BOOT
    BY <2>2, <2>4, FirstFrame
  <2>6. m # 1
    BY <2>5, <1>1, KindsApart
  <2> HIDE DEF U, V, T
  <2>7. U[1].pc = T[1].pc
    BY <2>2, <2>3, <2>4, <2>6
  <2>8. thread'[0] = U
    BY <1>2, <1>4 DEF U
  <2> QED BY <2>2, <2>3, <2>4, <2>7, <2>8 DEF Quiet, BootPc, T
<1> QED BY <1>3, <1>4

LEMMA PlainTop ==
  ASSUME Plain
  PROVE  /\ ~UserMode
         /\ iret \/ (Top.kind # BOOT /\ Top.pc # "exec")
         /\ \/ Top.kind = IRQ_PIT
            \/ Top.kind \in Device
            \/ Top.kind \in {CALL, EXC}
            \/ iret
<1>1. Execute /\ Top.kind = CALL => ~UserMode /\ Top.pc # "exec"
  BY CallKinds DEF Execute
<1> QED BY <1>1, KindsApart
        DEF Plain, save_tss_esp, iret, InIretStub, DeviceMask, DeviceEoi, DeviceUnmask, TickEoi, schedule_next,
            ExecuteFails, OtherCall, system_halt, TeardownFree, TeardownActive, TeardownEsp0, TeardownClear, At, Irqs, Device

LEMMA PlainQuiet ==
  ASSUME TypeInv, StackInv, GroupInv, Plain
  PROVE  /\ ~UserMode /\ Top.kind # BOOT /\ Quiet
         /\ IRQ_PIT \in imr => IRQ_PIT \in imr'
<1>1. ~UserMode /\ Top.kind # BOOT
  BY PlainTop, Popping
<1>2. Quiet
  <2>1. CASE iret
    BY <2>1, QuietPop
  <2>2. CASE system_halt
    BY <2>2, QuietHalt
  <2>3. CASE ~iret /\ ~system_halt
    <3>1. PICK x \in {"masked", "acknowledged", "switch", "exec", "freed", "moved", "aimed", "return", "iret"} : GoTo(x)
      BY <2>3 DEF Plain, save_tss_esp, DeviceMask, DeviceEoi, DeviceUnmask, TickEoi, schedule_next,
                  Execute, ExecuteFails, OtherCall, TeardownFree, TeardownActive, TeardownEsp0, TeardownClear
    <3>2. x \in Points
      BY HandlerPoints
    <3> QED BY <1>1, <3>1, <3>2, QuietTurn
  <2> QED BY <2>1, <2>2, <2>3
<1>3. IRQ_PIT \in imr => IRQ_PIT \in imr'
  <2>1. CASE DeviceMask
    BY <2>1 DEF DeviceMask, disable_irq
  <2>2. CASE DeviceUnmask
    <3>1. Top.kind \in Device /\ imr' = imr \ {Top.kind, Line(Top.kind)}
      BY <2>2 DEF DeviceUnmask, enable_irq, At, Device
    <3>2. Top.kind # IRQ_PIT /\ Line(Top.kind) # IRQ_PIT
      BY <3>1 DEF Device, Line, IRQ_PIT, IRQ_KB, IRQ_RTC, SLAVE_IRQ_LINE
    <3> QED BY <3>1, <3>2
  <2>3. CASE ~DeviceMask /\ ~DeviceUnmask
    BY <2>3 DEF Plain, save_tss_esp, iret, DeviceEoi, TickEoi, schedule_next,
                Execute, ExecuteFails, OtherCall, system_halt, TeardownFree, TeardownActive, TeardownEsp0, TeardownClear
  <2> QED BY <2>1, <2>2, <2>3
<1> QED BY <1>1, <1>2, <1>3

LEMMA BootPlain == ASSUME TypeInv, StackInv, GroupInv, BootInv, Plain PROVE BootInv'
<1>1. ~UserMode /\ Top.kind # BOOT /\ Quiet /\ (IRQ_PIT \in imr => IRQ_PIT \in imr')
  BY PlainQuiet
<1>2. BootPc \notin {"i8259_init", "rtc_init"}
  <2>1. CASE BootPc \in {"i8259_init", "rtc_init"}
    <3>1. current_group = 0
      BY <2>1 DEF GroupInv, Started, Starting
    <3> QED BY <1>1, <2>1, <3>1, BootTop
  <2> QED BY <2>1
<1>3. Len(thread[0]) \in Nat /\ Len(thread'[0]) \in Nat /\ Len(thread'[0]) <= Len(thread[0])
  BY <1>1, FirstFrame, LenProperties DEF Quiet
<1>4. \A m, n \in Nat : m <= n => 1 .. m \subseteq 1 .. n /\ 2 .. m \subseteq 2 .. n /\ 2 .. m \subseteq 1 .. m
  OBVIOUS
<1>5. /\ 1 .. Len(thread'[0]) \subseteq 1 .. Len(thread[0]) /\ 2 .. Len(thread'[0]) \subseteq 2 .. Len(thread[0])
      /\ 2 .. Len(thread'[0]) \subseteq 1 .. Len(thread'[0])
  BY <1>3, <1>4, Zenon
<1>6. BootPc' = BootPc /\ \A i \in 1 .. Len(thread'[0]) : thread'[0][i].kind = thread[0][i].kind
  BY <1>1 DEF Quiet
<1>7. ASSUME BootPc \in Starting \cup {"pit_init"}
      PROVE  IRQ_PIT \in imr' /\ \A i \in 1 .. Len(thread'[0]) : thread'[0][i].kind # IRQ_PIT
  BY <1>1, <1>5, <1>6, <1>7 DEF BootInv
<1>8. ASSUME BootPc # "exec" PROVE \A i \in 2 .. Len(thread'[0]) : thread'[0][i].kind \in Irqs
  BY <1>5, <1>6, <1>8 DEF BootInv
<1> QED BY <1>2, <1>6, <1>7, <1>8 DEF BootInv

\* A step of the boot itself, and the execute of its shell.
LEMMA BootTurn ==
  ASSUME TypeInv, StackInv, GroupInv, ~UserMode, Top.kind = BOOT, NEW x \in Points, GoTo(x)
  PROVE  /\ current_group = 0 /\ BootPc = Top.pc /\ thread'[0] # <<>> /\ BootPc' = x /\ Len(thread'[0]) = 1
         /\ thread'[0][1].kind = BOOT /\ \A g \in Groups \ {0} : thread'[g] = thread[g]
<1>1. current_group = 0 /\ Len(thread[0]) = 1 /\ Top = thread[0][1]
  BY Working
<1>2. /\ thread'[0] = Turn(thread[0], x)
      /\ \A g \in Groups \ {0} : thread'[g] = thread[g]
  BY <1>1, Turning
<1>3. thread[0] \in Seq(Frame) /\ thread[0] # <<>> /\ 1 \in 1 .. Len(thread[0])
  BY FirstFrame
<1>4. LET U == Turn(thread[0], x) IN
      /\ U # <<>> /\ Len(U) = Len(thread[0])
      /\ \A i \in 1 .. Len(thread[0]) : U[i].kind = thread[0][i].kind /\ U[i].pc = IF i = Len(thread[0]) THEN x ELSE thread[0][i].pc
  BY <1>3, TurnFields
<1> QED BY <1>1, <1>2, <1>3, <1>4 DEF BootPc

LEMMA BootBoot == ASSUME TypeInv, StackInv, GroupInv, BootInv, Boot \/ (Execute /\ Top.kind = BOOT) PROVE BootInv'
<1>1. 1 .. 1 = {1} /\ 2 .. 1 = {} /\ BOOT # IRQ_PIT
  BY KindsApart DEF Irqs
<1>2. CASE Execute /\ Top.kind = BOOT
  <2>1. ~UserMode /\ GoTo("exec")
    BY <1>2, CallKinds DEF Execute
  <2>2. BootPc' = "exec"
    BY <1>2, <2>1, HandlerPoints, BootTurn
  <2> QED BY <2>2 DEF BootInv, Starting
<1>3. CASE i8259_init
  <2>1. ~UserMode /\ Top.kind = BOOT /\ Top.pc = "i8259_init" /\ GoTo("rtc_init") /\ imr' = Lines /\ IF_flag' = IF_flag
    BY <1>3 DEF i8259_init, At
  <2>2. BootPc = "i8259_init" /\ BootPc' = "rtc_init" /\ Len(thread'[0]) = 1 /\ thread'[0][1].kind = BOOT
    BY <2>1, HandlerPoints, BootTurn
  <2>3. IRQ_PIT \in Lines
    BY DEF Lines, Irqs
  <2> QED BY <1>1, <2>1, <2>2, <2>3 DEF BootInv
<1>4. CASE rtc_init
  <2>1. ~UserMode /\ Top.kind = BOOT /\ Top.pc = "rtc_init" /\ GoTo("keyboard_init") /\ enable_irq(IRQ_RTC)
    BY <1>4 DEF rtc_init, At
  <2>2. BootPc = "rtc_init" /\ BootPc' = "keyboard_init" /\ Len(thread'[0]) = 1 /\ thread'[0][1].kind = BOOT
    BY <2>1, HandlerPoints, BootTurn
  <2>3. IRQ_PIT \in imr => IRQ_PIT \in imr'
    BY <2>1 DEF enable_irq, Line, IRQ_PIT, IRQ_RTC, SLAVE_IRQ_LINE
  <2> QED BY <1>1, <2>2, <2>3 DEF BootInv, Starting
<1>5. CASE keyboard_init
  <2>1. ~UserMode /\ Top.kind = BOOT /\ Top.pc = "keyboard_init" /\ GoTo("shells") /\ enable_irq(IRQ_KB)
    BY <1>5 DEF keyboard_init, At
  <2>2. BootPc = "keyboard_init" /\ BootPc' = "shells" /\ Len(thread'[0]) = 1 /\ thread'[0][1].kind = BOOT
    BY <2>1, HandlerPoints, BootTurn
  <2>3. IRQ_PIT \in imr => IRQ_PIT \in imr'
    BY <2>1 DEF enable_irq, Line, IRQ_PIT, IRQ_KB, IRQ_RTC, SLAVE_IRQ_LINE
  <2> QED BY <1>1, <2>2, <2>3 DEF BootInv, Starting
<1>6. CASE pit_init
  <2>1. ~UserMode /\ Top.kind = BOOT /\ GoTo("loop")
    BY <1>6 DEF pit_init, At
  <2>2. BootPc' = "loop" /\ Len(thread'[0]) = 1
    BY <2>1, HandlerPoints, BootTurn
  <2> QED BY <1>1, <2>2 DEF BootInv, Starting
<1>7. CASE static_start_shells
  <2>1. Top.pc = "shells" /\ Top = thread[0][1] /\ Len(thread[0]) = 1 /\ imr' = imr
    BY <1>7, BootKinds DEF static_start_shells, At, Boot
  <2>2. thread'[0] = Turn(thread[0], "pit_init")
    BY <1>7, ShellThreads
  <2>3. Len(thread'[0]) = 1 /\ thread'[0][1].kind = BOOT /\ thread'[0][1].pc = "pit_init"
    <3>1. thread[0] \in Seq(Frame) /\ thread[0] # <<>> /\ 1 \in 1 .. Len(thread[0]) /\ thread[0][1].kind = BOOT
      BY FirstFrame
    <3>2. LET U == Turn(thread[0], "pit_init") IN
          /\ Len(U) = Len(thread[0])
          /\ \A i \in 1 .. Len(thread[0]) :
                U[i].kind = thread[0][i].kind /\ U[i].pc = IF i = Len(thread[0]) THEN "pit_init" ELSE thread[0][i].pc
      <4>1. "pit_init" \in Points
        BY HandlerPoints
      <4> QED BY <3>1, <4>1, TurnFields
    <3> QED BY <2>1, <2>2, <3>1, <3>2
  <2>4. BootPc = "shells" /\ BootPc' = "pit_init"
    BY <2>1, <2>3 DEF BootPc
  <2> QED BY <1>1, <2>1, <2>3, <2>4 DEF BootInv, Starting
<1> QED BY <1>2, <1>3, <1>4, <1>5, <1>6, <1>7 DEF Boot

\* What an entry does to the first group.
LEMMA BootEntered ==
  ASSUME TypeInv, StackInv, GroupInv, NEW kind \in Irqs \cup {CALL, EXC}, NEW x \in Points, NEW w \in Nat, Enter(kind, x, w)
  PROVE  /\ BootPc' = BootPc /\ thread'[0] # <<>>
         /\ current_group # 0 => thread'[0] = thread[0]
         /\ current_group = 0 => /\ Len(thread'[0]) = Len(thread[0]) + 1
                                 /\ \A i \in 1 .. Len(thread[0]) : thread'[0][i] = thread[0][i]
                                 /\ thread'[0][Len(thread[0]) + 1].kind = kind
         /\ \A g \in Groups : g # current_group => thread'[g] = thread[g]
<1>1. PICK f \in Frame : Entered(f, kind, x, w)
  BY EnteredThread
<1>2. /\ thread'[current_group] = Append(thread[current_group], f) /\ f.kind = kind
      /\ \A g \in Groups : g # current_group => thread'[g] = thread[g]
  BY <1>1, SetThread DEF Entered
<1>3. /\ 0 \in Groups /\ thread[0] \in Seq(Frame) /\ thread[0] # <<>> /\ 1 \in 1 .. Len(thread[0])
  BY FirstFrame
<1>4. CASE current_group # 0
  BY <1>2, <1>3, <1>4 DEF BootPc
<1>5. CASE current_group = 0
  <2>1. thread'[0] = Append(thread[0], f)
    BY <1>2, <1>5
  <2>2. LET U == Append(thread[0], f) IN
        /\ Len(U) = Len(thread[0]) + 1 /\ (\A i \in 1 .. Len(thread[0]) : U[i] = thread[0][i])
        /\ U[Len(thread[0]) + 1] = f /\ U # <<>>
    BY <1>3, PushFields
  <2> QED BY <1>2, <1>3, <1>5, <2>1, <2>2 DEF BootPc
<1> QED BY <1>4, <1>5

LEMMA BootEntryKept ==
  ASSUME TypeInv, StackInv, GroupInv, BootInv, NEW kind \in Irqs \cup {CALL, EXC}, NEW x \in Points, NEW w \in Nat,
         Enter(kind, x, w), imr' = imr, kind \notin Irqs => UserMode,
         kind \in Irqs => IF_flag /\ kind \notin imr,
         current_group # 0 => BootPc \notin {"i8259_init", "rtc_init"}
  PROVE  BootInv'
<1>1. /\ BootPc' = BootPc /\ thread'[0] # <<>>
      /\ current_group # 0 => thread'[0] = thread[0]
      /\ current_group = 0 => /\ Len(thread'[0]) = Len(thread[0]) + 1
                              /\ \A i \in 1 .. Len(thread[0]) : thread'[0][i] = thread[0][i]
                              /\ thread'[0][Len(thread[0]) + 1].kind = kind
  BY BootEntered
<1>2. kind \notin Irqs /\ current_group = 0 => BootPc = "exec"
  BY BootUser
<1>3. BootPc \notin {"i8259_init", "rtc_init"}
  BY <1>2 DEF BootInv
<1>4. CASE current_group # 0
  BY <1>1, <1>3, <1>4 DEF BootInv
<1>5. CASE current_group = 0
  <2> DEFINE n == Len(thread[0])
  <2>1. n \in Nat \ {0}
    BY FirstFrame
  <2>2. \A m \in Nat \ {0} : /\ \A i \in 1 .. m + 1 : i = m + 1 \/ i \in 1 .. m
                             /\ \A i \in 2 .. m + 1 : i = m + 1 \/ (i \in 2 .. m /\ i \in 1 .. m)
    OBVIOUS
  <2>3. /\ \A i \in 1 .. n + 1 : i = n + 1 \/ i \in 1 .. n
        /\ \A i \in 2 .. n + 1 : i = n + 1 \/ (i \in 2 .. n /\ i \in 1 .. n)
    BY <2>1, <2>2, Zenon
  <2> HIDE DEF n
  <2>4. /\ Len(thread'[0]) = n + 1 /\ \A i \in 1 .. n : thread'[0][i] = thread[0][i]
        /\ thread'[0][n + 1].kind = kind
    BY <1>1, <1>5 DEF n
  <2>5. ASSUME BootPc \in Starting \cup {"pit_init"}
        PROVE  IRQ_PIT \in imr' /\ \A i \in 1 .. Len(thread'[0]) : thread'[0][i].kind # IRQ_PIT
    <3>1. IRQ_PIT \in imr /\ \A i \in 1 .. n : thread[0][i].kind # IRQ_PIT
      BY <2>5 DEF BootInv, n
    <3>2. kind # IRQ_PIT
      BY <3>1 DEF Irqs
    <3> QED BY <2>3, <2>4, <3>1, <3>2
  <2>6. ASSUME BootPc # "exec" PROVE \A i \in 2 .. Len(thread'[0]) : thread'[0][i].kind \in Irqs
    <3>1. \A i \in 2 .. n : thread[0][i].kind \in Irqs
      BY <2>6 DEF BootInv, n
    <3>2. kind \in Irqs
      BY <1>2, <1>5, <2>6
    <3> QED BY <2>3, <2>4, <3>1, <3>2
  <2> QED BY <1>1, <1>3, <2>5, <2>6 DEF BootInv
<1> QED BY <1>4, <1>5

\* The entries, as what they have in common.
LEMMA Entry ==
  ASSUME SystemCall \/ Exception \/ \E irq \in Irqs : Interrupt(irq)
  PROVE  \E kind \in Irqs \cup {CALL, EXC}, x \in {"start", "body"}, w \in Nat :
            /\ Enter(kind, x, w) /\ imr' = imr /\ procs' = procs /\ current_group' = current_group
            /\ kind \notin Irqs => UserMode /\ x = "body" /\ isr' = isr
            /\ kind \in Irqs => IF_flag /\ Deliverable(kind) /\ x = "start" /\ isr' = isr \cup {kind, Line(kind)} /\ IF_flag' = FALSE
<1>1. LOCALS \in Nat /\ IretWords \subseteq Nat
  BY GroupNumbers
<1>2. CASE SystemCall
  BY <1>1, <1>2, KindsApart DEF SystemCall
<1>3. CASE Exception
  BY <1>1, <1>3, KindsApart DEF Exception
<1>4. ASSUME NEW irq \in Irqs, Interrupt(irq)
      PROVE  \E w \in Nat : /\ Enter(irq, "start", w) /\ imr' = imr /\ procs' = procs /\ current_group' = current_group
                            /\ IF_flag /\ Deliverable(irq) /\ isr' = isr \cup {irq, Line(irq)} /\ IF_flag' = FALSE
  BY <1>1, <1>4 DEF Interrupt
<1>5. CASE \E irq \in Irqs : Interrupt(irq)
  BY <1>4, <1>5
<1> QED BY <1>2, <1>3, <1>5

LEMMA BootStep == ASSUME TypeInv, StackInv, GroupInv, BootInv, [Next]_vars PROVE BootInv'
<1>1. CASE UNCHANGED vars
  BY <1>1 DEF vars, BootInv, BootPc
<1>2. CASE Plain
  BY <1>2, BootPlain
<1>3. CASE Boot \/ (Execute /\ Top.kind = BOOT)
  BY <1>3, BootBoot
<1>4. CASE SystemCall \/ Exception \/ \E irq \in Irqs : Interrupt(irq)
  <2>1. PICK kind \in Irqs \cup {CALL, EXC}, x \in {"start", "body"}, w \in Nat :
            /\ Enter(kind, x, w) /\ imr' = imr
            /\ kind \notin Irqs => UserMode
            /\ kind \in Irqs => IF_flag /\ Deliverable(kind)
    BY <1>4, Entry
  <2>2. kind \in Irqs => kind \notin imr
    BY <2>1 DEF Deliverable
  <2>3. x \in Points
    BY DEF Points
  <2>4. current_group # 0 => BootPc \notin {"i8259_init", "rtc_init"}
    BY DEF GroupInv, Started, Starting
  <2> QED BY <2>1, <2>2, <2>3, <2>4, BootEntryKept
<1>5. Execute => Top.kind \in {CALL, BOOT}
  BY CallKinds DEF Execute
<1> QED BY <1>1, <1>2, <1>3, <1>4, <1>5 DEF Next, Code, Plain
-----------------------------------------------------------------------------
(* The groups keep to themselves.                                            *)

LEMMA GroupKept ==
  ASSUME TypeInv, GroupInv, current_group' = current_group, procs' = procs,
         \A g \in Groups : g # current_group => thread'[g] = thread[g],
         thread'[0] # <<>>, Started' <=> Started, BootPc' = "pit_init" => BootPc = "pit_init"
  PROVE  GroupInv'
<1>1. /\ (~Started)' => /\ current_group' = 0 /\ \A g \in Groups \ {0} : thread'[g] = <<>>
                        /\ procs' = [g \in Groups |-> <<0>>]
  BY DEF GroupInv
<1>2. Started' => /\ \A g \in Groups \ {current_group'} : thread'[g] # <<>>
                  /\ \A g, h \in Groups : g # h => Range(procs'[g]) \cap Range(procs'[h]) = {}
  BY DEF GroupInv
<1>3. \A g \in Groups \ {current_group'} : thread'[g] # <<>> =>
        thread'[g][Len(thread'[g])].kind = IRQ_PIT /\ thread'[g][Len(thread'[g])].pc = "return"
  BY DEF GroupInv
<1>4. BootPc' = "pit_init" => current_group' = 0
  BY DEF GroupInv
<1> QED BY <1>1, <1>2, <1>3, <1>4 DEF GroupInv

\* System calls and ticks come after the boot.
LEMMA LateTop ==
  ASSUME TypeInv, StackInv, GroupInv, BootInv, ~UserMode, Top.kind \in {CALL, EXC, IRQ_PIT}
  PROVE  Started /\ BootPc # "pit_init"
<1>1. ASSUME BootPc \in Starting \cup {"pit_init"} PROVE FALSE
  <2>1. current_group = 0 /\ BootPc # "exec"
    BY <1>1 DEF GroupInv, Started, Starting
  <2>2. Top.kind \in Irqs \cup {BOOT} /\ Top.kind # IRQ_PIT
    BY <1>1, <2>1, BootTop
  <2> QED BY <2>2, KindsApart
<1> QED BY <1>1 DEF Started

\* Where the processes of one group change, and the others' do not.
LEMMA GroupChanged ==
  ASSUME TypeInv, GroupInv, Started, BootPc' \notin Starting \cup {"pit_init"}, current_group' = current_group,
         \A g \in Groups : g # current_group => thread'[g] = thread[g] /\ procs'[g] = procs[g],
         \A p \in Range(procs'[current_group]) :
            p \in Range(procs[current_group]) \/ \A g \in Groups : p \notin Range(procs[g]),
         thread'[0] # <<>>
  PROVE  GroupInv'
<1>1. Started' /\ BootPc' # "pit_init"
  BY DEF Started
<1>2. \A g \in Groups \ {current_group'} : thread'[g] # <<>>
  BY DEF GroupInv
<1>3. ASSUME NEW g \in Groups, NEW h \in Groups, g # h PROVE Range(procs'[g]) \cap Range(procs'[h]) = {}
  <2>1. \A i, j \in Groups : i # j => Range(procs[i]) \cap Range(procs[j]) = {}
    BY DEF GroupInv
  <2>2. current_group \in Groups
    BY DEF TypeInv
  <2> QED BY <1>3, <2>1, <2>2
<1>4. \A g \in Groups \ {current_group'} : thread'[g] # <<>> =>
        thread'[g][Len(thread'[g])].kind = IRQ_PIT /\ thread'[g][Len(thread'[g])].pc = "return"
  BY DEF GroupInv
<1> QED BY <1>1, <1>2, <1>3, <1>4 DEF GroupInv

LEMMA RangePush ==
  ASSUME NEW P \in Seq(Pids), NEW p \in Pids, NEW q \in Range(Append(P, p)) PROVE q \in Range(P) \/ q = p
<1>1. PICK i \in 1 .. Len(P) + 1 : q = Append(P, p)[i]
  BY AppendProperties DEF Range
<1>2. Len(P) \in Nat /\ DOMAIN P = 1 .. Len(P)
  BY LenProperties
<1>3. CASE i = Len(P) + 1
  BY <1>1, <1>3, PushFields
<1>4. CASE i # Len(P) + 1
  <2>1. i \in 1 .. Len(P)
    BY <1>2, <1>4
  <2>2. q = P[i]
    BY <1>1, <2>1, PushFields
  <2> QED BY <2>1, <2>2, <1>2 DEF Range
<1> QED BY <1>3, <1>4

LEMMA RangePop ==
  ASSUME NEW P \in Seq(Pids), P # <<>>, NEW q \in Range(Front(P)) PROVE q \in Range(P)
<1>1. Len(P) \in Nat \ {0} /\ Front(P) \in Seq(Pids) /\ Len(Front(P)) = Len(P) - 1
      /\ \A i \in 1 .. Len(P) - 1 : Front(P)[i] = P[i]
  BY FrontOf
<1>2. PICK i \in 1 .. Len(P) - 1 : q = Front(P)[i]
  BY <1>1, LenProperties DEF Range
<1>3. i \in 1 .. Len(P)
  BY <1>1
<1>4. q = P[i]
  BY <1>1, <1>2
<1> QED BY <1>3, <1>4, LenProperties DEF Range

LEMMA GroupTick == ASSUME TypeInv, StackInv, GroupInv, BootInv, schedule_next PROVE GroupInv'
<1>1. /\ ~UserMode /\ Top.kind = IRQ_PIT /\ GoTo("return") /\ current_group' = NextGroup /\ procs' = procs
  BY DEF schedule_next, At
<1>2. Started /\ BootPc # "pit_init"
  BY <1>1, LateTop
<1>3. Quiet
  BY PlainQuiet DEF Plain
<1>4. BootPc' = BootPc /\ thread'[0] # <<>> /\ Started' /\ BootPc' # "pit_init"
  BY <1>2, <1>3 DEF Quiet, Started
<1> DEFINE T == thread[current_group]
<1>5. /\ thread'[current_group] = Turn(T, "return")
      /\ \A g \in Groups : g # current_group => thread'[g] = thread[g]
  BY <1>1, HandlerPoints, Turning
<1>6. T \in Seq(Frame) /\ T # <<>> /\ Top = T[Len(T)] /\ Len(T) \in 1 .. Len(T)
  BY <1>1, Working
<1>7. LET U == Turn(T, "return") IN
      /\ U # <<>> /\ Len(U) = Len(T)
      /\ \A i \in 1 .. Len(T) : U[i].kind = T[i].kind /\ U[i].pc = IF i = Len(T) THEN "return" ELSE T[i].pc
  <2>1. "return" \in Points
    BY HandlerPoints
  <2> HIDE DEF T
  <2> QED BY <1>6, <2>1, TurnFields
<1>8. /\ Turn(T, "return") # <<>>
      /\ Turn(T, "return")[Len(Turn(T, "return"))].kind = IRQ_PIT
      /\ Turn(T, "return")[Len(Turn(T, "return"))].pc = "return"
  BY <1>1, <1>6, <1>7
<1> HIDE DEF T
<1>9. ASSUME NEW g \in Groups
      PROVE  thread'[g] # <<>> \/ g = current_group'
  BY <1>2, <1>5, <1>8 DEF GroupInv
<1>10. ASSUME NEW g \in Groups, g # current_group', thread'[g] # <<>>
       PROVE  thread'[g][Len(thread'[g])].kind = IRQ_PIT /\ thread'[g][Len(thread'[g])].pc = "return"
  <2>1. CASE g = current_group
    BY <2>1, <1>5, <1>8
  <2>2. CASE g # current_group
    BY <2>2, <1>5, <1>10 DEF GroupInv
  <2> QED BY <2>1, <2>2
<1>11. \A g, h \in Groups : g # h => Range(procs'[g]) \cap Range(procs'[h]) = {}
  BY <1>1, <1>2 DEF GroupInv
<1> QED BY <1>4, <1>9, <1>10, <1>11 DEF GroupInv

LEMMA GroupPlain == ASSUME TypeInv, StackInv, GroupInv, BootInv, Plain PROVE GroupInv'
<1>1. ~UserMode /\ Top.kind # BOOT /\ Quiet
  BY PlainQuiet
<1>2. BootPc' = BootPc /\ thread'[0] # <<>> /\ (Started' <=> Started)
  BY <1>1 DEF Quiet, Started
<1>3. procs[current_group] \in Seq(Pids) /\ procs[current_group] # <<>>
  BY Current DEF StackInv, StackOf, Distinct
<1>4. CASE schedule_next
  BY <1>4, GroupTick
<1>5. CASE iret
  <2>1. /\ \A g \in Groups : g # current_group => thread'[g] = thread[g]
        /\ current_group' = current_group /\ procs' = procs
    BY <1>5, Popping DEF iret
  <2> QED BY <1>2, <2>1, GroupKept
<1>6. CASE system_halt
  <2>1. /\ \A g \in Groups : g # current_group => thread'[g] = thread[g]
        /\ current_group' = current_group /\ procs' = procs
    BY <1>6, Halting, SetThread DEF system_halt
  <2> QED BY <1>2, <2>1, GroupKept
<1>7. CASE \/ save_tss_esp \/ DeviceMask \/ DeviceEoi \/ DeviceUnmask \/ TickEoi \/ ExecuteFails \/ OtherCall
           \/ TeardownActive \/ TeardownEsp0 \/ TeardownClear
  <2>1. PICK x \in {"masked", "acknowledged", "switch", "moved", "aimed", "return", "iret"} :
           GoTo(x) /\ current_group' = current_group /\ procs' = procs
    BY <1>7 DEF save_tss_esp, DeviceMask, DeviceEoi, DeviceUnmask, TickEoi, ExecuteFails, OtherCall,
                TeardownActive, TeardownEsp0, TeardownClear
  <2>2. x \in Points
    BY HandlerPoints
  <2>3. \A g \in Groups : g # current_group => thread'[g] = thread[g]
    BY <1>1, <2>1, <2>2, Turning
  <2> QED BY <1>2, <2>1, <2>3, GroupKept
<1>8. CASE Execute /\ Top.kind = CALL
  <2>1. Started /\ BootPc # "pit_init"
    BY <1>1, <1>8, LateTop
  <2>2. \A g \in Groups : g # current_group => thread'[g] = thread[g] /\ procs'[g] = procs[g]
    BY <1>1, <1>8, HandlerPoints, Turning, SetProcs DEF Execute
  <2>3. procs'[current_group] = Append(procs[current_group], get_new_pid)
    BY <1>8, SetProcs DEF Execute
  <2>4. get_new_pid \in Pids /\ \A g \in Groups : get_new_pid \notin Range(procs[g])
    BY <1>8, NewPid DEF Execute
  <2>5. ASSUME NEW p \in Range(procs'[current_group])
        PROVE  p \in Range(procs[current_group]) \/ \A g \in Groups : p \notin Range(procs[g])
    BY <1>3, <2>3, <2>4, <2>5, RangePush
  <2>6. current_group' = current_group
    BY <1>8 DEF Execute
  <2>7. BootPc' \notin Starting \cup {"pit_init"}
    BY <1>2, <2>1 DEF Started
  <2> QED BY <1>2, <2>1, <2>2, <2>5, <2>6, <2>7, GroupChanged
<1>9. CASE TeardownFree
  <2>1. Started /\ BootPc # "pit_init"
    BY <1>1, <1>9, CallKinds, LateTop
  <2>2. \A g \in Groups : g # current_group => thread'[g] = thread[g] /\ procs'[g] = procs[g]
    BY <1>1, <1>9, HandlerPoints, Turning, SetProcs DEF TeardownFree
  <2>3. procs'[current_group] = Front(procs[current_group])
    BY <1>9, SetProcs DEF TeardownFree
  <2>4. ASSUME NEW p \in Range(procs'[current_group])
        PROVE  p \in Range(procs[current_group])
    BY <1>3, <2>3, <2>4, RangePop
  <2>5. current_group' = current_group
    BY <1>9 DEF TeardownFree
  <2>6. BootPc' \notin Starting \cup {"pit_init"}
    BY <1>2, <2>1 DEF Started
  <2> QED BY <1>2, <2>1, <2>2, <2>4, <2>5, <2>6, GroupChanged
<1> QED BY <1>4, <1>5, <1>6, <1>7, <1>8, <1>9 DEF Plain

LEMMA GroupBoot ==
  ASSUME TypeInv, StackInv, GroupInv, BootInv, Boot \/ (Execute /\ Top.kind = BOOT) PROVE GroupInv'
<1>1. CASE i8259_init \/ rtc_init \/ keyboard_init
  <2>1. PICK x \in {"rtc_init", "keyboard_init", "shells"} :
           GoTo(x) /\ current_group' = current_group /\ procs' = procs
    BY <1>1 DEF i8259_init, rtc_init, keyboard_init
  <2>2. ~UserMode /\ Top.kind = BOOT /\ Top.pc \in Starting /\ x \in Points /\ x \in Starting /\ x # "pit_init"
    BY <1>1, HandlerPoints DEF i8259_init, rtc_init, keyboard_init, At, Starting
  <2>3. /\ current_group = 0 /\ BootPc = Top.pc /\ thread'[0] # <<>> /\ BootPc' = x
        /\ \A g \in Groups \ {0} : thread'[g] = thread[g]
    BY <2>1, <2>2, BootTurn
  <2>4. Started' <=> Started
    BY <2>2, <2>3 DEF Started
  <2> QED BY <2>1, <2>2, <2>3, <2>4, GroupKept
<1>2. CASE pit_init
  <2>1. ~UserMode /\ Top.kind = BOOT /\ Top.pc = "pit_init" /\ GoTo("loop") /\ current_group' = current_group /\ procs' = procs
    BY <1>2 DEF pit_init, At
  <2>2. /\ current_group = 0 /\ BootPc = "pit_init" /\ thread'[0] # <<>> /\ BootPc' = "loop"
        /\ \A g \in Groups \ {0} : thread'[g] = thread[g]
    BY <2>1, HandlerPoints, BootTurn
  <2>3. Started' <=> Started
    BY <2>2 DEF Started, Starting
  <2> QED BY <2>1, <2>2, <2>3, GroupKept
<1>3. CASE Execute /\ Top.kind = BOOT
  <2>1. ~UserMode /\ GoTo("exec") /\ Top.pc = "loop"
    BY <1>3, KindsApart DEF Execute, Executing, At
  <2>2. /\ current_group = 0 /\ BootPc = "loop" /\ thread'[0] # <<>> /\ BootPc' = "exec"
        /\ \A g \in Groups \ {0} : thread'[g] = thread[g]
    BY <1>3, <2>1, HandlerPoints, BootTurn
  <2>3. procs'[current_group] = Append(procs[current_group], get_new_pid)
        /\ \A g \in Groups : g # current_group => procs'[g] = procs[g]
    BY <1>3, SetProcs DEF Execute
  <2>4. get_new_pid \in Pids /\ \A g \in Groups : get_new_pid \notin Range(procs[g])
    BY <1>3, NewPid DEF Execute
  <2>5. ASSUME NEW p \in Range(procs'[current_group])
        PROVE  p \in Range(procs[current_group]) \/ \A g \in Groups : p \notin Range(procs[g])
    <3>1. procs[current_group] \in Seq(Pids)
      BY Current
    <3> QED BY <2>3, <2>4, <2>5, <3>1, RangePush
  <2>6. Started /\ BootPc' \notin Starting \cup {"pit_init"}
    BY <2>2 DEF Started, Starting
  <2>7. current_group' = current_group
    BY <1>3 DEF Execute
  <2>8. \A g \in Groups : g # current_group => thread'[g] = thread[g] /\ procs'[g] = procs[g]
    BY <2>2, <2>3
  <2> QED BY <2>2, <2>5, <2>6, <2>7, <2>8, GroupChanged
<1>4. CASE static_start_shells
  <2>1. /\ Top.pc = "shells" /\ Top = thread[0][1] /\ current_group = 0 /\ current_group' = 0
    BY <1>4, BootKinds DEF static_start_shells, At, Boot
  <2>2. procs[0] = <<0>>
    BY <2>1, GroupNumbers DEF GroupInv, Started, Starting, BootPc
  <2>3. /\ thread'[0] = Turn(thread[0], "pit_init") /\ procs'[0] = <<0>>
        /\ \A g \in Groups \ {0} : thread'[g] = <<FakeFrame(BaseShell(g))>> /\ procs'[g] = <<BaseShell(g)>>
    BY <1>4, <2>2, ShellThreads
  <2>4. thread'[0] # <<>> /\ BootPc' = "pit_init"
    <3>1. thread[0] \in Seq(Frame) /\ thread[0] # <<>> /\ 1 \in 1 .. Len(thread[0]) /\ "pit_init" \in Points /\ Len(thread[0]) = 1
      BY <1>4, FirstFrame, HandlerPoints, BootKinds DEF Boot
    <3>2. LET U == Turn(thread[0], "pit_init") IN
          /\ U # <<>>
          /\ \A i \in 1 .. Len(thread[0]) : U[i].pc = IF i = Len(thread[0]) THEN "pit_init" ELSE thread[0][i].pc
      BY <3>1, TurnFields
    <3> QED BY <2>3, <3>1, <3>2 DEF BootPc
  <2>5. Started'
    BY <2>4 DEF Started, Starting
  <2>6. ASSUME NEW g \in Groups \ {0}
        PROVE  /\ thread'[g] # <<>>
               /\ thread'[g][Len(thread'[g])].kind = IRQ_PIT /\ thread'[g][Len(thread'[g])].pc = "return"
    <3>1. Len(<<FakeFrame(BaseShell(g))>>) = 1 /\ <<FakeFrame(BaseShell(g))>> # <<>>
      OBVIOUS
    <3>2. FakeFrame(BaseShell(g)).kind = IRQ_PIT /\ FakeFrame(BaseShell(g)).pc = "return"
      BY DEF FakeFrame
    <3> QED BY <2>3, <3>1, <3>2
  <2>7. \A p : Range(<<p>>) = {p}
    BY DEF Range
  <2>8. \A g, h \in Groups : g # h => Range(procs'[g]) \cap Range(procs'[h]) = {}
    <3>1. \A g \in Groups : Range(procs'[g]) = {IF g = 0 THEN 0 ELSE BaseShell(g)}
      BY <2>3, <2>7
    <3> QED BY <3>1, GroupNumbers
  <2> QED BY <2>1, <2>4, <2>5, <2>6, <2>8 DEF GroupInv
<1> QED BY <1>1, <1>2, <1>3, <1>4 DEF Boot

LEMMA GroupEntry ==
  ASSUME TypeInv, StackInv, GroupInv, SystemCall \/ Exception \/ \E irq \in Irqs : Interrupt(irq) PROVE GroupInv'
<1>1. PICK kind \in Irqs \cup {CALL, EXC}, x \in {"start", "body"}, w \in Nat :
          Enter(kind, x, w) /\ procs' = procs /\ current_group' = current_group
  BY Entry
<1>2. x \in Points
  BY DEF Points
<1>3. /\ BootPc' = BootPc /\ thread'[0] # <<>>
      /\ \A g \in Groups : g # current_group => thread'[g] = thread[g]
  BY <1>1, <1>2, BootEntered
<1>4. Started' <=> Started
  BY <1>3 DEF Started
<1> QED BY <1>1, <1>3, <1>4, GroupKept

LEMMA GroupStep == ASSUME TypeInv, StackInv, GroupInv, BootInv, [Next]_vars PROVE GroupInv'
<1>1. CASE UNCHANGED vars
  BY <1>1 DEF vars, GroupInv, Started, BootPc
<1>2. CASE Plain
  BY <1>2, GroupPlain
<1>3. CASE Boot \/ (Execute /\ Top.kind = BOOT)
  BY <1>3, GroupBoot
<1>4. CASE SystemCall \/ Exception \/ \E irq \in Irqs : Interrupt(irq)
  BY <1>4, GroupEntry
<1>5. Execute => Top.kind \in {CALL, BOOT}
  BY CallKinds DEF Execute
<1> QED BY <1>1, <1>2, <1>3, <1>4, <1>5 DEF Next, Code, Plain
-----------------------------------------------------------------------------
(* The start of the kernel stack.                                            *)

\* The kernel goes on elsewhere than in an iret.
LEMMA TssAway ==
  ASSUME NEW U, thread'[current_group'] = U, U # <<>>, U[Len(U)].pc \notin {"exec", "iret"}
  PROVE  TssInv'
<1>1. (~UserMode)'
  BY DEF UserMode, Top, Last
<1> QED BY <1>1 DEF TssInv

LEMMA TssTurned ==
  ASSUME TypeInv, ~UserMode, NEW x \in Points, x \notin {"exec", "iret"}, GoTo(x), current_group' = current_group
  PROVE  TssInv'
<1> DEFINE T == thread[current_group]
           U == Turn(T, x)
<1>1. thread'[current_group'] = U
  BY Turning
<1>2. T \in Seq(Frame) /\ T # <<>>
  BY Current
<1>3. Len(T) \in 1 .. Len(T)
  BY <1>2, FrontOf
<1>4. U # <<>> /\ Len(U) = Len(T) /\ \A i \in 1 .. Len(T) : U[i].pc = IF i = Len(T) THEN x ELSE T[i].pc
  <2> HIDE DEF T
  <2> QED BY <1>2, TurnFields
<1>5. U[Len(U)].pc = x
  BY <1>3, <1>4
<1> HIDE DEF U
<1> QED BY <1>1, <1>4, <1>5, TssAway

LEMMA TssTick == ASSUME TypeInv, StackInv, GroupInv, BootInv, schedule_next PROVE TssInv'
<1>1. ~UserMode /\ Top.kind = IRQ_PIT /\ GoTo("return") /\ current_group' = NextGroup
  BY DEF schedule_next, At
<1>2. NextGroup \in Groups
  BY GroupNumbers DEF NextGroup, TypeInv, Groups
<1>3. CASE NextGroup = current_group
  BY <1>1, <1>3, HandlerPoints, TssTurned
<1>4. CASE NextGroup # current_group
  <2>1. thread'[NextGroup] = thread[NextGroup]
    BY <1>1, <1>2, <1>4, HandlerPoints, Turning
  <2>2. Started
    BY <1>1, LateTop
  <2>3. thread[NextGroup] # <<>> /\ thread[NextGroup][Len(thread[NextGroup])].pc = "return"
    BY <1>2, <1>4, <2>2 DEF GroupInv
  <2> QED BY <1>1, <2>1, <2>3, TssAway
<1> QED BY <1>3, <1>4

LEMMA TssSaved == ASSUME TypeInv, StackInv, save_tss_esp PROVE TssInv'
<1> DEFINE T == thread[current_group]
           U == Turn(T, "iret")
           n == Len(T)
<1>1. /\ ~UserMode /\ Top.kind # BOOT /\ GoTo("iret") /\ current_group' = current_group /\ races' = races
      /\ tss_esp0' = Place(Top.pid, Top.esp - FrameWords(Top.ring))
  BY KindsApart DEF save_tss_esp, At, Irqs
<1>2. /\ T \in Seq(Frame) /\ T # <<>> /\ Top = T[n] /\ Top \in Frame /\ n \in 1 .. n
      /\ Top.esp >= FrameWords(Top.ring) /\ Drifts(T, races)
  BY <1>1, Working
<1>3. tss_esp0'.pid = Top.pid /\ tss_esp0'.depth = Top.esp - FrameWords(Top.ring)
  BY <1>1, <1>2, AboveType
<1>4. "iret" \in Points
  BY HandlerPoints
<1>5. thread'[current_group'] = U
  BY <1>1, <1>4, Turning
<1> HIDE DEF T
<1>6. /\ Len(U) = n /\ U[n].pc = "iret" /\ U[n].pid = T[n].pid /\ U # <<>>
      /\ InChain(U, n) <=> InChain(T, n)
  BY <1>2, <1>4, TurnFields, TurnChain
<1> HIDE DEF U
<1>7. InChain(T, n) => Top.esp - FrameWords(Top.ring) <= 8 * races
  BY <1>2 DEF Drifts
<1>8. (~UserMode)'
  BY <1>5, <1>6 DEF UserMode, Top, Last
<1>9. Top.pid = T[n].pid
  BY <1>2
<1> QED BY <1>1, <1>3, <1>5, <1>6, <1>7, <1>8, <1>9 DEF TssInv

LEMMA TssIret == ASSUME TypeInv, StackInv, TssInv, iret PROVE TssInv'
<1> DEFINE T == thread[current_group]
           P == procs[current_group]
           U == Front(T)
           n == Len(T)
<1>1. /\ ~UserMode /\ T \in Seq(Frame) /\ T # <<>> /\ T[n].pc = "iret" /\ ~(current_group = 0 /\ n = 1)
      /\ P \in Seq(Pids) /\ StackOf(T, P, current_group = 0) /\ U \in Seq(Frame) /\ thread'[current_group] = U
  BY Popping
<1>2. current_group' = current_group /\ procs' = procs /\ tss_esp0' = tss_esp0 /\ races' = races
  BY DEF iret
<1>3. tss_esp0.pid = T[n].pid /\ (InChain(T, n) => tss_esp0.depth <= 8 * races)
  BY <1>1 DEF TssInv
<1>4. thread'[current_group'] = U /\ procs'[current_group'] = P
  BY <1>1, <1>2
<1>5. UserMode' <=> InUser(U)
  BY <1>4 DEF UserMode, Top, Last, InUser
<1> HIDE DEF T, P
<1>6. /\ InUser(U) => T[n].ring = 3 /\ T[n].pid = P[Len(P)]
      /\ ~InUser(U) => T[n].ring = 0 /\ n - 1 \in 1 .. n /\ T[n].pid = T[n - 1].pid
  BY <1>1, StackPop
<1>7. n \in Nat \ {0} /\ Len(U) = n - 1 /\ \A i \in 1 .. n - 1 : U[i] = T[i]
  BY <1>1, FrontOf
<1>8. n - 1 \in Nat /\ (n - 1) + 1 = n
  BY <1>7
<1>9. CASE InUser(U)
  <2>1. InChain(T, n)
    <3>1. T[(n - 1) + 1].ring = 3 => InChain(T, (n - 1) + 1)
      BY <1>8, NextInChain
    <3> QED BY <1>6, <1>8, <1>9, <3>1
  <2> QED BY <2>1, <1>2, <1>3, <1>4, <1>5, <1>6, <1>9 DEF TssInv
<1>10. CASE ~InUser(U)
  <2>1. n - 1 \in 1 .. n - 1 /\ n - 1 # 0
    BY <1>6, <1>8, <1>10
  <2>2. U[n - 1] = T[n - 1]
    BY <2>1, <1>7
  <2>3. InChain(U, n - 1) <=> InChain(T, n - 1)
    BY <1>1, <2>1, PopChain
  <2>4. T[n - 1].pc = "iret" /\ InChain(T, n - 1) => InChain(T, n)
    <3>1. n - 1 # 0 /\ T[n - 1].pc = "iret" /\ InChain(T, n - 1) => InChain(T, (n - 1) + 1)
      BY <1>8, NextInChain
    <3> QED BY <1>8, <2>1, <3>1
  <2> HIDE DEF U
  <2>5. U[Len(U)].pc = "iret" => tss_esp0.pid = U[Len(U)].pid /\ (InChain(U, Len(U)) => tss_esp0.depth <= 8 * races)
    BY <1>3, <1>6, <1>7, <1>10, <2>2, <2>3, <2>4
  <2> QED BY <2>5, <1>2, <1>4, <1>5, <1>10 DEF TssInv
<1> QED BY <1>9, <1>10

LEMMA TssExecute == ASSUME TypeInv, StackInv, Execute PROVE TssInv'
<1> DEFINE T == thread[current_group]
           P == procs[current_group]
<1>1. ~UserMode /\ GoTo("exec") /\ current_group' = current_group /\ tss_esp0' = get_kstack_addr(get_new_pid) /\ races' = races
  BY CallKinds DEF Execute
<1>2. get_new_pid \in Pids
  BY NewPid DEF Execute
<1>3. tss_esp0'.pid = get_new_pid /\ tss_esp0'.depth = 0
  BY <1>1, <1>2, PlaceType
<1>4. procs'[current_group] = Append(P, get_new_pid)
  BY SetProcs DEF Execute
<1>5. "exec" \in Points
  BY HandlerPoints
<1>6. thread'[current_group] = Turn(T, "exec") /\ T \in Seq(Frame) /\ T # <<>> /\ P \in Seq(Pids) /\ Len(T) \in 1 .. Len(T)
  BY <1>1, <1>5, Turning, Working, Current
<1> HIDE DEF T, P
<1>7. /\ Turn(T, "exec") # <<>> /\ Len(Turn(T, "exec")) = Len(T) /\ Turn(T, "exec")[Len(T)].pc = "exec"
  BY <1>5, <1>6, TurnFields
<1>8. UserMode'
  BY <1>1, <1>6, <1>7 DEF UserMode, Top, Last
<1>9. procs'[current_group'][Len(procs'[current_group'])] = get_new_pid
  BY <1>1, <1>2, <1>4, <1>6, PushFields
<1>10. 0 <= 8 * races'
  BY <1>1, GroupNumbers DEF TypeInv
<1> QED BY <1>3, <1>8, <1>9, <1>10 DEF TssInv

LEMMA TssStep == ASSUME TypeInv, StackInv, GroupInv, BootInv, TssInv, [Next]_vars PROVE TssInv'
<1>1. CASE UNCHANGED vars
  BY <1>1 DEF vars, TssInv, UserMode, Top
<1>2. CASE save_tss_esp \/ iret \/ schedule_next \/ Execute
  BY <1>2, TssSaved, TssIret, TssTick, TssExecute
<1>3. CASE \/ DeviceMask \/ DeviceEoi \/ DeviceUnmask \/ TickEoi \/ ExecuteFails \/ OtherCall \/ pcb_teardown
           \/ i8259_init \/ rtc_init \/ keyboard_init \/ pit_init
  <2>1. ~UserMode /\ current_group' = current_group
    BY <1>3 DEF DeviceMask, DeviceEoi, DeviceUnmask, TickEoi, ExecuteFails, OtherCall, TeardownFree, TeardownActive, TeardownEsp0, TeardownClear,
                i8259_init, rtc_init, keyboard_init, pit_init, At
  <2>2. PICK x \in {"masked", "acknowledged", "switch", "freed", "moved", "aimed", "return", "rtc_init", "keyboard_init", "shells", "loop"} : GoTo(x)
    BY <1>3 DEF DeviceMask, DeviceEoi, DeviceUnmask, TickEoi, ExecuteFails, OtherCall, TeardownFree, TeardownActive, TeardownEsp0, TeardownClear,
                i8259_init, rtc_init, keyboard_init, pit_init
  <2>3. x \in Points /\ x \notin {"exec", "iret"}
    BY HandlerPoints
  <2> QED BY <2>1, <2>2, <2>3, TssTurned
<1>4. CASE system_halt
  <2> DEFINE V == Front(thread[current_group])
             U == Turn(V, "tail")
  <2>1. /\ V \in Seq(Frame) /\ V # <<>> /\ current_group' = current_group
        /\ thread' = thread \/ thread' = [thread EXCEPT ![current_group] = U]
    BY <1>4, Halting DEF system_halt
  <2>5. CASE thread' = thread
    <3>1. thread[current_group] # <<>> /\ thread[current_group][Len(thread[current_group])].pc = "body"
      BY <1>4, CallKinds, Current
    <3> QED BY <2>1, <2>5, <3>1, TssAway
  <2>6. SUFFICES ASSUME thread' = [thread EXCEPT ![current_group] = U] PROVE TssInv'
    BY <2>1, <2>5
  <2>2. thread'[current_group'] = U
    BY <2>1, <2>6, SetThread
  <2>3. "tail" \in Points /\ Len(V) \in 1 .. Len(V)
    BY <2>1, FrontOf, HandlerPoints
  <2> HIDE DEF V
  <2>4. U # <<>> /\ Len(U) = Len(V) /\ U[Len(V)].pc = "tail"
    BY <2>1, <2>3, TurnFields
  <2> HIDE DEF U
  <2> QED BY <2>2, <2>4, TssAway
<1>5. CASE static_start_shells
  <2>1. current_group' = 0 /\ Len(thread[0]) = 1
    BY <1>5, BootKinds DEF static_start_shells, Boot
  <2>2. thread'[0] = Turn(thread[0], "pit_init")
    BY <1>5, ShellThreads
  <2>3. thread[0] \in Seq(Frame) /\ thread[0] # <<>> /\ "pit_init" \in Points /\ Len(thread[0]) \in 1 .. Len(thread[0])
    BY <2>1, FirstFrame, HandlerPoints
  <2>4. LET U == Turn(thread[0], "pit_init") IN U # <<>> /\ Len(U) = Len(thread[0]) /\ U[Len(thread[0])].pc = "pit_init"
    BY <2>3, TurnFields
  <2> QED BY <2>1, <2>2, <2>4, TssAway
<1>6. CASE SystemCall \/ Exception \/ \E irq \in Irqs : Interrupt(irq)
  <2>1. PICK kind \in Irqs \cup {CALL, EXC}, x \in {"start", "body"}, w \in Nat :
            Enter(kind, x, w) /\ current_group' = current_group
    BY <1>6, Entry
  <2>2. x \in Points
    BY DEF Points
  <2>3. PICK f \in Frame : Entered(f, kind, x, w)
    BY <2>1, <2>2, EnteredThread
  <2>4. thread'[current_group'] = Append(thread[current_group], f) /\ f.pc = x
    BY <2>1, <2>3, SetThread DEF Entered
  <2>5. thread[current_group] \in Seq(Frame)
    BY Current
  <2>6. LET U == Append(thread[current_group], f) IN U # <<>> /\ U[Len(U)] = f
    BY <2>5, PushFields
  <2> QED BY <2>4, <2>6, TssAway
<1> QED BY <1>1, <1>2, <1>3, <1>4, <1>5, <1>6 DEF Next, Code, Boot
-----------------------------------------------------------------------------
(* The active processes and their contexts.                                  *)

\* Only the first of the shells starts the groups.
LEMMA StartedBefore ==
  ASSUME TypeInv, StackInv, GroupInv, Started',
         \/ Plain \/ i8259_init \/ rtc_init \/ keyboard_init \/ pit_init \/ Execute
         \/ SystemCall \/ Exception \/ \E irq \in Irqs : Interrupt(irq)
  PROVE  Started
<1>2. CASE Plain
  BY <1>2, PlainQuiet DEF Quiet, Started
<1>3. CASE i8259_init \/ rtc_init \/ keyboard_init
  <2>1. PICK x \in {"rtc_init", "keyboard_init", "shells"} : GoTo(x)
    BY <1>3 DEF i8259_init, rtc_init, keyboard_init
  <2>2. ~UserMode /\ Top.kind = BOOT /\ x \in Points /\ x \in Starting
    BY <1>3, HandlerPoints DEF i8259_init, rtc_init, keyboard_init, At, Starting
  <2> QED BY <2>1, <2>2, BootTurn DEF Started
<1>4. CASE pit_init \/ (Execute /\ Top.kind = BOOT)
  <2>1. /\ ~UserMode /\ Top.kind = BOOT /\ Top.pc \in {"pit_init", "loop", "body"}
        /\ \E x \in {"loop", "exec"} : GoTo(x)
    BY <1>4, CallKinds DEF pit_init, Execute, At
  <2>2. BootPc = Top.pc
    BY <2>1, HandlerPoints, BootTurn
  <2> QED BY <2>1, <2>2 DEF Started, Starting
<1>5. CASE SystemCall \/ Exception \/ \E irq \in Irqs : Interrupt(irq)
  <2>1. PICK kind \in Irqs \cup {CALL, EXC}, x \in {"start", "body"}, w \in Nat : Enter(kind, x, w)
    BY <1>5, Entry
  <2>2. x \in Points
    BY DEF Points
  <2> QED BY <2>1, <2>2, BootEntered DEF Started
<1>6. Execute => Top.kind \in {CALL, BOOT}
  BY CallKinds DEF Execute
<1> QED BY <1>2, <1>3, <1>4, <1>5, <1>6 DEF Plain

\* As long as no PID has been stolen: the PIDs of teardowns under way are
\* nobody's, every other group waits with its context in the PCB of its active
\* process, and along a chain of processes each PCB names the parent and the
\* parent's has the address to return to.
DyingApart ==
  \A g, h \in Groups : dying[g] # NoPid => dying[g] \notin Range(procs[h]) /\ (dying[g] = dying[h] => g = h)
Waiting == Started => \A g \in Groups \ {current_group} : pcb[active_pid[g]].kernel_esp = g
ChainOf(g) ==
  \A i \in 1 .. Len(procs[g]) - 1 :
     pcb[procs[g][i]].eip = "return_from_exec" /\ pcb[procs[g][i + 1]].parent_pid = procs[g][i]

KeptInv == ~stolen => ~crashed /\ DyingApart /\ Waiting /\ \A g \in Groups : ChainOf(g)

\* A step that moves no group through pcb_teardown and leaves the tables alone.
LEMMA TablesKept ==
  ASSUME TypeInv, LeafInv, KeptInv, UNCHANGED <<procs, tables, fate, current_group>>, Started' => Started,
         \A g \in Groups : Marks(thread'[g]) = Marks(thread[g])
  PROVE  LeafInv' /\ KeptInv'
<1>1. LeafInv'
  BY DEF LeafInv, LeafOf
<1>2. KeptInv'
  BY DEF KeptInv, DyingApart, Waiting, ChainOf
<1> QED BY <1>1, <1>2

LEMMA MarksTurned ==
  ASSUME TypeInv, StackInv, ~UserMode, Top.pc \notin Loose, NEW x \in Points, x \notin Loose, GoTo(x)
  PROVE  \A g \in Groups : Marks(thread'[g]) = Marks(thread[g])
<1> DEFINE T == thread[current_group]
<1>1. thread'[current_group] = Turn(T, x) /\ \A g \in Groups : g # current_group => thread'[g] = thread[g]
  BY Turning
<1>2. T \in Seq(Frame) /\ T # <<>> /\ Top = T[Len(T)]
  BY Current
<1> HIDE DEF T
<1>3. Marks(Turn(T, x)) = Marks(T)
  BY <1>2, MarksTurn
<1> QED BY <1>1, <1>3 DEF T

\* A step from point to point of a frame that is none of an interrupt.
LEMMA MarksGoTo ==
  ASSUME TypeInv, StackInv, ~UserMode, Top.kind \notin Irqs, NEW x \in PointsOf(Top.kind), GoTo(x)
  PROVE  /\ Marks(thread[current_group]) = {Top.pc} \cap Loose
         /\ Marks(thread'[current_group]) = {x} \cap Loose
         /\ \A g \in Groups : g # current_group => thread'[g] = thread[g]
<1> DEFINE T == thread[current_group]
           U == Turn(T, x)
<1>1. x \in Points
  BY PointsCovered
<1>2. thread'[current_group] = U /\ \A g \in Groups : g # current_group => thread'[g] = thread[g]
  BY <1>1, Turning
<1>3. T \in Seq(Frame) /\ T # <<>> /\ Top = T[Len(T)] /\ Shaped(T, current_group = 0) /\ Len(T) \in 1 .. Len(T)
  BY Working DEF StackOf
<1> HIDE DEF T
<1>4. Shaped(U, current_group = 0)
  BY <1>3, ShapedTurn
<1>5. U \in Seq(Frame) /\ U # <<>> /\ U[Len(U)].kind = Top.kind /\ U[Len(U)].pc = x
  BY <1>1, <1>3, TurnFields
<1> HIDE DEF U
<1>6. Marks(U) = {x} \cap Loose
  BY <1>4, <1>5, MarksTop
<1> QED BY <1>2, <1>6, CurrentMarks DEF T

\* The steps that do neither.
LEMMA TablesQuiet ==
  ASSUME TypeInv, StackInv, GroupInv, BootInv, LeafInv, KeptInv,
         \/ save_tss_esp \/ iret \/ DeviceMask \/ DeviceEoi \/ DeviceUnmask \/ TickEoi \/ OtherCall
         \/ i8259_init \/ rtc_init \/ keyboard_init \/ pit_init
         \/ SystemCall \/ Exception \/ \E irq \in Irqs : Interrupt(irq)
  PROVE  LeafInv' /\ KeptInv'
<1>1. UNCHANGED <<procs, tables, fate, current_group>>
  BY DEF save_tss_esp, iret, DeviceMask, DeviceEoi, DeviceUnmask, TickEoi, OtherCall,
         i8259_init, rtc_init, keyboard_init, pit_init, SystemCall, Exception, Interrupt
<1>3. \A g \in Groups : Marks(thread'[g]) = Marks(thread[g])
  <2>1. CASE iret
    <3> DEFINE T == thread[current_group]
    <3>1. T \in Seq(Frame) /\ T # <<>> /\ T[Len(T)].pc = "iret" /\ thread'[current_group] = Front(T)
          /\ \A g \in Groups : g # current_group => thread'[g] = thread[g]
      BY <2>1, Popping
    <3>2. "iret" \notin Loose
      BY DEF Loose, Torn
    <3> HIDE DEF T
    <3>3. Marks(Front(T)) = Marks(T)
      BY <3>1, <3>2, MarksPop
    <3> QED BY <3>1, <3>3 DEF T
  <2>2. CASE \/ save_tss_esp \/ DeviceMask \/ DeviceEoi \/ DeviceUnmask \/ TickEoi \/ OtherCall
             \/ i8259_init \/ rtc_init \/ keyboard_init \/ pit_init
    <3>1. ~UserMode /\ Top.pc \notin Loose
      BY <2>2 DEF save_tss_esp, DeviceMask, DeviceEoi, DeviceUnmask, TickEoi, OtherCall,
                  i8259_init, rtc_init, keyboard_init, pit_init, At, Loose, Torn
    <3>2. PICK x \in {"masked", "acknowledged", "switch", "return", "iret", "rtc_init", "keyboard_init", "shells",
                      "loop"} : GoTo(x)
      BY <2>2 DEF save_tss_esp, DeviceMask, DeviceEoi, DeviceUnmask, TickEoi, OtherCall,
                  i8259_init, rtc_init, keyboard_init, pit_init
    <3>3. x \in Points /\ x \notin Loose
      BY HandlerPoints
    <3> QED BY <3>1, <3>2, <3>3, MarksTurned
  <2>3. CASE SystemCall \/ Exception \/ \E irq \in Irqs : Interrupt(irq)
    <3>1. PICK kind \in Irqs \cup {CALL, EXC}, x \in {"start", "body"}, w \in Nat : Enter(kind, x, w)
      BY <2>3, Entry
    <3>2. x \in Points /\ x \notin Loose
      BY DEF Points, Loose, Torn
    <3>3. PICK f \in Frame : Entered(f, kind, x, w)
      BY <3>1, <3>2, EnteredThread
    <3>4. /\ thread'[current_group] = Append(thread[current_group], f) /\ f.pc = x
          /\ \A g \in Groups : g # current_group => thread'[g] = thread[g]
      BY <3>3, SetThread DEF Entered
    <3>5. Marks(Append(thread[current_group], f)) = Marks(thread[current_group])
      BY <3>2, <3>4, Current, MarksPush
    <3> QED BY <3>4, <3>5
  <2> QED BY <2>1, <2>2, <2>3
<1>4. Started' => Started
  BY StartedBefore DEF Plain
<1> QED BY <1>1, <1>3, <1>4, TablesKept

\* The other groups keep their active processes, whichever PCBs the current one
\* sets up or clears.
LEMMA LeafOthers ==
  ASSUME TypeInv, LeafInv, current_group' = current_group, ~crashed' => ~crashed, NEW Q,
         \A p \in Pids \ Q : pcb'[p].parent_pid = pcb[p].parent_pid /\ pcb'[p].kernel_esp = pcb[p].kernel_esp,
         \A p \in Q : pcb'[p].kernel_esp = NoContext,
         NEW g \in Groups \ {current_group}, Marks(thread'[g]) = Marks(thread[g]), procs'[g] = procs[g],
         active_pid'[g] = active_pid[g], dying'[g] = dying[g]
  PROVE  LeafOf(g)'
<1> DEFINE p == active_pid[g]
<1>1. LeafOf(g) /\ p \in Pids
  BY SelfType DEF LeafInv
<1>2. ASSUME pcb'[p].kernel_esp = g PROVE p \notin Q
  BY <1>2, ContextTypes
<1>3. ASSUME ~crashed', Marks(thread[g]) \cap {"tail", "freed"} # {}, pcb'[p].kernel_esp = g
      PROVE  pcb'[p].parent_pid = ParentIn(procs[g], Marks(thread[g]))
  <2>1. pcb'[p].parent_pid = pcb[p].parent_pid /\ pcb'[p].kernel_esp = pcb[p].kernel_esp
    BY <1>1, <1>2, <1>3
  <2> QED BY <1>1, <1>3, <2>1 DEF LeafOf
<1> QED BY <1>1, <1>3 DEF LeafOf

\* What the current group's active process is, away from pcb_teardown.
LEMMA LeafHere ==
  ASSUME TypeInv, StackInv, LeafInv, ~UserMode, Top.kind \notin Irqs, Top.pc \notin Torn
  PROVE  LET P == procs[current_group] IN
         dying[current_group] = NoPid /\ Self = P[Len(P)] /\ P \in Seq(Pids) /\ P # <<>> /\ Len(P) \in Nat \ {0}
<1>1. Marks(thread[current_group]) \cap Torn = {} /\ "freed" \notin Marks(thread[current_group])
  BY CurrentMarks DEF Torn
<1>2. procs[current_group] \in Seq(Pids) /\ procs[current_group] # <<>>
  BY Current DEF StackInv, StackOf, Distinct
<1>3. LeafOf(current_group)
  BY DEF LeafInv, TypeInv
<1> QED BY <1>1, <1>2, <1>3, FrontOf DEF LeafOf, Self

\* The tick: a group that goes on has its context where it left it, or the step
\* is a crash.
LEMMA LeafTick == ASSUME TypeInv, StackInv, GroupInv, LeafInv, ~crashed, schedule_next PROVE LeafInv'
<1>1. /\ ~UserMode /\ Top.pc = "switch" /\ GoTo("return") /\ current_group' = NextGroup
      /\ UNCHANGED <<procs, active_pid, dying>>
  BY DEF schedule_next, At
<1>2. \A g \in Groups : Marks(thread'[g]) = Marks(thread[g])
  <2>1. "return" \in Points /\ "return" \notin Loose /\ "switch" \notin Loose
    BY HandlerPoints DEF Loose, Torn
  <2> QED BY <1>1, <2>1, MarksTurned
<1> DEFINE next == active_pid[NextGroup]
<1>3. /\ \A p \in Pids : pcb'[p].parent_pid = pcb[p].parent_pid
      /\ pcb'[next].kernel_esp = NoContext /\ (Self # next => pcb'[Self].kernel_esp = current_group)
      /\ \A p \in Pids \ {Self, next} : pcb'[p].kernel_esp = pcb[p].kernel_esp
      /\ crashed' <=> (IF next = Self THEN current_group ELSE pcb[next].kernel_esp) # NextGroup
  BY TickContexts
<1>4. current_group \in Groups /\ NextGroup \in Groups /\ NoContext \notin Groups
  BY NextType, ContextTypes DEF TypeInv
<1>5. ASSUME NEW g \in Groups PROVE LeafOf(g)'
  <2> DEFINE p == active_pid[g]
             M == Marks(thread[g])
  <2>1. p \in Pids /\ LeafOf(g)
    BY SelfType DEF LeafInv
  <2>2. ASSUME ~crashed', M \cap {"tail", "freed"} # {}, g = NextGroup \/ pcb'[p].kernel_esp = g
        PROVE  pcb'[p].parent_pid = ParentIn(procs[g], M)
    <3>1. g = current_group \/ pcb[p].kernel_esp = g
      <4>1. CASE g = NextGroup
        BY <1>3, <2>2, <4>1
      <4>2. CASE g # NextGroup /\ g # current_group
        <5>1. pcb'[p].kernel_esp = g
          BY <2>2, <4>2
        <5>2. p # next /\ p # Self
          BY <1>3, <1>4, <4>2, <5>1
        <5> QED BY <1>3, <2>1, <5>1, <5>2
      <4> QED BY <4>1, <4>2
    <3>2. pcb[p].parent_pid = ParentIn(procs[g], M)
      BY <2>1, <2>2, <3>1 DEF LeafOf
    <3> QED BY <1>3, <2>1, <3>2
  <2>3. dying[g] # NoPid <=> M \cap Torn # {}
    BY <2>1 DEF LeafOf
  <2>4. p = IF "freed" \in M THEN dying[g] ELSE procs[g][Len(procs[g])]
    BY <2>1 DEF LeafOf
  <2>5. Marks(thread'[g]) = M /\ active_pid'[g] = p /\ procs' = procs /\ dying' = dying
    BY <1>1, <1>2
  <2> HIDE DEF p, M
  <2> QED BY <1>1, <2>2, <2>3, <2>4, <2>5 DEF LeafOf
<1> QED BY <1>5 DEF LeafInv

LEMMA LeafExecute == ASSUME TypeInv, StackInv, LeafInv, Execute \/ ExecuteFails PROVE LeafInv'
<1>1. Execute => Executing
  BY DEF Execute
<1>2. ~UserMode /\ Top.kind \notin Irqs /\ Top.pc \notin Loose /\ Top.kind \in {CALL, BOOT}
  BY <1>1, CallKinds, KindsApart DEF Loose, Torn
<1>3. PICK x \in {"exec", "return"} : GoTo(x) /\ x \in PointsOf(Top.kind)
  <2>1. Execute => GoTo("exec") /\ "exec" \in PointsOf(Top.kind)
    BY <1>2, HandlerPoints DEF Execute
  <2>2. ExecuteFails => GoTo("return") /\ "return" \in PointsOf(Top.kind)
    BY CallKinds, HandlerPoints DEF ExecuteFails
  <2> QED BY <2>1, <2>2
<1>4. /\ Marks(thread[current_group]) = {} /\ Marks(thread'[current_group]) = {}
      /\ \A g \in Groups : g # current_group => thread'[g] = thread[g]
  <2>1. {x} \cap Loose = {} /\ {Top.pc} \cap Loose = {}
    BY <1>2 DEF Loose, Torn
  <2> QED BY <1>2, <1>3, <2>1, MarksGoTo
<1>5. current_group' = current_group /\ dying' = dying /\ crashed' = crashed /\ current_group \in Groups
  BY DEF Execute, ExecuteFails, TypeInv
<1> DEFINE Wiped(Q) ==
             /\ \A p \in Pids \ Q : pcb'[p].parent_pid = pcb[p].parent_pid /\ pcb'[p].kernel_esp = pcb[p].kernel_esp
             /\ \A p \in Q : pcb'[p].kernel_esp = NoContext
<1>6. \E Q : Wiped(Q)
  <2>1. CASE pcb' = pcb
    <3>1. Wiped({})
      BY <2>1
    <3> HIDE DEF Wiped
    <3> QED BY <3>1
  <2>2. CASE Execute
    <3>1. get_new_pid \in Pids
      BY <2>2, NewPid DEF Execute
    <3>4. pcb' = ExecutePCBs
      BY <2>2 DEF Execute
    <3>2. ASSUME NEW p \in Pids \ {get_new_pid}
          PROVE  ExecutePCBs[p].parent_pid = pcb[p].parent_pid /\ ExecutePCBs[p].kernel_esp = pcb[p].kernel_esp
      BY <3>1, SetUp
    <3>5. ExecutePCBs[get_new_pid].kernel_esp = NoContext
      BY <3>1, SetUp
    <3>3. Wiped({get_new_pid})
      BY <3>2, <3>4, <3>5
    <3> HIDE DEF Wiped
    <3> QED BY <3>3
  <2>3. CASE ExecuteFails /\ pcb' # pcb
    <3>1. Free # {} /\ pcb' = [pcb EXCEPT ![get_new_pid] = ZeroPCB]
      BY <2>3 DEF ExecuteFails
    <3>2. get_new_pid \in Pids
      BY <3>1, NewPid
    <3>3. /\ \A p \in Pids \ {get_new_pid} : pcb'[p] = pcb[p]
          /\ pcb'[get_new_pid].kernel_esp = NoContext
      BY <3>1, <3>2, SelfType, ContextTypes
    <3>4. Wiped({get_new_pid})
      BY <3>3
    <3> HIDE DEF Wiped
    <3> QED BY <3>4
  <2> HIDE DEF Wiped
  <2> QED BY <2>1, <2>2, <2>3 DEF Execute
<1>7. ASSUME NEW g \in Groups \ {current_group} PROVE LeafOf(g)'
  <2>1. procs'[g] = procs[g] /\ active_pid'[g] = active_pid[g]
    BY SetProcs DEF Execute, ExecuteFails, TypeInv
  <2>2. Marks(thread'[g]) = Marks(thread[g]) /\ dying'[g] = dying[g]
    BY <1>4, <1>5
  <2>3. PICK Q : Wiped(Q)
    BY <1>6
  <2> QED BY <1>5, <2>1, <2>2, <2>3, LeafOthers
<1>8. LeafOf(current_group)'
  <2> DEFINE P == procs[current_group]
  <2>1. dying[current_group] = NoPid /\ Self = P[Len(P)] /\ P \in Seq(Pids) /\ Len(P) \in Nat \ {0}
    BY <1>2, LeafHere DEF Loose
  <2>2. active_pid'[current_group] = procs'[current_group][Len(procs'[current_group])]
    <3>1. CASE Execute
      <4>1. procs'[current_group] = Append(P, get_new_pid) /\ active_pid'[current_group] = get_new_pid
        BY <1>5, <3>1, SetProcs DEF Execute, TypeInv
      <4>2. get_new_pid \in Pids
        BY <3>1, NewPid DEF Execute
      <4> HIDE DEF P
      <4>3. Append(P, get_new_pid)[Len(Append(P, get_new_pid))] = get_new_pid
        BY <2>1, <4>2, PushFields
      <4> QED BY <4>1, <4>3
    <3>2. CASE ExecuteFails
      BY <2>1, <3>2 DEF ExecuteFails, Self
    <3> QED BY <3>1, <3>2
  <2>3. dying'[current_group] = NoPid
    BY <1>5, <2>1
  <2> QED BY <1>4, <1>5, <2>2, <2>3 DEF LeafOf
<1> QED BY <1>5, <1>7, <1>8 DEF LeafInv

LEMMA LeafElse ==
  ASSUME TypeInv, LeafInv, current_group' = current_group, ~crashed' => ~crashed, pcb' = pcb,
         NEW g \in Groups \ {current_group}, thread'[g] = thread[g], procs'[g] = procs[g],
         active_pid'[g] = active_pid[g], dying'[g] = dying[g]
  PROVE  LeafOf(g)'
BY DEF LeafInv, LeafOf

LEMMA LeafHalt == ASSUME TypeInv, StackInv, LeafInv, system_halt PROVE LeafInv'
<1> DEFINE P == procs[current_group]
           U == Front(thread[current_group])
<1>1. ~UserMode /\ Top.kind \notin Irqs /\ Top.pc \notin Loose
  BY CallKinds, KindsApart DEF Loose, Torn
<1>2. /\ current_group' = current_group /\ procs' = procs /\ active_pid' = active_pid /\ pcb' = pcb
      /\ dying' = dying /\ current_group \in Groups
  BY DEF system_halt, TypeInv
<1>3. Marks(thread[current_group]) = {}
  BY <1>1, CurrentMarks
<1>4. dying[current_group] = NoPid /\ active_pid[current_group] = P[Len(P)]
  BY <1>1, LeafHere DEF Loose, Self
<1>5. /\ U \in Seq(Frame) /\ U # <<>> /\ U[Len(U)].kind = CALL /\ U[Len(U)].pc = "exec"
      /\ StackOf(U, P, current_group = 0)
      /\ \/ /\ thread' = [thread EXCEPT ![current_group] = Turn(U, "tail")]
            /\ crashed' = crashed /\ pcb[Self].parent_pid = U[Len(U)].pid
         \/ thread' = thread /\ crashed' = TRUE
  BY Halting
<1>6. CASE thread' = thread /\ crashed' = TRUE
  <2>1. LeafOf(current_group)'
    BY <1>2, <1>3, <1>4, <1>6 DEF LeafOf
  <2>2. \A g \in Groups \ {current_group} : LeafOf(g)'
    BY <1>2, <1>6, LeafElse
  <2> QED BY <1>2, <2>1, <2>2 DEF LeafInv
<1>7. CASE /\ thread' = [thread EXCEPT ![current_group] = Turn(U, "tail")]
           /\ crashed' = crashed /\ pcb[Self].parent_pid = U[Len(U)].pid
  <2>1. /\ thread'[current_group] = Turn(U, "tail")
        /\ \A g \in Groups : g # current_group => thread'[g] = thread[g]
    BY <1>7, SetThread
  <2>2. "tail" \in Points /\ "tail" \in PointsOf(CALL) /\ "tail" \in Loose /\ "tail" \notin Torn /\ CALL \notin Irqs
    BY HandlerPoints, KindsApart DEF Torn
  <2>3. pcb[active_pid[current_group]].parent_pid = U[Len(U)].pid
    BY <1>7 DEF Self
  <2> HIDE DEF U, P
  <2>4. U[Len(U)].pid = P[Len(P) - 1]
    BY <1>5 DEF StackOf, Tops, NewChild
  <2>5. Marks(Turn(U, "tail")) = {"tail"}
    <3>1. Shaped(Turn(U, "tail"), current_group = 0)
      BY <1>5, <2>2, ShapedTurn DEF StackOf
    <3>2. Len(U) \in 1 .. Len(U)
      BY <1>5, FrontOf
    <3>3. LET V == Turn(U, "tail") IN
          V \in Seq(Frame) /\ V # <<>> /\ V[Len(V)].kind = CALL /\ V[Len(V)].pc = "tail"
      BY <1>5, <2>2, <3>2, TurnFields
    <3> QED BY <2>2, <3>1, <3>3, MarksTop
  <2>6. LeafOf(current_group)'
    <3>1. Marks(thread'[current_group]) = {"tail"}
      BY <2>1, <2>5
    <3> QED BY <1>2, <1>4, <2>2, <2>3, <2>4, <3>1 DEF LeafOf, ParentIn, P
  <2>7. \A g \in Groups \ {current_group} : LeafOf(g)'
    BY <1>2, <1>7, <2>1, LeafElse
  <2> QED BY <1>2, <2>6, <2>7 DEF LeafInv
<1> QED BY <1>5, <1>6, <1>7

\* The four steps of pcb_teardown.
LEMMA LeafTeardown == ASSUME TypeInv, StackInv, LeafInv, ~crashed, pcb_teardown PROVE LeafInv'
<1> DEFINE P == procs[current_group]
           D == dying[current_group]
           M == Marks(thread[current_group])
           N == Marks(thread'[current_group])
<1>1. ~UserMode /\ Top.kind = CALL /\ Top.kind \notin Irqs /\ Top.pc \in Loose
  BY CallKinds, KindsApart DEF Loose
<1>2. current_group' = current_group /\ crashed' = crashed /\ current_group \in Groups
  BY DEF TeardownFree, TeardownActive, TeardownEsp0, TeardownClear, TypeInv
<1>3. PICK x \in {"freed", "moved", "aimed", "return"} : GoTo(x)
  BY DEF TeardownFree, TeardownActive, TeardownEsp0, TeardownClear
<1>4. /\ M = {Top.pc} /\ N = {x} \cap Loose
      /\ \A g \in Groups : g # current_group => thread'[g] = thread[g]
  <2>1. x \in PointsOf(Top.kind)
    BY <1>1, HandlerPoints
  <2>2. {Top.pc} \cap Loose = {Top.pc}
    BY <1>1
  <2> QED BY <1>1, <1>3, <2>1, <2>2, MarksGoTo
<1>5. LeafOf(current_group) /\ P \in Seq(Pids) /\ P # <<>>
  BY Current DEF LeafInv, StackInv, StackOf, Distinct
<1>6. \A g \in Groups \ {current_group} : LeafOf(g)'
  <2>1. ASSUME NEW g \in Groups \ {current_group}
        PROVE  procs'[g] = procs[g] /\ active_pid'[g] = active_pid[g] /\ dying'[g] = dying[g]
    BY SetProcs DEF TeardownFree, TeardownActive, TeardownEsp0, TeardownClear, TypeInv
  <2>2. CASE TeardownFree \/ TeardownActive \/ TeardownEsp0
    <3>1. pcb' = pcb
      BY <2>2 DEF TeardownFree, TeardownActive, TeardownEsp0
    <3> QED BY <1>2, <1>4, <2>1, <3>1, LeafElse
  <2>3. CASE TeardownClear
    <3>1. /\ \A p \in Pids \ {D} : pcb'[p].parent_pid = pcb[p].parent_pid /\ pcb'[p].kernel_esp = pcb[p].kernel_esp
          /\ D \in Pids => pcb'[D].kernel_esp = NoContext
      BY <2>3, ContextTypes DEF TeardownClear, TypeInv
    <3>2. D \in Pids
      <4>1. M \cap Torn # {}
        BY <1>4, <2>3, CallKinds
      <4> QED BY <1>5, <4>1 DEF LeafOf, TypeInv
    <3> DEFINE Q == {D}
    <3>3. /\ \A p \in Pids \ Q : pcb'[p].parent_pid = pcb[p].parent_pid /\ pcb'[p].kernel_esp = pcb[p].kernel_esp
          /\ \A p \in Q : pcb'[p].kernel_esp = NoContext
      BY <3>1, <3>2
    <3> HIDE DEF Q
    <3>4. ASSUME NEW g \in Groups \ {current_group} PROVE LeafOf(g)'
      <4>1. Marks(thread'[g]) = Marks(thread[g])
        BY <1>4
      <4> QED BY <1>2, <2>1, <3>3, <4>1, LeafOthers
    <3> QED BY <3>4
  <2> QED BY <2>2, <2>3
<1>7. LeafOf(current_group)'
  <2> HIDE DEF M, N
  <2>1. "tail" \notin Torn /\ "return" \notin Loose /\ "tail" # "freed"
    BY DEF Torn, Loose
  <2>2. CASE TeardownFree
    <3>1. Top.pc = "tail" /\ GoTo("freed") /\ dying'[current_group] = Self /\ active_pid' = active_pid /\ pcb' = pcb
          /\ procs'[current_group] = Front(P)
      BY <1>2, <2>2, SetProcs DEF TeardownFree, At, TypeInv
    <3>2. M = {"tail"} /\ N = {"freed"}
      <4>1. "freed" \in PointsOf(Top.kind)
        BY <1>1, HandlerPoints
      <4>2. {"freed"} \cap Loose = {"freed"}
        BY DEF Loose, Torn
      <4> QED BY <1>1, <1>4, <3>1, <4>1, <4>2, MarksGoTo DEF N
    <3>3. Front(P) # <<>>
      <4>1. LET T == thread[current_group] IN
            T \in Seq(Frame) /\ T # <<>> /\ Top = T[Len(T)] /\ StackOf(T, P, current_group = 0)
        BY <1>1, Working
      <4> QED BY <1>1, <1>5, <3>1, <4>1, StackTeardown
    <3>4. Front(P)[Len(Front(P))] = P[Len(P) - 1]
      <4> HIDE DEF P
      <4>1. /\ Len(P) \in Nat \ {0} /\ Front(P) \in Seq(Pids) /\ Len(Front(P)) = Len(P) - 1
            /\ \A i \in 1 .. Len(P) - 1 : Front(P)[i] = P[i]
        BY <1>5, FrontOf
      <4>2. Len(Front(P)) \in Nat \ {0}
        BY <3>3, <4>1, FrontOf
      <4> QED BY <4>1, <4>2
    <3>5. pcb[active_pid[current_group]].parent_pid = P[Len(P) - 1]
      BY <1>5, <2>1, <3>2 DEF LeafOf, ParentIn, M
    <3>6. dying'[current_group] = active_pid[current_group] /\ dying'[current_group] # NoPid
      BY <3>1, SelfType, ContextTypes
    <3>7. {"freed"} \cap Torn # {} /\ "tail" \notin {"freed"}
      BY DEF Torn
    <3> QED BY <1>2, <3>1, <3>2, <3>4, <3>5, <3>6, <3>7 DEF LeafOf, ParentIn, N
  <2>3. CASE TeardownActive
    <3>1. Top.pc = "freed" /\ GoTo("moved") /\ dying' = dying /\ procs' = procs
          /\ active_pid'[current_group] = pcb[D].parent_pid
      BY <1>2, <2>3 DEF TeardownActive, At, TypeInv
    <3>2. M = {"freed"} /\ N = {"moved"}
      <4>1. "moved" \in PointsOf(Top.kind)
        BY <1>1, HandlerPoints
      <4>2. {"moved"} \cap Loose = {"moved"}
        BY DEF Loose, Torn
      <4> QED BY <1>1, <1>4, <3>1, <4>1, <4>2, MarksGoTo DEF N
    <3>3. pcb[D].parent_pid = P[Len(P)]
      BY <2>3, FreedParent
    <3>4. {"freed"} \cap Torn # {} /\ {"moved"} \cap Torn # {} /\ {"moved"} \cap {"tail", "freed"} = {} /\ "freed" \notin {"moved"}
      BY DEF Torn
    <3>5. D # NoPid
      BY <1>5, <3>2, <3>4 DEF LeafOf, M
    <3> QED BY <1>2, <3>1, <3>2, <3>3, <3>4, <3>5 DEF LeafOf, N
  <2>4. CASE TeardownEsp0
    <3>1. Top.pc = "moved" /\ GoTo("aimed") /\ dying' = dying /\ procs' = procs /\ active_pid' = active_pid
      BY <2>4 DEF TeardownEsp0, At
    <3>2. M = {"moved"} /\ N = {"aimed"}
      <4>1. "aimed" \in PointsOf(Top.kind)
        BY <1>1, HandlerPoints
      <4>2. {"aimed"} \cap Loose = {"aimed"}
        BY DEF Loose, Torn
      <4> QED BY <1>1, <1>4, <3>1, <4>1, <4>2, MarksGoTo DEF N
    <3>3. {"moved"} \cap Torn # {} /\ {"aimed"} \cap Torn # {} /\ {"aimed"} \cap {"tail", "freed"} = {}
          /\ "freed" \notin {"aimed"} /\ "freed" \notin {"moved"}
      BY DEF Torn
    <3> QED BY <1>2, <1>5, <3>1, <3>2, <3>3 DEF LeafOf, M, N
  <2>5. CASE TeardownClear
    <3>1. Top.pc = "aimed" /\ GoTo("return") /\ dying'[current_group] = NoPid /\ procs' = procs /\ active_pid' = active_pid
      BY <1>2, <2>5 DEF TeardownClear, At, TypeInv
    <3>2. M = {"aimed"} /\ N = {}
      <4>1. "return" \in PointsOf(Top.kind)
        BY <1>1, HandlerPoints
      <4>2. {"return"} \cap Loose = {}
        BY <2>1
      <4> QED BY <1>1, <1>4, <3>1, <4>1, <4>2, MarksGoTo DEF N
    <3> QED BY <1>2, <1>5, <3>1, <3>2 DEF LeafOf, M, N
  <2> QED BY <2>2, <2>3, <2>4, <2>5
<1> QED BY <1>2, <1>6, <1>7 DEF LeafInv

\* When the shells of the other groups are made, nothing has run there.
LEMMA LeafShells ==
  ASSUME TypeInv, StackInv, GroupInv, LeafInv, static_start_shells
  PROVE  LeafInv' /\ \A g \in Groups : dying'[g] = NoPid
<1>1. /\ ~UserMode /\ Top.kind = BOOT /\ Top.pc = "shells" /\ current_group = 0 /\ current_group' = 0 /\ dying' = dying
      /\ active_pid' = [g \in Groups |-> IF g = 0 THEN 0 ELSE BaseShell(g)]
  BY BootKinds DEF static_start_shells, At, Boot
<1>2. ~Started
  <2>1. Top = thread[0][1]
    BY <1>1, BootKinds DEF Boot
  <2> QED BY <1>1, <2>1 DEF Started, BootPc, Starting
<1>3. /\ thread'[0] = Turn(thread[0], "pit_init")
      /\ \A g \in Groups \ {0} : thread'[g] = <<FakeFrame(BaseShell(g))>> /\ procs'[g] = <<BaseShell(g)>>
      /\ procs'[0] = procs[0]
  BY <1>1, ShellThreads DEF static_start_shells
<1>4. Marks(thread[0]) = {} /\ Marks(thread'[0]) = {}
  <2>1. BOOT \notin Irqs /\ "shells" \notin Loose /\ "pit_init" \notin Loose /\ "pit_init" \in Points
    BY KindsApart, HandlerPoints DEF Loose, Torn
  <2>2. Marks(thread[0]) = {}
    BY <1>1, <2>1, CurrentMarks
  <2>3. thread[0] \in Seq(Frame) /\ thread[0] # <<>> /\ thread[0][Len(thread[0])].pc \notin Loose
    BY <1>1, <2>1, Current
  <2>4. Marks(Turn(thread[0], "pit_init")) = Marks(thread[0])
    BY <2>1, <2>3, MarksTurn
  <2> QED BY <1>3, <2>2, <2>4
<1>5. ASSUME NEW g \in Groups \ {0}
      PROVE  Marks(thread[g]) = {} /\ Marks(thread'[g]) = {}
  <2>1. thread[g] = <<>>
    BY <1>1, <1>2 DEF GroupInv
  <2>2. \A T : T = <<>> => Marks(T) = {}
    <3> TAKE T
    <3> HAVE T = <<>>
    <3>1. Len(T) = 0 /\ 1 .. 0 = {}
      OBVIOUS
    <3> QED BY <3>1 DEF Marks
  <2>3. FakeFrame(BaseShell(g)).pc \notin Loose
    BY DEF FakeFrame, Loose, Torn
  <2>4. ASSUME NEW f, f.pc \notin Loose PROVE Marks(<<f>>) = {}
    <3>1. Len(<<f>>) = 1 /\ <<f>>[1] = f /\ 1 .. 1 = {1}
      OBVIOUS
    <3> QED BY <2>4, <3>1 DEF Marks
  <2> QED BY <1>3, <2>1, <2>2, <2>3, <2>4
<1>6. ASSUME NEW g \in Groups PROVE Marks(thread[g]) = {} /\ Marks(thread'[g]) = {} /\ dying'[g] = NoPid
  <2>1. Marks(thread[g]) = {} /\ Marks(thread'[g]) = {}
    BY <1>4, <1>5
  <2>2. LeafOf(g)
    BY DEF LeafInv
  <2> QED BY <1>1, <2>1, <2>2 DEF LeafOf
<1>7. ASSUME NEW g \in Groups PROVE active_pid'[g] = procs'[g][Len(procs'[g])]
  <2>1. procs'[g] = <<IF g = 0 THEN 0 ELSE BaseShell(g)>>
    BY <1>1, <1>2, <1>3 DEF GroupInv
  <2>2. \A p : Len(<<p>>) = 1 /\ <<p>>[1] = p
    OBVIOUS
  <2> QED BY <1>1, <2>1, <2>2
<1> QED BY <1>6, <1>7 DEF LeafInv, LeafOf

LEMMA LeafStep ==
  ASSUME TypeInv, StackInv, GroupInv, BootInv, LeafInv, KeptInv, [Next]_vars PROVE LeafInv'
<1>1. CASE UNCHANGED vars
  BY <1>1 DEF vars, LeafInv, LeafOf
<1>2. CASE Next
  <2>2. CASE Execute \/ ExecuteFails \/ system_halt \/ schedule_next \/ pcb_teardown \/ static_start_shells
    BY <2>2, NotCrashed, LeafExecute, LeafHalt, LeafTick, LeafTeardown, LeafShells
  <2>3. CASE \/ save_tss_esp \/ iret \/ DeviceMask \/ DeviceEoi \/ DeviceUnmask \/ TickEoi \/ OtherCall
             \/ i8259_init \/ rtc_init \/ keyboard_init \/ pit_init
             \/ SystemCall \/ Exception \/ \E irq \in Irqs : Interrupt(irq)
    BY <2>3, TablesQuiet
  <2> QED BY <1>2, <2>2, <2>3 DEF Next, Code, Boot
<1> QED BY <1>1, <1>2

\* No two groups have the same active process.
LEMMA ActiveApart ==
  ASSUME TypeInv, StackInv, GroupInv, LeafInv, DyingApart, Started, NEW g \in Groups, NEW h \in Groups, g # h
  PROVE  active_pid[g] # active_pid[h]
<1>1. ASSUME NEW k \in Groups
      PROVE  \/ dying[k] # NoPid /\ active_pid[k] = dying[k]
             \/ active_pid[k] \in Range(procs[k])
  <2>1. procs[k] \in Seq(Pids) /\ procs[k] # <<>>
    BY DEF StackInv, StackOf, Distinct, TypeInv
  <2>2. procs[k][Len(procs[k])] \in Range(procs[k])
    BY <2>1, LastInRange
  <2>3. "freed" \in Marks(thread[k]) => dying[k] # NoPid
    <3>1. "freed" \in Torn
      BY DEF Torn
    <3> QED BY <3>1 DEF LeafInv, LeafOf
  <2> QED BY <2>2, <2>3 DEF LeafInv, LeafOf
<1>2. Range(procs[g]) \cap Range(procs[h]) = {}
  BY DEF GroupInv
<1> QED BY <1>1, <1>2 DEF DyingApart

\* A PCB is set up or cleared that no process uses and no other group's
\* teardown: the contexts of the others and the chains are left.
LEMMA ContextsLeft ==
  ASSUME TypeInv, StackInv, LeafInv, NEW n, \A g \in Groups : n \notin Range(procs[g]),
         \A g \in Groups : dying[g] = n => g = current_group,
         \A p \in Pids \ {n} : /\ pcb'[p].parent_pid = pcb[p].parent_pid /\ pcb'[p].kernel_esp = pcb[p].kernel_esp
                               /\ pcb'[p].eip \in {pcb[p].eip, "return_from_exec"},
         NEW g \in Groups
  PROVE  /\ g # current_group => pcb'[active_pid[g]].kernel_esp = pcb[active_pid[g]].kernel_esp
         /\ ChainOf(g) => \A i \in 1 .. Len(procs[g]) - 1 :
               pcb'[procs[g][i]].eip = "return_from_exec" /\ pcb'[procs[g][i + 1]].parent_pid = procs[g][i]
<1> DEFINE P == procs[g]
<1>1. P \in Seq(Pids) /\ P # <<>>
  BY DEF StackInv, StackOf, Distinct, TypeInv
<1>2. Len(P) \in Nat \ {0} /\ P[Len(P)] \in Range(P) /\ \A x \in 1 .. Len(P) : P[x] \in Range(P) /\ P[x] \in Pids
  BY <1>1, LastInRange, ElementOfSeq
<1>3. \A x \in 1 .. Len(P) : P[x] \in Pids \ {n}
  BY <1>2
<1>4. ASSUME g # current_group PROVE active_pid[g] \in Pids \ {n}
  <2>1. active_pid[g] \in Pids /\ (active_pid[g] = dying[g] \/ active_pid[g] = P[Len(P)])
    BY DEF LeafInv, LeafOf, TypeInv
  <2>2. P[Len(P)] # n /\ dying[g] # n
    BY <1>2, <1>4
  <2> QED BY <2>1, <2>2
<1> HIDE DEF P
<1>5. ASSUME NEW i \in 1 .. Len(P) - 1, pcb[P[i]].eip = "return_from_exec", pcb[P[i + 1]].parent_pid = P[i]
      PROVE  pcb'[P[i]].eip = "return_from_exec" /\ pcb'[P[i + 1]].parent_pid = P[i]
  <2>1. i \in 1 .. Len(P) /\ i + 1 \in 1 .. Len(P)
    BY <1>2
  <2> QED BY <1>3, <1>5, <2>1
<1>6. ChainOf(g) => \A i \in 1 .. Len(P) - 1 :
         pcb'[P[i]].eip = "return_from_exec" /\ pcb'[P[i + 1]].parent_pid = P[i]
  BY <1>5 DEF ChainOf, P
<1> QED BY <1>4, <1>6 DEF P

LEMMA KeptExecute == ASSUME TypeInv, StackInv, GroupInv, LeafInv, KeptInv, Execute \/ ExecuteFails PROVE KeptInv'
<1> DEFINE n == get_new_pid
           P == procs[current_group]
<1>1. current_group' = current_group /\ dying' = dying /\ crashed' = crashed /\ current_group \in Groups
  BY DEF Execute, ExecuteFails, TypeInv
<1>2. Started' => Started
  BY StartedBefore DEF Plain
<1>3. CASE ExecuteFails /\ UNCHANGED <<pcb, stolen>>
  BY <1>1, <1>2, <1>3 DEF ExecuteFails, KeptInv, DyingApart, Waiting, ChainOf
<1>4. CASE Execute \/ (ExecuteFails /\ Free # {} /\ pcb' = [pcb EXCEPT ![get_new_pid] = ZeroPCB] /\ Take(get_new_pid))
  <2>1. n \in Pids /\ (\A g \in Groups : n \notin Range(procs[g])) /\ Take(n)
    BY <1>4, NewPid DEF Execute
  <2> SUFFICES ASSUME ~stolen' PROVE ~crashed' /\ DyingApart' /\ Waiting' /\ \A g \in Groups : ChainOf(g)'
    BY DEF KeptInv
  <2>2. ~stolen /\ \A g \in Groups : dying[g] # n
    BY <2>1 DEF Take
  <2>3. ~crashed /\ DyingApart /\ Waiting /\ \A g \in Groups : ChainOf(g)
    BY <2>2 DEF KeptInv
  <2>4. \A p \in Pids \ {n} : /\ pcb'[p].parent_pid = pcb[p].parent_pid /\ pcb'[p].kernel_esp = pcb[p].kernel_esp
                              /\ pcb'[p].eip \in {pcb[p].eip, "return_from_exec"}
    <3>1. CASE Execute
      <4>1. pcb' = ExecutePCBs
        BY <3>1 DEF Execute
      <4>2. ExecutePCBs[Self].eip = "return_from_exec"
        BY <2>1, SetUp
      <4>3. \A p \in Pids \ {n} : /\ ExecutePCBs[p].parent_pid = pcb[p].parent_pid
                                  /\ ExecutePCBs[p].kernel_esp = pcb[p].kernel_esp
                                  /\ p # Self => ExecutePCBs[p] = pcb[p]
        BY <2>1, SetUp
      <4> HIDE DEF n
      <4> QED BY <4>1, <4>2, <4>3
    <3>2. CASE pcb' = [pcb EXCEPT ![get_new_pid] = ZeroPCB]
      BY <3>2, SelfType
    <3> QED BY <1>4, <3>1, <3>2
  <2>5. \A g \in Groups : dying[g] = n => g = current_group
    BY <2>2
  <2> HIDE DEF n
  <2>6. ASSUME NEW g \in Groups
        PROVE  /\ g # current_group => pcb'[active_pid[g]].kernel_esp = pcb[active_pid[g]].kernel_esp
               /\ ChainOf(g) => \A i \in 1 .. Len(procs[g]) - 1 :
                     pcb'[procs[g][i]].eip = "return_from_exec" /\ pcb'[procs[g][i + 1]].parent_pid = procs[g][i]
    BY <2>1, <2>4, <2>5, ContextsLeft
  <2>7. ASSUME NEW g \in Groups \ {current_group} PROVE procs'[g] = procs[g] /\ active_pid'[g] = active_pid[g]
    BY <1>4, SetProcs DEF Execute, ExecuteFails, TypeInv
  <2>8. Waiting'
    BY <1>1, <1>2, <2>3, <2>6, <2>7 DEF Waiting
  <2>9. \A g \in Groups \ {current_group} : ChainOf(g)'
    BY <2>3, <2>6, <2>7 DEF ChainOf
  <2>10. CASE Execute
    <3>1. /\ procs'[current_group] = Append(P, n) /\ pcb' = ExecutePCBs
          /\ pcb'[Self].eip = "return_from_exec" /\ pcb'[n].parent_pid = Self
      BY <2>1, <2>10, SetProcs, SetUp DEF Execute, n
    <3>2. Self = P[Len(P)] /\ P \in Seq(Pids) /\ Len(P) \in Nat \ {0}
      <4>1. ~UserMode /\ Top.kind \notin Irqs /\ Top.pc \notin Torn
        BY <2>10, CallKinds, KindsApart DEF Execute, Torn
      <4> QED BY <4>1, LeafHere
    <3>3. DyingApart'
      <4>1. ASSUME NEW g \in Groups, NEW h \in Groups, dying[g] # NoPid PROVE dying[g] \notin Range(procs'[h])
        <5>1. CASE h # current_group
          BY <2>3, <2>7, <4>1, <5>1 DEF DyingApart
        <5>2. CASE h = current_group
          <6>1. dying[g] # n /\ dying[g] \notin Range(P)
            BY <1>1, <2>2, <2>3, <4>1 DEF DyingApart, n
          <6> HIDE DEF P
          <6> QED BY <2>1, <3>1, <3>2, <5>2, <6>1, RangePush
        <5> QED BY <5>1, <5>2
      <4> QED BY <1>1, <2>3, <4>1 DEF DyingApart
    <3>4. ChainOf(current_group)'
      <4> DEFINE Q == Append(P, n)
                 holds(i) == pcb'[Q[i]].eip = "return_from_exec" /\ pcb'[Q[i + 1]].parent_pid = Q[i]
      <4>1. \A i \in 1 .. Len(P) - 1 :
               pcb'[P[i]].eip = "return_from_exec" /\ pcb'[P[i + 1]].parent_pid = P[i]
        BY <1>1, <2>3, <2>6
      <4> HIDE DEF P
      <4>2. /\ Len(Q) = Len(P) + 1 /\ \A i \in 1 .. Len(P) : Q[i] = P[i]
            /\ Q[Len(P) + 1] = n
        BY <2>1, <3>2, PushFields
      <4> HIDE DEF Q
      <4>3. ASSUME NEW i \in 1 .. Len(Q) - 1 PROVE holds(i)
        <5>1. CASE i = Len(P)
          <6>1. Q[i] = Self /\ Q[i + 1] = n
            BY <3>2, <4>2, <5>1
          <6> QED BY <3>1, <6>1
        <5>2. CASE i # Len(P)
          <6>1. i \in 1 .. Len(P) - 1 /\ i \in 1 .. Len(P) /\ i + 1 \in 1 .. Len(P)
            BY <3>2, <4>2, <5>2
          <6> QED BY <4>1, <4>2, <6>1
        <5> QED BY <5>1, <5>2
      <4>4. procs'[current_group'] = Q
        BY <1>1, <3>1 DEF Q
      <4> QED BY <1>1, <4>3, <4>4 DEF ChainOf
    <3> QED BY <1>1, <2>3, <2>8, <2>9, <3>3, <3>4
  <2>11. CASE ExecuteFails
    <3>1. procs' = procs
      BY <2>11 DEF ExecuteFails
    <3>2. DyingApart'
      BY <1>1, <2>3, <3>1 DEF DyingApart
    <3>3. ChainOf(current_group)'
      BY <1>1, <2>3, <2>6, <3>1 DEF ChainOf
    <3> QED BY <1>1, <2>3, <2>8, <2>9, <3>2, <3>3
  <2> QED BY <1>4, <2>10, <2>11
<1> QED BY <1>3, <1>4 DEF ExecuteFails

LEMMA KeptTick == ASSUME TypeInv, StackInv, GroupInv, BootInv, LeafInv, KeptInv, schedule_next PROVE KeptInv'
<1> DEFINE next == active_pid[NextGroup]
<1>1. /\ ~UserMode /\ Top.kind = IRQ_PIT /\ current_group' = NextGroup
      /\ UNCHANGED <<procs, active_pid, dying, stolen>>
  BY DEF schedule_next, At
<1>2. Started
  BY <1>1, LateTop
<1>3. /\ \A p \in Pids : pcb'[p].parent_pid = pcb[p].parent_pid /\ pcb'[p].eip = pcb[p].eip
      /\ pcb'[next].kernel_esp = NoContext /\ (Self # next => pcb'[Self].kernel_esp = current_group)
      /\ \A p \in Pids \ {Self, next} : pcb'[p].kernel_esp = pcb[p].kernel_esp
      /\ crashed' <=> (IF next = Self THEN current_group ELSE pcb[next].kernel_esp) # NextGroup
      /\ crashed' \in BOOLEAN
  BY TickContexts
<1>4. current_group \in Groups /\ NextGroup \in Groups /\ Self = active_pid[current_group]
  BY NextType, SelfType DEF TypeInv
<1> SUFFICES ASSUME ~stolen' PROVE ~crashed' /\ DyingApart' /\ Waiting' /\ \A g \in Groups : ChainOf(g)'
  BY DEF KeptInv
<1>5. DyingApart /\ Waiting /\ \A g \in Groups : ChainOf(g)
  BY <1>1 DEF KeptInv
<1>6. \A g, h \in Groups : g # h => active_pid[g] # active_pid[h]
  BY <1>2, <1>5, ActiveApart
<1>7. ~crashed'
  <2>1. CASE NextGroup = current_group
    BY <1>3, <1>4, <2>1
  <2>2. CASE NextGroup # current_group
    <3>1. pcb[next].kernel_esp = NextGroup /\ next # Self
      BY <1>2, <1>4, <1>5, <1>6, <2>2 DEF Waiting
    <3> QED BY <1>3, <3>1
  <2> QED BY <2>1, <2>2
<1>8. Waiting'
  <2>1. ASSUME NEW g \in Groups \ {NextGroup} PROVE pcb'[active_pid[g]].kernel_esp = g
    <3>1. active_pid[g] # next
      BY <1>4, <1>6
    <3>2. CASE g = current_group
      BY <1>3, <1>4, <3>1, <3>2
    <3>3. CASE g # current_group
      <4>1. active_pid[g] \in Pids \ {Self, next} /\ pcb[active_pid[g]].kernel_esp = g
        BY <1>2, <1>4, <1>5, <1>6, <3>1, <3>3, SelfType DEF Waiting
      <4> HIDE DEF next
      <4> QED BY <1>3, <4>1
    <3> QED BY <3>2, <3>3
  <2> QED BY <1>1, <2>1 DEF Waiting
<1>9. ASSUME NEW g \in Groups PROVE ChainOf(g)'
  <2>1. procs[g] \in Seq(Pids) /\ procs' = procs
    BY <1>1 DEF TypeInv
  <2>2. \A i \in 1 .. Len(procs[g]) : procs[g][i] \in Pids
    BY <2>1, ElementOfSeq
  <2>3. \A i \in 1 .. Len(procs[g]) - 1 : i \in 1 .. Len(procs[g]) /\ i + 1 \in 1 .. Len(procs[g])
    BY <2>1, LenProperties
  <2> QED BY <1>3, <1>5, <2>1, <2>2, <2>3 DEF ChainOf
<1> QED BY <1>1, <1>5, <1>7, <1>8, <1>9 DEF DyingApart

\* A halt finds the way back.
LEMMA KeptHalt == ASSUME TypeInv, StackInv, GroupInv, LeafInv, KeptInv, system_halt PROVE KeptInv'
<1> DEFINE P == procs[current_group]
           U == Front(thread[current_group])
<1>1. /\ current_group \in Groups /\ UNCHANGED <<procs, active_pid, pcb, dying, stolen, current_group>>
  BY DEF system_halt, TypeInv
<1>2. Started' => Started
  BY StartedBefore DEF Plain
<1> SUFFICES ASSUME ~stolen' PROVE ~crashed' /\ DyingApart' /\ Waiting' /\ \A g \in Groups : ChainOf(g)'
  BY DEF KeptInv
<1>3. ~crashed /\ DyingApart /\ Waiting /\ \A g \in Groups : ChainOf(g)
  BY <1>1 DEF KeptInv
<1>4. Self = P[Len(P)] /\ P \in Seq(Pids) /\ Len(P) \in Nat \ {0}
  <2>1. ~UserMode /\ Top.kind \notin Irqs /\ Top.pc \notin Torn
    BY CallKinds, KindsApart DEF Torn
  <2> QED BY <2>1, LeafHere
<1>5. /\ U # <<>> /\ U[Len(U)].pc = "exec" /\ StackOf(U, P, current_group = 0)
      /\ \/ crashed' = crashed
         \/ pcb[Self].parent_pid = U[Len(U)].pid => pcb[U[Len(U)].pid].eip # "return_from_exec"
  BY Halting
<1> HIDE DEF U, P
<1>6. Len(P) >= 2 /\ U[Len(U)].pid = P[Len(P) - 1]
  BY <1>5 DEF StackOf, Tops, NewChild
<1>7. pcb[P[Len(P) - 1]].eip = "return_from_exec" /\ pcb[P[Len(P)]].parent_pid = P[Len(P) - 1]
  <2>1. Len(P) - 1 \in 1 .. Len(P) - 1 /\ (Len(P) - 1) + 1 = Len(P)
    BY <1>4, <1>6
  <2>2. \A i \in 1 .. Len(P) - 1 : pcb[P[i]].eip = "return_from_exec" /\ pcb[P[i + 1]].parent_pid = P[i]
    BY <1>1, <1>3 DEF ChainOf, P
  <2> QED BY <2>1, <2>2
<1>8. ~crashed'
  BY <1>3, <1>4, <1>5, <1>6, <1>7
<1> QED BY <1>1, <1>2, <1>3, <1>8 DEF DyingApart, Waiting, ChainOf

LEMMA KeptTeardown ==
  ASSUME TypeInv, StackInv, GroupInv, BootInv, LeafInv, KeptInv, pcb_teardown PROVE KeptInv'
<1> DEFINE P == procs[current_group]
           D == dying[current_group]
<1>1. ~UserMode /\ Top.kind = CALL /\ Top.kind \notin Irqs /\ Top.pc \in Loose
  BY CallKinds, KindsApart DEF Loose
<1>2. current_group' = current_group /\ crashed' = crashed /\ stolen' = stolen /\ current_group \in Groups
  BY DEF TeardownFree, TeardownActive, TeardownEsp0, TeardownClear, TypeInv
<1>3. Started
  BY <1>1, LateTop
<1> SUFFICES ASSUME ~stolen' PROVE ~crashed' /\ DyingApart' /\ Waiting' /\ \A g \in Groups : ChainOf(g)'
  BY DEF KeptInv
<1>4. ~crashed /\ DyingApart /\ Waiting /\ \A g \in Groups : ChainOf(g)
  BY <1>2 DEF KeptInv
<1>5. LeafOf(current_group) /\ P \in Seq(Pids) /\ Distinct(P) /\ P # <<>>
  BY Current DEF LeafInv, StackInv, StackOf, Distinct
<1>6. Marks(thread[current_group]) = {Top.pc}
  <2>1. {Top.pc} \cap Loose = {Top.pc}
    BY <1>1
  <2> QED BY <1>1, <2>1, CurrentMarks
<1>7. CASE TeardownFree
  <2>1. /\ Top.pc = "tail" /\ procs'[current_group] = Front(P) /\ dying'[current_group] = Self
        /\ active_pid' = active_pid /\ pcb' = pcb
        /\ \A g \in Groups \ {current_group} : procs'[g] = procs[g] /\ dying'[g] = dying[g]
    BY <1>2, <1>7, SetProcs DEF TeardownFree, At, TypeInv
  <2>2. Self = P[Len(P)]
    <3>1. "freed" \notin {Top.pc}
      BY <2>1
    <3> QED BY <1>5, <1>6, <3>1 DEF LeafOf, Self
  <2>3. Self \in Range(P) /\ Self \notin Range(Front(P)) /\ \A q \in Range(Front(P)) : q \in Range(P)
    <3> HIDE DEF P
    <3>1. /\ Len(P) \in Nat \ {0} /\ Front(P) \in Seq(Pids) /\ Len(Front(P)) = Len(P) - 1
          /\ \A i \in 1 .. Len(P) - 1 : Front(P)[i] = P[i]
      BY <1>5, FrontOf
    <3>2. Self \in Range(P)
      BY <1>5, <2>2, LastInRange
    <3>3. ASSUME NEW q \in Range(Front(P)) PROVE q \in Range(P) /\ q # Self
      <4>1. PICK i \in 1 .. Len(P) - 1 : q = Front(P)[i]
        BY <3>1, LenProperties DEF Range
      <4>2. q = P[i] /\ i \in 1 .. Len(P) /\ Len(P) \in 1 .. Len(P) /\ i # Len(P)
        BY <3>1, <4>1
      <4>3. q # Self
        BY <1>5, <2>2, <4>2 DEF Distinct
      <4> QED BY <1>5, <3>3, <4>3, RangePop
    <3> QED BY <3>2, <3>3
  <2>4. \A h \in Groups \ {current_group} : Self \notin Range(procs[h])
    BY <1>2, <1>3, <2>3 DEF GroupInv
  <2>5. DyingApart'
    <3>1. ASSUME NEW g \in Groups, dying[g] # NoPid PROVE dying[g] # Self /\ dying[g] \notin Range(Front(P))
      BY <1>2, <1>4, <2>3, <3>1 DEF DyingApart
    <3>2. ASSUME NEW g \in Groups, NEW h \in Groups, dying'[g] # NoPid
          PROVE  dying'[g] \notin Range(procs'[h]) /\ (dying'[g] = dying'[h] => g = h)
      <4>1. CASE g = current_group
        <5>1. \A k \in Groups \ {current_group} : dying[k] # Self
          BY <3>1, SelfType, ContextTypes
        <5> QED BY <2>1, <2>3, <2>4, <4>1, <5>1
      <4>2. CASE g # current_group
        <5>1. dying'[g] = dying[g] /\ dying[g] # Self /\ dying[g] \notin Range(Front(P))
              /\ \A k \in Groups : dying[g] \notin Range(procs[k]) /\ (dying[g] = dying[k] => g = k)
          BY <1>4, <2>1, <3>1, <3>2, <4>2 DEF DyingApart
        <5> QED BY <2>1, <4>2, <5>1
      <4> QED BY <4>1, <4>2
    <3> QED BY <3>2 DEF DyingApart
  <2>6. ChainOf(current_group)'
    <3>1. \A i \in 1 .. Len(P) - 1 : pcb[P[i]].eip = "return_from_exec" /\ pcb[P[i + 1]].parent_pid = P[i]
      BY <1>2, <1>4 DEF ChainOf
    <3> HIDE DEF P
    <3>2. /\ Len(P) \in Nat \ {0} /\ Len(Front(P)) = Len(P) - 1
          /\ \A i \in 1 .. Len(P) - 1 : Front(P)[i] = P[i]
      BY <1>5, FrontOf
    <3>3. \A i \in 1 .. Len(P) - 1 - 1 : i \in 1 .. Len(P) - 1 /\ i + 1 \in 1 .. Len(P) - 1
      BY <3>2
    <3>4. procs'[current_group'] = Front(P)
      BY <1>2, <2>1
    <3> DEFINE Q == Front(P)
    <3> HIDE DEF Q
    <3>5. \A i \in 1 .. Len(Q) - 1 : pcb[Q[i]].eip = "return_from_exec" /\ pcb[Q[i + 1]].parent_pid = Q[i]
      <4>1. ASSUME NEW i \in 1 .. Len(P) - 1 - 1
            PROVE  pcb[Q[i]].eip = "return_from_exec" /\ pcb[Q[i + 1]].parent_pid = Q[i]
        BY <3>1, <3>2, <3>3 DEF Q
      <4> QED BY <3>2, <4>1 DEF Q
    <3>6. procs'[current_group'] = Q /\ pcb' = pcb /\ current_group' = current_group
      BY <1>2, <2>1, <3>4 DEF Q
    <3> QED BY <3>5, <3>6 DEF ChainOf
  <2>7. \A g \in Groups \ {current_group} : ChainOf(g)'
    BY <1>4, <2>1 DEF ChainOf
  <2>8. Waiting'
    BY <1>2, <1>3, <1>4, <2>1 DEF Waiting
  <2> QED BY <1>2, <1>4, <2>5, <2>6, <2>7, <2>8
<1>8. CASE TeardownActive \/ TeardownEsp0
  <2>1. /\ procs' = procs /\ dying' = dying /\ pcb' = pcb
        /\ \A g \in Groups \ {current_group} : active_pid'[g] = active_pid[g]
    BY <1>8 DEF TeardownActive, TeardownEsp0, TypeInv
  <2>2. DyingApart'
    BY <1>4, <2>1 DEF DyingApart
  <2>3. Waiting'
    BY <1>2, <1>3, <1>4, <2>1 DEF Waiting
  <2>4. \A g \in Groups : ChainOf(g)'
    BY <1>4, <2>1 DEF ChainOf
  <2> QED BY <1>2, <1>4, <2>2, <2>3, <2>4
<1>9. CASE TeardownClear
  <2>1. /\ procs' = procs /\ active_pid' = active_pid /\ pcb' = [pcb EXCEPT ![D] = ZeroPCB]
        /\ dying' = [dying EXCEPT ![current_group] = NoPid]
    BY <1>9 DEF TeardownClear
  <2>2. D # NoPid /\ D \in Pids
    <3>1. {Top.pc} \cap Torn # {}
      BY <1>9, CallKinds
    <3> QED BY <1>5, <1>6, <3>1 DEF LeafOf, TypeInv
  <2>3. (\A g \in Groups : D \notin Range(procs[g])) /\ \A g \in Groups : dying[g] = D => g = current_group
    BY <1>2, <1>4, <2>2 DEF DyingApart
  <2>4. \A p \in Pids \ {D} : /\ pcb'[p].parent_pid = pcb[p].parent_pid /\ pcb'[p].kernel_esp = pcb[p].kernel_esp
                              /\ pcb'[p].eip \in {pcb[p].eip, "return_from_exec"}
    BY <2>1, SelfType
  <2> HIDE DEF D
  <2>5. ASSUME NEW g \in Groups
        PROVE  /\ g # current_group => pcb'[active_pid[g]].kernel_esp = pcb[active_pid[g]].kernel_esp
               /\ ChainOf(g) => \A i \in 1 .. Len(procs[g]) - 1 :
                     pcb'[procs[g][i]].eip = "return_from_exec" /\ pcb'[procs[g][i + 1]].parent_pid = procs[g][i]
    BY <2>3, <2>4, ContextsLeft
  <2>6. DyingApart'
    <3>1. dying'[current_group] = NoPid /\ \A g \in Groups \ {current_group} : dying'[g] = dying[g]
      BY <1>2, <2>1 DEF TypeInv
    <3> QED BY <1>4, <2>1, <3>1 DEF DyingApart
  <2>7. Waiting'
    BY <1>2, <1>3, <1>4, <2>1, <2>5 DEF Waiting
  <2>8. \A g \in Groups : ChainOf(g)'
    BY <1>4, <2>1, <2>5 DEF ChainOf
  <2> QED BY <1>2, <1>4, <2>6, <2>7, <2>8
<1> QED BY <1>7, <1>8, <1>9

LEMMA KeptShells == ASSUME TypeInv, StackInv, GroupInv, LeafInv, KeptInv, static_start_shells PROVE KeptInv'
<1>1. current_group' = 0 /\ crashed' = crashed /\ stolen' = stolen
      /\ active_pid' = [g \in Groups |-> IF g = 0 THEN 0 ELSE BaseShell(g)]
  BY BootKinds DEF static_start_shells, Boot
<1>2. \A g \in Groups : dying'[g] = NoPid
  BY LeafShells
<1>3. DyingApart'
  BY <1>2 DEF DyingApart
<1>4. Waiting'
  BY <1>1, ShellContexts DEF Waiting
<1>5. ASSUME NEW g \in Groups PROVE ChainOf(g)'
  <2>1. ~Started
    <3>1. Top.pc = "shells" /\ Top = thread[0][1]
      BY BootKinds DEF static_start_shells, At, Boot
    <3> QED BY <3>1 DEF Started, BootPc, Starting
  <2>2. procs'[g] = <<IF g = 0 THEN 0 ELSE BaseShell(g)>>
    BY <2>1 DEF static_start_shells, GroupInv
  <2>3. \A p : Len(<<p>>) - 1 = 0
    OBVIOUS
  <2> QED BY <2>2, <2>3 DEF ChainOf
<1> QED BY <1>1, <1>3, <1>4, <1>5 DEF KeptInv

LEMMA KeptStep ==
  ASSUME TypeInv, StackInv, GroupInv, BootInv, LeafInv, KeptInv, [Next]_vars PROVE KeptInv'
<1>1. CASE UNCHANGED vars
  BY <1>1 DEF vars, KeptInv, DyingApart, Waiting, ChainOf, Started, BootPc
<1>2. CASE Execute \/ ExecuteFails \/ system_halt \/ schedule_next \/ pcb_teardown \/ static_start_shells
  BY <1>2, KeptExecute, KeptHalt, KeptTick, KeptTeardown, KeptShells
<1>3. CASE \/ save_tss_esp \/ iret \/ DeviceMask \/ DeviceEoi \/ DeviceUnmask \/ TickEoi \/ OtherCall
           \/ i8259_init \/ rtc_init \/ keyboard_init \/ pit_init
           \/ SystemCall \/ Exception \/ \E irq \in Irqs : Interrupt(irq)
  BY <1>3, TablesQuiet
<1> QED BY <1>1, <1>2, <1>3 DEF Next, Code, Boot
-----------------------------------------------------------------------------
(* The kernel stacks are sound.                                              *)

LEMMA EmptyStack == ASSUME NEW p, NEW r PROVE StackOf(<<>>, <<p>>, FALSE) /\ Drifts(<<>>, r)
<1> DEFINE T == <<>>
           P == <<p>>
<1>1. Len(T) = 0 /\ T = <<>> /\ Len(P) = 1 /\ P # <<>>
  OBVIOUS
<1>2. 1 .. 0 = {} /\ 2 .. 0 = {} /\ 1 .. 0 - 1 = {} /\ 1 .. 1 = {1}
  OBVIOUS
<1> HIDE DEF T, P
<1>3. Shaped(T, FALSE) /\ Placed(T, P) /\ Drifts(T, r)
  BY <1>1, <1>2 DEF Shaped, Placed, Drifts
<1>4. Children(T, P)
  BY <1>1, <1>2 DEF Children
<1>5. Tops(T, P)
  BY <1>1, <1>2 DEF Tops
<1>6. Distinct(P)
  BY <1>1, <1>2 DEF Distinct
<1> QED BY <1>3, <1>4, <1>5, <1>6 DEF StackOf, T, P

LEMMA BootStack == ASSUME NEW r \in Nat PROVE StackOf(<<BootFrame>>, <<0>>, TRUE) /\ Drifts(<<BootFrame>>, r)
<1> DEFINE f == BootFrame
           T == <<f>>
           P == <<0>>
<1>1. f.kind = BOOT /\ f.pc = "i8259_init" /\ f.pid = 0 /\ f.esp = 0 /\ f.ring = 0 /\ "i8259_init" \in PointsOf(BOOT)
  BY HandlerPoints DEF BootFrame, BootPoints
<1>2. Len(T) = 1 /\ T[1] = f /\ Len(P) = 1 /\ P[1] = 0 /\ 0 \in Range(P) /\ P # <<>>
  BY DEF Range
<1>3. 1 .. 1 = {1} /\ (\A i \in 2 .. 1 : FALSE) /\ 1 .. 1 - 1 = {}
  OBVIOUS
<1> HIDE DEF f, T, P
<1>4. Shaped(T, TRUE)
  BY <1>1, <1>2, <1>3, KindsApart DEF Shaped, Irqs
<1>5. Placed(T, P)
  BY <1>1, <1>2, <1>3 DEF Placed
<1>6. Children(T, P)
  BY <1>1, <1>2, <1>3 DEF Children
<1>7. Tops(T, P)
  BY <1>1, <1>2, <1>3 DEF Tops, Tailed
<1>8. Distinct(P)
  BY <1>2, <1>3 DEF Distinct
<1>9. Drifts(T, r)
  BY <1>1, <1>2, <1>3 DEF Drifts, InChain
<1> QED BY <1>4, <1>5, <1>6, <1>7, <1>8, <1>9 DEF StackOf, f, T, P

LEMMA StartsSound == Init => StackInv /\ GroupInv /\ BootInv /\ TssInv /\ LeafInv /\ KeptInv
<1> HAVE Init
<1>1. /\ thread[0] = <<BootFrame>> /\ procs = [g \in Groups |-> <<0>>] /\ races = 0 /\ current_group = 0
      /\ IF_flag = FALSE /\ imr = Lines
      /\ \A g \in Groups \ {0} : thread[g] = <<>>
  BY GroupNumbers DEF Init
<1>2. StackInv
  <2>1. ASSUME NEW g \in Groups PROVE StackOf(thread[g], procs[g], g = 0) /\ Drifts(thread[g], races)
    <3>1. CASE g = 0
      <4>1. (g = 0) = TRUE /\ procs[g] = <<0>> /\ thread[g] = <<BootFrame>> /\ races \in Nat
        BY <1>1, <3>1
      <4> QED BY <4>1, BootStack
    <3>2. CASE g # 0
      <4>1. (g = 0) = FALSE /\ procs[g] = <<0>> /\ thread[g] = <<>>
        BY <1>1, <3>2
      <4> QED BY <4>1, EmptyStack
    <3> QED BY <3>1, <3>2
  <2> QED BY <2>1 DEF StackInv
<1>3. BootPc = "i8259_init" /\ thread[0] # <<>> /\ Len(thread[0]) = 1 /\ thread[0][1].kind = BOOT
  BY <1>1 DEF BootPc, BootFrame
<1>4. GroupInv
  BY <1>1, <1>3 DEF GroupInv, Started, Starting
<1>5. BootInv
  <2>1. 1 .. 1 = {1} /\ 2 .. 1 = {} /\ BOOT # IRQ_PIT /\ IRQ_PIT \in Lines
    BY KindsApart DEF Irqs, Lines
  <2> QED BY <1>1, <1>3, <2>1 DEF BootInv
<1>6. TssInv
  <2>1. thread[current_group][1].pc = "i8259_init"
    BY <1>1, <1>3 DEF BootPc
  <2>2. ~UserMode
    BY <1>1, <1>3, <2>1 DEF UserMode, Top, Last
  <2> QED BY <1>1, <1>3, <2>1, <2>2 DEF TssInv
<1>7. \A g \in Groups : dying[g] = NoPid /\ active_pid[g] = 0 /\ Len(procs[g]) = 1 /\ procs[g][1] = 0
  BY <1>1 DEF Init
<1>8. LeafInv
  <2>1. ASSUME NEW g \in Groups PROVE Marks(thread[g]) = {}
    <3>1. "i8259_init" \notin Loose /\ BootFrame.pc = "i8259_init" /\ 1 .. 0 = {} /\ 1 .. 1 = {1}
      BY DEF Loose, Torn, BootFrame
    <3>2. CASE g = 0
      <4>1. Len(thread[g]) = 1 /\ thread[g][1] = BootFrame
        BY <1>1, <3>2
      <4> QED BY <3>1, <4>1 DEF Marks
    <3>3. CASE g # 0
      <4>1. Len(thread[g]) = 0
        BY <1>1, <3>3
      <4> QED BY <3>1, <4>1 DEF Marks
    <3> QED BY <3>2, <3>3
  <2> QED BY <1>7, <2>1 DEF LeafInv, LeafOf
<1>9. KeptInv
  <2>1. ~crashed
    BY DEF Init
  <2>3. ~Started
    BY <1>3 DEF Started, Starting
  <2>2. ASSUME NEW g \in Groups PROVE ChainOf(g)
    <3>1. Len(procs[g]) - 1 = 0 /\ 1 .. 0 = {}
      BY <1>7
    <3> QED BY <3>1, Zenon DEF ChainOf
  <2> QED BY <1>7, <2>1, <2>2, <2>3 DEF KeptInv, DyingApart, Waiting
<1> QED BY <1>2, <1>4, <1>5, <1>6, <1>8, <1>9

StackIInv == TypeInv /\ StackInv /\ GroupInv /\ BootInv /\ TssInv /\ LeafInv /\ KeptInv

\* The stacks, the groups, the boot, tss.esp0, the active processes and their
\* contexts together are an inductive invariant of the code of i8259.c, idt.c and
\* system.c, with pcb_teardown statement by statement.
THEOREM Inductive == Spec => []StackIInv
<1>1. Init => StackIInv
  BY TypeInit, StartsSound DEF StackIInv
<1>2. StackIInv /\ [Next]_vars => StackIInv'
  BY TypeStep, StackStep, GroupStep, BootStep, TssStep, LeafStep, KeptStep DEF StackIInv
<1> QED BY <1>1, <1>2, PTL DEF Spec

LEMMA SoundTypes == StackIInv => TypeOK
<1> HAVE StackIInv
<1>1. \A g \in Groups : procs[g] \in Seq(Pids) /\ procs[g] # <<>>
  BY DEF StackIInv, TypeInv, StackInv, StackOf, Distinct
<1>2. ASSUME NEW g \in Groups, NEW f \in Frames(g) PROVE f \in Frame
  <2>1. thread[g] \in Seq(Frame)
    BY DEF StackIInv, TypeInv
  <2>2. PICK i \in 1 .. Len(thread[g]) : f = thread[g][i]
    BY <2>1, LenProperties DEF Frames, Range
  <2> QED BY <2>1, <2>2, ElementOfSeq
<1>3. \A g \in Groups : \A f \in Frames(g) :
          /\ f.kind \in Irqs \cup {BOOT, CALL, EXC} /\ f.ring \in {0, 3} /\ f.pid \in Pids
          /\ f.esp \in Nat /\ f.flags \in BOOLEAN
  BY <1>2 DEF Frame, Kinds
<1> QED BY <1>1, <1>3 DEF StackIInv, TypeInv, TypeOK, Spot

LEMMA SoundApart == StackIInv => FramesApart
<1> HAVE StackIInv
<1>1. ASSUME NEW g \in Groups, NEW h \in Groups, NEW i \in DOMAIN thread[g], NEW j \in DOMAIN thread[h],
             thread[g][i].pid = thread[h][j].pid
      PROVE  g = h /\ (i < j => thread[g][i].esp <= thread[h][j].esp - FrameWords(thread[h][j].ring))
  <2>1. thread[g] \in Seq(Frame) /\ thread[h] \in Seq(Frame) /\ Placed(thread[g], procs[g]) /\ Placed(thread[h], procs[h])
    BY DEF StackIInv, TypeInv, StackInv, StackOf
  <2>2. i \in 1 .. Len(thread[g]) /\ j \in 1 .. Len(thread[h])
    BY <2>1, LenProperties
  <2>3. thread[g][i].pid \in Range(procs[g]) /\ thread[h][j].pid \in Range(procs[h])
    BY <2>1, <2>2 DEF Placed
  <2>4. thread[g] # <<>> /\ thread[h] # <<>>
    BY <2>2
  <2>5. CASE Started
    <3>1. g = h
      BY <1>1, <2>3, <2>5 DEF StackIInv, GroupInv
    <3> QED BY <1>1, <2>1, <2>2, <3>1 DEF Placed
  <2>6. CASE ~Started
    <3>1. g = h
      BY <2>4, <2>6 DEF StackIInv, GroupInv
    <3> QED BY <1>1, <2>1, <2>2, <3>1 DEF Placed
  <2> QED BY <2>5, <2>6
<1> QED BY <1>1 DEF FramesApart

\* Whatever nests, switches groups, executes, halts or is torn down: unless a PID
\* is taken inside its own teardown every tick and every halt finds the context
\* it needs; and up to the step that does not, an entry from user mode starts on
\* the stack of the process that runs, lowered at most by the interrupts that hit
\* the iret stub, and no frame lies on another.
THEOREM StacksAreSound == Spec => []StacksSound
<1>1. StackIInv => StacksSound
  <2> HAVE StackIInv
  <2>1. UserMode => Self = procs[current_group][Len(procs[current_group])]
    <3>1. UserMode => Marks(thread[current_group]) = {}
      BY CurrentMarks DEF StackIInv
    <3> QED BY <3>1 DEF StackIInv, LeafInv, LeafOf, TypeInv, Self
  <2>2. OwnStack
    BY <2>1, SoundTypes DEF OwnStack, StackIInv, TssInv, TypeInv, TypeOK
  <2>3. races \in Nat
    BY GroupNumbers DEF StackIInv, TypeInv
  <2>4. races * (FrameWords(3) + 3) = 8 * races
    BY <2>3 DEF FrameWords
  <2>5. StackDrift
    BY <2>4 DEF StackDrift, StackIInv, TssInv
  <2>6. ContextsKept
    BY DEF ContextsKept, StackIInv, KeptInv
  <2> QED BY <2>2, <2>5, <2>6, SoundTypes, SoundApart DEF StacksSound
<1> QED BY <1>1, Inductive, PTL
-----------------------------------------------------------------------------
(* Lines and their handlers, in threads T.                                   *)

\* Frame i of group g is a handler of the line, at one of the points.
Holds(T, irq, points, g, i) ==
  g \in Groups /\ i \in 1 .. Len(T[g]) /\ T[g][i].kind = irq /\ T[g][i].pc \in points

\* There is one such frame if b, else none.
One(T, irq, points, b) ==
  IF b THEN \E g, i : \A h, j : Holds(T, irq, points, h, j) <=> (h = g /\ j = i)
       ELSE \A h, j : ~Holds(T, irq, points, h, j)

LEMMA OneKept ==
  ASSUME NEW T, NEW U, NEW irq, NEW points, NEW b, NEW c, b <=> c,
         \A h, j : Holds(U, irq, points, h, j) <=> Holds(T, irq, points, h, j), One(T, irq, points, b)
  PROVE  One(U, irq, points, c)
<1>1. CASE b
  <2>1. PICK g, i : \A h, j : Holds(T, irq, points, h, j) <=> (h = g /\ j = i)
    BY <1>1 DEF One
  <2>2. \A h, j : Holds(U, irq, points, h, j) <=> (h = g /\ j = i)
    BY <2>1
  <2> QED BY <1>1, <2>2 DEF One
<1>2. CASE ~b
  BY <1>2 DEF One
<1> QED BY <1>1, <1>2

LEMMA OneTaken ==
  ASSUME NEW T, NEW U, NEW irq, NEW points, NEW b, ~b, NEW c, c, NEW G, NEW N,
         \A h, j : ~(h = G /\ j = N) => (Holds(U, irq, points, h, j) <=> Holds(T, irq, points, h, j)),
         Holds(U, irq, points, G, N), One(T, irq, points, b)
  PROVE  One(U, irq, points, c)
<1>1. \A h, j : ~Holds(T, irq, points, h, j)
  BY DEF One
<1>2. \A h, j : Holds(U, irq, points, h, j) <=> (h = G /\ j = N)
  BY <1>1
<1> QED BY <1>2 DEF One

LEMMA OneDropped ==
  ASSUME NEW T, NEW U, NEW irq, NEW points, NEW b, NEW c, ~c, NEW G, NEW N,
         \A h, j : ~(h = G /\ j = N) => (Holds(U, irq, points, h, j) <=> Holds(T, irq, points, h, j)),
         Holds(T, irq, points, G, N), ~Holds(U, irq, points, G, N), One(T, irq, points, b)
  PROVE  b /\ One(U, irq, points, c)
<1>1. b
  BY DEF One
<1>2. PICK g, i : \A h, j : Holds(T, irq, points, h, j) <=> (h = g /\ j = i)
  BY <1>1 DEF One
<1>3. g = G /\ i = N
  BY <1>2
<1>4. \A h, j : ~Holds(U, irq, points, h, j)
  BY <1>2, <1>3
<1> QED BY <1>1, <1>4 DEF One

\* Only frame n of the group G changes: it goes to the point x.
Moved(T, U, G, n, x, irq, points) ==
  /\ \A h, j : ~(h = G /\ j = n) => (Holds(U, irq, points, h, j) <=> Holds(T, irq, points, h, j))
  /\ Holds(U, irq, points, G, n) <=> (T[G][n].kind = irq /\ x \in points)
  /\ Holds(T, irq, points, G, n) <=> (T[G][n].kind = irq /\ T[G][n].pc \in points)

LEMMA HoldsTurned ==
  ASSUME NEW T \in [Groups -> Seq(Frame)], NEW U, NEW G \in Groups, T[G] # <<>>, NEW x \in Points,
         U[G] = Turn(T[G], x), \A g \in Groups : g # G => U[g] = T[g], NEW irq, NEW points
  PROVE  Moved(T, U, G, Len(T[G]), x, irq, points)
<1> DEFINE V == T[G]
           n == Len(V)
           W == Turn(V, x)
<1>1. V \in Seq(Frame) /\ V # <<>>
  OBVIOUS
<1> HIDE DEF V
<1>2. /\ n \in Nat \ {0} /\ Len(W) = n
      /\ \A i \in 1 .. n : W[i].kind = V[i].kind /\ W[i].pc = IF i = n THEN x ELSE V[i].pc
  BY <1>1, TurnFields
<1>3. n \in 1 .. n
  BY <1>2
<1> HIDE DEF W
<1>4. U[G] = W
  BY DEF W, V
<1>5. ASSUME NEW h, NEW j, ~(h = G /\ j = n) PROVE Holds(U, irq, points, h, j) <=> Holds(T, irq, points, h, j)
  <2>1. CASE h = G
    BY <1>2, <1>4, <1>5, <2>1 DEF Holds, V
  <2>2. CASE h # G
    BY <2>2 DEF Holds
  <2> QED BY <2>1, <2>2
<1>6. Holds(U, irq, points, G, n) <=> (V[n].kind = irq /\ x \in points)
  BY <1>2, <1>3, <1>4 DEF Holds
<1>7. Holds(T, irq, points, G, n) <=> (V[n].kind = irq /\ V[n].pc \in points)
  BY <1>3 DEF Holds, V
<1> QED BY <1>5, <1>6, <1>7 DEF V, Moved

LEMMA HoldsPushed ==
  ASSUME NEW T \in [Groups -> Seq(Frame)], NEW U, NEW G \in Groups, NEW f \in Frame,
         U[G] = Append(T[G], f), \A g \in Groups : g # G => U[g] = T[g], NEW irq, NEW points
  PROVE  /\ \A h, j : ~(h = G /\ j = Len(T[G]) + 1) => (Holds(U, irq, points, h, j) <=> Holds(T, irq, points, h, j))
         /\ Holds(U, irq, points, G, Len(T[G]) + 1) <=> (f.kind = irq /\ f.pc \in points)
         /\ ~Holds(T, irq, points, G, Len(T[G]) + 1)
<1> DEFINE V == T[G]
           n == Len(V)
           W == Append(V, f)
<1>1. V \in Seq(Frame)
  OBVIOUS
<1> HIDE DEF V
<1>2. n \in Nat /\ Len(W) = n + 1 /\ W[n + 1] = f /\ \A i \in 1 .. n : W[i] = V[i]
  BY <1>1, PushFields
<1>3. n + 1 \in 1 .. n + 1 /\ n + 1 \notin 1 .. n /\ \A j \in 1 .. n + 1 : j = n + 1 \/ j \in 1 .. n
  <2>1. \A m \in Nat : m + 1 \in 1 .. m + 1 /\ m + 1 \notin 1 .. m /\ \A j \in 1 .. m + 1 : j = m + 1 \/ j \in 1 .. m
    OBVIOUS
  <2> QED BY <1>2, <2>1, Zenon
<1>4. \A j \in 1 .. n : j \in 1 .. n + 1
  BY <1>2
<1> HIDE DEF W
<1>5. U[G] = W
  BY DEF W, V
<1>6. ASSUME NEW h, NEW j, ~(h = G /\ j = n + 1) PROVE Holds(U, irq, points, h, j) <=> Holds(T, irq, points, h, j)
  <2>1. CASE h = G
    BY <1>2, <1>3, <1>4, <1>5, <1>6, <2>1 DEF Holds, V
  <2>2. CASE h # G
    BY <2>2 DEF Holds
  <2> QED BY <2>1, <2>2
<1>7. Holds(U, irq, points, G, n + 1) <=> (f.kind = irq /\ f.pc \in points)
  BY <1>2, <1>3, <1>5 DEF Holds
<1>8. ~Holds(T, irq, points, G, n + 1)
  BY <1>3 DEF Holds, V
<1> QED BY <1>6, <1>7, <1>8 DEF V

LEMMA HoldsPopped ==
  ASSUME NEW T \in [Groups -> Seq(Frame)], NEW U, NEW G \in Groups, T[G] # <<>>,
         U[G] = Front(T[G]), \A g \in Groups : g # G => U[g] = T[g], NEW irq, NEW points,
         T[G][Len(T[G])].kind # irq \/ T[G][Len(T[G])].pc \notin points
  PROVE  \A h, j : Holds(U, irq, points, h, j) <=> Holds(T, irq, points, h, j)
<1> DEFINE V == T[G]
           n == Len(V)
           W == Front(V)
<1>1. V \in Seq(Frame) /\ V # <<>>
  OBVIOUS
<1> HIDE DEF V
<1>2. n \in Nat \ {0} /\ Len(W) = n - 1 /\ \A i \in 1 .. n - 1 : W[i] = V[i]
  BY <1>1, FrontOf
<1>3. (\A j \in 1 .. n : j = n \/ j \in 1 .. n - 1) /\ \A j \in 1 .. n - 1 : j \in 1 .. n
  <2>1. \A m \in Nat \ {0} : (\A j \in 1 .. m : j = m \/ j \in 1 .. m - 1) /\ \A j \in 1 .. m - 1 : j \in 1 .. m
    OBVIOUS
  <2> QED BY <1>2, <2>1, Zenon
<1> HIDE DEF W
<1>4. U[G] = W
  BY DEF W, V
<1>5. ASSUME NEW h, NEW j PROVE Holds(U, irq, points, h, j) <=> Holds(T, irq, points, h, j)
  <2>1. CASE h = G
    <3>1. Holds(T, irq, points, G, j) => j # n
      BY DEF Holds, V
    <3>2. Holds(U, irq, points, G, j) <=> (j \in 1 .. n - 1 /\ V[j].kind = irq /\ V[j].pc \in points)
      BY <1>2, <1>4 DEF Holds
    <3>3. Holds(T, irq, points, G, j) <=> (j \in 1 .. n /\ V[j].kind = irq /\ V[j].pc \in points)
      BY DEF Holds, V
    <3> QED BY <1>3, <2>1, <3>1, <3>2, <3>3
  <2>2. CASE h # G
    BY <2>2 DEF Holds
  <2> QED BY <2>1, <2>2
<1> QED BY <1>5
-----------------------------------------------------------------------------
(* Lines in service and lines masked.                                        *)

InService == {"start", "masked"}
Masking == {"masked", "acknowledged"}

\* The boot has unmasked the device.
On(irq) == IF irq = IRQ_RTC THEN BootPc \notin {"i8259_init", "rtc_init"}
           ELSE BootPc \notin {"i8259_init", "rtc_init", "keyboard_init"}

LineInv ==
  /\ \A irq \in Irqs : One(thread, irq, InService, irq \in isr)
  /\ SLAVE_IRQ_LINE \in isr <=> IRQ_RTC \in isr
  /\ \A irq \in Device : One(thread, irq, Masking, On(irq) /\ irq \in imr) /\ (~On(irq) => irq \in imr)

\* A handler that has not reached its first window is the one that runs, with
\* interrupts off, and its line is not masked.
StartInv ==
  \A g \in Groups : \A i \in 1 .. Len(thread[g]) : thread[g][i].pc = "start" =>
     g = current_group /\ i = Len(thread[g]) /\ ~IF_flag /\ thread[g][i].kind \notin imr

SameHolders ==
  \A irq \in Irqs : \A h, j :
     /\ Holds(thread', irq, InService, h, j) <=> Holds(thread, irq, InService, h, j)
     /\ Holds(thread', irq, Masking, h, j) <=> Holds(thread, irq, Masking, h, j)

LEMMA LinesSame ==
  ASSUME LineInv, SameHolders, isr' = isr, \A irq \in Device : irq \in imr' <=> irq \in imr,
         \A irq \in Device : On(irq)' <=> On(irq)
  PROVE  LineInv'
<1>1. Device \subseteq Irqs
  BY DEF Device, Irqs
<1>2. ASSUME NEW irq \in Irqs PROVE One(thread', irq, InService, irq \in isr')
  <2>1. One(thread, irq, InService, irq \in isr)
    BY DEF LineInv
  <2>2. \A h, j : Holds(thread', irq, InService, h, j) <=> Holds(thread, irq, InService, h, j)
    BY DEF SameHolders
  <2>3. irq \in isr <=> irq \in isr'
    OBVIOUS
  <2> QED BY <2>1, <2>2, <2>3, OneKept
<1>3. ASSUME NEW irq \in Device
      PROVE  One(thread', irq, Masking, On(irq)' /\ irq \in imr') /\ (~On(irq)' => irq \in imr')
  <2>1. One(thread, irq, Masking, On(irq) /\ irq \in imr) /\ (~On(irq) => irq \in imr)
    BY DEF LineInv
  <2>2. \A h, j : Holds(thread', irq, Masking, h, j) <=> Holds(thread, irq, Masking, h, j)
    BY <1>1 DEF SameHolders
  <2>3. (On(irq) /\ irq \in imr) <=> (On(irq)' /\ irq \in imr')
    OBVIOUS
  <2>4. One(thread', irq, Masking, On(irq)' /\ irq \in imr')
    BY <2>1, <2>2, <2>3, OneKept
  <2> QED BY <2>1, <2>4
<1>4. SLAVE_IRQ_LINE \in isr' <=> IRQ_RTC \in isr'
  BY DEF LineInv
<1> QED BY <1>2, <1>3, <1>4 DEF LineInv

\* What GoTo does to the handlers.
LEMMA HoldsStep ==
  ASSUME TypeInv, ~UserMode, NEW x \in Points, GoTo(x), NEW irq, NEW points
  PROVE  LET n == Len(thread[current_group]) IN
         /\ \A h, j : ~(h = current_group /\ j = n) =>
               (Holds(thread', irq, points, h, j) <=> Holds(thread, irq, points, h, j))
         /\ Holds(thread', irq, points, current_group, n) <=> (Top.kind = irq /\ x \in points)
         /\ Holds(thread, irq, points, current_group, n) <=> (Top.kind = irq /\ Top.pc \in points)
<1>1. /\ thread'[current_group] = Turn(thread[current_group], x)
      /\ \A g \in Groups : g # current_group => thread'[g] = thread[g]
  BY Turning
<1>2. /\ current_group \in Groups /\ thread[current_group] # <<>>
      /\ Top = thread[current_group][Len(thread[current_group])] /\ thread \in [Groups -> Seq(Frame)]
  BY Current DEF TypeInv
<1>3. Moved(thread, thread', current_group, Len(thread[current_group]), x, irq, points)
  BY <1>1, <1>2, HoldsTurned
<1> QED BY <1>2, <1>3 DEF Moved

LEMMA SameTurned ==
  ASSUME TypeInv, ~UserMode, NEW x \in Points, GoTo(x),
         Top.kind \notin Irqs \/ (x \notin InService \cup Masking /\ Top.pc \notin InService \cup Masking)
  PROVE  SameHolders
<1>1. ASSUME NEW irq \in Irqs, NEW points \in {InService, Masking}, NEW h, NEW j
      PROVE  Holds(thread', irq, points, h, j) <=> Holds(thread, irq, points, h, j)
  <2> DEFINE n == Len(thread[current_group])
  <2>1. /\ ~(h = current_group /\ j = n) =>
              (Holds(thread', irq, points, h, j) <=> Holds(thread, irq, points, h, j))
        /\ Holds(thread', irq, points, current_group, n) <=> (Top.kind = irq /\ x \in points)
        /\ Holds(thread, irq, points, current_group, n) <=> (Top.kind = irq /\ Top.pc \in points)
    BY HoldsStep
  <2>2. ~(Top.kind = irq /\ x \in points) /\ ~(Top.kind = irq /\ Top.pc \in points)
    OBVIOUS
  <2> QED BY <2>1, <2>2
<1> QED BY <1>1 DEF SameHolders

LEMMA SamePopped == ASSUME TypeInv, StackInv, iret PROVE SameHolders
<1>1. /\ thread[current_group] # <<>> /\ thread[current_group][Len(thread[current_group])].pc = "iret"
      /\ thread'[current_group] = Front(thread[current_group])
      /\ \A g \in Groups : g # current_group => thread'[g] = thread[g]
  BY Popping
<1>2. current_group \in Groups /\ thread \in [Groups -> Seq(Frame)]
  BY DEF TypeInv
<1>3. "iret" \notin InService /\ "iret" \notin Masking
  BY DEF InService, Masking
<1>4. ASSUME NEW irq, NEW points \in {InService, Masking}
      PROVE  \A h, j : Holds(thread', irq, points, h, j) <=> Holds(thread, irq, points, h, j)
  BY <1>1, <1>2, <1>3, HoldsPopped
<1> QED BY <1>4 DEF SameHolders

LEMMA SameHalted == ASSUME TypeInv, StackInv, system_halt PROVE SameHolders
<1> DEFINE T == thread[current_group]
           V == Front(T)
           W == [thread EXCEPT ![current_group] = V]
<1>1. /\ V \in Seq(Frame) /\ V # <<>> /\ V[Len(V)].kind = CALL
      /\ thread' = thread \/ thread' = [thread EXCEPT ![current_group] = Turn(V, "tail")]
  BY Halting
<1>2. ~UserMode /\ Top.kind \in {CALL, EXC}
  BY CallKinds
<1>8. SUFFICES ASSUME thread' = [thread EXCEPT ![current_group] = Turn(V, "tail")] PROVE SameHolders
  BY <1>1 DEF SameHolders, Holds
<1>3. current_group \in Groups /\ thread \in [Groups -> Seq(Frame)] /\ T # <<>> /\ T[Len(T)].kind \notin Irqs
  BY <1>2, Working, KindsApart DEF TypeInv
<1>4. W \in [Groups -> Seq(Frame)] /\ W[current_group] = V /\ \A g \in Groups : g # current_group => W[g] = thread[g]
  BY <1>1, <1>3
<1>5. thread'[current_group] = Turn(W[current_group], "tail") /\ \A g \in Groups : g # current_group => thread'[g] = W[g]
  BY <1>3, <1>4, <1>8
<1>6. "tail" \in Points
  BY HandlerPoints
<1> HIDE DEF W, V, T
<1>7. ASSUME NEW irq \in Irqs, NEW points \in {InService, Masking}, NEW h, NEW j
      PROVE  Holds(thread', irq, points, h, j) <=> Holds(thread, irq, points, h, j)
  <2>1. Holds(W, irq, points, h, j) <=> Holds(thread, irq, points, h, j)
    BY <1>3, <1>4, HoldsPopped DEF T, V
  <2>2. W[current_group] # <<>> /\ W[current_group][Len(W[current_group])].kind # irq
    BY <1>1, <1>4, KindsApart
  <2>3. Moved(W, thread', current_group, Len(W[current_group]), "tail", irq, points)
    BY <1>3, <1>4, <1>5, <1>6, <2>2, HoldsTurned
  <2> QED BY <2>1, <2>2, <2>3 DEF Moved
<1> QED BY <1>7 DEF SameHolders

LEMMA SameShells == ASSUME TypeInv, StackInv, GroupInv, static_start_shells PROVE SameHolders
<1>1. /\ ~UserMode /\ Top.kind = BOOT /\ current_group = 0 /\ Len(thread[0]) = 1 /\ Top = thread[0][1] /\ Top.pc = "shells"
  BY BootKinds DEF Boot, static_start_shells, At
<1>2. /\ thread'[0] = Turn(thread[0], "pit_init")
      /\ \A g \in Groups \ {0} : thread'[g] = <<FakeFrame(BaseShell(g))>>
  BY ShellThreads
<1>3. \A g \in Groups \ {0} : thread[g] = <<>>
  BY <1>1 DEF GroupInv, Started, Starting, BootPc
<1>4. thread[0] \in Seq(Frame) /\ thread[0] # <<>> /\ thread[0][1].kind = BOOT
  BY FirstFrame
<1>5. Len(thread'[0]) = 1 /\ thread'[0][1].kind = BOOT
  <2>1. "pit_init" \in Points /\ 1 \in 1 .. Len(thread[0])
    BY <1>1, HandlerPoints
  <2>2. LET U == Turn(thread[0], "pit_init") IN
        Len(U) = Len(thread[0]) /\ \A i \in 1 .. Len(thread[0]) : U[i].kind = thread[0][i].kind
    BY <1>4, <2>1, TurnFields
  <2> QED BY <1>1, <1>2, <1>4, <2>1, <2>2
<1>6. ASSUME NEW irq \in Irqs, NEW points \in {InService, Masking}, NEW h, NEW j
      PROVE  ~Holds(thread', irq, points, h, j) /\ ~Holds(thread, irq, points, h, j)
  <2>1. CASE h = 0
    <3>1. 1 .. 1 = {1} /\ BOOT # irq
      BY KindsApart
    <3> QED BY <1>1, <1>4, <1>5, <2>1, <3>1 DEF Holds
  <2>2. CASE h \in Groups \ {0}
    <3>1. ~Holds(thread, irq, points, h, j)
      <4>1. Len(thread[h]) = 0 /\ 1 .. 0 = {}
        BY <1>3, <2>2
      <4> QED BY <4>1 DEF Holds
    <3>2. Len(thread'[h]) = 1 /\ thread'[h][1] = FakeFrame(BaseShell(h))
      BY <1>2, <2>2
    <3>3. FakeFrame(BaseShell(h)).pc \notin points
      BY DEF FakeFrame, InService, Masking
    <3>4. 1 .. 1 = {1}
      OBVIOUS
    <3> QED BY <3>1, <3>2, <3>3, <3>4 DEF Holds
  <2>3. CASE h \notin Groups
    BY <2>3 DEF Holds
  <2> QED BY <2>1, <2>2, <2>3
<1> QED BY <1>6 DEF SameHolders

\* Nothing is before its first window unless it runs.
LEMMA NoStart ==
  ASSUME TypeInv, StartInv, UserMode \/ IF_flag
  PROVE  \A g \in Groups : \A i \in 1 .. Len(thread[g]) : thread[g][i].pc # "start"
<1>1. ASSUME NEW g \in Groups, NEW i \in 1 .. Len(thread[g]), thread[g][i].pc = "start" PROVE FALSE
  <2>1. g = current_group /\ i = Len(thread[g]) /\ ~IF_flag
    BY <1>1 DEF StartInv
  <2>2. thread[current_group] # <<>>
    BY <1>1, <2>1
  <2>3. Top.pc = "start"
    BY <1>1, <2>1 DEF Top, Last
  <2> QED BY <2>1, <2>2, <2>3 DEF UserMode
<1> QED BY <1>1

LEMMA StartTurned ==
  ASSUME TypeInv, StartInv, ~UserMode, NEW x \in Points, x # "start", GoTo(x)
  PROVE  StartInv'
<1> DEFINE T == thread[current_group]
           U == Turn(T, x)
<1>1. thread'[current_group] = U /\ \A g \in Groups : g # current_group => thread'[g] = thread[g]
  BY Turning
<1>2. T \in Seq(Frame) /\ T # <<>> /\ current_group \in Groups
  BY Current
<1>3. Len(U) = Len(T) /\ \A i \in 1 .. Len(T) : U[i].pc = IF i = Len(T) THEN x ELSE T[i].pc
  <2> HIDE DEF T
  <2> QED BY <1>2, TurnFields
<1> HIDE DEF U
<1>4. ASSUME NEW g \in Groups, NEW i \in 1 .. Len(thread'[g]) PROVE thread'[g][i].pc # "start"
  <2>1. CASE g = current_group
    BY <1>1, <1>2, <1>3, <2>1 DEF StartInv
  <2>2. CASE g # current_group
    BY <1>1, <2>2 DEF StartInv
  <2> QED BY <2>1, <2>2
<1> QED BY <1>4 DEF StartInv

LEMMA StartPopped == ASSUME TypeInv, StackInv, StartInv, iret \/ system_halt PROVE StartInv'
<1> DEFINE T == thread[current_group]
           V == Front(T)
           U == thread'[current_group]
<1>1. ~UserMode
  BY CallKinds DEF iret, InIretStub
<1>2. T \in Seq(Frame) /\ T # <<>> /\ current_group \in Groups
  BY <1>1, Current
<1>3. Len(T) \in Nat \ {0} /\ V \in Seq(Frame) /\ Len(V) = Len(T) - 1 /\ \A i \in 1 .. Len(T) - 1 : V[i] = T[i]
  BY <1>2, FrontOf
<1>4. \A i \in 1 .. Len(T) - 1 : i \in 1 .. Len(T) /\ i # Len(T)
  <2>1. \A n \in Nat : \A i \in 1 .. n - 1 : i \in 1 .. n /\ i # n
    OBVIOUS
  <2> QED BY <1>3, <2>1, Zenon
<1>5. \A i \in 1 .. Len(V) : V[i].pc # "start"
  BY <1>2, <1>3, <1>4 DEF StartInv
<1>8. SUFFICES ASSUME iret \/ thread' # thread PROVE StartInv'
  <2>1. CASE system_halt /\ thread' = thread
    <3>1. Top.pc = "body" /\ Top = T[Len(T)]
      BY <1>2, <2>1, CallKinds, Current
    <3> QED BY <1>2, <2>1, <3>1 DEF StartInv
  <2> QED BY <2>1
<1>6. /\ \A g \in Groups : g # current_group => thread'[g] = thread[g]
      /\ Len(U) = Len(V) /\ \A i \in 1 .. Len(V) : U[i].pc # "start"
  <2>1. CASE iret
    BY <1>5, <2>1, Popping
  <2>2. CASE ~iret
    <3>1. V # <<>> /\ thread' = [thread EXCEPT ![current_group] = Turn(V, "tail")]
      <4>1. system_halt /\ thread' # thread
        BY <1>8, <2>2
      <4> QED BY <4>1, Halting
    <3>2. U = Turn(V, "tail") /\ \A g \in Groups : g # current_group => thread'[g] = thread[g]
      BY <3>1, SetThread
    <3>3. "tail" \in Points
      BY HandlerPoints
    <3> HIDE DEF U, V
    <3>4. Len(Turn(V, "tail")) = Len(V)
          /\ \A i \in 1 .. Len(V) : Turn(V, "tail")[i].pc = IF i = Len(V) THEN "tail" ELSE V[i].pc
      BY <1>3, <3>1, <3>3, TurnFields
    <3> QED BY <1>5, <3>2, <3>4
  <2> QED BY <2>1, <2>2
<1> HIDE DEF V, T
<1>7. ASSUME NEW g \in Groups, NEW i \in 1 .. Len(thread'[g]) PROVE thread'[g][i].pc # "start"
  <2>1. CASE g = current_group
    BY <1>6, <2>1
  <2>2. CASE g # current_group
    BY <1>6, <2>2 DEF StartInv
  <2> QED BY <2>1, <2>2
<1> QED BY <1>7 DEF StartInv

LEMMA StartShells == ASSUME TypeInv, StackInv, GroupInv, static_start_shells PROVE StartInv'
<1>1. /\ thread'[0] = Turn(thread[0], "pit_init") /\ Len(thread[0]) = 1
      /\ \A g \in Groups \ {0} : thread'[g] = <<FakeFrame(BaseShell(g))>>
  BY ShellThreads, BootKinds DEF Boot
<1>2. thread[0] \in Seq(Frame) /\ thread[0] # <<>> /\ "pit_init" \in Points
  BY FirstFrame, HandlerPoints
<1>3. LET U == Turn(thread[0], "pit_init") IN
      Len(U) = Len(thread[0]) /\ \A i \in 1 .. Len(thread[0]) : U[i].pc = IF i = Len(thread[0]) THEN "pit_init" ELSE thread[0][i].pc
  BY <1>2, TurnFields
<1>4. 1 .. 1 = {1}
  OBVIOUS
<1>5. ASSUME NEW g \in Groups, NEW i \in 1 .. Len(thread'[g]) PROVE thread'[g][i].pc # "start"
  <2>1. CASE g = 0
    BY <1>1, <1>3, <1>4, <2>1
  <2>2. CASE g # 0
    <3>1. Len(thread'[g]) = 1 /\ thread'[g][1] = FakeFrame(BaseShell(g))
      <4>1. thread'[g] = <<FakeFrame(BaseShell(g))>>
        BY <1>1, <2>2
      <4> QED BY <4>1
    <3>2. FakeFrame(BaseShell(g)).pc = "return"
      BY DEF FakeFrame
    <3> QED BY <1>4, <3>1, <3>2
  <2> QED BY <2>1, <2>2
<1> QED BY <1>5 DEF StartInv

LEMMA StartEntered ==
  ASSUME TypeInv, StartInv, NEW kind \in Irqs \cup {CALL, EXC}, NEW x \in {"start", "body"}, NEW w \in Nat,
         Enter(kind, x, w), imr' = imr, current_group' = current_group, kind \notin Irqs => UserMode /\ x = "body",
         kind \in Irqs => IF_flag /\ kind \notin imr /\ IF_flag' = FALSE
  PROVE  StartInv'
<1> DEFINE T == thread[current_group]
<1>1. x \in Points
  BY DEF Points
<1>2. PICK f \in Frame : Entered(f, kind, x, w)
  BY <1>1, EnteredThread
<1>3. /\ thread'[current_group] = Append(T, f) /\ f.kind = kind /\ f.pc = x
      /\ \A g \in Groups : g # current_group => thread'[g] = thread[g]
  BY <1>2, SetThread DEF Entered
<1>4. T \in Seq(Frame) /\ current_group \in Groups
  BY Current
<1>5. \A g \in Groups : \A i \in 1 .. Len(thread[g]) : thread[g][i].pc # "start"
  BY NoStart
<1>6. Len(T) \in Nat /\ Len(Append(T, f)) = Len(T) + 1 /\ Append(T, f)[Len(T) + 1] = f
      /\ \A i \in 1 .. Len(T) : Append(T, f)[i] = T[i]
  BY <1>4, PushFields
<1>7. \A i \in 1 .. Len(T) + 1 : i = Len(T) + 1 \/ i \in 1 .. Len(T)
  <2>1. \A n \in Nat : \A i \in 1 .. n + 1 : i = n + 1 \/ i \in 1 .. n
    OBVIOUS
  <2> QED BY <1>6, <2>1, Zenon
<1>8. ASSUME NEW g \in Groups, NEW i \in 1 .. Len(thread'[g]), thread'[g][i].pc = "start"
      PROVE  g = current_group' /\ i = Len(thread'[g]) /\ ~IF_flag' /\ thread'[g][i].kind \notin imr'
  <2>1. g = current_group
    BY <1>3, <1>5, <1>8
  <2>2. i = Len(T) + 1
    BY <1>3, <1>4, <1>5, <1>6, <1>7, <1>8, <2>1
  <2>3. thread'[g][i] = f /\ x = "start"
    BY <1>3, <1>6, <1>8, <2>1, <2>2
  <2>4. kind \in Irqs
    BY <2>3
  <2> QED BY <1>3, <1>6, <2>1, <2>2, <2>3, <2>4
<1> QED BY <1>8 DEF StartInv

LEMMA StartStep == ASSUME TypeInv, StackInv, GroupInv, StartInv, [Next]_vars PROVE StartInv'
<1>1. CASE UNCHANGED vars
  BY <1>1 DEF vars, StartInv
<1>2. CASE iret \/ system_halt
  BY <1>2, StartPopped
<1>3. CASE static_start_shells
  BY <1>3, StartShells
<1>4. CASE \/ save_tss_esp \/ DeviceMask \/ DeviceEoi \/ DeviceUnmask \/ TickEoi \/ schedule_next
           \/ Execute \/ ExecuteFails \/ OtherCall \/ pcb_teardown
           \/ i8259_init \/ rtc_init \/ keyboard_init \/ pit_init
  <2>1. ~UserMode
    <3>1. Execute => ~UserMode
      BY CallKinds DEF Execute
    <3> QED BY <1>4, <3>1 DEF save_tss_esp, DeviceMask, DeviceEoi, DeviceUnmask, TickEoi, schedule_next,
                ExecuteFails, OtherCall, TeardownFree, TeardownActive, TeardownEsp0, TeardownClear,
                i8259_init, rtc_init, keyboard_init, pit_init, At
  <2>2. PICK x \in {"masked", "acknowledged", "switch", "exec", "freed", "moved", "aimed", "return", "iret",
                    "rtc_init", "keyboard_init", "shells", "loop"} : GoTo(x)
    BY <1>4 DEF save_tss_esp, DeviceMask, DeviceEoi, DeviceUnmask, TickEoi, schedule_next,
                Execute, ExecuteFails, OtherCall, TeardownFree, TeardownActive, TeardownEsp0, TeardownClear, i8259_init, rtc_init, keyboard_init, pit_init
  <2>3. x \in Points /\ x # "start"
    BY HandlerPoints
  <2> QED BY <2>1, <2>2, <2>3, StartTurned
<1>5. CASE SystemCall \/ Exception \/ \E irq \in Irqs : Interrupt(irq)
  <2>1. PICK kind \in Irqs \cup {CALL, EXC}, x \in {"start", "body"}, w \in Nat :
            /\ Enter(kind, x, w) /\ imr' = imr /\ current_group' = current_group
            /\ kind \notin Irqs => UserMode /\ x = "body"
            /\ kind \in Irqs => IF_flag /\ Deliverable(kind) /\ IF_flag' = FALSE
    BY <1>5, Entry
  <2>2. kind \in Irqs => kind \notin imr
    BY <2>1 DEF Deliverable
  <2> QED BY <2>1, <2>2, StartEntered
<1> QED BY <1>1, <1>2, <1>3, <1>4, <1>5 DEF Next, Code, Boot

\* A step from point to point is none for the handlers of other lines, nor where
\* both points count or neither does.
LEMMA OthersSame ==
  ASSUME TypeInv, ~UserMode, NEW x \in Points, GoTo(x), NEW irq, NEW points,
         Top.kind # irq \/ (x \in points <=> Top.pc \in points)
  PROVE  \A h, j : Holds(thread', irq, points, h, j) <=> Holds(thread, irq, points, h, j)
<1> DEFINE n == Len(thread[current_group])
<1>1. /\ \A h, j : ~(h = current_group /\ j = n) =>
            (Holds(thread', irq, points, h, j) <=> Holds(thread, irq, points, h, j))
      /\ Holds(thread', irq, points, current_group, n) <=> (Top.kind = irq /\ x \in points)
      /\ Holds(thread, irq, points, current_group, n) <=> (Top.kind = irq /\ Top.pc \in points)
  BY HoldsStep
<1> HIDE DEF n
<1> QED BY <1>1

LEMMA StepTaken ==
  ASSUME TypeInv, ~UserMode, NEW x \in Points, GoTo(x), NEW points, x \in points,
         NEW b, ~b, NEW c, c, One(thread, Top.kind, points, b)
  PROVE  One(thread', Top.kind, points, c)
<1>1. PICK n, irq : n = Len(thread[current_group]) /\ irq = Top.kind
  OBVIOUS
<1>2. PICK G : G = current_group
  OBVIOUS
<1>3. /\ \A h, j : ~(h = G /\ j = n) => (Holds(thread', irq, points, h, j) <=> Holds(thread, irq, points, h, j))
      /\ Holds(thread', irq, points, G, n) <=> (Top.kind = irq /\ x \in points)
  BY <1>1, <1>2, HoldsStep
<1>4. Holds(thread', irq, points, G, n)
  BY <1>1, <1>3
<1>5. One(thread', irq, points, c)
  BY <1>1, <1>3, <1>4, OneTaken
<1> QED BY <1>1, <1>5

LEMMA StepDropped ==
  ASSUME TypeInv, ~UserMode, NEW x \in Points, GoTo(x), NEW points, Top.pc \in points, x \notin points,
         NEW b, NEW c, ~c, One(thread, Top.kind, points, b)
  PROVE  b /\ One(thread', Top.kind, points, c)
<1>1. PICK n, irq : n = Len(thread[current_group]) /\ irq = Top.kind
  OBVIOUS
<1>2. PICK G : G = current_group
  OBVIOUS
<1>3. /\ \A h, j : ~(h = G /\ j = n) => (Holds(thread', irq, points, h, j) <=> Holds(thread, irq, points, h, j))
      /\ Holds(thread', irq, points, G, n) <=> (Top.kind = irq /\ x \in points)
      /\ Holds(thread, irq, points, G, n) <=> (Top.kind = irq /\ Top.pc \in points)
  BY <1>1, <1>2, HoldsStep
<1>4. Holds(thread, irq, points, G, n) /\ ~Holds(thread', irq, points, G, n)
  BY <1>1, <1>3
<1>5. b /\ One(thread', irq, points, c)
  BY <1>1, <1>3, <1>4, OneDropped
<1> QED BY <1>1, <1>5

LEMMA OnSame == ASSUME BootPc' = BootPc PROVE \A irq \in Device : On(irq)' <=> On(irq)
BY DEF On

\* The numbers of the lines.
LEMMA LineNumbers ==
  /\ Device \subseteq Irqs /\ IRQ_PIT \notin Device /\ IRQ_RTC \in Device /\ IRQ_KB \in Device
  /\ Line(IRQ_PIT) = IRQ_PIT /\ Line(IRQ_KB) = IRQ_KB /\ Line(IRQ_RTC) = SLAVE_IRQ_LINE
  /\ \A irq, k \in Irqs : k \in {irq, Line(irq)} <=> k = irq
  /\ \A irq \in Irqs : SLAVE_IRQ_LINE \in {irq, Line(irq)} <=> irq = IRQ_RTC
BY DEF Device, Irqs, Line, IRQ_PIT, IRQ_KB, IRQ_RTC, SLAVE_IRQ_LINE

LEMMA LineMask == ASSUME TypeInv, StackInv, GroupInv, LineInv, StartInv, DeviceMask PROVE LineInv'
<1>1. ~UserMode /\ Top.kind \in Device /\ Top.pc = "start" /\ GoTo("masked") /\ imr' = imr \cup {Top.kind} /\ isr' = isr
  BY DEF DeviceMask, disable_irq, At, Device
<1>2. "masked" \in Points
  BY HandlerPoints
<1>3. BootPc' = BootPc
  BY PlainQuiet DEF Plain, Quiet
<1>4. Top.kind \notin imr
  <2>1. /\ current_group \in Groups /\ Top = thread[current_group][Len(thread[current_group])]
        /\ Len(thread[current_group]) \in 1 .. Len(thread[current_group])
    BY <1>1, Working, Current
  <2> QED BY <1>1, <2>1 DEF StartInv
<1>5. ASSUME NEW irq \in Irqs PROVE One(thread', irq, InService, irq \in isr')
  <2>1. One(thread, irq, InService, irq \in isr) /\ (irq \in isr <=> irq \in isr')
    BY <1>1 DEF LineInv
  <2>2. "masked" \in InService /\ "start" \in InService
    BY DEF InService
  <2>3. \A h, j : Holds(thread', irq, InService, h, j) <=> Holds(thread, irq, InService, h, j)
    BY <1>1, <1>2, <2>2, OthersSame
  <2> QED BY <2>1, <2>3, OneKept
<1>6. ASSUME NEW irq \in Device
      PROVE  One(thread', irq, Masking, On(irq)' /\ irq \in imr') /\ (~On(irq)' => irq \in imr')
  <2>1. One(thread, irq, Masking, On(irq) /\ irq \in imr) /\ (~On(irq) => irq \in imr)
    BY DEF LineInv
  <2>2. On(irq)' <=> On(irq)
    BY <1>3, OnSame
  <2>3. CASE irq = Top.kind
    <3>1. ~(On(irq) /\ irq \in imr) /\ On(irq)' /\ irq \in imr'
      BY <1>1, <1>4, <2>1, <2>2, <2>3
    <3>2. "masked" \in Masking
      BY DEF Masking
    <3>3. One(thread, Top.kind, Masking, On(irq) /\ irq \in imr)
      BY <2>1, <2>3
    <3>4. One(thread', Top.kind, Masking, On(irq)' /\ irq \in imr')
      BY <1>1, <1>2, <3>1, <3>2, <3>3, StepTaken
    <3> QED BY <2>3, <3>1, <3>4
  <2>4. CASE irq # Top.kind
    <3>1. (On(irq) /\ irq \in imr) <=> (On(irq)' /\ irq \in imr')
      BY <1>1, <2>2, <2>4
    <3>2. \A h, j : Holds(thread', irq, Masking, h, j) <=> Holds(thread, irq, Masking, h, j)
      BY <1>1, <1>2, <2>4, OthersSame
    <3>3. One(thread', irq, Masking, On(irq)' /\ irq \in imr')
      BY <2>1, <3>1, <3>2, OneKept
    <3> QED BY <1>1, <2>1, <2>2, <3>3
  <2> QED BY <2>3, <2>4
<1>7. SLAVE_IRQ_LINE \in isr' <=> IRQ_RTC \in isr'
  BY <1>1 DEF LineInv
<1> QED BY <1>5, <1>6, <1>7 DEF LineInv

LEMMA LineUnmask == ASSUME TypeInv, StackInv, GroupInv, LineInv, DeviceUnmask PROVE LineInv'
<1>1. /\ ~UserMode /\ Top.kind \in Device /\ Top.pc = "acknowledged" /\ GoTo("return")
      /\ imr' = imr \ {Top.kind, Line(Top.kind)} /\ isr' = isr
  BY DEF DeviceUnmask, enable_irq, At, Device
<1>2. "return" \in Points
  BY HandlerPoints
<1>3. BootPc' = BootPc
  BY PlainQuiet DEF Plain, Quiet
<1>4. ASSUME NEW irq \in Irqs PROVE One(thread', irq, InService, irq \in isr')
  <2>1. One(thread, irq, InService, irq \in isr) /\ (irq \in isr <=> irq \in isr')
    BY <1>1 DEF LineInv
  <2>2. "acknowledged" \notin InService /\ "return" \notin InService
    BY DEF InService
  <2>3. \A h, j : Holds(thread', irq, InService, h, j) <=> Holds(thread, irq, InService, h, j)
    BY <1>1, <1>2, <2>2, OthersSame
  <2> QED BY <2>1, <2>3, OneKept
<1>5. ASSUME NEW irq \in Device
      PROVE  One(thread', irq, Masking, On(irq)' /\ irq \in imr') /\ (~On(irq)' => irq \in imr')
  <2>1. One(thread, irq, Masking, On(irq) /\ irq \in imr) /\ (~On(irq) => irq \in imr)
    BY DEF LineInv
  <2>2. On(irq)' <=> On(irq)
    BY <1>3, OnSame
  <2>3. CASE irq = Top.kind
    <3>1. ~(On(irq)' /\ irq \in imr')
      BY <1>1, <2>3
    <3>2. "acknowledged" \in Masking /\ "return" \notin Masking
      BY DEF Masking
    <3>3. One(thread, Top.kind, Masking, On(irq) /\ irq \in imr)
      BY <2>1, <2>3
    <3>4. (On(irq) /\ irq \in imr) /\ One(thread', Top.kind, Masking, On(irq)' /\ irq \in imr')
      BY <1>1, <1>2, <3>1, <3>2, <3>3, StepDropped
    <3> QED BY <2>2, <2>3, <3>4
  <2>4. CASE irq # Top.kind
    <3>1. (On(irq) /\ irq \in imr) <=> (On(irq)' /\ irq \in imr')
      BY <1>1, <2>2, <2>4, LineNumbers
    <3>2. \A h, j : Holds(thread', irq, Masking, h, j) <=> Holds(thread, irq, Masking, h, j)
      BY <1>1, <1>2, <2>4, OthersSame
    <3>3. One(thread', irq, Masking, On(irq)' /\ irq \in imr')
      BY <2>1, <3>1, <3>2, OneKept
    <3>4. irq \in imr => irq \in imr'
      BY <1>1, <2>4, LineNumbers
    <3> QED BY <2>1, <2>2, <3>3, <3>4
  <2> QED BY <2>3, <2>4
<1>6. SLAVE_IRQ_LINE \in isr' <=> IRQ_RTC \in isr'
  BY <1>1 DEF LineInv
<1> QED BY <1>4, <1>5, <1>6 DEF LineInv

LEMMA LineEoi == ASSUME TypeInv, StackInv, GroupInv, LineInv, DeviceEoi \/ TickEoi PROVE LineInv'
<1>1. /\ ~UserMode /\ Top.kind \in Irqs /\ isr' = isr \ {Top.kind, Line(Top.kind)} /\ imr' = imr
      /\ \/ Top.kind \in Device /\ Top.pc = "masked" /\ GoTo("acknowledged")
         \/ Top.kind \notin Device /\ Top.pc = "start" /\ GoTo("switch")
  BY LineNumbers DEF DeviceEoi, TickEoi, send_eoi, At, Device, Irqs
<1>2. PICK x \in {"acknowledged", "switch"} :
        /\ GoTo(x)
        /\ \/ Top.kind \in Device /\ Top.pc = "masked" /\ x = "acknowledged"
           \/ Top.kind \notin Device /\ Top.pc = "start" /\ x = "switch"
  BY <1>1
<1>3. x \in Points /\ Top.pc \in InService /\ x \notin InService
  BY <1>2, HandlerPoints DEF InService
<1>4. BootPc' = BootPc
  BY PlainQuiet DEF Plain, Quiet
<1>5. ASSUME NEW irq \in Irqs PROVE One(thread', irq, InService, irq \in isr')
  <2>1. One(thread, irq, InService, irq \in isr)
    BY DEF LineInv
  <2>2. CASE irq = Top.kind
    <3>1. ~(irq \in isr') /\ One(thread, Top.kind, InService, irq \in isr)
      BY <1>1, <2>1, <2>2
    <3>2. One(thread', Top.kind, InService, irq \in isr')
      BY <1>1, <1>2, <1>3, <3>1, StepDropped
    <3> QED BY <2>2, <3>2
  <2>3. CASE irq # Top.kind
    <3>1. irq \in isr <=> irq \in isr'
      BY <1>1, <2>3, LineNumbers
    <3>2. \A h, j : Holds(thread', irq, InService, h, j) <=> Holds(thread, irq, InService, h, j)
      BY <1>1, <1>2, <1>3, <2>3, OthersSame
    <3> QED BY <2>1, <3>1, <3>2, OneKept
  <2> QED BY <2>2, <2>3
<1>6. ASSUME NEW irq \in Device
      PROVE  One(thread', irq, Masking, On(irq)' /\ irq \in imr') /\ (~On(irq)' => irq \in imr')
  <2>1. One(thread, irq, Masking, On(irq) /\ irq \in imr) /\ (~On(irq) => irq \in imr)
    BY DEF LineInv
  <2>2. (On(irq)' <=> On(irq)) /\ ((On(irq) /\ irq \in imr) <=> (On(irq)' /\ irq \in imr'))
    BY <1>1, <1>4, OnSame
  <2>3. Top.kind # irq \/ (x \in Masking <=> Top.pc \in Masking)
    BY <1>2 DEF Masking
  <2>4. \A h, j : Holds(thread', irq, Masking, h, j) <=> Holds(thread, irq, Masking, h, j)
    BY <1>1, <1>2, <1>3, <2>3, OthersSame
  <2>5. One(thread', irq, Masking, On(irq)' /\ irq \in imr')
    BY <2>1, <2>2, <2>4, OneKept
  <2> QED BY <1>1, <2>1, <2>2, <2>5
<1>7. SLAVE_IRQ_LINE \in isr' <=> IRQ_RTC \in isr'
  <2>1. IRQ_RTC \in {Top.kind, Line(Top.kind)} <=> Top.kind = IRQ_RTC
    BY <1>1, LineNumbers
  <2>2. SLAVE_IRQ_LINE \in {Top.kind, Line(Top.kind)} <=> Top.kind = IRQ_RTC
    BY <1>1, LineNumbers
  <2> QED BY <1>1, <2>1, <2>2 DEF LineInv
<1> QED BY <1>5, <1>6, <1>7 DEF LineInv

\* The other steps of the code are none for the handlers.
LEMMA LineOther ==
  ASSUME TypeInv, StackInv, GroupInv, LineInv, Plain, ~DeviceMask, ~DeviceUnmask, ~DeviceEoi, ~TickEoi PROVE LineInv'
<1>1. ~UserMode /\ BootPc' = BootPc
  BY PlainQuiet DEF Quiet
<1>2. isr' = isr /\ imr' = imr
  BY DEF Plain, save_tss_esp, iret, schedule_next, Execute, ExecuteFails, OtherCall, system_halt, TeardownFree, TeardownActive, TeardownEsp0, TeardownClear
<1>3. SameHolders
  <2>1. CASE iret \/ system_halt
    BY <2>1, SamePopped, SameHalted
  <2>2. CASE save_tss_esp \/ schedule_next
    <3>1. PICK x \in {"return", "iret"} : GoTo(x)
      BY <2>2 DEF save_tss_esp, schedule_next
    <3>2. x \in Points /\ x \notin InService \cup Masking
      BY HandlerPoints DEF InService, Masking
    <3>3. Top.pc \notin InService \cup Masking
      BY <2>2 DEF save_tss_esp, schedule_next, At, InService, Masking
    <3> QED BY <1>1, <3>1, <3>2, <3>3, SameTurned
  <2>3. CASE (Execute /\ Top.kind = CALL) \/ ExecuteFails \/ OtherCall \/ pcb_teardown
    <3>1. PICK x \in {"exec", "freed", "moved", "aimed", "return"} : GoTo(x)
      BY <2>3 DEF Execute, ExecuteFails, OtherCall, TeardownFree, TeardownActive, TeardownEsp0, TeardownClear
    <3>2. x \in Points
      BY HandlerPoints
    <3>3. Top.kind \notin Irqs
      BY <2>3, CallKinds, KindsApart
    <3> QED BY <1>1, <3>1, <3>2, <3>3, SameTurned
  <2> QED BY <2>1, <2>2, <2>3 DEF Plain
<1>4. \A irq \in Device : On(irq)' <=> On(irq)
  BY <1>1, OnSame
<1> QED BY <1>2, <1>3, <1>4, LinesSame

\* The boot unmasks the devices that have no handler yet.
LEMMA LineBoot ==
  ASSUME TypeInv, StackInv, GroupInv, LineInv, Boot \/ (Execute /\ Top.kind = BOOT) PROVE LineInv'
<1>1. SameHolders
  <2>1. CASE static_start_shells
    BY <2>1, SameShells
  <2>2. CASE ~static_start_shells
    <3>1. ~UserMode /\ Top.kind \notin Irqs
      BY BootKinds, CallKinds, KindsApart DEF Execute
    <3>2. PICK x \in {"rtc_init", "keyboard_init", "shells", "loop", "exec"} : GoTo(x)
      BY <2>2 DEF Boot, i8259_init, rtc_init, keyboard_init, pit_init, Execute
    <3>3. x \in Points
      BY HandlerPoints
    <3> QED BY <3>1, <3>2, <3>3, SameTurned
  <2> QED BY <2>1, <2>2
<1>2. isr' = isr
  BY DEF Boot, i8259_init, rtc_init, keyboard_init, static_start_shells, pit_init, Execute
<1>3. ASSUME NEW x \in Points, GoTo(x), Boot \/ Execute, ~UserMode, Top.kind = BOOT
      PROVE  BootPc = Top.pc /\ BootPc' = x
  BY <1>3, BootTurn
<1>4. CASE static_start_shells
  <2>1. imr' = imr /\ BootPc = "shells"
    BY <1>4, BootKinds DEF static_start_shells, At, Boot, BootPc
  <2>2. BootPc' = "pit_init"
    <3>1. thread'[0] = Turn(thread[0], "pit_init") /\ Len(thread[0]) = 1 /\ "pit_init" \in Points
      BY <1>4, ShellThreads, BootKinds, HandlerPoints DEF Boot
    <3>2. thread[0] \in Seq(Frame) /\ thread[0] # <<>> /\ 1 \in 1 .. Len(thread[0])
      BY FirstFrame
    <3>3. \A i \in 1 .. Len(thread[0]) :
             Turn(thread[0], "pit_init")[i].pc = IF i = Len(thread[0]) THEN "pit_init" ELSE thread[0][i].pc
      BY <3>1, <3>2, TurnFields
    <3> QED BY <3>1, <3>2, <3>3 DEF BootPc
  <2>3. \A irq \in Device : On(irq)' <=> On(irq)
    BY <2>1, <2>2 DEF On
  <2> QED BY <1>1, <1>2, <2>1, <2>3, LinesSame
<1>5. CASE Execute /\ Top.kind = BOOT
  <2>1. ~UserMode /\ GoTo("exec") /\ Top.pc = "loop" /\ imr' = imr /\ "exec" \in Points
    BY <1>5, KindsApart, HandlerPoints DEF Execute, Executing, At
  <2>2. BootPc = "loop" /\ BootPc' = "exec"
    BY <1>3, <1>5, <2>1
  <2>3. \A irq \in Device : On(irq)' <=> On(irq)
    BY <2>2 DEF On
  <2> QED BY <1>1, <1>2, <2>1, <2>3, LinesSame
<1>6. CASE pit_init
  <2>1. ~UserMode /\ Top.kind = BOOT /\ GoTo("loop") /\ Top.pc = "pit_init" /\ "loop" \in Points
    BY <1>6, HandlerPoints DEF pit_init, At
  <2>2. BootPc = "pit_init" /\ BootPc' = "loop"
    BY <1>3, <1>6, <2>1 DEF Boot
  <2>3. \A irq \in Device : On(irq)' <=> On(irq)
    BY <2>2 DEF On
  <2>4. \A irq \in Device : irq \in imr' <=> irq \in imr
    BY <1>6, LineNumbers DEF pit_init, enable_irq
  <2> QED BY <1>1, <1>2, <2>3, <2>4, LinesSame
<1>7. CASE i8259_init
  <2>1. ~UserMode /\ Top.kind = BOOT /\ GoTo("rtc_init") /\ Top.pc = "i8259_init" /\ imr' = Lines /\ "rtc_init" \in Points
    BY <1>7, HandlerPoints DEF i8259_init, At
  <2>2. BootPc = "i8259_init" /\ BootPc' = "rtc_init"
    BY <1>3, <1>7, <2>1 DEF Boot
  <2>3. \A irq \in Device : ~On(irq)' /\ ~On(irq)
    BY <2>2 DEF On
  <2>4. \A irq \in Device : irq \in imr' /\ irq \in imr
    BY <2>1, <2>3, LineTypes, LineNumbers DEF LineInv
  <2> QED BY <1>1, <1>2, <2>3, <2>4, LinesSame
<1>8. ASSUME NEW k \in Device, ~On(k), On(k)', imr' = imr \ {k, Line(k)},
             \A irq \in Device : irq # k => (On(irq)' <=> On(irq))
      PROVE  LineInv'
  <2>1. ASSUME NEW irq \in Irqs PROVE One(thread', irq, InService, irq \in isr')
    <3>1. One(thread, irq, InService, irq \in isr) /\ (irq \in isr <=> irq \in isr')
      BY <1>2 DEF LineInv
    <3>2. \A h, j : Holds(thread', irq, InService, h, j) <=> Holds(thread, irq, InService, h, j)
      BY <1>1 DEF SameHolders
    <3> QED BY <3>1, <3>2, OneKept
  <2>2. ASSUME NEW irq \in Device
        PROVE  One(thread', irq, Masking, On(irq)' /\ irq \in imr') /\ (~On(irq)' => irq \in imr')
    <3>1. One(thread, irq, Masking, On(irq) /\ irq \in imr) /\ (~On(irq) => irq \in imr)
      BY DEF LineInv
    <3>2. irq \in Irqs /\ k \in Irqs
      BY LineNumbers
    <3>3. \A h, j : Holds(thread', irq, Masking, h, j) <=> Holds(thread, irq, Masking, h, j)
      BY <1>1, <3>2 DEF SameHolders
    <3>4. irq \in {k, Line(k)} <=> irq = k
      BY <3>2, LineNumbers
    <3>5. (On(irq) /\ irq \in imr) <=> (On(irq)' /\ irq \in imr')
      BY <1>8, <3>4
    <3>6. One(thread', irq, Masking, On(irq)' /\ irq \in imr')
      BY <3>1, <3>3, <3>5, OneKept
    <3> QED BY <1>8, <3>1, <3>4, <3>6
  <2>3. SLAVE_IRQ_LINE \in isr' <=> IRQ_RTC \in isr'
    BY <1>2 DEF LineInv
  <2> QED BY <2>1, <2>2, <2>3 DEF LineInv
<1>9. CASE rtc_init
  <2>1. ~UserMode /\ Top.kind = BOOT /\ GoTo("keyboard_init") /\ Top.pc = "rtc_init" /\ "keyboard_init" \in Points
        /\ imr' = imr \ {IRQ_RTC, Line(IRQ_RTC)}
    BY <1>9, HandlerPoints DEF rtc_init, At, enable_irq
  <2>2. BootPc = "rtc_init" /\ BootPc' = "keyboard_init"
    BY <1>3, <1>9, <2>1 DEF Boot
  <2>3. ~On(IRQ_RTC) /\ On(IRQ_RTC)' /\ \A irq \in Device : irq # IRQ_RTC => (On(irq)' <=> On(irq))
    BY <2>2 DEF On
  <2> QED BY <1>8, <2>1, <2>3, LineNumbers
<1>10. CASE keyboard_init
  <2>1. ~UserMode /\ Top.kind = BOOT /\ GoTo("shells") /\ Top.pc = "keyboard_init" /\ "shells" \in Points
        /\ imr' = imr \ {IRQ_KB, Line(IRQ_KB)}
    BY <1>10, HandlerPoints DEF keyboard_init, At, enable_irq
  <2>2. BootPc = "keyboard_init" /\ BootPc' = "shells"
    BY <1>3, <1>10, <2>1 DEF Boot
  <2>3. ~On(IRQ_KB) /\ On(IRQ_KB)' /\ \A irq \in Device : irq # IRQ_KB => (On(irq)' <=> On(irq))
    BY <2>2, KindsApart DEF On, Device
  <2> QED BY <1>8, <2>1, <2>3, LineNumbers
<1> QED BY <1>4, <1>5, <1>6, <1>7, <1>9, <1>10 DEF Boot

LEMMA LineEntered ==
  ASSUME TypeInv, StackInv, GroupInv, LineInv, NEW kind \in Irqs \cup {CALL, EXC}, NEW x \in {"start", "body"}, NEW w \in Nat,
         Enter(kind, x, w), imr' = imr, kind \notin Irqs => isr' = isr /\ x = "body",
         kind \in Irqs => Deliverable(kind) /\ x = "start" /\ isr' = isr \cup {kind, Line(kind)}
  PROVE  LineInv'
<1>1. x \in Points
  BY DEF Points
<1>2. PICK f \in Frame : Entered(f, kind, x, w)
  BY <1>1, EnteredThread
<1>3. PICK G, n : G = current_group /\ n = Len(thread[current_group]) + 1
  OBVIOUS
<1>4. /\ thread'[G] = Append(thread[G], f) /\ f.kind = kind /\ f.pc = x /\ G \in Groups
      /\ \A g \in Groups : g # G => thread'[g] = thread[g]
      /\ thread \in [Groups -> Seq(Frame)] /\ n = Len(thread[G]) + 1
  BY <1>2, <1>3, SetThread DEF Entered, TypeInv
<1>5. BootPc' = BootPc
  BY <1>1, BootEntered
<1>6. ASSUME NEW irq, NEW points
      PROVE  /\ \A h, j : ~(h = G /\ j = n) => (Holds(thread', irq, points, h, j) <=> Holds(thread, irq, points, h, j))
             /\ Holds(thread', irq, points, G, n) <=> (kind = irq /\ x \in points)
             /\ ~Holds(thread, irq, points, G, n)
  BY <1>4, HoldsPushed
<1>7. "start" \in InService /\ "start" \notin Masking /\ "body" \notin InService /\ "body" \notin Masking
  BY DEF InService, Masking
<1>8. ASSUME NEW irq \in Irqs PROVE One(thread', irq, InService, irq \in isr')
  <2>1. One(thread, irq, InService, irq \in isr)
    BY DEF LineInv
  <2>2. /\ \A h, j : ~(h = G /\ j = n) => (Holds(thread', irq, InService, h, j) <=> Holds(thread, irq, InService, h, j))
        /\ Holds(thread', irq, InService, G, n) <=> (kind = irq /\ x \in InService)
        /\ ~Holds(thread, irq, InService, G, n)
    BY <1>6
  <2>3. CASE kind = irq
    <3>1. Holds(thread', irq, InService, G, n) /\ ~(irq \in isr) /\ irq \in isr'
      BY <1>7, <2>2, <2>3 DEF Deliverable
    <3> QED BY <2>1, <2>2, <3>1, OneTaken
  <2>4. CASE kind # irq
    <3>1. \A h, j : Holds(thread', irq, InService, h, j) <=> Holds(thread, irq, InService, h, j)
      BY <2>2, <2>4
    <3>2. irq \in isr <=> irq \in isr'
      <4>1. CASE kind \in Irqs
        <5>1. irq \notin {kind, Line(kind)}
          BY <2>4, <4>1, LineNumbers
        <5> QED BY <4>1, <5>1
      <4>2. CASE kind \notin Irqs
        BY <4>2
      <4> QED BY <4>1, <4>2
    <3> QED BY <2>1, <3>1, <3>2, OneKept
  <2> QED BY <2>3, <2>4
<1>9. ASSUME NEW irq \in Device
      PROVE  One(thread', irq, Masking, On(irq)' /\ irq \in imr') /\ (~On(irq)' => irq \in imr')
  <2>1. One(thread, irq, Masking, On(irq) /\ irq \in imr) /\ (~On(irq) => irq \in imr)
    BY DEF LineInv
  <2>2. (On(irq)' <=> On(irq)) /\ ((On(irq) /\ irq \in imr) <=> (On(irq)' /\ irq \in imr'))
    BY <1>5, OnSame
  <2>3. /\ \A h, j : ~(h = G /\ j = n) => (Holds(thread', irq, Masking, h, j) <=> Holds(thread, irq, Masking, h, j))
        /\ ~Holds(thread', irq, Masking, G, n)
        /\ ~Holds(thread, irq, Masking, G, n)
    BY <1>6, <1>7
  <2>4. \A h, j : Holds(thread', irq, Masking, h, j) <=> Holds(thread, irq, Masking, h, j)
    BY <2>3
  <2>5. One(thread', irq, Masking, On(irq)' /\ irq \in imr')
    BY <2>1, <2>2, <2>4, OneKept
  <2> QED BY <2>1, <2>2, <2>5
<1>10. SLAVE_IRQ_LINE \in isr' <=> IRQ_RTC \in isr'
  <2>1. CASE kind \in Irqs
    <3>1. IRQ_RTC \in {kind, Line(kind)} <=> kind = IRQ_RTC
      BY <2>1, LineNumbers
    <3>2. SLAVE_IRQ_LINE \in {kind, Line(kind)} <=> kind = IRQ_RTC
      BY <2>1, LineNumbers
    <3> QED BY <2>1, <3>1, <3>2 DEF LineInv
  <2>2. CASE kind \notin Irqs
    BY <2>2 DEF LineInv
  <2> QED BY <2>1, <2>2
<1> QED BY <1>8, <1>9, <1>10 DEF LineInv

LEMMA LineStep == ASSUME TypeInv, StackInv, GroupInv, LineInv, StartInv, [Next]_vars PROVE LineInv'
<1>1. CASE UNCHANGED vars
  BY <1>1 DEF vars, LineInv, On, BootPc
<1>2. CASE Plain
  BY <1>2, LineMask, LineUnmask, LineEoi, LineOther
<1>3. CASE Boot \/ (Execute /\ Top.kind = BOOT)
  BY <1>3, LineBoot
<1>4. CASE SystemCall \/ Exception \/ \E irq \in Irqs : Interrupt(irq)
  <2>1. PICK kind \in Irqs \cup {CALL, EXC}, x \in {"start", "body"}, w \in Nat :
            /\ Enter(kind, x, w) /\ imr' = imr
            /\ kind \notin Irqs => isr' = isr /\ x = "body"
            /\ kind \in Irqs => Deliverable(kind) /\ x = "start" /\ isr' = isr \cup {kind, Line(kind)}
    BY <1>4, Entry
  <2> QED BY <2>1, LineEntered
<1>5. Execute => Top.kind \in {CALL, BOOT}
  BY CallKinds DEF Execute
<1> QED BY <1>1, <1>2, <1>3, <1>4, <1>5 DEF Next, Code, Plain

LEMMA StartsFree == Init => LineInv /\ StartInv
<1> HAVE Init
<1>1. /\ thread[0] = <<BootFrame>> /\ isr = {} /\ imr = Lines
      /\ \A g \in Groups \ {0} : thread[g] = <<>>
  BY GroupNumbers DEF Init
<1>2. Len(thread[0]) = 1 /\ thread[0][1].kind = BOOT /\ thread[0][1].pc = "i8259_init" /\ 1 .. 1 = {1} /\ 1 .. 0 = {}
  BY <1>1 DEF BootFrame
<1>3. \A g \in Groups \ {0} : Len(thread[g]) = 0
  BY <1>1
<1>4. ASSUME NEW irq \in Irqs, NEW points, NEW h, NEW j PROVE ~Holds(thread, irq, points, h, j)
  BY <1>2, <1>3, KindsApart DEF Holds
<1>5. LineInv
  <2>1. \A irq \in Device : ~On(irq) /\ irq \in imr /\ irq \in Irqs
    BY <1>1, <1>2, LineNumbers, LineTypes DEF On, BootPc
  <2>2. \A irq \in Irqs : One(thread, irq, InService, irq \in isr)
    BY <1>1, <1>4 DEF One
  <2>3. \A irq \in Device : One(thread, irq, Masking, On(irq) /\ irq \in imr)
    BY <2>1, <1>4 DEF One
  <2> QED BY <1>1, <2>1, <2>2, <2>3 DEF LineInv
<1>6. StartInv
  BY <1>2, <1>3 DEF StartInv
<1> QED BY <1>5, <1>6

\* The handlers as LinesHeld counts them.
Holders(irq, points) == {f \in AllFrames : thread[f[1]][f[2]].kind = irq /\ thread[f[1]][f[2]].pc \in points}

LEMMA CountHolders ==
  ASSUME TypeInv, NEW irq, NEW points, NEW b, One(thread, irq, points, b)
  PROVE  Cardinality(Holders(irq, points)) = IF b THEN 1 ELSE 0
<1>1. \A f \in AllFrames : \E g, i : g \in Groups /\ i \in DOMAIN thread[g] /\ f = <<g, i>>
  BY DEF AllFrames
<1>2. \A g \in Groups : \A i \in DOMAIN thread[g] : <<g, i>> \in AllFrames
  BY DEF AllFrames
<1>3. \A g \in Groups : DOMAIN thread[g] = 1 .. Len(thread[g])
  BY LenProperties DEF TypeInv
<1>4. ASSUME NEW f \in Holders(irq, points)
      PROVE  \E g, i : f = <<g, i>> /\ Holds(thread, irq, points, g, i)
  <2>1. PICK g, i : g \in Groups /\ i \in DOMAIN thread[g] /\ f = <<g, i>>
    BY <1>1, <1>4 DEF Holders
  <2>2. f[1] = g /\ f[2] = i
    BY <2>1
  <2>3. thread[g][i].kind = irq /\ thread[g][i].pc \in points
    BY <1>4, <2>2 DEF Holders
  <2> QED BY <1>3, <2>1, <2>3 DEF Holds
<1>5. ASSUME NEW g, NEW i, Holds(thread, irq, points, g, i) PROVE <<g, i>> \in Holders(irq, points)
  <2>1. <<g, i>> \in AllFrames
    BY <1>2, <1>3, <1>5 DEF Holds
  <2>2. <<g, i>>[1] = g /\ <<g, i>>[2] = i
    OBVIOUS
  <2> QED BY <1>5, <2>1, <2>2 DEF Holds, Holders
<1>6. CASE b
  <2>1. PICK g, i : \A h, j : Holds(thread, irq, points, h, j) <=> (h = g /\ j = i)
    BY <1>6 DEF One
  <2>2. Holders(irq, points) = {<<g, i>>}
    BY <1>4, <1>5, <2>1
  <2> QED BY <1>6, <2>2, FS_Singleton
<1>7. CASE ~b
  <2>1. Holders(irq, points) = {}
    BY <1>4, <1>7 DEF One
  <2> QED BY <1>7, <2>1, FS_EmptySet
<1> QED BY <1>6, <1>7

\* However handlers nest, in whatever groups: a line is in service exactly while
\* one handler, and no other, has yet to acknowledge it, and once the boot is past
\* the devices, masked exactly while one has yet to unmask it.
THEOREM LinesAreHeld == Spec => []LinesHeld
<1> DEFINE I == StackIInv /\ LineInv /\ StartInv
<1>1. Init => LineInv /\ StartInv
  BY StartsFree
<1>2. StackIInv /\ LineInv /\ StartInv /\ [Next]_vars => LineInv' /\ StartInv'
  BY LineStep, StartStep DEF StackIInv
<1>3. I => LinesHeld
  <2> HAVE I
  <2>1. ASSUME NEW irq \in Irqs PROVE Cardinality(Holders(irq, {"start", "masked"})) = IF irq \in isr THEN 1 ELSE 0
    BY CountHolders DEF StackIInv, LineInv, InService
  <2>2. ASSUME thread[0][1].pc \notin {"i8259_init", "rtc_init", "keyboard_init"}, NEW irq \in {IRQ_KB, IRQ_RTC}
        PROVE  Cardinality(Holders(irq, {"masked", "acknowledged"})) = IF irq \in imr THEN 1 ELSE 0
    <3>1. irq \in Device /\ On(irq)
      BY <2>2 DEF Device, On, BootPc
    <3>2. One(thread, irq, Masking, On(irq) /\ irq \in imr)
      BY <3>1 DEF LineInv
    <3>3. Cardinality(Holders(irq, Masking)) = IF On(irq) /\ irq \in imr THEN 1 ELSE 0
      BY <3>2, CountHolders DEF StackIInv
    <3> QED BY <3>1, <3>3 DEF Masking
  <2> QED BY <2>1, <2>2 DEF LinesHeld, Holders, LineInv
<1> HIDE DEF I
<1>4. Spec => [](LineInv /\ StartInv)
  BY <1>1, <1>2, Inductive, PTL DEF Spec
<1> QED BY <1>3, <1>4, Inductive, PTL DEF I

=============================================================================
