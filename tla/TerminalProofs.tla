---------------------------- MODULE TerminalProofs ----------------------------
(* Proofs about the cursors, the line buffers and the screens of the         *)
(* terminals, for any number of groups and any size of screen, buffer, tab   *)
(* and write.                                                                *)
EXTENDS Terminal, SequenceTheorems, WellFoundedInduction, TLAPS

-----------------------------------------------------------------------------
(* Induction over the natural numbers with a set in place of a predicate, so *)
(* that it can be applied to what a recursive function computes.             *)

\* Every set of natural numbers that is not empty has a least element.
LEMMA LeastElement ==
  ASSUME NEW T, T \subseteq Nat, T # {}
  PROVE  \E x \in T : \A y \in T : ~(y < x)
<1> DEFINE R == OpToRel(<, Nat)
<1>1. IsWellFoundedOn(R, Nat)
  BY NatLessThanWellFounded DEF OpToRel
<1>2. \A x, y \in Nat : y < x => <<y, x>> \in R
  BY DEF OpToRel
<1> HIDE DEF R
<1>3. \E x \in T : \A y \in T : <<y, x>> \notin R
  BY <1>1, WFMin
<1> QED BY <1>2, <1>3

\* A set that holds 0 and the successor of each of its numbers holds them all.
LEMMA NatSetInduction ==
  ASSUME NEW G, 0 \in G, \A n \in Nat : n \in G => n + 1 \in G
  PROVE  Nat \subseteq G
<1> SUFFICES ASSUME ~(Nat \subseteq G) PROVE FALSE
  OBVIOUS
<1> DEFINE T == Nat \ G
<1>1. T \subseteq Nat /\ T # {}
  OBVIOUS
<1>2. PICK x \in T : \A y \in T : ~(y < x)
  <2> HIDE DEF T
  <2> QED BY <1>1, LeastElement
<1>3. x - 1 \in Nat /\ x - 1 < x /\ (x - 1) + 1 = x
  BY <1>2
<1>4. x - 1 \in G
  BY <1>2, <1>3
<1> QED BY <1>2, <1>3, <1>4

\* A function on 0 .. n that starts in S and stays in S ends in S.
LEMMA StaysInSet ==
  ASSUME NEW S, NEW n \in Nat, NEW f, f[0] \in S,
         \A i \in 1 .. n : f[i - 1] \in S => f[i] \in S
  PROVE  f[n] \in S
<1> DEFINE G == {i \in Nat : i <= n => f[i] \in S}
<1>1. 0 \in G
  OBVIOUS
<1>2. \A i \in Nat : i \in G => i + 1 \in G
  <2> SUFFICES ASSUME NEW i \in Nat, i \in G, i + 1 <= n PROVE f[i + 1] \in S
    OBVIOUS
  <2>1. f[i] \in S /\ i + 1 \in 1 .. n /\ (i + 1) - 1 = i
    OBVIOUS
  <2> QED BY <2>1
<1>3. Nat \subseteq G
  <2> HIDE DEF G
  <2> QED BY <1>1, <1>2, NatSetInduction
<1> QED BY <1>3

-----------------------------------------------------------------------------
(* The cursor.                                                               *)

\* A number below the modulus is its own remainder.
LEMMA SmallMod == ASSUME NEW n \in Nat \ {0}, NEW a \in 0 .. n - 1 PROVE a % n = a
OBVIOUS

\* A remainder is below the modulus.
LEMMA ModRange == ASSUME NEW n \in Nat \ {0}, NEW a \in Nat PROVE a % n \in 0 .. n - 1
OBVIOUS

\* The top left corner is on the screen.
LEMMA HomeOnScreen == Home \in Cursors
BY TerminalAssumption DEF Home, Cursors

\* set_cursor moves no cursor that is on the screen, since there are no more
\* rows than columns.
LEMMA SetCursorKeeps == ASSUME NEW p \in Cursors PROVE set_cursor(p) = p
<1>1. p = [x |-> p.x, y |-> p.y] /\ p.x \in 0 .. NUM_COLS - 1 /\ p.y \in 0 .. NUM_COLS - 1
  BY TerminalAssumption DEF Cursors
<1>2. p.x % NUM_COLS = p.x /\ p.y % NUM_COLS = p.y
  BY <1>1, TerminalAssumption, SmallMod
<1> QED BY <1>1, <1>2 DEF set_cursor

\* putc leaves the cursor on the screen, at its edges too.
LEMMA PutcOnScreen ==
  ASSUME NEW p \in Cursors
  PROVE  Newline(p) \in Cursors /\ Back(p) \in Cursors /\ Forward(p) \in Cursors
<1>1. p.x \in 0 .. NUM_COLS - 1 /\ p.y \in 0 .. NUM_ROWS - 1
  BY DEF Cursors
<1>2. Newline(p) \in Cursors
  BY <1>1, TerminalAssumption DEF Newline, Cursors
<1>3. Back(p) \in Cursors
  BY <1>1, TerminalAssumption, HomeOnScreen DEF Back, Cursors
<1>4. Forward(p) \in Cursors
  <2> DEFINE row == p.y + (p.x + 1) \div NUM_COLS
  <2>1. (p.x + 1) % NUM_COLS \in 0 .. NUM_COLS - 1
    <3>1. p.x + 1 \in Nat /\ NUM_COLS \in Nat \ {0}
      BY <1>1, TerminalAssumption
    <3> QED BY <3>1, ModRange
  <2>2. (p.x + 1) \div NUM_COLS \in Nat
    BY <1>1, TerminalAssumption
  <2>3. row % NUM_ROWS \in 0 .. NUM_ROWS - 1
    BY <1>1, <2>2, TerminalAssumption, ModRange, SMTT(30)
  <2> QED BY <1>1, <2>1, <2>3 DEF Forward, Cursors
<1> QED BY <1>2, <1>3, <1>4

\* __print_char leaves the cursor on the screen.
LEMMA PrintCharOnScreen == ASSUME NEW p \in Cursors, NEW c PROVE print_char(p, c) \in Cursors
<1>1. Back(Forward(Back(p))) \in Cursors
  BY PutcOnScreen
<1> QED BY <1>1, PutcOnScreen DEF print_char

\* f is the sequence of cursors while the first n characters of s are printed.
IsPath(f, p, s, n) ==
  f = [i \in 0 .. n |-> IF i = 0 THEN p ELSE print_char(f[i - 1], s[i])]

\* There is one, for any number of characters.
LEMMA PathExists == ASSUME NEW p, NEW s, NEW n \in Nat PROVE \E f : IsPath(f, p, s, n)
<1> DEFINE G == {m \in Nat : \E f : IsPath(f, p, s, m)}
<1>1. 0 \in G
  <2> DEFINE f == [i \in 0 .. 0 |-> p]
  <2>1. IsPath(f, p, s, 0)
    BY DEF IsPath
  <2> QED BY <2>1
<1>2. \A m \in Nat : m \in G => m + 1 \in G
  <2> SUFFICES ASSUME NEW m \in Nat, NEW f, IsPath(f, p, s, m)
               PROVE  \E h : IsPath(h, p, s, m + 1)
    OBVIOUS
  <2> DEFINE h == [i \in 0 .. m + 1 |->
                     IF i = m + 1 THEN print_char(f[m], s[m + 1]) ELSE f[i]]
  <2>1. ASSUME NEW i \in 0 .. m + 1
        PROVE  h[i] = IF i = 0 THEN p ELSE print_char(h[i - 1], s[i])
    <3>1. CASE i = m + 1
      BY <3>1
    <3>2. CASE i \in 1 .. m
      <4>1. f[i] = print_char(f[i - 1], s[i])
        BY <3>2 DEF IsPath
      <4> QED BY <3>2, <4>1
    <3>3. CASE i = 0
      <4>1. f[0] = p
        BY DEF IsPath
      <4> QED BY <3>3, <4>1
    <3> QED BY <3>1, <3>2, <3>3
  <2>2. IsPath(h, p, s, m + 1)
    BY <2>1 DEF IsPath
  <2> QED BY <2>2
<1>3. Nat \subseteq G
  <2> HIDE DEF G
  <2> QED BY <1>1, <1>2, NatSetInduction
<1> QED BY <1>3

\* However much is printed, the cursor stays on the screen.
LEMMA PrintedOnScreen ==
  ASSUME NEW p \in Cursors, NEW s, Len(s) \in Nat PROVE Printed(p, s) \in Cursors
<1> DEFINE n == Len(s)
           f == CHOOSE after : IsPath(after, p, s, n)
<1>1. IsPath(f, p, s, n)
  BY PathExists
<1>2. Printed(p, s) = f[n]
  BY DEF Printed, IsPath
<1> HIDE DEF f
<1>3. f[0] \in Cursors
  BY <1>1 DEF IsPath
<1>4. ASSUME NEW i \in 1 .. n, f[i - 1] \in Cursors PROVE f[i] \in Cursors
  <2>1. f[i] = print_char(f[i - 1], s[i])
    BY <1>1 DEF IsPath
  <2> QED BY <1>4, <2>1, PrintCharOnScreen
<1> QED BY <1>2, <1>3, <1>4, StaysInSet

-----------------------------------------------------------------------------
(* The line buffers.                                                         *)

LineTypeOK ==
  /\ read_in_progress \in [Groups -> {0, 1}]
  /\ newline_seen \in [Groups -> {0, 1}]
  /\ term_buff \in [Groups -> Seq(Chars)]
  /\ visible_group \in Groups
  /\ pc \in [Groups -> {"idle", "claimed", "waiting", "seen", "copied"}]
  /\ raced \subseteq Groups

\* The flags of a terminal agree with where its reader is.
FlagsOK ==
  \A g \in Groups : /\ read_in_progress[g] = 1 <=> pc[g] # "idle"
                    /\ pc[g] = "seen" => newline_seen[g] = 1

NoNewline(s) == \A i \in 1 .. Len(s) : s[i] # "n"

\* A reader at p, with newline flag n, has its newline and has yet to copy the
\* line out.
HasLine(p, n) == p = "seen" \/ (p = "waiting" /\ n = 1)

\* What the buffer of a terminal holds when no key was badly timed: a line if
\* its reader has its newline, the beginning of a line otherwise.
Holds(p, n, s) == IF HasLine(p, n) THEN IsLine(s) ELSE NoNewline(s)
LineShape ==
  \A g \in Groups : g \notin raced => Holds(pc[g], newline_seen[g], term_buff[g])

\* A buffer within bounds, its last place taken by a newline only.
Fits(s) == /\ Len(s) <= TERM_BUFFER_SIZE
           /\ Len(s) = TERM_BUFFER_SIZE => s[TERM_BUFFER_SIZE] = "n"

LineInv == LineTypeOK /\ FlagsOK /\ BufferBounded /\ LineShape

\* BufferBounded, buffer by buffer.
LEMMA BoundedIsFits == BufferBounded <=> \A g \in Groups : Fits(term_buff[g])
BY DEF BufferBounded, Fits, Size

\* Spaces are a sequence.
LEMMA SpacesSeq ==
  ASSUME NEW k \in Nat
  PROVE  LET s == [i \in 1 .. k |-> "c"] IN s \in Seq(Chars) /\ Len(s) = k
<1> DEFINE s == [i \in 1 .. k |-> "c"]
<1>1. s \in [1 .. k -> Chars]
  BY DEF Chars
<1>2. s \in Seq(Chars)
  BY <1>1, SeqDef
<1> QED BY <1>1, <1>2, LenProperties

\* A multiple of the tab size is at most TAB_SIZE characters away.
LEMMA TabStop ==
  ASSUME NEW n \in Nat \ {0}, NEW a \in Nat
  PROVE  \E k \in 1 .. n : (a + k) % n = 0
<1> DEFINE r == a % n
           q == a \div n
<1>1. r \in 0 .. n - 1 /\ q \in Nat /\ a = n * q + r
  OBVIOUS
<1>2. a + (n - r) = n * (q + 1)
  BY <1>1
<1>3. (n * (q + 1)) % n = 0
  BY <1>1
<1> QED BY <1>1, <1>2, <1>3

\* A tab adds at least one space, and leaves the last place for the newline.
LEMMA TabFits ==
  ASSUME NEW size \in Nat, size < TERM_BUFFER_SIZE - 1
  PROVE  TabSpaces(size) \in Nat /\ size + TabSpaces(size) <= TERM_BUFFER_SIZE - 1
<1> DEFINE Stops(k) == size + k = TERM_BUFFER_SIZE - 1 \/ (size + k) % TAB_SIZE = 0
           T == {k \in 1 .. TAB_SIZE : Stops(k)}
           First(k) == Stops(k) /\ \A j \in 1 .. k - 1 : ~Stops(j)
<1>1. T \subseteq Nat /\ T # {}
  <2>1. PICK k \in 1 .. TAB_SIZE : (size + k) % TAB_SIZE = 0
    BY TabStop, TerminalAssumption
  <2> QED BY <2>1
<1>2. PICK m \in T : \A y \in T : ~(y < m)
  <2> HIDE DEF T
  <2> QED BY <1>1, LeastElement
<1>3. m \in 1 .. TAB_SIZE /\ First(m)
  <2>1. ASSUME NEW j \in 1 .. m - 1 PROVE ~Stops(j)
    <3>1. j \in 1 .. TAB_SIZE /\ j < m
      BY TerminalAssumption
    <3> QED BY <1>2, <3>1
  <2> QED BY <2>1
<1>4. TabSpaces(size) = CHOOSE k \in 1 .. TAB_SIZE : First(k)
  BY DEF TabSpaces
<1>5. TabSpaces(size) \in 1 .. TAB_SIZE /\ First(TabSpaces(size))
  <2> HIDE DEF First
  <2> QED BY <1>3, <1>4
<1>6. TabSpaces(size) <= TERM_BUFFER_SIZE - 1 - size
  <2> DEFINE d == TERM_BUFFER_SIZE - 1 - size
  <2>1. Stops(d) /\ d \in Nat \ {0}
    BY TerminalAssumption
  <2> SUFFICES ASSUME TabSpaces(size) > d PROVE FALSE
    BY <1>5, <2>1, TerminalAssumption
  <2>2. d \in 1 .. TabSpaces(size) - 1
    BY <1>5, <2>1, TerminalAssumption
  <2> QED BY <1>5, <2>1, <2>2
<1> QED BY <1>5, <1>6, TerminalAssumption

\* At boot every buffer is empty and no one reads.
LEMMA InitLines == Init => LineInv
<1> SUFFICES ASSUME Init PROVE LineInv
  OBVIOUS
<1>1. LineTypeOK
  BY TerminalAssumption DEF Init, LineTypeOK
<1>2. FlagsOK
  <2> SUFFICES ASSUME NEW g \in Groups
               PROVE  /\ read_in_progress[g] = 1 <=> pc[g] # "idle"
                      /\ pc[g] = "seen" => newline_seen[g] = 1
    BY DEF FlagsOK
  <2>1. read_in_progress[g] # 1 /\ pc[g] = "idle"
    BY DEF Init
  <2> QED BY <2>1
<1>3. BufferBounded
  <2>1. \A g \in Groups : term_buff[g] = <<>>
    BY DEF Init
  <2>2. Len(<<>>) <= TERM_BUFFER_SIZE /\ Len(<<>>) # TERM_BUFFER_SIZE
    BY TerminalAssumption
  <2> QED BY <2>1, <2>2 DEF BufferBounded, Size
<1>4. LineShape
  BY DEF Init, LineShape, Holds, HasLine, NoNewline
<1> QED BY <1>1, <1>2, <1>3, <1>4 DEF LineInv

\* What a step that changes the buffer of one group has to show.
LEMMA BufferStep ==
  ASSUME LineInv, LineTypeOK', FlagsOK', NEW g \in Groups, NEW s,
         term_buff' = [term_buff EXCEPT ![g] = s], Fits(s),
         \A h \in Groups \ {g} : /\ pc'[h] = pc[h] /\ newline_seen'[h] = newline_seen[h]
                                 /\ h \in raced' <=> h \in raced,
         g \notin raced' => Holds(pc'[g], newline_seen'[g], s)
  PROVE  LineInv'
<1>1. LineTypeOK /\ LineShape /\ \A h \in Groups : Fits(term_buff[h])
  BY BoundedIsFits DEF LineInv
<1>2. \A h \in Groups : term_buff'[h] = IF h = g THEN s ELSE term_buff[h]
  BY <1>1 DEF LineTypeOK
<1>3. BufferBounded'
  BY <1>1, <1>2 DEF BufferBounded, Fits, Size
<1>4. LineShape'
  BY <1>1, <1>2 DEF LineShape, Holds, HasLine
<1> QED BY <1>3, <1>4 DEF LineInv

\* A character other than newline is added to the end of a line that has no
\* newline yet, or badly timed.
LEMMA CharsStep ==
  ASSUME LineInv, NEW b \in Seq(Chars), NEW g \in Groups, g = visible_group,
         NoNewline(b), Len(term_buff[g]) + Len(b) < TERM_BUFFER_SIZE,
         term_buff' = [term_buff EXCEPT ![g] = @ \o b],
         raced' = RacedAfter(g, "c"),
         UNCHANGED <<read_in_progress, newline_seen, pc, visible_group>>
  PROVE  LineInv'
<1>1. LineTypeOK /\ FlagsOK /\ LineShape
  BY DEF LineInv
<1> DEFINE a == term_buff[g]
           s == a \o b
<1>2. a \in Seq(Chars)
  BY <1>1 DEF LineTypeOK
<1>3. /\ s \in Seq(Chars) /\ Len(s) = Len(a) + Len(b)
      /\ \A i \in 1 .. Len(s) : s[i] = IF i <= Len(a) THEN a[i] ELSE b[i - Len(a)]
  BY <1>2, ConcatProperties
<1>4. Len(a) \in Nat /\ Len(b) \in Nat
  BY <1>2, LenProperties
<1>5. Fits(s)
  BY <1>3, <1>4, TerminalAssumption DEF Fits
<1>6. raced' \subseteq Groups /\ \A h \in Groups \ {g} : h \in raced' <=> h \in raced
  BY <1>1 DEF RacedAfter, LineTypeOK
<1>7. LineTypeOK'
  BY <1>1, <1>3, <1>6 DEF LineTypeOK
<1>8. FlagsOK'
  BY <1>1 DEF FlagsOK
<1>9. g \notin raced' => Holds(pc'[g], newline_seen'[g], s)
  <2> SUFFICES ASSUME g \notin raced' PROVE Holds(pc'[g], newline_seen'[g], s)
    OBVIOUS
  <2>1. g \notin raced /\ ~Untimely(g, "c")
    BY DEF RacedAfter
  <2>2. ~HasLine(pc[g], newline_seen[g])
    BY <1>1, <2>1 DEF FlagsOK, HasLine, Untimely
  <2>3. NoNewline(a)
    BY <1>1, <2>1, <2>2 DEF LineShape, Holds
  <2>4. NoNewline(s)
    BY <1>3, <1>4, <2>3 DEF NoNewline
  <2> QED BY <2>2, <2>4 DEF Holds
<1> HIDE DEF a, s
<1>10. term_buff' = [term_buff EXCEPT ![g] = s]
  BY DEF s, a
<1> QED BY <1>5, <1>6, <1>7, <1>8, <1>9, <1>10, BufferStep

\* A character key.
LEMMA AddCharLine == ASSUME LineInv, AddChar PROVE LineInv'
<1>1. LineTypeOK
  BY DEF LineInv
<1> DEFINE g == visible_group
           b == <<"c">>
<1>2. /\ term_buff' = [term_buff EXCEPT ![g] = Append(@, "c")]
      /\ Accepts(g, "c") /\ raced' = RacedAfter(g, "c")
      /\ UNCHANGED <<read_in_progress, newline_seen, pc, visible_group>>
  BY DEF AddChar, Echo
<1>3. g \in Groups /\ term_buff[g] \in Seq(Chars) /\ Len(term_buff[g]) \in Nat
  BY <1>1, LenProperties DEF LineTypeOK
<1>4. b \in Seq(Chars) /\ Len(b) = 1 /\ NoNewline(b)
  BY DEF Chars, NoNewline
<1>5. term_buff' = [term_buff EXCEPT ![g] = @ \o b]
  BY <1>2, <1>3, AppendIsConcat DEF Chars
<1>6. Len(term_buff[g]) + Len(b) < TERM_BUFFER_SIZE
  BY <1>2, <1>3, <1>4, TerminalAssumption DEF Accepts, Size
<1> HIDE DEF b
<1> QED BY <1>2, <1>3, <1>4, <1>5, <1>6, CharsStep

\* The tab key.
LEMMA AddTabLine == ASSUME LineInv, AddTab PROVE LineInv'
<1>1. LineTypeOK
  BY DEF LineInv
<1> DEFINE g == visible_group
           k == TabSpaces(Size(g))
           b == [i \in 1 .. k |-> "c"]
<1>2. /\ term_buff' = [term_buff EXCEPT ![g] = @ \o b]
      /\ Accepts(g, "c") /\ raced' = RacedAfter(g, "c")
      /\ UNCHANGED <<read_in_progress, newline_seen, pc, visible_group>>
  BY DEF AddTab, Echo
<1>3. g \in Groups /\ Size(g) \in Nat
  BY <1>1, LenProperties DEF LineTypeOK, Size
<1>4. Size(g) < TERM_BUFFER_SIZE - 1
  BY <1>2, <1>3, TerminalAssumption DEF Accepts
<1>5. k \in Nat /\ Size(g) + k <= TERM_BUFFER_SIZE - 1
  BY <1>3, <1>4, TabFits
<1> HIDE DEF k
<1>6. b \in Seq(Chars) /\ Len(b) = k
  BY <1>5, SpacesSeq
<1>7. NoNewline(b)
  BY <1>6 DEF NoNewline
<1>8. Len(term_buff[g]) + Len(b) < TERM_BUFFER_SIZE
  BY <1>3, <1>5, <1>6, TerminalAssumption DEF Size
<1> HIDE DEF b
<1> QED BY <1>2, <1>3, <1>6, <1>7, <1>8, CharsStep

\* The newline that ends the line, or is dropped with it.
LEMMA AddNewlineLine == ASSUME LineInv, AddNewline PROVE LineInv'
<1>1. LineTypeOK /\ FlagsOK /\ LineShape
  BY DEF LineInv
<1> DEFINE g == visible_group
           a == term_buff[g]
           s == AfterNewline(g)
<1>2. /\ term_buff' = [term_buff EXCEPT ![g] = s]
      /\ newline_seen' = [newline_seen EXCEPT ![g] = 1]
      /\ raced' = IF read_in_progress[g] = 0 THEN raced \ {g} ELSE RacedAfter(g, "n")
      /\ Accepts(g, "n")
      /\ UNCHANGED <<read_in_progress, pc, visible_group>>
  BY DEF AddNewline, Echo
<1>3. g \in Groups /\ a \in Seq(Chars) /\ Len(a) \in Nat /\ Len(a) < TERM_BUFFER_SIZE
  BY <1>1, <1>2, LenProperties, TerminalAssumption DEF LineTypeOK, Accepts, Size
<1>4. raced' \subseteq Groups /\ \A h \in Groups \ {g} : h \in raced' <=> h \in raced
  BY <1>1, <1>2 DEF RacedAfter, LineTypeOK
<1>5. FlagsOK'
  BY <1>1, <1>2, <1>3 DEF FlagsOK, LineTypeOK
<1>6. \A h \in Groups \ {g} : pc'[h] = pc[h] /\ newline_seen'[h] = newline_seen[h]
  BY <1>1, <1>2 DEF LineTypeOK
<1>7. CASE read_in_progress[g] = 0
  <2>1. s = <<>>
    BY <1>7 DEF AfterNewline
  <2>2. Fits(s) /\ NoNewline(s) /\ s \in Seq(Chars)
    BY <2>1, TerminalAssumption DEF Fits, NoNewline
  <2>3. LineTypeOK'
    BY <1>1, <1>2, <1>4, <2>2 DEF LineTypeOK
  <2>4. ~HasLine(pc'[g], newline_seen'[g])
    BY <1>1, <1>2, <1>3, <1>7 DEF HasLine, FlagsOK
  <2>5. Holds(pc'[g], newline_seen'[g], s)
    BY <2>2, <2>4 DEF Holds
  <2> HIDE DEF s
  <2> QED BY <1>2, <1>3, <1>4, <1>5, <1>6, <2>2, <2>3, <2>5, BufferStep
<1>8. CASE read_in_progress[g] = 1
  <2>1. s = Append(a, "n")
    BY <1>8 DEF AfterNewline
  <2>2. /\ s \in Seq(Chars) /\ Len(s) = Len(a) + 1 /\ s[Len(a) + 1] = "n"
        /\ \A i \in 1 .. Len(a) : s[i] = a[i]
    BY <1>3, <2>1, AppendProperties DEF Chars
  <2>3. Fits(s)
    BY <1>3, <2>2, TerminalAssumption DEF Fits
  <2>4. LineTypeOK'
    BY <1>1, <1>2, <1>4, <2>2 DEF LineTypeOK
  <2>5. g \notin raced' => Holds(pc'[g], newline_seen'[g], s)
    <3> SUFFICES ASSUME g \notin raced' PROVE Holds(pc'[g], newline_seen'[g], s)
      OBVIOUS
    <3>1. g \notin raced /\ ~Untimely(g, "n")
      BY <1>2, <1>8 DEF RacedAfter
    <3>2. pc[g] = "waiting" /\ newline_seen[g] # 1
      BY <1>1, <1>3, <1>8, <3>1 DEF FlagsOK, Untimely, LineTypeOK
    <3>3. NoNewline(a)
      BY <1>1, <1>3, <3>1, <3>2 DEF LineShape, Holds, HasLine
    <3>4. IsLine(s)
      BY <1>3, <2>2, <3>3 DEF NoNewline, IsLine
    <3>5. HasLine(pc'[g], newline_seen'[g])
      BY <1>1, <1>2, <1>3, <3>2 DEF HasLine, LineTypeOK
    <3> QED BY <3>4, <3>5 DEF Holds
  <2> HIDE DEF s
  <2> QED BY <1>2, <1>3, <1>4, <1>5, <1>6, <2>3, <2>4, <2>5, BufferStep
<1> QED BY <1>1, <1>3, <1>7, <1>8 DEF LineTypeOK

\* Backspace takes the last character away.
LEMMA BackspaceLine == ASSUME LineInv, Backspace PROVE LineInv'
<1>1. LineTypeOK /\ FlagsOK /\ LineShape /\ BufferBounded
  BY DEF LineInv
<1> DEFINE g == visible_group
           a == term_buff[g]
           s == SubSeq(a, 1, Len(a) - 1)
<1>2. /\ term_buff' = [term_buff EXCEPT ![g] = s]
      /\ Len(a) > 0 /\ raced' = RacedAfter(g, "c")
      /\ UNCHANGED <<read_in_progress, newline_seen, pc, visible_group>>
  BY DEF Backspace, Echo, Size
<1>3. g \in Groups /\ a \in Seq(Chars) /\ Len(a) \in Nat /\ Len(a) <= TERM_BUFFER_SIZE
  BY <1>1, LenProperties DEF LineTypeOK, BufferBounded, Size
<1>4. /\ s \in Seq(Chars) /\ Len(s) = Len(a) - 1
      /\ \A i \in 1 .. Len(s) : s[i] = a[i]
  BY <1>2, <1>3, SubSeqProperties
<1>5. Fits(s)
  BY <1>2, <1>3, <1>4, TerminalAssumption DEF Fits
<1>6. raced' \subseteq Groups /\ \A h \in Groups \ {g} : h \in raced' <=> h \in raced
  BY <1>1, <1>2, <1>3 DEF RacedAfter, LineTypeOK
<1>7. LineTypeOK'
  BY <1>1, <1>2, <1>4, <1>6 DEF LineTypeOK
<1>8. FlagsOK'
  BY <1>1, <1>2 DEF FlagsOK
<1>9. g \notin raced' => Holds(pc'[g], newline_seen'[g], s)
  <2> SUFFICES ASSUME g \notin raced' PROVE Holds(pc'[g], newline_seen'[g], s)
    OBVIOUS
  <2>1. g \notin raced /\ ~Untimely(g, "c")
    BY <1>2 DEF RacedAfter
  <2>2. ~HasLine(pc[g], newline_seen[g])
    BY <1>1, <1>3, <2>1 DEF FlagsOK, HasLine, Untimely
  <2>3. NoNewline(a)
    BY <1>1, <1>3, <2>1, <2>2 DEF LineShape, Holds
  <2>4. NoNewline(s)
    <3> HIDE DEF s, a
    <3>1. \A i \in 1 .. Len(s) : i \in 1 .. Len(a) /\ s[i] = a[i]
      BY <1>3, <1>4
    <3> QED BY <2>3, <3>1 DEF NoNewline
  <2> QED BY <1>2, <2>2, <2>4 DEF Holds
<1> HIDE DEF s
<1> QED BY <1>2, <1>3, <1>5, <1>6, <1>7, <1>8, <1>9, BufferStep

\* A step of term_read: the control point, the flags and the buffer move
\* together.
LEMMA ReadLine == ASSUME LineInv, NEW g \in Groups, ReadStep(g) PROVE LineInv'
<1>1. LineTypeOK /\ FlagsOK /\ LineShape /\ BufferBounded
  BY DEF LineInv
<1>2. CASE ReadCopy(g)
  <2> DEFINE s == <<>>
  <2>1. Fits(s) /\ NoNewline(s) /\ s \in Seq(Chars)
    BY TerminalAssumption DEF Fits, NoNewline
  <2>2. LineTypeOK'
    BY <1>1, <1>2, <2>1 DEF LineTypeOK, ReadCopy, Goto, screenVars
  <2>3. FlagsOK'
    BY <1>1, <1>2 DEF FlagsOK, LineTypeOK, ReadCopy, Goto
  <2>4. ~HasLine(pc'[g], newline_seen'[g])
    BY <1>1, <1>2 DEF LineTypeOK, HasLine, ReadCopy, Goto
  <2>5. Holds(pc'[g], newline_seen'[g], s)
    BY <2>1, <2>4 DEF Holds
  <2>6. \A h \in Groups \ {g} : /\ pc'[h] = pc[h] /\ newline_seen'[h] = newline_seen[h]
                                /\ h \in raced' <=> h \in raced
    BY <1>1, <1>2 DEF LineTypeOK, ReadCopy, Goto
  <2>7. term_buff' = [term_buff EXCEPT ![g] = s]
    BY <1>2 DEF ReadCopy
  <2> HIDE DEF s
  <2> QED BY <2>1, <2>2, <2>3, <2>5, <2>6, <2>7, BufferStep
<1>3. CASE ReadClaim(g) \/ ReadReset(g) \/ ReadSeen(g) \/ ReadDone(g)
  <2>1. UNCHANGED <<term_buff, raced, visible_group>>
    BY <1>3 DEF ReadClaim, ReadReset, ReadSeen, ReadDone, lineVars, screenVars
  <2>2. LineTypeOK'
    BY <1>1, <1>3 DEF LineTypeOK, ReadClaim, ReadReset, ReadSeen, ReadDone, Goto,
                      lineVars, screenVars
  <2>3. FlagsOK'
    BY <1>1, <1>3 DEF FlagsOK, LineTypeOK, ReadClaim, ReadReset, ReadSeen, ReadDone,
                      Goto, lineVars
  <2>4. BufferBounded'
    BY <1>1, <2>1 DEF BufferBounded, Size
  <2>5. \A h \in Groups : HasLine(pc'[h], newline_seen'[h]) <=> HasLine(pc[h], newline_seen[h])
    BY <1>1, <1>3 DEF HasLine, LineTypeOK, ReadClaim, ReadReset, ReadSeen, ReadDone,
                      Goto, lineVars
  <2>6. LineShape'
    BY <1>1, <2>1, <2>5 DEF LineShape, Holds
  <2> QED BY <2>2, <2>3, <2>4, <2>6 DEF LineInv
<1> QED BY <1>2, <1>3 DEF ReadStep

\* Output touches no line buffer.
LEMMA OutputLine ==
  ASSUME LineInv, UNCHANGED <<lineVars, pc>>, visible_group' \in Groups
  PROVE  LineInv'
BY DEF LineInv, LineTypeOK, FlagsOK, BufferBounded, Size, LineShape, Holds, HasLine, lineVars

\* Every step keeps the line buffers bounded and their lines whole.
THEOREM LinesInductive == Spec => []LineInv
<1>1. LineInv /\ [Next]_vars => LineInv'
  <2> SUFFICES ASSUME LineInv, [Next]_vars PROVE LineInv'
    OBVIOUS
  <2>1. visible_group \in Groups
    BY DEF LineInv, LineTypeOK
  <2>2. CASE UNCHANGED vars
    BY <2>1, <2>2, OutputLine DEF vars, lineVars
  <2>3. ASSUME NEW g \in Groups, ReadStep(g) PROVE LineInv'
    BY <2>3, ReadLine
  <2>4. ASSUME NEW g \in Groups, NEW s, term_write(g, s) PROVE LineInv'
    BY <2>1, <2>4, OutputLine DEF term_write, Echo
  <2>5. CASE AddChar \/ AddTab \/ AddNewline \/ Backspace
    BY <2>5, AddCharLine, AddTabLine, AddNewlineLine, BackspaceLine
  <2>6. CASE clear_term
    BY <2>1, <2>6, OutputLine DEF clear_term
  <2>7. ASSUME NEW h \in Groups, switch_term(h) PROVE LineInv'
    BY <2>7, OutputLine DEF switch_term
  <2> QED BY <2>2, <2>3, <2>4, <2>5, <2>6, <2>7 DEF Next
<1> QED BY InitLines, <1>1, PTL DEF Spec

\* No key press writes past the end of a line buffer, whatever its size and
\* the size of a tab.
THEOREM BuffersBounded == Spec => []BufferBounded
BY LinesInductive, PTL DEF LineInv

\* What term_read copies out is one line, unless a key was badly timed.
THEOREM LinesComplete == Spec => []LineComplete
<1>1. LineInv => LineComplete
  BY DEF LineInv, LineShape, Holds, HasLine, LineComplete
<1> QED BY <1>1, LinesInductive, PTL

\* A group that waits for a newline can be given one, unless a key was badly
\* timed.
THEOREM NewlineHasRoom == Spec => []RoomForNewline
<1>1. LineInv => RoomForNewline
  <2> SUFFICES ASSUME LineInv, NEW g \in Groups, pc[g] = "waiting", newline_seen[g] = 0,
                      g \notin raced
               PROVE  Accepts(g, "n")
    BY DEF RoomForNewline
  <2>1. NoNewline(term_buff[g])
    BY DEF LineInv, LineShape, Holds, HasLine
  <2>2. Size(g) \in Nat /\ Size(g) <= TERM_BUFFER_SIZE
    BY LenProperties DEF LineInv, LineTypeOK, BufferBounded, Size
  <2>3. Size(g) # TERM_BUFFER_SIZE
    BY <2>1, <2>2, TerminalAssumption DEF LineInv, BufferBounded, Size, NoNewline
  <2> QED BY <2>2, <2>3, TerminalAssumption DEF Accepts
<1> QED BY <1>1, LinesInductive, PTL

-----------------------------------------------------------------------------
(* The screens.                                                              *)

\* The parts of the state the screens depend on have the right type: the
\* cursors, in particular, are on the screen.
ScreenShape ==
  /\ visible_group \in Groups
  /\ page \in [Pages -> SUBSET Groups]
  /\ cursor \in [Groups -> Cursors]
  /\ screen_cursor \in Cursors
  /\ at \in [Groups -> Cursors]
  /\ shown \subseteq Groups

ScreenInv == ScreenShape /\ ScreensKept /\ CursorFollows

\* The page on screen is no group's save page.
LEMMA KernelPage == VIDEO_KERNEL \notin Groups /\ Groups \subseteq Pages /\ VIDEO_KERNEL \in Pages
BY TerminalAssumption DEF VIDEO_KERNEL, Pages

\* The buffer of a term_write is a sequence.
LEMMA WritesLen == ASSUME NEW s \in Writes PROVE Len(s) \in Nat
<1> DEFINE C == Chars \cup {"b"}
<1>1. PICK n \in 1 .. MaxWrite : s \in [1 .. n -> C]
  BY DEF Writes
<1>2. s \in Seq(C)
  <2> HIDE DEF C
  <2> QED BY <1>1, SeqDef, TerminalAssumption
<1> QED BY <1>2, LenProperties

\* At boot all pages are blank and every cursor is at the top.
LEMMA InitScreens == Init => ScreenInv
<1> SUFFICES ASSUME Init PROVE ScreenInv
  OBVIOUS
<1>1. ScreenShape
  BY TerminalAssumption, HomeOnScreen DEF Init, ScreenShape
<1>2. ScreensKept
  BY KernelPage DEF Init, ScreensKept, Display
<1>3. CursorFollows
  BY DEF Init, CursorFollows, CursorOf
<1> QED BY <1>1, <1>2, <1>3 DEF ScreenInv

\* __print_char on the visible terminal moves its cursor and stains its page.
LEMMA EchoStep ==
  ASSUME ScreenInv, NEW s, Len(s) \in Nat, Echo(s)
  PROVE  ScreenInv'
<1>1. /\ ScreenShape /\ ScreensKept /\ CursorFollows
  BY DEF ScreenInv
<1>2. ScreenShape'
  BY <1>1, KernelPage, PrintedOnScreen DEF ScreenShape, Echo
<1>3. ScreensKept'
  <2>1. ASSUME NEW g \in Groups PROVE (Display(g) = IF g \in shown THEN {g} ELSE {})'
    <3>1. CASE g = visible_group
      BY <3>1, <1>1, KernelPage DEF Echo, Display, ScreensKept, ScreenShape
    <3>2. CASE g # visible_group
      BY <3>2, <1>1, KernelPage DEF Echo, Display, ScreensKept, ScreenShape
    <3> QED BY <3>1, <3>2
  <2> QED BY <2>1 DEF ScreensKept
<1>4. CursorFollows'
  BY <1>1 DEF Echo, CursorFollows, CursorOf, ScreenShape
<1> QED BY <1>2, <1>3, <1>4 DEF ScreenInv

\* The hidden branch of term_write leaves the screen alone.
LEMMA HiddenStep ==
  ASSUME ScreenInv, NEW g \in Groups, NEW s, Len(s) \in Nat, term_write(g, s),
         visible_group # g
  PROVE  ScreenInv'
<1>1. /\ ScreenShape /\ ScreensKept /\ CursorFollows
  BY DEF ScreenInv
<1>2. /\ page' = [page EXCEPT ![g] = @ \cup {g}]
      /\ cursor' = [cursor EXCEPT ![g] = Printed(@, s)]
      /\ at' = [at EXCEPT ![g] = Printed(@, s)]
      /\ shown' = shown \cup {g}
      /\ UNCHANGED <<screen_cursor, visible_group>>
  <2>1. set_cursor(cursor[g]) = cursor[g] /\ set_cursor(screen_cursor) = screen_cursor
    BY <1>1, SetCursorKeeps DEF ScreenShape
  <2> QED BY <2>1 DEF term_write, WriteHidden
<1>3. ScreenShape'
  BY <1>1, <1>2, KernelPage, PrintedOnScreen DEF ScreenShape
<1>4. ScreensKept'
  <2>1. ASSUME NEW h \in Groups PROVE (Display(h) = IF h \in shown THEN {h} ELSE {})'
    <3>1. CASE h = g
      BY <3>1, <1>1, <1>2, KernelPage DEF Display, ScreensKept, ScreenShape
    <3>2. CASE h # g
      BY <3>2, <1>1, <1>2, KernelPage DEF Display, ScreensKept, ScreenShape
    <3> QED BY <3>1, <3>2
  <2> QED BY <2>1 DEF ScreensKept
<1>5. CursorFollows'
  BY <1>1, <1>2 DEF CursorFollows, CursorOf, ScreenShape
<1> QED BY <1>3, <1>4, <1>5 DEF ScreenInv

\* switch_term moves each terminal's output and cursor between the screen and
\* its save page, and changes neither.
LEMMA SwitchStep ==
  ASSUME ScreenInv, NEW h \in Groups, switch_term(h)
  PROVE  ScreenInv'
<1>1. /\ ScreenShape /\ ScreensKept /\ CursorFollows
  BY DEF ScreenInv
<1> DEFINE old == visible_group
           saved == [page EXCEPT ![old] = page[VIDEO_KERNEL]]
<1>2. /\ page' = [saved EXCEPT ![VIDEO_KERNEL] = saved[h]]
      /\ cursor' = [cursor EXCEPT ![old] = screen_cursor]
      /\ screen_cursor' = [cursor EXCEPT ![old] = screen_cursor][h]
      /\ visible_group' = h /\ UNCHANGED <<at, shown>>
  <2>1. [cursor EXCEPT ![old] = screen_cursor][h] \in Cursors
    BY <1>1 DEF ScreenShape
  <2> QED BY <2>1, SetCursorKeeps DEF switch_term, SwitchPages
<1>3. saved \in [Pages -> SUBSET Groups]
  BY <1>1, KernelPage DEF ScreenShape
<1>4. \A g \in Groups : saved[g] = Display(g)
  BY <1>1, KernelPage DEF Display, ScreenShape
<1>5. \A g \in Groups : Display(g)' = saved[g]
  BY <1>1, <1>2, <1>3, KernelPage DEF Display, ScreenShape
<1>6. ScreenShape'
  BY <1>1, <1>2, <1>3, KernelPage DEF ScreenShape
<1>7. ScreensKept'
  BY <1>1, <1>2, <1>4, <1>5 DEF ScreensKept
<1>8. CursorFollows'
  BY <1>1, <1>2 DEF CursorFollows, CursorOf, ScreenShape
<1> QED BY <1>6, <1>7, <1>8 DEF ScreenInv

\* Ctrl-L blanks the terminal on screen and no other.
LEMMA ClearStep ==
  ASSUME ScreenInv, clear_term
  PROVE  ScreenInv'
<1>1. /\ ScreenShape /\ ScreensKept /\ CursorFollows
  BY DEF ScreenInv
<1>2. ScreenShape'
  BY <1>1, KernelPage, HomeOnScreen DEF ScreenShape, clear_term
<1>3. ScreensKept'
  BY <1>1, KernelPage DEF ScreensKept, Display, ScreenShape, clear_term
<1>4. CursorFollows'
  BY <1>1 DEF CursorFollows, CursorOf, ScreenShape, clear_term
<1> QED BY <1>2, <1>3, <1>4 DEF ScreenInv

\* A step of term_read, or none, touches no screen.
LEMMA QuietStep ==
  ASSUME ScreenInv, UNCHANGED screenVars
  PROVE  ScreenInv'
BY DEF ScreenInv, ScreenShape, ScreensKept, CursorFollows, Display, CursorOf, screenVars

\* Every step keeps the screens apart and the cursors in place.
THEOREM ScreensInductive == Spec => []ScreenInv
<1>1. LineInv /\ ScreenInv /\ [Next]_vars => ScreenInv'
  <2> SUFFICES ASSUME LineInv, ScreenInv, [Next]_vars PROVE ScreenInv'
    OBVIOUS
  <2>1. CASE UNCHANGED vars
    BY <2>1, QuietStep DEF vars, screenVars
  <2>2. ASSUME NEW g \in Groups, ReadStep(g) PROVE ScreenInv'
    BY <2>2, QuietStep DEF ReadStep, ReadClaim, ReadReset, ReadSeen, ReadCopy, ReadDone
  <2>3. ASSUME NEW g \in Groups, NEW s \in Writes, term_write(g, s) PROVE ScreenInv'
    <3>1. Len(s) \in Nat
      BY WritesLen
    <3>2. CASE visible_group = g
      BY <2>3, <3>1, <3>2, EchoStep DEF term_write
    <3>3. CASE visible_group # g
      BY <2>3, <3>1, <3>3, HiddenStep
    <3> QED BY <3>2, <3>3
  <2>4. CASE AddChar \/ AddNewline \/ Backspace
    <3>1. Len(<<"c">>) \in Nat /\ Len(<<"n">>) \in Nat /\ Len(<<"b">>) \in Nat
      OBVIOUS
    <3> QED BY <2>4, <3>1, EchoStep DEF AddChar, AddNewline, Backspace
  <2>5. CASE AddTab
    <3>1. Size(visible_group) \in Nat /\ Size(visible_group) < TERM_BUFFER_SIZE - 1
      BY <2>5, LenProperties, TerminalAssumption
      DEF LineInv, LineTypeOK, AddTab, Accepts, Size
    <3>2. TabSpaces(Size(visible_group)) \in Nat
      BY <3>1, TabFits
    <3> DEFINE spaces == [i \in 1 .. TabSpaces(Size(visible_group)) |-> "c"]
    <3>3. Len(spaces) \in Nat
      BY <3>2, SpacesSeq
    <3>4. Echo(spaces)
      BY <2>5 DEF AddTab
    <3> HIDE DEF spaces
    <3> QED BY <3>3, <3>4, EchoStep
  <2>6. CASE clear_term
    BY <2>6, ClearStep
  <2>7. ASSUME NEW h \in Groups, switch_term(h) PROVE ScreenInv'
    BY <2>7, SwitchStep
  <2> QED BY <2>1, <2>2, <2>3, <2>4, <2>5, <2>6, <2>7 DEF Next
<1> QED BY InitScreens, LinesInductive, <1>1, PTL DEF Spec

\* No terminal shows another's output and none loses its own.
THEOREM ScreensAreKept == Spec => []ScreensKept
BY ScreensInductive, PTL DEF ScreenInv

\* The output of a terminal continues where it ended.
THEOREM CursorsFollow == Spec => []CursorFollows
BY ScreensInductive, PTL DEF ScreenInv

\* TypeOK: in particular no output, however long, moves a cursor off the screen.
THEOREM TypeCorrect == Spec => []TypeOK
<1>1. LineInv /\ ScreenInv => TypeOK
  BY DEF LineInv, LineTypeOK, ScreenInv, ScreenShape, TypeOK
<1> QED BY <1>1, LinesInductive, ScreensInductive, PTL

\* A line buffer of any size is never overrun and keeps room for the newline a
\* reader waits for.
THEOREM BuffersSound == Spec => []BufferSound
BY BuffersBounded, NewlineHasRoom, PTL DEF BufferSound

\* Any number of terminals keep their screens and cursors apart.
THEOREM TerminalsStayApart == Spec => []TerminalsApart
BY TypeCorrect, ScreensAreKept, CursorsFollow, PTL DEF TerminalsApart

=============================================================================
