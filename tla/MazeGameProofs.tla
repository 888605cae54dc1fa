---------------------------- MODULE MazeGameProofs ----------------------------
(* Proofs about the threads of the maze game, for any maze, block size,      *)
(* number of levels, keys and buttons.                                       *)
EXTENDS MazeGame, Maze, FiniteSetTheorems, SequenceTheorems, TLAPS

-----------------------------------------------------------------------------
(* The inductive invariant.                                                  *)

\* tux_thread holds the mutex from its lock to its wait or unlock, and does
\* not go to sleep on a button that rtc_thread has signalled.
TuxInv ==
  /\ mtx <=> tpc \in {"test", "wait", "switch"}
  /\ tpc \in {"loop", "lock", "test", "wait", "waiting", "woken", "switch", "end"}
  /\ rpc = "decide" /\ cmd # "none" => tpc \notin {"wait", "waiting"}

\* The pixels of a square, and the square one step on.
Corner(s) == <<s[1] * BLOCK_DIM, s[2] * BLOCK_DIM>>
Beside(s, d) == <<s[1] + Delta[d][1], s[2] + Delta[d][2]>>

\* The player on square s, or move_cnt pixels short of the square beside it.
Standing(s) == move_cnt = 0 /\ play = Corner(s)
Walking(s) ==
  /\ dir \in Dirs /\ Beside(s, dir) \in Open
  /\ play = <<s[1] * BLOCK_DIM + (BLOCK_DIM - move_cnt) * Delta[dir][1],
              s[2] * BLOCK_DIM + (BLOCK_DIM - move_cnt) * Delta[dir][2]>>

PathInv ==
  /\ dir \in Dirs \cup {"stop"} /\ move_cnt \in 0 .. BLOCK_DIM
  /\ \E s \in Open : Standing(s) \/ Walking(s)
  /\ dir = "stop" => move_cnt = 0
  /\ rpc = "move" /\ dir # "stop" => move_cnt > 0

\* The counters of rtc_thread, the fruit and the end of a level.
LevelInv ==
  /\ rpc \in {"level", "read", "poll", "signal", "decide", "move", "frame", "end"}
  /\ level \in 1 .. MAX_LEVEL + 1 /\ ticks \in 0 .. MAX_TICKS
  /\ rpc \notin {"level", "end"} => level <= MAX_LEVEL
  /\ rpc \in {"poll", "signal", "decide", "move"} => ticks > 0
  /\ uneaten \subseteq FruitAt /\ fruits_left = Cardinality(uneaten)
  /\ goto_next_level => rpc \in {"frame", "read", "level", "end"}
  /\ goto_next_level => uneaten = {} /\ play = Corner(ExitAt)
  /\ winner => rpc = "end" /\ level > MAX_LEVEL
  /\ cmd \in Buttons

\* What stdin still holds in each state of the escape sequence.
Arrows == Keys \cap Dirs
Pending ==
  \/ /\ state = 0
     /\ tty \in {<<>>, <<"[", "left">>, <<"left">>, <<"quit">>}
                 \cup {<<"esc", "[", k>> : k \in Arrows}
  \/ state = 1 /\ tty \in {<<"[", k>> : k \in Arrows}
  \/ state = 2 /\ tty \in {<<k>> : k \in Arrows}

KeyInv == Pending /\ next_dir \in (Arrows \cup (Buttons \cap Dirs) \cup {"stop"})

IInv == TuxInv /\ PathInv /\ LevelInv /\ KeyInv

\* Abbreviations, expanded everywhere.
USE DEF Playable, shared, player, rtc, kbd, tux, Rtc, Keyboard, Tux, TuxStays

-----------------------------------------------------------------------------
(* The mutex and the condition.                                              *)

\* rtc_thread: the signal is given under the mutex, so tux_thread is not
\* between its test and its wait.
LEMMA TuxRtc == ASSUME TuxInv, LevelInv, Rtc PROVE TuxInv'
<1>1. CASE SignalTux
  BY <1>1 DEF TuxInv, SignalTux
<1>2. CASE PollButtons
  BY <1>2 DEF TuxInv, PollButtons
<1>3. CASE Decide
  <2>1. rpc' # "decide" /\ UNCHANGED <<tpc, mtx>>
    BY <1>3 DEF Decide
  <2> QED BY <2>1 DEF TuxInv
<1>4. CASE StartLevel \/ RtcEnd \/ ReadRtc \/ LeaveLevel \/ MovePlayer \/ DrawFrame
  <2>1. rpc' # "decide" /\ UNCHANGED <<tpc, mtx>>
    BY <1>4 DEF StartLevel, RtcEnd, ReadRtc, LeaveLevel, MovePlayer, DrawFrame
  <2> QED BY <2>1 DEF TuxInv
<1> QED BY <1>1, <1>2, <1>3, <1>4

\* The other threads and main: tux_thread tests cmd under the mutex before it
\* waits.
LEMMA TuxOthers ==
  ASSUME TuxInv, Keyboard \/ Tux \/ TuxSpurious \/ (\E k \in Keys : KeyTyped(k)) \/ MainEnds
  PROVE  TuxInv'
<1>1. CASE Keyboard \/ (\E k \in Keys : KeyTyped(k)) \/ MainEnds
  <2>1. UNCHANGED <<tpc, mtx, rpc, cmd>>
    BY <1>1 DEF KeyLoop, KeyEnd, KeyTyped, MainEnds
  <2> QED BY <2>1 DEF TuxInv
<1>2. CASE TuxLoop
  BY <1>2 DEF TuxInv, TuxLoop
<1>3. CASE TuxLock
  BY <1>3 DEF TuxInv, TuxLock
<1>4. CASE TuxTest
  BY <1>4 DEF TuxInv, TuxTest
<1>5. CASE TuxWait
  BY <1>5 DEF TuxInv, TuxWait
<1>6. CASE TuxSwitch
  BY <1>6 DEF TuxInv, TuxSwitch
<1>7. CASE TuxSpurious
  BY <1>7 DEF TuxInv, TuxSpurious
<1> QED BY <1>1, <1>2, <1>3, <1>4, <1>5, <1>6, <1>7

-----------------------------------------------------------------------------
(* Pixels and squares.                                                       *)

\* The square a pixel lies in, up to a block beyond the one at a.
LEMMA PixelSquare ==
  ASSUME NEW b \in Nat \ {0}, NEW a \in Nat, NEW r \in 0 .. 2 * b - 1
  PROVE  (a * b + r) \div b = IF r < b THEN a ELSE a + 1
<1>1. CASE r < b
  <2>1. r \in 0 .. b - 1
    BY <1>1
  <2> QED BY <2>1, <1>1
<1>2. CASE ~(r < b)
  <2>1. r - b \in 0 .. b - 1 /\ a * b + r = (a + 1) * b + (r - b)
    BY <1>2
  <2>2. \A c \in Nat, m \in 0 .. b - 1 : (c * b + m) \div b = c
    OBVIOUS
  <2> QED BY <2>1, <2>2, <1>2
<1> QED BY <1>1, <1>2

\* Open squares have natural coordinates.
LEMMA OpenSquare ==
  ASSUME NEW s \in Open
  PROVE  s[1] \in Nat /\ s[2] \in Nat /\ s = <<s[1], s[2]>>
BY GameAssumption

\* The step in a direction, and back.
LEMMA DeltaDef ==
  /\ \A d \in Dirs \cup {"stop"} : Delta[d][1] \in {-1, 0, 1} /\ Delta[d][2] \in {-1, 0, 1}
  /\ \A d \in Dirs : Delta[d][1] = 0 \/ Delta[d][2] = 0
  /\ Delta["stop"][1] = 0 /\ Delta["stop"][2] = 0
  /\ \A d \in Dirs : /\ Opposite[d] \in Dirs
                     /\ Delta[Opposite[d]][1] = -Delta[d][1]
                     /\ Delta[Opposite[d]][2] = -Delta[d][2]
  /\ Opposite["stop"] = "none"
BY DEF Delta, Opposite, Dirs

\* A player with no pixels left to go stands on an open square, and Square
\* finds it.
LEMMA Arrived ==
  ASSUME NEW s \in Open, play = Corner(s) PROVE Square = s
<1>1. s[1] \in Nat /\ s[2] \in Nat /\ s = <<s[1], s[2]>> /\ BLOCK_DIM \in Nat \ {0}
  BY OpenSquare, GameAssumption
<1>2. play[1] = s[1] * BLOCK_DIM /\ play[2] = s[2] * BLOCK_DIM
  BY DEF Corner
<1>3. \A a \in Nat : (a * BLOCK_DIM) \div BLOCK_DIM = a
  <2> TAKE a \in Nat
  <2>1. 0 \in 0 .. 2 * BLOCK_DIM - 1 /\ a * BLOCK_DIM + 0 = a * BLOCK_DIM /\ 0 < BLOCK_DIM
    BY <1>1
  <2> QED BY <2>1, <1>1, PixelSquare
<1> QED BY <1>1, <1>2, <1>3 DEF Square

\* Walking to the end is standing on the square beside.
LEMMA WalkEnds ==
  ASSUME NEW s \in Open, Walking(s), move_cnt = 0
  PROVE  play = Corner(Beside(s, dir)) /\ Beside(s, dir) \in Open
<1>1. s[1] \in Nat /\ s[2] \in Nat /\ BLOCK_DIM \in Nat \ {0} /\ dir \in Dirs
  BY OpenSquare, GameAssumption DEF Walking
<1>2. Delta[dir][1] \in {-1, 0, 1} /\ Delta[dir][2] \in {-1, 0, 1}
  BY <1>1, DeltaDef
<1>3. \A a \in Nat, d \in {-1, 0, 1} : a * BLOCK_DIM + (BLOCK_DIM - 0) * d = (a + d) * BLOCK_DIM
  BY <1>1
<1> QED BY <1>1, <1>2, <1>3 DEF Walking, Corner, Beside

\* A step that leaves the player alone, and does not come to the move.
LEMMA PathSame ==
  ASSUME PathInv, UNCHANGED <<dir, play, move_cnt>>, rpc' # "move" \/ rpc' = rpc
  PROVE  PathInv'
BY DEF PathInv, Standing, Walking

\* Turning back between two squares: what was ahead is behind.
LEMMA TurnBack ==
  ASSUME NEW s \in Open, Walking(s), move_cnt \in 0 .. BLOCK_DIM, NEW d, d = Opposite[dir]
  PROVE  LET t == Beside(s, dir) IN
         /\ t \in Open /\ d \in Dirs /\ Beside(t, d) = s
         /\ play = <<t[1] * BLOCK_DIM + (BLOCK_DIM - (BLOCK_DIM - move_cnt)) * Delta[d][1],
                     t[2] * BLOCK_DIM + (BLOCK_DIM - (BLOCK_DIM - move_cnt)) * Delta[d][2]>>
<1> DEFINE t == Beside(s, dir)
<1>1. /\ s[1] \in Nat /\ s[2] \in Nat /\ s = <<s[1], s[2]>> /\ BLOCK_DIM \in Nat \ {0}
      /\ dir \in Dirs /\ t \in Open
  BY OpenSquare, GameAssumption DEF Walking
<1>2. /\ Delta[dir][1] \in {-1, 0, 1} /\ Delta[dir][2] \in {-1, 0, 1}
      /\ Delta[d][1] = -Delta[dir][1] /\ Delta[d][2] = -Delta[dir][2] /\ d \in Dirs
  BY <1>1, DeltaDef
<1>3. t = <<s[1] + Delta[dir][1], s[2] + Delta[dir][2]>>
  BY DEF Beside
<1> HIDE DEF t
<1>4. Beside(t, d) = s
  BY <1>1, <1>2, <1>3 DEF Beside
<1>5. \A a \in Nat, e \in {-1, 0, 1}, m \in 0 .. BLOCK_DIM :
        a * BLOCK_DIM + (BLOCK_DIM - m) * e
          = (a + e) * BLOCK_DIM + (BLOCK_DIM - (BLOCK_DIM - m)) * (-e)
  BY <1>1
<1>6. play = <<t[1] * BLOCK_DIM + (BLOCK_DIM - (BLOCK_DIM - move_cnt)) * Delta[d][1],
               t[2] * BLOCK_DIM + (BLOCK_DIM - (BLOCK_DIM - move_cnt)) * Delta[d][2]>>
  BY <1>1, <1>2, <1>3, <1>5 DEF Walking
<1> QED BY <1>1, <1>2, <1>4, <1>6 DEF t

\* When the turn leaves no pixels to go, the player stands on an open square.
LEMMA DecideStands ==
  ASSUME PathInv, next_dir \in Dirs \cup {"stop"}, Turned[2] = 0
  PROVE  \E s \in Open : play = Corner(s)
<1>1. PICK s \in Open : Standing(s) \/ Walking(s)
  BY DEF PathInv
<1>2. CASE Standing(s)
  BY <1>2 DEF Standing
<1>3. CASE Walking(s) /\ move_cnt = 0
  BY <1>3, WalkEnds
<1>4. CASE Walking(s) /\ move_cnt # 0
  <2>1. BLOCK_DIM \in Nat \ {0} /\ move_cnt \in 0 .. BLOCK_DIM
    BY GameAssumption DEF PathInv
  <2>2. move_cnt = BLOCK_DIM
    BY <1>4, <2>1 DEF Turned
  <2>3. /\ s[1] \in Nat /\ s[2] \in Nat /\ dir \in Dirs
        /\ Delta[dir][1] \in {-1, 0, 1} /\ Delta[dir][2] \in {-1, 0, 1}
    BY <1>4, OpenSquare, DeltaDef DEF Walking
  <2>4. \A a \in Nat, e \in {-1, 0, 1} : a * BLOCK_DIM + (BLOCK_DIM - BLOCK_DIM) * e = a * BLOCK_DIM
    BY <2>1
  <2>5. play = Corner(s)
    BY <1>4, <2>2, <2>3, <2>4 DEF Walking, Corner
  <2> QED BY <2>5
<1> QED BY <1>1, <1>2, <1>3, <1>4

\* The decision under the mutex: on between two squares, or from a square into
\* an open direction or none.
LEMMA PathDecide == ASSUME PathInv, KeyInv, Decide PROVE PathInv'
<1>1. /\ play' = play /\ dir \in Dirs \cup {"stop"} /\ next_dir \in Dirs \cup {"stop"}
      /\ move_cnt \in 0 .. BLOCK_DIM /\ BLOCK_DIM \in Nat \ {0}
      /\ dir = "stop" => move_cnt = 0
  BY GameAssumption DEF Decide, PathInv, KeyInv, Arrows, Dirs
<1>2. Turned[1] \in Dirs \cup {"stop"} /\ Turned[2] \in 0 .. BLOCK_DIM
  BY <1>1 DEF Turned
<1>3. CASE Turned[2] # 0
  <2>1. dir' = Turned[1] /\ move_cnt' = Turned[2]
    BY <1>3 DEF Decide
  <2>2. dir # "stop" /\ move_cnt # 0
    <3>1. next_dir # "none" /\ Opposite["stop"] = "none"
      BY <1>1, DeltaDef DEF Dirs
    <3> QED BY <1>1, <1>3, <3>1 DEF Turned
  <2>3. PICK s \in Open : Walking(s)
    BY <2>2 DEF PathInv, Standing
  <2>4. CASE next_dir = Opposite[dir]
    <3>1. dir' = Opposite[dir] /\ move_cnt' = BLOCK_DIM - move_cnt
      BY <2>1, <2>2, <2>4, <1>1 DEF Turned
    <3> DEFINE t == Beside(s, dir)
    <3>2. PICK d \in Dirs : d = Opposite[dir]
      BY <2>3, DeltaDef DEF Walking
    <3>3. /\ t \in Open /\ Beside(t, d) = s
          /\ play = <<t[1] * BLOCK_DIM + (BLOCK_DIM - (BLOCK_DIM - move_cnt)) * Delta[d][1],
                      t[2] * BLOCK_DIM + (BLOCK_DIM - (BLOCK_DIM - move_cnt)) * Delta[d][2]>>
      BY <2>3, <3>2, <1>1, TurnBack
    <3> HIDE DEF t
    <3>4. PICK u \in Open : u = t
      BY <3>3
    <3>5. Walking(u)'
      BY <3>1, <3>2, <3>3, <3>4, <1>1 DEF Walking, Beside
    <3>6. dir' # "stop" /\ move_cnt' > 0 /\ move_cnt' \in 0 .. BLOCK_DIM
      BY <2>1, <3>1, <3>2, <1>2, <1>3 DEF Dirs
    <3> QED BY <3>1, <3>2, <3>5, <3>6, <1>1 DEF PathInv
  <2>5. CASE next_dir # Opposite[dir]
    <3>1. dir' = dir /\ move_cnt' = move_cnt
      BY <2>1, <2>5 DEF Turned
    <3>2. Walking(s)'
      BY <2>3, <3>1, <1>1 DEF Walking, Beside
    <3> QED BY <3>1, <3>2, <2>2, <1>1 DEF PathInv
  <2> QED BY <2>4, <2>5
<1>4. CASE Turned[2] = 0
  <2>1. PICK s \in Open : play = Corner(s)
    BY <1>1, <1>4, DecideStands
  <2>2. Square = s
    BY <2>1, Arrived
  <2>3. CASE move_cnt' = 0
    <3>1. Standing(s)'
      BY <2>1, <2>3, <1>1 DEF Standing, Corner
    <3>2. dir' \in Dirs \cup {"stop"} /\ (rpc' = "move" => dir' = "stop")
      BY <1>1, <1>2, <1>4, <2>3 DEF Decide, Running, Chosen, Dirs
    <3> QED BY <3>1, <3>2, <2>3, <1>1 DEF PathInv
  <2>4. CASE move_cnt' # 0
    <3>1. dir' \in Dirs /\ OpenDir(dir)' /\ move_cnt' = BLOCK_DIM
      <4>1. dir' = Running(Chosen(Turned[1])) /\ dir' # "stop" /\ move_cnt' = BLOCK_DIM
        BY <1>4, <2>4 DEF Decide
      <4>2. \A d : Running(d) # "stop" => Running(d) \in Dirs /\ OpenDir(Running(d))
        BY DEF Running
      <4>3. dir' \in Dirs /\ OpenDir(Running(Chosen(Turned[1])))
        BY <4>1, <4>2
      <4> QED BY <4>1, <4>3, <1>1 DEF OpenDir, Square
    <3>2. Square' = s
      BY <2>2, <1>1 DEF Square
    <3>3. Delta[dir'][1] \in {-1, 0, 1} /\ Delta[dir'][2] \in {-1, 0, 1}
      BY <3>1, DeltaDef
    <3>4. \A a \in Nat, e \in {-1, 0, 1} : a * BLOCK_DIM + (BLOCK_DIM - BLOCK_DIM) * e = a * BLOCK_DIM
      BY <1>1
    <3>5. s[1] \in Nat /\ s[2] \in Nat
      BY OpenSquare
    <3>6. Beside(s, dir') \in Open
      BY <3>1, <3>2 DEF OpenDir, Beside
    <3>7. Walking(s)'
      BY <3>1, <3>3, <3>4, <3>5, <3>6, <2>1, <1>1 DEF Walking, Corner, Beside
    <3> QED BY <3>1, <3>7, <1>1 DEF PathInv, Dirs
  <2> QED BY <2>3, <2>4
<1> QED BY <1>3, <1>4

\* The move: a pixel nearer to the square ahead.
LEMMA PathMove == ASSUME PathInv, MovePlayer PROVE PathInv'
<1>1. /\ dir' = dir /\ dir \in Dirs \cup {"stop"} /\ rpc' # "move"
      /\ play' = <<play[1] + Delta[dir][1], play[2] + Delta[dir][2]>>
      /\ move_cnt' = IF dir = "stop" THEN move_cnt ELSE move_cnt - 1
      /\ BLOCK_DIM \in Nat \ {0} /\ move_cnt \in 0 .. BLOCK_DIM
  BY GameAssumption DEF MovePlayer, PathInv
<1>2. CASE dir = "stop"
  <2>1. PICK s \in Open : Standing(s)
    BY <1>2 DEF PathInv, Walking, Dirs
  <2>2. s[1] \in Nat /\ s[2] \in Nat
    BY OpenSquare
  <2>3. play' = play
    BY <1>1, <1>2, <2>1, <2>2, DeltaDef DEF Standing, Corner
  <2>4. Standing(s)'
    BY <2>1, <2>3, <1>1, <1>2 DEF Standing, Corner
  <2> QED BY <2>1, <2>4, <1>1, <1>2 DEF PathInv, Standing
<1>3. CASE dir # "stop"
  <2>1. move_cnt > 0 /\ dir \in Dirs
    BY <1>1, <1>3 DEF PathInv, MovePlayer
  <2>2. PICK s \in Open : Walking(s)
    BY <2>1 DEF PathInv, Standing
  <2>3. /\ s[1] \in Nat /\ s[2] \in Nat
        /\ Delta[dir][1] \in {-1, 0, 1} /\ Delta[dir][2] \in {-1, 0, 1}
    BY <2>1, OpenSquare, DeltaDef
  <2>4. \A a \in Nat, e \in {-1, 0, 1}, m \in 1 .. BLOCK_DIM :
          a * BLOCK_DIM + (BLOCK_DIM - m) * e + e = a * BLOCK_DIM + (BLOCK_DIM - (m - 1)) * e
    BY <1>1
  <2>5. move_cnt \in 1 .. BLOCK_DIM /\ move_cnt' = move_cnt - 1 /\ move_cnt' \in 0 .. BLOCK_DIM
    BY <1>1, <1>3, <2>1
  <2>6. Walking(s)'
    BY <1>1, <2>2, <2>3, <2>4, <2>5 DEF Walking, Beside
  <2> QED BY <1>1, <1>3, <2>5, <2>6 DEF PathInv
<1> QED BY <1>2, <1>3

\* The start of a level, and the steps that leave the player alone.
LEMMA PathOthers ==
  ASSUME PathInv,
         \/ Rtc /\ ~Decide /\ ~MovePlayer
         \/ Keyboard \/ Tux \/ TuxSpurious \/ (\E k \in Keys : KeyTyped(k)) \/ MainEnds
  PROVE  PathInv'
<1>1. CASE StartLevel
  <2>1. /\ play' = <<BLOCK_DIM, BLOCK_DIM>> /\ move_cnt' = 0 /\ dir' = "stop" /\ rpc' = "read"
        /\ BLOCK_DIM \in Nat \ {0} /\ <<1, 1>> \in Open
    BY <1>1, GameAssumption DEF StartLevel
  <2>2. Standing(<<1, 1>>)'
    BY <2>1 DEF Standing, Corner
  <2> QED BY <2>1, <2>2 DEF PathInv
<1>2. CASE RtcEnd \/ ReadRtc \/ LeaveLevel \/ PollButtons \/ SignalTux \/ DrawFrame
  <2>1. UNCHANGED <<dir, play, move_cnt>> /\ rpc' # "move"
    BY <1>2 DEF RtcEnd, ReadRtc, LeaveLevel, PollButtons, SignalTux, DrawFrame
  <2> QED BY <2>1, PathSame
<1>3. CASE Keyboard \/ Tux \/ TuxSpurious \/ (\E k \in Keys : KeyTyped(k)) \/ MainEnds
  <2>1. UNCHANGED <<dir, play, move_cnt, rpc>>
    BY <1>3 DEF KeyLoop, KeyEnd, TuxLoop, TuxLock, TuxTest, TuxWait, TuxSwitch,
                TuxSpurious, KeyTyped, MainEnds
  <2> QED BY <2>1, PathSame
<1> QED BY <1>1, <1>2, <1>3

-----------------------------------------------------------------------------
(* The levels.                                                               *)

\* Eating keeps the count of the fruit, and an empty count an empty maze.
LEMMA EatenCount ==
  ASSUME NEW f \in SUBSET FruitAt, NEW p
  PROVE  /\ Eaten(f, p) \subseteq FruitAt
         /\ Cardinality(Eaten(f, p)) = IF p \in f THEN Cardinality(f) - 1 ELSE Cardinality(f)
         /\ Cardinality(Eaten(f, p)) = 0 => Eaten(f, p) = {}
         /\ Cardinality(f) \in 0 .. Cardinality(FruitAt)
<1>1. IsFiniteSet(f) /\ Cardinality(f) <= Cardinality(FruitAt)
  BY FS_Subset, GameAssumption
<1>2. Cardinality(f) \in Nat /\ Cardinality(FruitAt) \in Nat
  BY <1>1, FS_CardinalityType, GameAssumption
<1>3. IsFiniteSet(f \ {p})
  BY <1>1, FS_RemoveElement
<1>4. Cardinality(f \ {p}) = IF p \in f THEN Cardinality(f) - 1 ELSE Cardinality(f)
  BY <1>1, FS_RemoveElement
<1>5. Cardinality(f \ {p}) = 0 => f \ {p} = {}
  BY <1>3, FS_EmptySet
<1> QED BY <1>1, <1>2, <1>4, <1>5 DEF Eaten

\* The decision: the level is won only on the exit, with no fruit left.
LEMMA LevelDecide == ASSUME LevelInv, PathInv, KeyInv, Decide PROVE LevelInv'
<1>1. next_dir \in Dirs \cup {"stop"} /\ rpc = "decide" /\ ~goto_next_level /\ ~winner
  BY DEF Decide, KeyInv, Arrows, LevelInv
<1>2. /\ UNCHANGED <<winner, cmd, play, level, ticks>>
      /\ rpc' \in {"move", "frame"} /\ ticks > 0 /\ level <= MAX_LEVEL
  BY <1>1 DEF Decide, LevelInv
<1>3. CASE Turned[2] # 0
  <2>1. UNCHANGED <<uneaten, fruits_left, goto_next_level>>
    BY <1>3 DEF Decide
  <2> QED BY <1>1, <1>2, <2>1 DEF LevelInv
<1>4. CASE Turned[2] = 0
  <2>1. PICK s \in Open : play = Corner(s)
    BY <1>1, <1>4, DecideStands
  <2>2. Square = s
    BY <2>1, Arrived
  <2> DEFINE n == IF Square \in uneaten THEN fruits_left - 1 ELSE fruits_left
  <2>3. /\ uneaten' = Eaten(uneaten, Square) /\ fruits_left' = n
        /\ goto_next_level' => Win(Eaten(uneaten, Square), n, Square) /\ rpc' = "frame"
    BY <1>4, <1>1 DEF Decide
  <2>4. /\ n = Cardinality(Eaten(uneaten, Square)) /\ Eaten(uneaten, Square) \subseteq FruitAt
        /\ n = 0 => Eaten(uneaten, Square) = {}
    BY EatenCount DEF LevelInv
  <2>5. goto_next_level' => uneaten' = {} /\ play' = Corner(ExitAt)
    BY <2>1, <2>2, <2>3, <2>4, <1>2 DEF Win
  <2> HIDE DEF n
  <2>6. goto_next_level' => uneaten' = {} /\ (play = Corner(ExitAt))'
    BY <2>5 DEF Corner
  <2> QED BY <1>1, <1>2, <2>3, <2>4, <2>6 DEF LevelInv
<1> QED BY <1>3, <1>4

\* rtc_thread's other steps.
LEMMA LevelRtc == ASSUME LevelInv, Rtc, ~Decide PROVE LevelInv'
<1> USE GameAssumption DEF LevelInv, Corner
<1>1. CASE StartLevel
  <2>1. /\ Eaten(FruitAt, <<1, 1>>) \subseteq FruitAt
    BY EatenCount
  <2> QED BY <1>1, <2>1 DEF StartLevel
<1>2. CASE RtcEnd
  BY <1>2 DEF RtcEnd
<1>3. CASE ReadRtc
  BY <1>3 DEF ReadRtc
<1>4. CASE LeaveLevel
  BY <1>4 DEF LeaveLevel
<1>5. CASE PollButtons
  BY <1>5 DEF PollButtons
<1>6. CASE SignalTux
  BY <1>6 DEF SignalTux
<1>7. CASE MovePlayer
  BY <1>7 DEF MovePlayer
<1>8. CASE DrawFrame
  BY <1>8 DEF DrawFrame
<1> QED BY <1>1, <1>2, <1>3, <1>4, <1>5, <1>6, <1>7, <1>8

\* The other threads leave the level alone.
LEMMA LevelOthers ==
  ASSUME LevelInv, Keyboard \/ Tux \/ TuxSpurious \/ (\E k \in Keys : KeyTyped(k)) \/ MainEnds
  PROVE  LevelInv'
<1>1. UNCHANGED <<rpc, level, ticks, uneaten, fruits_left, goto_next_level, play, winner, cmd>>
  BY DEF KeyLoop, KeyEnd, TuxLoop, TuxLock, TuxTest, TuxWait, TuxSwitch,
         TuxSpurious, KeyTyped, MainEnds
<1> QED BY <1>1 DEF LevelInv, Corner

-----------------------------------------------------------------------------
(* The bytes of stdin.                                                       *)

\* A key is typed into the empty stdin.
LEMMA KeyTypedPending == ASSUME KeyInv, NEW k \in Keys, KeyTyped(k) PROVE KeyInv'
<1>1. UNCHANGED <<state, next_dir>> /\ tty = <<>>
  BY DEF KeyTyped
<1>2. state = 0
  BY <1>1 DEF KeyInv, Pending
<1>3. k \in Arrows \/ k = "plain" \/ k = "quit"
  BY GameAssumption DEF Arrows
<1>4. "plain" \notin Dirs /\ "quit" \notin Dirs
  BY DEF Dirs
<1>5. tty' \in {<<"[", "left">>, <<"quit">>} \cup {<<"esc", "[", j>> : j \in Arrows}
  BY <1>3, <1>4 DEF KeyTyped, Arrows
<1> QED BY <1>1, <1>2, <1>5 DEF KeyInv, Pending

\* The bytes of an arrow are read in order and in state: only a whole arrow
\* sets next_dir.
LEMMA KeyLoopPending == ASSUME KeyInv, KeyLoop PROVE KeyInv'
<1>1. \A k \in Arrows : k \in Dirs
  BY DEF Arrows
<1>2. "esc" \notin Dirs /\ "[" \notin Dirs /\ "quit" \notin Dirs /\ "eof" \notin Dirs
  BY DEF Dirs
<1>3. CASE state = 0 /\ tty = <<>>
  BY <1>2, <1>3 DEF KeyInv, KeyLoop, Pending, GetC, NextState
<1>4. CASE state = 0 /\ tty = <<"[", "left">>
  BY <1>2, <1>4 DEF KeyInv, KeyLoop, Pending, GetC, NextState
<1>5. CASE state = 0 /\ tty = <<"left">>
  BY <1>2, <1>5 DEF KeyInv, KeyLoop, Pending, GetC, NextState
<1>6. CASE state = 0 /\ tty = <<"quit">>
  BY <1>2, <1>6 DEF KeyInv, KeyLoop, Pending, GetC, NextState
<1>7. ASSUME NEW k \in Arrows, state = 0, tty = <<"esc", "[", k>> PROVE KeyInv'
  <2>1. tty' = <<"[", k>> /\ state' = 1 /\ next_dir' = next_dir
    BY <1>2, <1>7 DEF KeyLoop, GetC, NextState
  <2> QED BY <2>1 DEF KeyInv, Pending
<1>8. ASSUME NEW k \in Arrows, state = 1, tty = <<"[", k>> PROVE KeyInv'
  <2>1. tty' = <<k>> /\ state' = 2 /\ next_dir' = next_dir
    BY <1>2, <1>8 DEF KeyLoop, GetC, NextState
  <2> QED BY <2>1 DEF KeyInv, Pending
<1>9. ASSUME NEW k \in Arrows, state = 2, tty = <<k>> PROVE KeyInv'
  <2>1. k # "quit" /\ k # "esc" /\ k # "[" /\ k \in Dirs
    BY <1>1, <1>2
  <2>2. tty' = <<>> /\ state' = 0 /\ next_dir' = k
    BY <2>1, <1>9 DEF KeyLoop, GetC, NextState
  <2> QED BY <2>2 DEF KeyInv, Pending
<1> QED BY <1>3, <1>4, <1>5, <1>6, <1>7, <1>8, <1>9 DEF KeyInv, Pending

\* next_dir is otherwise set by tux_thread, to a button, and reset by
\* rtc_thread.
LEMMA KeyOthers ==
  ASSUME KeyInv, LevelInv, Rtc \/ KeyEnd \/ Tux \/ TuxSpurious \/ MainEnds
  PROVE  KeyInv'
<1>1. UNCHANGED <<state, tty>>
  BY DEF StartLevel, RtcEnd, ReadRtc, LeaveLevel, PollButtons, SignalTux, Decide, MovePlayer,
         DrawFrame, KeyEnd, TuxLoop, TuxLock, TuxTest, TuxWait, TuxSwitch, TuxSpurious, MainEnds
<1>2. next_dir' \in {next_dir, "stop"} \cup (Buttons \cap Dirs)
  BY DEF StartLevel, RtcEnd, ReadRtc, LeaveLevel, PollButtons, SignalTux, Decide, MovePlayer,
         DrawFrame, KeyEnd, TuxLoop, TuxLock, TuxTest, TuxWait, TuxSwitch, TuxSpurious, MainEnds,
         LevelInv
<1> QED BY <1>1, <1>2 DEF KeyInv, Pending

-----------------------------------------------------------------------------
(* The theorems.                                                             *)

LEMMA InitInv == Init => IInv
<1> HAVE Init
<1>1. TuxInv
  BY DEF Init, TuxInv
<1>2. Standing(<<1, 1>>) /\ <<1, 1>> \in Open
  BY GameAssumption DEF Init, Standing, Corner
<1>3. PathInv
  BY <1>2, GameAssumption DEF Init, PathInv
<1>4. LevelInv
  BY GameAssumption, FS_EmptySet DEF Init, LevelInv
<1>5. KeyInv
  BY DEF Init, KeyInv, Pending
<1> QED BY <1>1, <1>3, <1>4, <1>5 DEF IInv

LEMMA StepInv == IInv /\ [Next]_vars => IInv'
<1> SUFFICES ASSUME IInv, [Next]_vars PROVE IInv'
  OBVIOUS
<1> USE DEF IInv
<1>1. CASE Decide
  BY <1>1, TuxRtc, PathDecide, LevelDecide, KeyOthers
<1>2. CASE MovePlayer
  <2>1. ~Decide
    BY <1>2 DEF MovePlayer, Decide
  <2> QED BY <1>2, <2>1, TuxRtc, PathMove, LevelRtc, KeyOthers
<1>3. CASE Rtc /\ ~Decide /\ ~MovePlayer
  BY <1>3, TuxRtc, PathOthers, LevelRtc, KeyOthers
<1>4. CASE KeyLoop
  BY <1>4, TuxOthers, PathOthers, LevelOthers, KeyLoopPending
<1>5. CASE KeyEnd \/ Tux \/ TuxSpurious \/ MainEnds
  BY <1>5, TuxOthers, PathOthers, LevelOthers, KeyOthers
<1>6. CASE \E k \in Keys : KeyTyped(k)
  BY <1>6, TuxOthers, PathOthers, LevelOthers, KeyTypedPending
<1>7. CASE UNCHANGED vars
  <2>1. TuxInv' BY <1>7 DEF vars, TuxInv
  <2>2. PathInv' BY <1>7, PathSame DEF vars
  <2>3. LevelInv' BY <1>7 DEF vars, LevelInv, Corner
  <2>4. KeyInv' BY <1>7 DEF vars, KeyInv, Pending
  <2> QED BY <2>1, <2>2, <2>3, <2>4
<1> QED BY <1>1, <1>2, <1>3, <1>4, <1>5, <1>6, <1>7 DEF Next

\* The inductive invariant holds throughout.
THEOREM Inductive == Spec => []IInv
BY InitInv, StepInv, PTL DEF Spec

\* A signalled button is not slept through: rtc_thread writes cmd outside the
\* mutex, but signals inside it.
THEOREM WakeupIsNotLost == Spec => []WakeupNotLost
<1>1. IInv => WakeupNotLost
  BY DEF IInv, TuxInv, WakeupNotLost
<1> QED BY <1>1, Inductive, PTL

\* The pixels of one block.
LEMMA BlockEdge ==
  ASSUME NEW b \in Nat \ {0}, NEW a \in Nat
  PROVE  /\ (a * b) % b = 0
         /\ \A r \in 0 .. b - 1 : (a * b + r) \div b = a
OBVIOUS

\* Between two squares a pixel lies in the one or in the other.
LEMMA BetweenSquares ==
  ASSUME NEW a \in Nat, NEW e \in {-1, 0, 1}, a + e \in Nat,
         NEW k \in 0 .. BLOCK_DIM, NEW dx \in {0, BLOCK_DIM - 1}
  PROVE  /\ (a * BLOCK_DIM + k * e + dx) \div BLOCK_DIM \in {a, a + e}
         /\ a * BLOCK_DIM + k * e + (BLOCK_DIM - k) * e = (a + e) * BLOCK_DIM
<1> DEFINE b == BLOCK_DIM
<1>1. b \in Nat \ {0}
  BY GameAssumption
<1> HIDE DEF b
<1>2. k \in 0 .. b /\ dx \in 0 .. b - 1
  BY <1>1 DEF b
<1>3. CASE e = 0
  <2>1. a * b + k * e + dx = a * b + dx /\ dx \in 0 .. 2 * b - 1 /\ dx < b
    BY <1>1, <1>2, <1>3
  <2>2. (a * b + dx) \div b = a
    BY <1>1, <2>1, PixelSquare
  <2>3. a * b + k * e + (b - k) * e = (a + e) * b
    BY <1>1, <1>2, <1>3
  <2> QED BY <2>1, <2>2, <2>3 DEF b
<1>4. CASE e = 1
  <2>1. a * b + k * e + dx = a * b + (k + dx) /\ k + dx \in 0 .. 2 * b - 1
    BY <1>1, <1>2, <1>4
  <2>2. (a * b + (k + dx)) \div b \in {a, a + 1}
    BY <1>1, <2>1, PixelSquare
  <2>3. a * b + k * e + (b - k) * e = (a + e) * b
    BY <1>1, <1>2, <1>4
  <2> QED BY <2>1, <2>2, <2>3, <1>4 DEF b
<1>5. CASE e = -1
  <2> DEFINE c == a - 1
             r == b - k + dx
  <2>1. c \in Nat /\ c + 1 = a /\ c = a + e
    BY <1>5
  <2>2. r \in 0 .. 2 * b - 1
    BY <1>1, <1>2
  <2>3. a * b + k * e + dx = c * b + r
    BY <1>1, <1>2, <1>5
  <2> HIDE DEF c, r
  <2>4. (c * b + r) \div b \in {c, c + 1}
    BY <1>1, <2>1, <2>2, PixelSquare
  <2>5. a * b + k * e + (b - k) * e = (a + e) * b
    BY <1>1, <1>2, <1>5
  <2> QED BY <2>1, <2>3, <2>4, <2>5 DEF b
<1> QED BY <1>3, <1>4, <1>5

\* The player counts his pixels right and is never in a wall.
LEMMA PathKept == ASSUME PathInv PROVE MoveCounted /\ NeverInWall
<1>1. PICK s \in Open : Standing(s) \/ Walking(s)
  BY DEF PathInv
<1>2. /\ s[1] \in Nat /\ s[2] \in Nat /\ s = <<s[1], s[2]>> /\ BLOCK_DIM \in Nat \ {0}
      /\ dir \in Dirs \cup {"stop"} /\ move_cnt \in 0 .. BLOCK_DIM
  BY OpenSquare, GameAssumption DEF PathInv
<1>3. Delta[dir][1] \in {-1, 0, 1} /\ Delta[dir][2] \in {-1, 0, 1}
  BY <1>2, DeltaDef
<1>4. \A a \in Nat : (a * BLOCK_DIM) % BLOCK_DIM = 0
  BY <1>2, BlockEdge
<1>5. CASE Standing(s)
  <2>1. /\ play[1] = s[1] * BLOCK_DIM + 0 * 0 /\ play[2] = s[2] * BLOCK_DIM + 0 * 0
        /\ play[1] = s[1] * BLOCK_DIM /\ play[2] = s[2] * BLOCK_DIM
        /\ s[1] + 0 = s[1] /\ s[2] + 0 = s[2] /\ 0 \in 0 .. BLOCK_DIM
    BY <1>2, <1>5 DEF Standing, Corner
  <2>2. ASSUME NEW dx \in {0, BLOCK_DIM - 1}, NEW dy \in {0, BLOCK_DIM - 1}
        PROVE  (play[1] + dx) \div BLOCK_DIM = s[1] /\ (play[2] + dy) \div BLOCK_DIM = s[2]
    <3>1. \A a \in Nat, r \in 0 .. BLOCK_DIM - 1 : (a * BLOCK_DIM + r) \div BLOCK_DIM = a
      BY <1>2, BlockEdge
    <3>2. dx \in 0 .. BLOCK_DIM - 1 /\ dy \in 0 .. BLOCK_DIM - 1
      BY <1>2
    <3> QED BY <1>2, <2>1, <3>1, <3>2
  <2>3. NeverInWall
    BY <1>2, <2>2 DEF NeverInWall
  <2>4. /\ play[1] + move_cnt * Delta[dir][1] = s[1] * BLOCK_DIM
        /\ play[2] + move_cnt * Delta[dir][2] = s[2] * BLOCK_DIM
    BY <1>2, <1>3, <1>5, <2>1 DEF Standing
  <2> QED BY <1>2, <1>4, <2>3, <2>4 DEF MoveCounted, Aligned, PathInv
<1>6. CASE Walking(s)
  <2> DEFINE t == Beside(s, dir)
             k == BLOCK_DIM - move_cnt
  <2>1. /\ t \in Open /\ dir \in Dirs /\ t = <<s[1] + Delta[dir][1], s[2] + Delta[dir][2]>>
        /\ play = <<s[1] * BLOCK_DIM + k * Delta[dir][1], s[2] * BLOCK_DIM + k * Delta[dir][2]>>
    BY <1>6 DEF Walking, Beside
  <2>2. k \in 0 .. BLOCK_DIM /\ move_cnt = BLOCK_DIM - k
    BY <1>2
  <2> HIDE DEF t, k
  <2>3. s[1] + Delta[dir][1] \in Nat /\ s[2] + Delta[dir][2] \in Nat
    BY <2>1, OpenSquare
  <2>4. Delta[dir][1] = 0 \/ Delta[dir][2] = 0
    BY <2>1, DeltaDef
  <2>5. ASSUME NEW dx \in {0, BLOCK_DIM - 1}, NEW dy \in {0, BLOCK_DIM - 1}
        PROVE  <<(play[1] + dx) \div BLOCK_DIM, (play[2] + dy) \div BLOCK_DIM>> \in Open
    <3>1. (play[1] + dx) \div BLOCK_DIM \in {s[1], s[1] + Delta[dir][1]}
      BY <1>2, <1>3, <2>1, <2>2, <2>3, BetweenSquares
    <3>2. (play[2] + dy) \div BLOCK_DIM \in {s[2], s[2] + Delta[dir][2]}
      BY <1>2, <1>3, <2>1, <2>2, <2>3, BetweenSquares
    <3>3. s[1] + 0 = s[1] /\ s[2] + 0 = s[2]
      BY <1>2
    <3> QED BY <3>1, <3>2, <3>3, <2>1, <2>4, <1>2
  <2>6. NeverInWall
    BY <2>5 DEF NeverInWall
  <2>7. /\ play[1] + move_cnt * Delta[dir][1] = (s[1] + Delta[dir][1]) * BLOCK_DIM
        /\ play[2] + move_cnt * Delta[dir][2] = (s[2] + Delta[dir][2]) * BLOCK_DIM
    <3>1. 0 \in {0, BLOCK_DIM - 1}
      OBVIOUS
    <3> QED BY <1>2, <1>3, <2>1, <2>2, <2>3, <3>1, BetweenSquares
  <2> QED BY <1>4, <2>3, <2>6, <2>7 DEF MoveCounted, Aligned, PathInv
<1> QED BY <1>1, <1>5, <1>6

\* Through any interleaving of the three threads the player keeps to the
\* corridors, turns only where he was told to and leaves a level by its exit
\* with the fruit eaten: for every maze, block size and input.
THEOREM PlayerIsKept == Spec => []PlayerKept
<1>1. ASSUME IInv PROVE PlayerKept
  <2>1. MoveCounted /\ NeverInWall
    BY <1>1, PathKept DEF IInv
  <2>2. ArrowOnly
    BY <1>1 DEF IInv, KeyInv, Arrows, ArrowOnly
  <2>3. LevelWon
    BY <1>1 DEF IInv, LevelInv, Corner, LevelWon
  <2>4. state \in 0 .. 2 /\ Len(tty) <= 3
    <3>1. state \in 0 .. 2
      BY <1>1 DEF IInv, KeyInv, Pending
    <3>2. \/ tty \in {<<>>, <<"[", "left">>, <<"left">>, <<"quit">>}
          \/ \E k \in Arrows : tty \in {<<"esc", "[", k>>, <<"[", k>>, <<k>>}
      BY <1>1 DEF IInv, KeyInv, Pending
    <3>3. \A a, b, c : Len(<<>>) = 0 /\ Len(<<a>>) = 1 /\ Len(<<a, b>>) = 2 /\ Len(<<a, b, c>>) = 3
      OBVIOUS
    <3>4. Len(tty) \in {0, 1, 2, 3}
      BY <3>2, <3>3
    <3>5. \A n \in {0, 1, 2, 3} : n <= 3
      OBVIOUS
    <3>6. Len(tty) <= 3
      BY <3>4, <3>5, Zenon
    <3> QED BY <3>1, <3>6, Zenon
  <2>5. fruits_left \in 0 .. Cardinality(FruitAt)
    BY <1>1, EatenCount DEF IInv, LevelInv
  <2>6. TypeOK
    BY <1>1, <2>4, <2>5 DEF IInv, PathInv, LevelInv, KeyInv, Arrows, TypeOK
  <2> QED BY <2>1, <2>2, <2>3, <2>6 DEF PlayerKept
<1> QED BY <1>1, Inductive, PTL

-----------------------------------------------------------------------------
(* The maze: points, doors between them, and indices.                       *)

\* The width of a row of the array.
Width == 2 * maze_x_dim

\* Multiples of the width differ by the width or more.
LEMMA RowsApart ==
  ASSUME NEW w \in Nat \ {0}, NEW i \in Int, NEW j \in Int, i < j
  PROVE  i * w + w <= j * w
<1>1. (j - i) * w >= w
  <2>1. \A m \in Nat \ {0} : m * w >= w
    BY SMTT(30)
  <2> QED BY <2>1
<1>2. (j - i) * w = j * w - i * w
  BY SMTT(30)
<1>3. i * w \in Int /\ j * w \in Int
  OBVIOUS
<1> QED BY <1>1, <1>2, <1>3

LEMMA WidthIs == Width \in Nat /\ Width > 3 /\ maze_x_dim \in Nat /\ Width = 2 * maze_x_dim
BY MazeAssumption DEF Width

LEMMA IndexIs ==
  ASSUME NEW a \in Int, NEW b \in Int
  PROVE  /\ MAZE_INDEX(a, b) = a + (b + 1) * Width
         /\ MAZE_INDEX(a, b) \in Int
<1>1. maze_x_dim \in Nat
  BY WidthIs
<1>2. \A r \in Int : r * maze_x_dim * 2 = r * (2 * maze_x_dim) /\ r * maze_x_dim * 2 \in Int
  BY <1>1, SMTT(30)
<1> QED BY <1>2 DEF MAZE_INDEX, Width

\* An index stands for one place of a row.
LEMMA IndexUnique ==
  ASSUME NEW a \in 0 .. Width - 1, NEW b \in Int, NEW c \in 0 .. Width - 1, NEW d \in Int,
         MAZE_INDEX(a, b) = MAZE_INDEX(c, d)
  PROVE  a = c /\ b = d
<1>1. a + (b + 1) * Width = c + (d + 1) * Width
  <2>1. a \in Int /\ c \in Int
    BY WidthIs
  <2>2. MAZE_INDEX(a, b) = a + (b + 1) * Width /\ MAZE_INDEX(c, d) = c + (d + 1) * Width
    BY <2>1, IndexIs
  <2> QED BY <2>2
<1>2. (b + 1) * Width \in Int /\ (d + 1) * Width \in Int
  BY WidthIs
<1>3. ~(b < d)
  <2> SUFFICES ASSUME b < d PROVE FALSE
    OBVIOUS
  <2>1. (b + 1) * Width + Width <= (d + 1) * Width
    BY WidthIs, RowsApart, b + 1 < d + 1, b + 1 \in Int, d + 1 \in Int
  <2> QED BY <2>1, <1>1, <1>2, WidthIs
<1>4. ~(d < b)
  <2> SUFFICES ASSUME d < b PROVE FALSE
    OBVIOUS
  <2>1. (d + 1) * Width + Width <= (b + 1) * Width
    BY WidthIs, RowsApart, d + 1 < b + 1, b + 1 \in Int, d + 1 \in Int
  <2> QED BY <2>1, <1>1, <1>2, WidthIs
<1>5. b = d
  BY <1>3, <1>4
<1> QED BY <1>1, <1>2, <1>5

\* Steps of an index are steps in the maze; the end of a row is the start of
\* the next.
LEMMA IndexStep ==
  ASSUME NEW a \in Int, NEW b \in Int
  PROVE  /\ \A k \in Int : MAZE_INDEX(a, b) + k = MAZE_INDEX(a + k, b)
         /\ MAZE_INDEX(a, b) + Width = MAZE_INDEX(a, b + 1)
         /\ MAZE_INDEX(a, b) - Width = MAZE_INDEX(a, b - 1)
         /\ MAZE_INDEX(a, b) + 2 * Width = MAZE_INDEX(a, b + 2)
         /\ MAZE_INDEX(a, b) - 2 * Width = MAZE_INDEX(a, b - 2)
         /\ MAZE_INDEX(Width, b) = MAZE_INDEX(0, b + 1)
<1>1. \A r \in Int : /\ (r + 1) * Width = r * Width + Width /\ r * Width \in Int
                     /\ (r - 1) * Width = r * Width - Width
                     /\ (r + 2) * Width = r * Width + 2 * Width
                     /\ (r - 2) * Width = r * Width - 2 * Width
  BY WidthIs, SMTT(30)
<1>2. \A k \in Int : MAZE_INDEX(a, b) + k = MAZE_INDEX(a + k, b)
  <2> TAKE k \in Int
  <2> QED BY <1>1, IndexIs, a + k \in Int, b + 1 \in Int, WidthIs
<1>3. (b + 1) * Width \in Int /\ b + 1 \in Int /\ b - 1 \in Int /\ b + 2 \in Int /\ b - 2 \in Int
  BY WidthIs
<1>4. /\ MAZE_INDEX(a, b + 1) = a + ((b + 1) + 1) * Width
      /\ MAZE_INDEX(a, b - 1) = a + ((b + 1) - 1) * Width
      /\ MAZE_INDEX(a, b + 2) = a + ((b + 1) + 2) * Width
      /\ MAZE_INDEX(a, b - 2) = a + ((b + 1) - 2) * Width
  <2>1. (b - 1) + 1 = (b + 1) - 1
    OBVIOUS
  <2>2. (b + 2) + 1 = (b + 1) + 2
    OBVIOUS
  <2>3. (b - 2) + 1 = (b + 1) - 2
    OBVIOUS
  <2>4. MAZE_INDEX(a, b + 1) = a + ((b + 1) + 1) * Width
    BY b + 1 \in Int, IndexIs
  <2>5. MAZE_INDEX(a, b - 1) = a + ((b - 1) + 1) * Width
    BY b - 1 \in Int, IndexIs
  <2>6. MAZE_INDEX(a, b + 2) = a + ((b + 2) + 1) * Width
    BY b + 2 \in Int, IndexIs
  <2>7. MAZE_INDEX(a, b - 2) = a + ((b - 2) + 1) * Width
    BY b - 2 \in Int, IndexIs
  <2>8. MAZE_INDEX(a, b - 1) = a + ((b + 1) - 1) * Width
    BY <2>1, <2>5, Zenon
  <2>9. MAZE_INDEX(a, b + 2) = a + ((b + 1) + 2) * Width
    BY <2>2, <2>6, Zenon
  <2>10. MAZE_INDEX(a, b - 2) = a + ((b + 1) - 2) * Width
    BY <2>3, <2>7, Zenon
  <2> QED BY <2>4, <2>8, <2>9, <2>10
<1>5. MAZE_INDEX(a, b) = a + (b + 1) * Width
  BY IndexIs
<1>6. /\ ((b + 1) + 1) * Width = (b + 1) * Width + Width
      /\ ((b + 1) - 1) * Width = (b + 1) * Width - Width
      /\ ((b + 1) + 2) * Width = (b + 1) * Width + 2 * Width
      /\ ((b + 1) - 2) * Width = (b + 1) * Width - 2 * Width
  BY <1>1, <1>3
<1>7. MAZE_INDEX(Width, b) = Width + (b + 1) * Width /\ MAZE_INDEX(0, b + 1) = 0 + ((b + 1) + 1) * Width
  BY <1>3, IndexIs, WidthIs
<1>8. Width \in Int
  BY WidthIs
<1> QED BY <1>2, <1>3, <1>4, <1>5, <1>6, <1>7, <1>8


\* The coordinates of points, and the last index.
LEMMA OddIs ==
  /\ \A n : n \in OddX <=> n \in 1 .. Width - 1 /\ n % 2 = 1
  /\ \A n : n \in OddY <=> n \in 1 .. 2 * maze_y_dim - 1 /\ n % 2 = 1
  /\ 1 \in OddX /\ 1 \in OddY
<1>1. ASSUME NEW m \in Nat, NEW n
      PROVE  n \in {2 * i - 1 : i \in 1 .. m} <=> n \in 1 .. 2 * m - 1 /\ n % 2 = 1
  <2>1. ASSUME NEW i \in 1 .. m, n = 2 * i - 1 PROVE n \in 1 .. 2 * m - 1 /\ n % 2 = 1
    BY <2>1
  <2>2. ASSUME n \in 1 .. 2 * m - 1, n % 2 = 1
        PROVE  \E i \in 1 .. m : n = 2 * i - 1
    <3>1. (n + 1) \div 2 \in 1 .. m /\ n = 2 * ((n + 1) \div 2) - 1
      BY <2>2
    <3> QED BY <3>1
  <2> QED BY <2>1, <2>2
<1>2. maze_x_dim \in Nat /\ maze_y_dim \in Nat /\ maze_x_dim > 1 /\ maze_y_dim > 1
  BY MazeAssumption
<1>3. \A n : n \in OddX <=> n \in 1 .. 2 * maze_x_dim - 1 /\ n % 2 = 1
  BY <1>1, <1>2 DEF OddX
<1>4. \A n : n \in OddY <=> n \in 1 .. 2 * maze_y_dim - 1 /\ n % 2 = 1
  BY <1>1, <1>2 DEF OddY
<1>5. 1 \in OddX /\ 1 \in OddY
  BY <1>2, <1>3, <1>4
<1> QED BY <1>3, <1>4, <1>5 DEF Width

\* A place of a row that the maze uses is inside the array.
LEMMA IndexInside ==
  ASSUME NEW a \in 0 .. Width - 1, NEW b \in 0 .. 2 * maze_y_dim + 1
  PROVE  MAZE_INDEX(a, b) \in 0 .. Size - 1
<1>1. maze_y_dim \in Nat
  BY MazeAssumption
<1>2. Size - 1 = (2 * maze_y_dim + 3) * Width
  <2>1. \A r \in Int : 2 * maze_x_dim * r = r * (2 * maze_x_dim) /\ r * (2 * maze_x_dim) \in Int
    BY WidthIs, SMTT(30)
  <2>2. 2 * maze_y_dim + 3 \in Int
    BY <1>1
  <2> QED BY <2>1, <2>2 DEF Size, Width
<1>3. MAZE_INDEX(a, b) = a + (b + 1) * Width /\ (b + 1) * Width \in Int
  BY <1>1, WidthIs, IndexIs
<1>4. (b + 1) * Width + Width <= (2 * maze_y_dim + 3) * Width
  BY <1>1, WidthIs, RowsApart, b + 1 < 2 * maze_y_dim + 3, b + 1 \in Int, 2 * maze_y_dim + 3 \in Int
<1>5. (b + 1) * Width >= 0
  BY <1>1, WidthIs, SMTT(30)
<1>6. (2 * maze_y_dim + 3) * Width \in Int /\ Width \in Int
  BY <1>1, WidthIs
<1> QED BY <1>2, <1>3, <1>4, <1>5, <1>6

LEMMA PointsIn == Points \subseteq 0 .. Size - 1 /\ MAZE_INDEX(1, 1) \in Points
<1>1. maze_y_dim \in Nat
  BY MazeAssumption
<1>2. ASSUME NEW a \in OddX, NEW b \in OddY PROVE MAZE_INDEX(a, b) \in 0 .. Size - 1
  BY <1>1, WidthIs, OddIs, IndexInside, a \in 0 .. Width - 1, b \in 0 .. 2 * maze_y_dim + 1
<1> QED BY <1>2, OddIs DEF Points

\* There are maze_x_dim * maze_y_dim points.
LEMMA PointsCount ==
  IsFiniteSet(Points) /\ Cardinality(Points) = maze_x_dim * maze_y_dim
<1> DEFINE X == 1 .. maze_x_dim
           Y == 1 .. maze_y_dim
           f == [p \in X \X Y |-> MAZE_INDEX(2 * p[1] - 1, 2 * p[2] - 1)]
<1>1. maze_x_dim \in Nat /\ maze_y_dim \in Nat
  BY MazeAssumption
<1>2. IsFiniteSet(X) /\ Cardinality(X) = maze_x_dim /\ IsFiniteSet(Y) /\ Cardinality(Y) = maze_y_dim
  BY <1>1, FS_Interval
<1>3. IsFiniteSet(X \X Y) /\ Cardinality(X \X Y) = maze_x_dim * maze_y_dim
  <2> HIDE DEF X, Y
  <2>1. IsFiniteSet(X \X Y) /\ Cardinality(X \X Y) = Cardinality(X) * Cardinality(Y)
    BY <1>2, FS_Product
  <2> QED BY <1>2, <2>1
<1>4. \A p \in X \X Y : f[p] \in Points
  <2> SUFFICES ASSUME NEW p \in X \X Y PROVE MAZE_INDEX(2 * p[1] - 1, 2 * p[2] - 1) \in Points
    OBVIOUS
  <2>1. 2 * p[1] - 1 \in OddX /\ 2 * p[2] - 1 \in OddY
    BY DEF OddX, OddY
  <2> QED BY <2>1 DEF Points
<1>5. \A i \in Points : \E p \in X \X Y : f[p] = i
  <2> SUFFICES ASSUME NEW a \in OddX, NEW b \in OddY
               PROVE  \E p \in X \X Y : f[p] = MAZE_INDEX(a, b)
    BY DEF Points
  <2>1. PICK m \in X : a = 2 * m - 1
    BY DEF OddX
  <2>2. PICK n \in Y : b = 2 * n - 1
    BY DEF OddY
  <2>3. <<m, n>> \in X \X Y /\ f[<<m, n>>] = MAZE_INDEX(a, b)
    BY <2>1, <2>2
  <2> QED BY <2>3
<1>6. ASSUME NEW p \in X \X Y, NEW o \in X \X Y, f[p] = f[o] PROVE p = o
  <2>1. MAZE_INDEX(2 * p[1] - 1, 2 * p[2] - 1) = MAZE_INDEX(2 * o[1] - 1, 2 * o[2] - 1)
    BY <1>6
  <2>2. /\ 2 * p[1] - 1 \in 0 .. Width - 1 /\ 2 * o[1] - 1 \in 0 .. Width - 1
        /\ 2 * p[2] - 1 \in Int /\ 2 * o[2] - 1 \in Int
    BY <1>1, WidthIs
  <2>3. 2 * p[1] - 1 = 2 * o[1] - 1 /\ 2 * p[2] - 1 = 2 * o[2] - 1
    BY <2>1, <2>2, IndexUnique
  <2>4. p[1] = o[1] /\ p[2] = o[2]
    BY <1>1, <2>3
  <2> QED BY <2>4
<1>7. ExistsBijection(X \X Y, Points)
  <2>1. f \in [X \X Y -> Points]
    BY <1>4
  <2>2. f \in Injection(X \X Y, Points)
    BY <2>1, <1>6 DEF Injection, IsInjective
  <2>3. f \in Surjection(X \X Y, Points)
    BY <2>1, <1>5 DEF Surjection
  <2> QED BY <2>2, <2>3 DEF Bijection, ExistsBijection
<1> QED BY <1>3, <1>7, FS_Bijection

\* Whatever is dug lies inside the boundary and is not (even,even).
DugInside ==
  \A i \in (0 .. Size - 1) \ wall :
     \E a \in 1 .. Width - 1, b \in 1 .. 2 * maze_y_dim - 1 :
        (a % 2 = 1 \/ b % 2 = 1) /\ i = MAZE_INDEX(a, b)

\* The boundary and the (even,even) points stay walls.
LEMMA DugLattice == ASSUME DugInside PROVE LatticeKept
<1>1. maze_y_dim \in Nat /\ maze_x_dim \in Nat
  BY MazeAssumption
<1>2. ASSUME NEW a \in 0 .. Width - 1, NEW b \in 0 .. 2 * maze_y_dim + 1,
             \/ a = 0
             \/ b = 0
             \/ b >= 2 * maze_y_dim
             \/ a % 2 = 0 /\ b % 2 = 0
      PROVE  MAZE_INDEX(a, b) \in wall
  <2> SUFFICES ASSUME MAZE_INDEX(a, b) \notin wall PROVE FALSE
    OBVIOUS
  <2>1. PICK c \in 1 .. Width - 1, d \in 1 .. 2 * maze_y_dim - 1 :
           (c % 2 = 1 \/ d % 2 = 1) /\ MAZE_INDEX(a, b) = MAZE_INDEX(c, d)
    BY IndexInside DEF DugInside
  <2>2. c \in 0 .. Width - 1 /\ b \in Int /\ d \in Int
    BY <1>1, WidthIs
  <2>3. a = c /\ b = d
    BY <2>1, <2>2, IndexUnique
  <2> QED BY <1>1, <1>2, <2>1, <2>3
<1>3. ASSUME NEW a \in 0 .. 2 * maze_x_dim - 1
      PROVE  MAZE_INDEX(a, 0) \in wall /\ MAZE_INDEX(a, 2 * maze_y_dim) \in wall
  BY <1>1, <1>2, 0 \in 0 .. 2 * maze_y_dim + 1, 2 * maze_y_dim \in 0 .. 2 * maze_y_dim + 1 DEF Width
<1>4. ASSUME NEW b \in 0 .. 2 * maze_y_dim + 1 PROVE MAZE_INDEX(0, b) \in wall
  BY <1>2, WidthIs, 0 \in 0 .. Width - 1
<1>5. ASSUME NEW i \in 0 .. maze_x_dim - 1, NEW j \in 0 .. maze_y_dim
      PROVE  MAZE_INDEX(2 * i, 2 * j) \in wall
  <2>1. 2 * i \in 0 .. Width - 1 /\ 2 * j \in 0 .. 2 * maze_y_dim + 1
    BY <1>1 DEF Width
  <2>2. (2 * i) % 2 = 0 /\ (2 * j) % 2 = 0
    BY <1>1
  <2> QED BY <1>2, <2>1, <2>2
<1> QED BY <1>3, <1>4, <1>5 DEF LatticeKept

\* The steps of the search are one place up, right, down and left.
LEMMA StridesAre == Strides = {-Width, 1, Width, -1} /\ -2 * maze_x_dim = -Width
BY WidthIs DEF Strides

\* A point, seen from the indices beside it.
LEMMA PointSteps ==
  ASSUME NEW a \in Int, NEW b \in Int
  PROVE  LET c == MAZE_INDEX(a, b)
         IN  /\ c + 1 = MAZE_INDEX(a + 1, b) /\ c + 2 * 1 = MAZE_INDEX(a + 2, b)
             /\ c + (-1) = MAZE_INDEX(a - 1, b) /\ c + 2 * (-1) = MAZE_INDEX(a - 2, b)
             /\ c + Width = MAZE_INDEX(a, b + 1) /\ c + 2 * Width = MAZE_INDEX(a, b + 2)
             /\ c + (-Width) = MAZE_INDEX(a, b - 1) /\ c + 2 * (-Width) = MAZE_INDEX(a, b - 2)
<1> DEFINE c == MAZE_INDEX(a, b)
<1>1. c \in Int /\ Width \in Int
  BY WidthIs, IndexIs
<1>2. \A k \in Int : c + k = MAZE_INDEX(a + k, b)
  BY IndexStep
<1>3. a + (-1) = a - 1 /\ a + (-2) = a - 2
  OBVIOUS
<1>4. /\ c + 1 = MAZE_INDEX(a + 1, b) /\ c + 2 = MAZE_INDEX(a + 2, b)
      /\ c + (-1) = MAZE_INDEX(a - 1, b) /\ c + (-2) = MAZE_INDEX(a - 2, b)
  BY <1>2, <1>3, -1 \in Int, -2 \in Int
<1>5. /\ c + Width = MAZE_INDEX(a, b + 1) /\ c + 2 * Width = MAZE_INDEX(a, b + 2)
      /\ c - Width = MAZE_INDEX(a, b - 1) /\ c - 2 * Width = MAZE_INDEX(a, b - 2)
  BY IndexStep
<1> HIDE DEF c
<1>6. c + (-Width) = c - Width /\ c + 2 * (-Width) = c - 2 * Width /\ 2 * 1 = 2 /\ 2 * (-1) = -2
  BY <1>1
<1>7. /\ c + 1 = MAZE_INDEX(a + 1, b) /\ c + 2 * 1 = MAZE_INDEX(a + 2, b)
      /\ c + (-1) = MAZE_INDEX(a - 1, b) /\ c + 2 * (-1) = MAZE_INDEX(a - 2, b)
      /\ c + Width = MAZE_INDEX(a, b + 1) /\ c + 2 * Width = MAZE_INDEX(a, b + 2)
      /\ c + (-Width) = MAZE_INDEX(a, b - 1) /\ c + 2 * (-Width) = MAZE_INDEX(a, b - 2)
  BY <1>4, <1>5, <1>6
<1> QED BY <1>7 DEF c

\* What mark_maze_area counts on: "an adjacent open space implies that the
\* subsequent space in the same direction exists".
LEMMA SpaceBeyond ==
  ASSUME DugInside, NEW i \in Points, NEW d \in Strides, i + d \notin wall
  PROVE  i + 2 * d \in Points
<1>1. maze_y_dim \in Nat /\ maze_x_dim \in Nat
  BY MazeAssumption
<1>2. PICK a \in OddX, b \in OddY : i = MAZE_INDEX(a, b)
  BY DEF Points
<1>3. /\ a \in 1 .. Width - 1 /\ a % 2 = 1
      /\ b \in 1 .. 2 * maze_y_dim - 1 /\ b % 2 = 1
  BY OddIs
<1>4. /\ \A m \in 0 .. Width - 1 :
            MAZE_INDEX(m, 0) \in wall /\ MAZE_INDEX(m, 2 * maze_y_dim) \in wall
      /\ \A n \in 0 .. 2 * maze_y_dim + 1 : MAZE_INDEX(0, n) \in wall
  BY DugLattice DEF LatticeKept, Width
<1>5. CASE d = 1
  <2>1. a # Width - 1
    <3> SUFFICES ASSUME a = Width - 1 PROVE FALSE
      OBVIOUS
    <3>1. i + 1 = MAZE_INDEX(Width, b)
      BY <1>2, <1>3, PointSteps, WidthIs
    <3>2. i + 1 = MAZE_INDEX(0, b + 1) /\ b + 1 \in 0 .. 2 * maze_y_dim + 1
      BY <3>1, <1>1, <1>3, IndexStep, 0 \in Int
    <3> QED BY <3>2, <1>4, <1>5
  <2>2. a + 2 \in OddX
    BY <2>1, <1>3, OddIs, WidthIs
  <2>3. i + 2 * 1 = MAZE_INDEX(a + 2, b)
    BY <1>2, <1>3, PointSteps
  <2> QED BY <2>2, <2>3, <1>5 DEF Points
<1>6. CASE d = -1
  <2>1. a # 1
    <3> SUFFICES ASSUME a = 1 PROVE FALSE
      OBVIOUS
    <3>1. i + (-1) = MAZE_INDEX(0, b) /\ b \in 0 .. 2 * maze_y_dim + 1
      <4>1. i + (-1) = MAZE_INDEX(a - 1, b)
        BY <1>2, <1>3, PointSteps
      <4> QED BY <4>1, <1>1, <1>3, 1 - 1 = 0
    <3> QED BY <3>1, <1>4, <1>6
  <2>2. a - 2 \in OddX
    BY <2>1, <1>3, OddIs, WidthIs
  <2>3. i + 2 * (-1) = MAZE_INDEX(a - 2, b)
    BY <1>2, <1>3, PointSteps
  <2> QED BY <2>2, <2>3, <1>6 DEF Points
<1>7. CASE d = Width
  <2>1. b # 2 * maze_y_dim - 1
    <3> SUFFICES ASSUME b = 2 * maze_y_dim - 1 PROVE FALSE
      OBVIOUS
    <3>1. i + Width = MAZE_INDEX(a, b + 1) /\ b + 1 = 2 * maze_y_dim
      BY <1>1, <1>2, <1>3, PointSteps
    <3> QED BY <3>1, <1>3, <1>4, <1>7, WidthIs, a \in 0 .. Width - 1
  <2>2. b + 2 \in OddY
    BY <2>1, <1>1, <1>3, OddIs
  <2>3. i + 2 * Width = MAZE_INDEX(a, b + 2)
    BY <1>2, <1>3, PointSteps
  <2> QED BY <2>2, <2>3, <1>7 DEF Points
<1>8. CASE d = -Width
  <2>1. b # 1
    <3> SUFFICES ASSUME b = 1 PROVE FALSE
      OBVIOUS
    <3>1. i + (-Width) = MAZE_INDEX(a, b - 1) /\ b - 1 = 0
      BY <1>1, <1>2, <1>3, PointSteps
    <3> QED BY <3>1, <1>3, <1>4, <1>8, WidthIs, a \in 0 .. Width - 1
  <2>2. b - 2 \in OddY
    BY <2>1, <1>1, <1>3, OddIs
  <2>3. i + 2 * (-Width) = MAZE_INDEX(a, b - 2)
    BY <1>2, <1>3, PointSteps
  <2> QED BY <2>2, <2>3, <1>8 DEF Points
<1> QED BY <1>5, <1>6, <1>7, <1>8, StridesAre

\* A wall between two places can be approached from one point or the other.
LEMMA DoorSides ==
  ASSUME NEW m \in 1 .. Width - 1, NEW n \in 1 .. 2 * maze_y_dim - 1,
         NEW i \in Points, NEW d \in Strides, i + d = MAZE_INDEX(m, n)
  PROVE  \/ d = 1 /\ i = MAZE_INDEX(m - 1, n) /\ n % 2 = 1
         \/ d = -1 /\ i = MAZE_INDEX(m + 1, n) /\ n % 2 = 1
         \/ d = Width /\ i = MAZE_INDEX(m, n - 1) /\ m % 2 = 1
         \/ d = -Width /\ i = MAZE_INDEX(m, n + 1) /\ m % 2 = 1
<1>1. maze_y_dim \in Nat
  BY MazeAssumption
<1>2. PICK a \in OddX, b \in OddY : i = MAZE_INDEX(a, b)
  BY DEF Points
<1>3. /\ a \in 1 .. Width - 1 /\ a % 2 = 1
      /\ b \in 1 .. 2 * maze_y_dim - 1 /\ b % 2 = 1
  BY OddIs
<1>4. m \in 0 .. Width - 1 /\ m \in Int /\ n \in Int /\ a \in Int /\ b \in Int
  BY <1>1, <1>3, WidthIs
<1>5. CASE d = 1
  <2>1. MAZE_INDEX(a + 1, b) = MAZE_INDEX(m, n)
    BY <1>2, <1>4, <1>5, PointSteps
  <2>2. CASE a + 1 = Width
    <3>1. MAZE_INDEX(0, b + 1) = MAZE_INDEX(m, n)
      BY <2>1, <2>2, <1>4, IndexStep
    <3>2. 0 = m
      BY <3>1, <1>4, WidthIs, IndexUnique, 0 \in 0 .. Width - 1, b + 1 \in Int
    <3> QED BY <3>2
  <2>3. CASE a + 1 # Width
    <3>1. a + 1 \in 0 .. Width - 1
      BY <2>3, <1>3, WidthIs
    <3>2. a + 1 = m /\ b = n
      BY <2>1, <3>1, <1>4, IndexUnique
    <3>3. a = m - 1
      BY <3>2, <1>4
    <3> QED BY <3>2, <3>3, <1>2, <1>3, <1>5
  <2> QED BY <2>2, <2>3
<1>6. CASE d = -1
  <2>1. MAZE_INDEX(a - 1, b) = MAZE_INDEX(m, n)
    BY <1>2, <1>4, <1>6, PointSteps
  <2>2. a - 1 \in 0 .. Width - 1
    BY <1>3, WidthIs
  <2>3. a - 1 = m /\ b = n
    BY <2>1, <2>2, <1>4, IndexUnique
  <2>4. a = m + 1
    BY <2>3, <1>4
  <2> QED BY <2>3, <2>4, <1>2, <1>3, <1>6
<1>7. a \in 0 .. Width - 1 /\ b + 1 \in Int /\ b - 1 \in Int
  BY <1>3, <1>4, WidthIs
<1>8. CASE d = Width
  <2>1. MAZE_INDEX(a, b + 1) = MAZE_INDEX(m, n)
    BY <1>2, <1>4, <1>8, PointSteps
  <2>2. a = m /\ b + 1 = n
    BY <2>1, <1>7, <1>4, IndexUnique
  <2>3. b = n - 1
    BY <2>2, <1>4
  <2> QED BY <2>2, <2>3, <1>2, <1>3, <1>8
<1>9. CASE d = -Width
  <2>1. MAZE_INDEX(a, b - 1) = MAZE_INDEX(m, n)
    BY <1>2, <1>4, <1>9, PointSteps
  <2>2. a = m /\ b - 1 = n
    BY <2>1, <1>7, <1>4, IndexUnique
  <2>3. b = n + 1
    BY <2>2, <1>4
  <2> QED BY <2>2, <2>3, <1>2, <1>3, <1>9
<1> QED BY <1>5, <1>6, <1>8, <1>9, StridesAre

-----------------------------------------------------------------------------
(* The inductive invariant of make_maze.                                    *)

\* Every kind of record has its type; the queue holds points.
ShapeInv == MazeTypeOK /\ q \in Seq(Points) /\ q_start \in 0 .. Len(q)

\* The worms: what they dug, and the count of the points still to dig.
WormInv ==
  /\ DugInside
  /\ phase \in {"pick", "worm"} =>
        remaining = Cardinality(Points \cap wall) /\ reach = {} /\ q = <<>>
  /\ phase \notin {"pick", "worm"} => Points \cap wall = {}

\* No point is queued twice.
QueueInv == \A i, j \in 1 .. Len(q) : q[i] = q[j] => i = j

\* A point still to be explored: it is in the queue.
Unexplored(i) == \E k \in q_start + 1 .. Len(q) : q[k] = i

\* The search: what is marked can be reached, and its neighbours are marked
\* once it has been explored.  The queue will be taken off the count.
SearchInv ==
  /\ phase \in {"mark", "connect"} => MAZE_INDEX(1, 1) \in reach /\ reach \subseteq Reachable
  /\ phase = "mark" =>
        /\ \A k \in 1 .. Len(q) : q[k] \in reach
        /\ \A i \in reach : Unexplored(i) \/ Adjacent(i) \subseteq reach
        /\ remaining - Len(q) = Cardinality(Points \ reach)
  /\ phase = "connect" => Closed(reach) /\ remaining = Cardinality(Points \ reach)

\* The maze is joined before anything is placed in it.
PlaceInv ==
  /\ phase \in {"fruit", "done"} => reach = {} /\ Reachable = Points
  /\ Cardinality(fruit) = n_fruits
  /\ phase = "done" => n_fruits = start_fruits /\ exit \in ExitPoints

MazeInv == ShapeInv /\ WormInv /\ QueueInv /\ SearchInv /\ PlaceInv

-----------------------------------------------------------------------------
(* Sequences that list a set, as the search lists what it finds.            *)

Lists(f, S) ==
  /\ f \in Seq(S)
  /\ \A i, j \in 1 .. Len(f) : f[i] = f[j] => i = j
  /\ \A e \in S : \E i \in 1 .. Len(f) : f[i] = e

\* A set has as many members as a list of it is long.
LEMMA ListCount ==
  ASSUME NEW S, NEW f, Lists(f, S)
  PROVE  IsFiniteSet(S) /\ Cardinality(S) = Len(f) /\ Len(f) \in Nat
<1>1. Len(f) \in Nat /\ f \in [1 .. Len(f) -> S]
  BY LenProperties DEF Lists
<1>2. IsFiniteSet(1 .. Len(f)) /\ Cardinality(1 .. Len(f)) = Len(f)
  BY <1>1, FS_Interval
<1>3. f \in Injection(1 .. Len(f), S) /\ f \in Surjection(1 .. Len(f), S)
  BY <1>1 DEF Lists, Injection, IsInjective, Surjection
<1>4. ExistsBijection(1 .. Len(f), S)
  BY <1>3 DEF Bijection, ExistsBijection
<1> QED BY <1>1, <1>2, <1>4, FS_Bijection

\* Two lists of disjoint sets make a list of both.
LEMMA ListBoth ==
  ASSUME NEW S, NEW T, NEW f, NEW g, Lists(f, S), Lists(g, T), S \cap T = {}
  PROVE  Lists(f \o g, S \cup T)
<1> DEFINE h == f \o g
<1>1. f \in Seq(S \cup T) /\ g \in Seq(S \cup T) /\ Len(f) \in Nat /\ Len(g) \in Nat
  <2>1. f \in [1 .. Len(f) -> S \cup T] /\ g \in [1 .. Len(g) -> S \cup T]
        /\ Len(f) \in Nat /\ Len(g) \in Nat
    BY LenProperties DEF Lists
  <2> QED BY <2>1, IsASeq
<1>2. /\ h \in Seq(S \cup T) /\ Len(h) = Len(f) + Len(g)
      /\ \A i \in 1 .. Len(h) : h[i] = IF i <= Len(f) THEN f[i] ELSE g[i - Len(f)]
  BY <1>1, ConcatProperties
<1>3. /\ \A i \in 1 .. Len(f) : f[i] \in S
      /\ \A i \in 1 .. Len(g) : g[i] \in T
  BY ElementOfSeq DEF Lists
<1> HIDE DEF h
<1>4. ASSUME NEW i \in 1 .. Len(h), NEW j \in 1 .. Len(h), h[i] = h[j] PROVE i = j
  <2>1. CASE i <= Len(f) /\ j <= Len(f)
    <3>1. i \in 1 .. Len(f) /\ j \in 1 .. Len(f)
      BY <2>1, <1>1, <1>2
    <3>2. h[i] = f[i] /\ h[j] = f[j]
      BY <2>1, <1>2
    <3> QED BY <3>1, <3>2, <1>4 DEF Lists
  <2>2. CASE i > Len(f) /\ j > Len(f)
    <3>1. i - Len(f) \in 1 .. Len(g) /\ j - Len(f) \in 1 .. Len(g)
      BY <2>2, <1>1, <1>2
    <3>2. h[i] = g[i - Len(f)] /\ h[j] = g[j - Len(f)]
      BY <2>2, <1>1, <1>2
    <3>3. i - Len(f) = j - Len(f)
      BY <3>1, <3>2, <1>4 DEF Lists
    <3> QED BY <3>3, <1>1
  <2>3. CASE i <= Len(f) /\ j > Len(f)
    <3>1. i \in 1 .. Len(f) /\ j - Len(f) \in 1 .. Len(g)
      BY <2>3, <1>1, <1>2
    <3>2. h[i] = f[i] /\ h[j] = g[j - Len(f)]
      BY <2>3, <1>1, <1>2
    <3> QED BY <3>1, <3>2, <1>3, <1>4
  <2>4. CASE i > Len(f) /\ j <= Len(f)
    <3>1. j \in 1 .. Len(f) /\ i - Len(f) \in 1 .. Len(g)
      BY <2>4, <1>1, <1>2
    <3>2. h[j] = f[j] /\ h[i] = g[i - Len(f)]
      BY <2>4, <1>1, <1>2
    <3> QED BY <3>1, <3>2, <1>3, <1>4
  <2> QED BY <2>1, <2>2, <2>3, <2>4, <1>1, <1>2
<1>5. ASSUME NEW e \in S \cup T PROVE \E i \in 1 .. Len(h) : h[i] = e
  <2>1. CASE e \in S
    <3>1. PICK i \in 1 .. Len(f) : f[i] = e
      BY <2>1 DEF Lists
    <3> QED BY <3>1, <1>1, <1>2
  <2>2. CASE e \in T
    <3>1. PICK i \in 1 .. Len(g) : g[i] = e
      BY <2>2 DEF Lists
    <3>2. i + Len(f) \in 1 .. Len(h) /\ (i + Len(f)) - Len(f) = i /\ ~(i + Len(f) <= Len(f))
      BY <1>1, <1>2
    <3>3. h[i + Len(f)] = e
      BY <3>1, <3>2, <1>2
    <3> QED BY <3>2, <3>3
  <2> QED BY <2>1, <2>2
<1>6. Lists(h, S \cup T)
  BY <1>2, <1>4, <1>5 DEF Lists
<1> QED BY <1>6 DEF h

\* What one of the four tests finds.
Seen(c, d) == IF c + d \notin wall /\ c + 2 * d \notin reach THEN {c + 2 * d} ELSE {}

LEMMA LookLists == ASSUME NEW c, NEW d PROVE Lists(Look(c, d), Seen(c, d))
<1>1. CASE c + d \notin wall /\ c + 2 * d \notin reach
  <2> DEFINE p == c + 2 * d
  <2>1. Look(c, d) = <<p>> /\ Seen(c, d) = {p}
    BY <1>1 DEF Look, Seen
  <2> HIDE DEF p
  <2>2. Lists(<<p>>, {p})
    BY DEF Lists
  <2> QED BY <2>1, <2>2
<1>2. CASE ~(c + d \notin wall /\ c + 2 * d \notin reach)
  <2>1. Look(c, d) = <<>> /\ Seen(c, d) = {}
    BY <1>2 DEF Look, Seen
  <2>2. Lists(<<>>, {})
    BY DEF Lists
  <2> QED BY <2>1, <2>2
<1> QED BY <1>1, <1>2

\* The search finds the neighbours not marked yet, each once.
LEMMA FoundLists ==
  ASSUME NEW c \in Int
  PROVE  Lists(Found(c), Adjacent(c) \ reach)
<1>1. Found(c) = ((Look(c, -Width) \o Look(c, 1)) \o Look(c, Width)) \o Look(c, -1)
  BY StridesAre DEF Found, Width
<1>2. /\ Seen(c, -Width) \subseteq {c + 2 * (-Width)} /\ Seen(c, 1) \subseteq {c + 2 * 1}
      /\ Seen(c, Width) \subseteq {c + 2 * Width} /\ Seen(c, -1) \subseteq {c + 2 * (-1)}
  BY DEF Seen
<1>3. /\ c + 2 * (-Width) < c + 2 * (-1) /\ c + 2 * (-1) < c + 2 * 1 /\ c + 2 * 1 < c + 2 * Width
      /\ {c + 2 * (-Width), c + 2 * (-1), c + 2 * 1, c + 2 * Width} \subseteq Int
  BY WidthIs
<1>4. /\ Seen(c, -Width) \cap Seen(c, 1) = {}
      /\ (Seen(c, -Width) \cup Seen(c, 1)) \cap Seen(c, Width) = {}
      /\ ((Seen(c, -Width) \cup Seen(c, 1)) \cup Seen(c, Width)) \cap Seen(c, -1) = {}
  BY <1>2, <1>3
<1>5. Lists(Look(c, -Width) \o Look(c, 1), Seen(c, -Width) \cup Seen(c, 1))
  BY <1>4, LookLists, ListBoth
<1>6. Lists((Look(c, -Width) \o Look(c, 1)) \o Look(c, Width),
            (Seen(c, -Width) \cup Seen(c, 1)) \cup Seen(c, Width))
  BY <1>4, <1>5, LookLists, ListBoth
<1>7. Lists(Found(c), ((Seen(c, -Width) \cup Seen(c, 1)) \cup Seen(c, Width)) \cup Seen(c, -1))
  BY <1>1, <1>4, <1>6, LookLists, ListBoth
<1>8. ((Seen(c, -Width) \cup Seen(c, 1)) \cup Seen(c, Width)) \cup Seen(c, -1) = Adjacent(c) \ reach
  BY StridesAre DEF Adjacent, Seen
<1> QED BY <1>7, <1>8

-----------------------------------------------------------------------------
(* Reachability.                                                            *)

LEMMA StrideInt == ASSUME NEW d \in Strides PROVE d \in Int /\ -d \in Strides
BY WidthIs, StridesAre

LEMMA PointInt == ASSUME NEW i \in Points PROVE i \in Int
BY PointsIn DEF Size

LEMMA StartReachable == MAZE_INDEX(1, 1) \in Reachable
BY PointsIn DEF Reachable, Closed

\* A marked set that is complete is what can be reached.
LEMMA ClosedIsAll ==
  ASSUME reach \subseteq Reachable, Closed(reach)
  PROVE  reach = Reachable
BY DEF Reachable

\* What is beside a reachable point is reachable.
LEMMA ReachOn ==
  ASSUME DugInside, NEW i \in Reachable
  PROVE  Adjacent(i) \subseteq Reachable
<1>1. i \in Points
  BY DEF Reachable
<1> SUFFICES ASSUME NEW j \in Adjacent(i) PROVE j \in Reachable
  OBVIOUS
<1>2. j \in Points
  BY <1>1, SpaceBeyond DEF Adjacent
<1>3. ASSUME NEW S \in SUBSET Points, Closed(S) PROVE j \in S
  BY <1>3 DEF Reachable, Closed
<1> QED BY <1>2, <1>3 DEF Reachable

\* Nothing changes for the search while the walls stay.
LEMMA SameWalls ==
  ASSUME wall' = wall
  PROVE  /\ Reachable' = Reachable /\ DugInside' = DugInside
         /\ \A i : Adjacent(i)' = Adjacent(i)
         /\ \A S : Closed(S)' = Closed(S)
BY DEF Reachable, Closed, Adjacent, DugInside

\* Joint names a wall between the point and a marked one.
LEMMA JointIs ==
  ASSUME NEW a \in OddX, NEW b \in OddY, NEW c, c = MAZE_INDEX(a, b),
         NEW s, s = Joint(a, b, c), s # 0
  PROVE  /\ s \in Strides /\ c + 2 * s \in reach /\ c + 2 * s \in Points
         /\ \E m \in 1 .. Width - 1, n \in 1 .. 2 * maze_y_dim - 1 :
               /\ c + s = MAZE_INDEX(m, n)
               /\ m % 2 # n % 2 /\ m % 2 \in 0 .. 1 /\ n % 2 \in 0 .. 1
<1>1. maze_y_dim \in Nat
  BY MazeAssumption
<1>2. /\ a \in 1 .. Width - 1 /\ a % 2 = 1
      /\ b \in 1 .. 2 * maze_y_dim - 1 /\ b % 2 = 1
  BY OddIs
<1>3. /\ c + 1 = MAZE_INDEX(a + 1, b) /\ c + 2 * 1 = MAZE_INDEX(a + 2, b)
      /\ c + (-1) = MAZE_INDEX(a - 1, b) /\ c + 2 * (-1) = MAZE_INDEX(a - 2, b)
      /\ c + Width = MAZE_INDEX(a, b + 1) /\ c + 2 * Width = MAZE_INDEX(a, b + 2)
      /\ c + (-Width) = MAZE_INDEX(a, b - 1) /\ c + 2 * (-Width) = MAZE_INDEX(a, b - 2)
  BY <1>2, PointSteps
<1>4. c \in Int
  BY <1>2, IndexIs
<1>5. \/ s = -Width /\ b > 1 /\ c - 4 * maze_x_dim \in reach
      \/ s = -1 /\ a > 1 /\ c - 2 \in reach
      \/ s = 1 /\ a < Width - 1 /\ c + 2 \in reach
      \/ s = Width /\ b < 2 * maze_y_dim - 1 /\ c + 4 * maze_x_dim \in reach
  BY StridesAre DEF Joint, Width
<1>6. /\ c - 4 * maze_x_dim = c + 2 * (-Width) /\ c - 2 = c + 2 * (-1) /\ c + 2 = c + 2 * 1
      /\ c + 4 * maze_x_dim = c + 2 * Width
  BY <1>4, WidthIs
<1>7. CASE s = -Width /\ b > 1 /\ c - 4 * maze_x_dim \in reach
  <2>1. b - 2 \in OddY /\ b - 1 \in 1 .. 2 * maze_y_dim - 1 /\ (b - 1) % 2 = 0
    BY <1>1, <1>2, <1>7, OddIs
  <2>2. c + 2 * s \in Points
    BY <2>1, <1>3, <1>7 DEF Points
  <2>3. a % 2 # (b - 1) % 2 /\ a % 2 \in 0 .. 1 /\ (b - 1) % 2 \in 0 .. 1
    BY <2>1, <1>2
  <2> QED BY <2>1, <2>2, <2>3, <1>2, <1>3, <1>6, <1>7, StridesAre
<1>8. CASE s = -1 /\ a > 1 /\ c - 2 \in reach
  <2>1. a - 2 \in OddX /\ a - 1 \in 1 .. Width - 1 /\ (a - 1) % 2 = 0
    BY WidthIs, <1>2, <1>8, OddIs
  <2>2. c + 2 * s \in Points
    BY <2>1, <1>3, <1>8 DEF Points
  <2>3. (a - 1) % 2 # b % 2 /\ (a - 1) % 2 \in 0 .. 1 /\ b % 2 \in 0 .. 1
    BY <2>1, <1>2
  <2> QED BY <2>1, <2>2, <2>3, <1>2, <1>3, <1>6, <1>8, StridesAre
<1>9. CASE s = 1 /\ a < Width - 1 /\ c + 2 \in reach
  <2>1. a + 2 \in OddX /\ a + 1 \in 1 .. Width - 1 /\ (a + 1) % 2 = 0
    BY WidthIs, <1>2, <1>9, OddIs
  <2>2. c + 2 * s \in Points
    BY <2>1, <1>3, <1>9 DEF Points
  <2>3. (a + 1) % 2 # b % 2 /\ (a + 1) % 2 \in 0 .. 1 /\ b % 2 \in 0 .. 1
    BY <2>1, <1>2
  <2> QED BY <2>1, <2>2, <2>3, <1>2, <1>3, <1>6, <1>9, StridesAre
<1>10. CASE s = Width /\ b < 2 * maze_y_dim - 1 /\ c + 4 * maze_x_dim \in reach
  <2>1. b + 2 \in OddY /\ b + 1 \in 1 .. 2 * maze_y_dim - 1 /\ (b + 1) % 2 = 0
    BY <1>1, <1>2, <1>10, OddIs
  <2>2. c + 2 * s \in Points
    BY <2>1, <1>3, <1>10 DEF Points
  <2>3. a % 2 # (b + 1) % 2 /\ a % 2 \in 0 .. 1 /\ (b + 1) % 2 \in 0 .. 1
    BY <2>1, <1>2
  <2> QED BY <2>1, <2>2, <2>3, <1>2, <1>3, <1>6, <1>10, StridesAre
<1> QED BY <1>5, <1>7, <1>8, <1>9, <1>10

\* A wall has two sides: a point from which it is one step ahead is one of the
\* two that Joint joins.
LEMMA TwoSides ==
  ASSUME NEW m \in 1 .. Width - 1, NEW n \in 1 .. 2 * maze_y_dim - 1, m % 2 # n % 2,
         m % 2 \in 0 .. 1, n % 2 \in 0 .. 1,
         NEW c \in Points, NEW s \in Strides, c + s = MAZE_INDEX(m, n),
         NEW i \in Points, NEW d \in Strides, i + d = MAZE_INDEX(m, n)
  PROVE  i = c \/ i + 2 * d = c
<1>1. \/ d = 1 /\ i = MAZE_INDEX(m - 1, n) /\ n % 2 = 1
      \/ d = -1 /\ i = MAZE_INDEX(m + 1, n) /\ n % 2 = 1
      \/ d = Width /\ i = MAZE_INDEX(m, n - 1) /\ m % 2 = 1
      \/ d = -Width /\ i = MAZE_INDEX(m, n + 1) /\ m % 2 = 1
  BY DoorSides
<1>2. \/ s = 1 /\ c = MAZE_INDEX(m - 1, n) /\ n % 2 = 1
      \/ s = -1 /\ c = MAZE_INDEX(m + 1, n) /\ n % 2 = 1
      \/ s = Width /\ c = MAZE_INDEX(m, n - 1) /\ m % 2 = 1
      \/ s = -Width /\ c = MAZE_INDEX(m, n + 1) /\ m % 2 = 1
  BY DoorSides
<1>3. c \in Int /\ i \in Int /\ s \in Int /\ d \in Int /\ Width \in Int
  BY PointInt, StrideInt, WidthIs
<1>4. i + d = c + s
  OBVIOUS
<1>5. d = s \/ d = -s
  BY <1>1, <1>2, <1>3
<1>6. CASE d = s
  BY <1>3, <1>4, <1>6
<1>7. CASE d = -s
  <2>1. i + 2 * d = (i + d) + d /\ (c + s) + (-s) = c
    BY <1>3
  <2> QED BY <2>1, <1>4, <1>7
<1> QED BY <1>5, <1>6, <1>7

-----------------------------------------------------------------------------
(* The worms.                                                               *)

LEMMA MazeInitInv == MazeInit => MazeInv
<1> SUFFICES ASSUME MazeInit PROVE MazeInv
  OBVIOUS
<1> USE DEF MazeInit
<1>1. maze_x_dim * maze_y_dim \in Nat
  BY MazeAssumption
<1>2. ShapeInv
  <2>1. MazeTypeOK
    BY <1>1, OddIs, MazeAssumption DEF MazeTypeOK
  <2>2. q \in Seq(Points) /\ q_start \in 0 .. Len(q)
    OBVIOUS
  <2> QED BY <2>1, <2>2 DEF ShapeInv
<1>3. WormInv
  <2>1. Points \cap wall = Points
    BY PointsIn
  <2>2. remaining = Cardinality(Points \cap wall)
    BY <2>1, PointsCount
  <2> QED BY <2>2 DEF WormInv, DugInside
<1>4. QueueInv
  BY DEF QueueInv
<1>5. SearchInv
  BY DEF SearchInv
<1>6. PlaceInv
  BY FS_EmptySet DEF PlaceInv
<1> QED BY <1>2, <1>3, <1>4, <1>5, <1>6 DEF MazeInv

LEMMA PickKeeps == ASSUME MazeInv, PickWorm PROVE MazeInv'
<1> USE DEF PickWorm
<1> DEFINE p == MAZE_INDEX(x', y')
<1>1. p \in Points /\ p \in wall /\ wall' = wall \ {p}
  BY DEF Points
<1>2. IsFiniteSet(Points \cap wall) /\ Cardinality(Points \cap wall) \in Nat
  BY PointsCount, FS_Subset, FS_CardinalityType, Points \cap wall \in SUBSET Points
<1>3. remaining = Cardinality(Points \cap wall) /\ reach = {} /\ q = <<>>
  BY DEF MazeInv, WormInv
<1>4. Points \cap wall' = (Points \cap wall) \ {p} /\ p \in Points \cap wall
  BY <1>1
<1> HIDE DEF p
<1>5. remaining' = Cardinality(Points \cap wall') /\ remaining' \in Nat
  <2>1. Cardinality(Points \cap wall') = Cardinality(Points \cap wall) - 1
    BY <1>2, <1>4, FS_RemoveElement
  <2>2. IsFiniteSet(Points \cap wall')
    BY <1>2, <1>4, FS_RemoveElement
  <2>3. Cardinality(Points \cap wall') \in Nat
    BY <2>2, FS_CardinalityType
  <2> QED BY <2>1, <2>3, <1>3
<1>6. ShapeInv'
  <2>1. MazeTypeOK'
    BY <1>1, <1>5 DEF MazeInv, ShapeInv, MazeTypeOK
  <2>2. (q \in Seq(Points))' /\ (q_start \in 0 .. Len(q))'
    BY DEF MazeInv, ShapeInv
  <2> QED BY <2>1, <2>2 DEF ShapeInv
<1>7. WormInv'
  <2>1. DugInside'
    <3> SUFFICES ASSUME NEW i \in (0 .. Size - 1) \ wall'
                 PROVE  \E a \in 1 .. Width - 1, b \in 1 .. 2 * maze_y_dim - 1 :
                           (a % 2 = 1 \/ b % 2 = 1) /\ i = MAZE_INDEX(a, b)
      BY DEF DugInside
    <3>1. CASE i \in wall
      BY <3>1, <1>1, OddIs DEF p
    <3>2. CASE i \notin wall
      BY <3>2 DEF MazeInv, WormInv, DugInside
    <3> QED BY <3>1, <3>2
  <2> QED BY <2>1, <1>3, <1>5 DEF WormInv
<1>8. QueueInv'
  BY DEF MazeInv, QueueInv
<1>9. SearchInv'
  BY DEF SearchInv
<1>10. PlaceInv'
  BY DEF MazeInv, PlaceInv
<1> QED BY <1>6, <1>7, <1>8, <1>9, <1>10 DEF MazeInv

\* A place with an even coordinate is no point.
LEMMA NoPoint ==
  ASSUME NEW m \in 0 .. Width - 1, NEW n \in Int, m % 2 # 1 \/ n % 2 # 1
  PROVE  MAZE_INDEX(m, n) \notin Points
<1> SUFFICES ASSUME NEW a \in OddX, NEW b \in OddY, MAZE_INDEX(m, n) = MAZE_INDEX(a, b)
             PROVE  FALSE
  BY DEF Points
<1>1. a \in 0 .. Width - 1 /\ a % 2 = 1 /\ b \in Int /\ b % 2 = 1
  BY OddIs, WidthIs, MazeAssumption
<1>2. m = a /\ n = b
  BY <1>1, IndexUnique
<1> QED BY <1>1, <1>2

\* A worm moves to the next point through a wall inside the boundary.
LEMMA DigTo ==
  ASSUME NEW way \in 0 .. 3, weighted(way), x \in OddX, y \in OddY
  PROVE  LET nx == x + 2 * DX[way + 1]
             ny == y + 2 * DY[way + 1]
             m == x + DX[way + 1]
             n == y + DY[way + 1]
         IN  /\ nx \in OddX /\ ny \in OddY
             /\ m \in 1 .. Width - 1 /\ n \in 1 .. 2 * maze_y_dim - 1
             /\ m % 2 = 1 \/ n % 2 = 1
             /\ m % 2 # 1 \/ n % 2 # 1
<1>1. /\ x \in 1 .. Width - 1 /\ x % 2 = 1
      /\ y \in 1 .. 2 * maze_y_dim - 1 /\ y % 2 = 1
      /\ Width \in Nat /\ Width = 2 * maze_x_dim /\ maze_y_dim \in Nat /\ maze_x_dim \in Nat
  BY OddIs, WidthIs, MazeAssumption
<1> DEFINE dx == DX[way + 1]
           dy == DY[way + 1]
<1>2. \/ dx = 0 /\ dy = -1 /\ y > 1
      \/ dx = 1 /\ dy = 0 /\ x < Width - 1
      \/ dx = 0 /\ dy = 1 /\ y < maze_y_dim * 2 - 1
      \/ dx = -1 /\ dy = 0 /\ x > 1
  <2>1. CASE way = 0
    BY <2>1 DEF weighted, DX, DY
  <2>2. CASE way = 1
    BY <2>2, <1>1 DEF weighted, DX, DY
  <2>3. CASE way = 2
    BY <2>3 DEF weighted, DX, DY
  <2>4. CASE way = 3
    BY <2>4 DEF weighted, DX, DY
  <2> QED BY <2>1, <2>2, <2>3, <2>4
<1> HIDE DEF dx, dy
<1>3. /\ x + 2 * dx \in 1 .. Width - 1 /\ (x + 2 * dx) % 2 = 1
      /\ y + 2 * dy \in 1 .. 2 * maze_y_dim - 1 /\ (y + 2 * dy) % 2 = 1
      /\ x + dx \in 1 .. Width - 1 /\ y + dy \in 1 .. 2 * maze_y_dim - 1
      /\ (x + dx) % 2 = 1 \/ (y + dy) % 2 = 1
      /\ (x + dx) % 2 # 1 \/ (y + dy) % 2 # 1
  <2>1. CASE dx = 0 /\ dy = -1 /\ y > 1
    BY <2>1, <1>1
  <2>2. CASE dx = 1 /\ dy = 0 /\ x < Width - 1
    BY <2>2, <1>1
  <2>3. CASE dx = 0 /\ dy = 1 /\ y < maze_y_dim * 2 - 1
    BY <2>3, <1>1
  <2>4. CASE dx = -1 /\ dy = 0 /\ x > 1
    BY <2>4, <1>1
  <2> QED BY <2>1, <2>2, <2>3, <2>4, <1>2
<1>4. x + 2 * dx \in OddX /\ y + 2 * dy \in OddY
  BY <1>3, OddIs
<1> QED BY <1>3, <1>4 DEF dx, dy

LEMMA WormStepKeeps == ASSUME MazeInv, WormStep PROVE MazeInv'
<1> USE DEF WormStep
<1>1. PICK way \in 0 .. 3 : weighted(way) /\ Dig(way)
  OBVIOUS
<1> DEFINE nx == x + 2 * DX[way + 1]
           ny == y + 2 * DY[way + 1]
           m == x + DX[way + 1]
           n == y + DY[way + 1]
           p == MAZE_INDEX(nx, ny)
           door == MAZE_INDEX(m, n)
<1>2. /\ wall' = wall \ {door, p}
      /\ remaining' = IF p \in wall THEN remaining - 1 ELSE remaining
      /\ x' = nx /\ y' = ny /\ pref_dir' = way
  BY <1>1 DEF Dig
<1>3. x \in OddX /\ y \in OddY
  BY DEF MazeInv, ShapeInv, MazeTypeOK
<1>4. /\ nx \in OddX /\ ny \in OddY
      /\ m \in 1 .. Width - 1 /\ n \in 1 .. 2 * maze_y_dim - 1
      /\ m % 2 = 1 \/ n % 2 = 1
      /\ m % 2 # 1 \/ n % 2 # 1
  BY <1>1, <1>3, DigTo
<1> HIDE DEF nx, ny, m, n
<1>5. p \in Points
  BY <1>4 DEF Points
<1>6. door \notin Points
  BY <1>4, NoPoint, WidthIs, m \in 0 .. Width - 1, n \in Int
<1>7. /\ nx \in 1 .. Width - 1 /\ ny \in 1 .. 2 * maze_y_dim - 1 /\ nx % 2 = 1
  BY <1>4, OddIs
<1>8. IsFiniteSet(Points \cap wall) /\ Cardinality(Points \cap wall) \in Nat
  BY PointsCount, FS_Subset, FS_CardinalityType, Points \cap wall \in SUBSET Points
<1>9. remaining = Cardinality(Points \cap wall) /\ reach = {} /\ q = <<>>
  BY DEF MazeInv, WormInv
<1>10. DugInside'
  <2> SUFFICES ASSUME NEW i \in (0 .. Size - 1) \ wall'
               PROVE  \E a \in 1 .. Width - 1, b \in 1 .. 2 * maze_y_dim - 1 :
                         (a % 2 = 1 \/ b % 2 = 1) /\ i = MAZE_INDEX(a, b)
    BY DEF DugInside
  <2>1. CASE i = door
    BY <2>1, <1>4
  <2>2. CASE i = p
    BY <2>2, <1>7
  <2>3. CASE i \notin wall
    BY <2>3 DEF MazeInv, WormInv, DugInside
  <2> QED BY <2>1, <2>2, <2>3, <1>2
<1> HIDE DEF p, door
<1>11. Points \cap wall' = (Points \cap wall) \ {p}
  BY <1>2, <1>5, <1>6
<1>12. remaining' = Cardinality(Points \cap wall') /\ remaining' \in Nat
  <2>1. /\ IsFiniteSet(Points \cap wall')
        /\ Cardinality(Points \cap wall') = IF p \in Points \cap wall THEN Cardinality(Points \cap wall) - 1
                                            ELSE Cardinality(Points \cap wall)
    BY <1>8, <1>11, FS_RemoveElement
  <2>2. Cardinality(Points \cap wall') \in Nat
    BY <2>1, FS_CardinalityType
  <2> QED BY <2>1, <2>2, <1>2, <1>5, <1>9
<1>13. ShapeInv'
  <2>1. MazeTypeOK'
    BY <1>2, <1>4, <1>12 DEF MazeInv, ShapeInv, MazeTypeOK
  <2>2. (q \in Seq(Points))' /\ (q_start \in 0 .. Len(q))'
    BY DEF MazeInv, ShapeInv
  <2> QED BY <2>1, <2>2 DEF ShapeInv
<1>14. WormInv'
  BY <1>9, <1>10, <1>12 DEF WormInv
<1>15. QueueInv'
  BY DEF MazeInv, QueueInv
<1>16. SearchInv'
  BY DEF SearchInv
<1>17. PlaceInv'
  BY DEF MazeInv, PlaceInv
<1> QED BY <1>13, <1>14, <1>15, <1>16, <1>17 DEF MazeInv

\* A search begins at a point not marked yet; it is the only one in the queue.
LEMMA StartMarkIs ==
  ASSUME NEW c \in Points \ reach, reach \subseteq Points, NEW left \in Nat,
         left = Cardinality(Points \ reach),
         reach' = reach \cup {c}, q' = <<c>>, q_start' = 0, remaining' = left
  PROVE  /\ reach' \subseteq Points /\ QueueInv'
         /\ (q \in Seq(Points))' /\ (q_start \in 0 .. Len(q))'
         /\ (\A k \in 1 .. Len(q) : q[k] \in reach)'
         /\ Unexplored(c)'
         /\ (remaining - Len(q) = Cardinality(Points \ reach))'
<1>1. Len(q') = 1 /\ q'[1] = c /\ q' \in Seq(Points)
  OBVIOUS
<1>2. IsFiniteSet(Points \ reach)
  BY PointsCount, FS_Subset, Points \ reach \in SUBSET Points
<1>3. Points \ reach' = (Points \ reach) \ {c}
  OBVIOUS
<1>4. Cardinality(Points \ reach') = Cardinality(Points \ reach) - 1
  BY <1>2, <1>3, FS_RemoveElement
<1>5. (remaining - Len(q) = Cardinality(Points \ reach))'
  BY <1>1, <1>4
<1>6. QueueInv' /\ (q \in Seq(Points))' /\ (q_start \in 0 .. Len(q))'
  BY <1>1 DEF QueueInv
<1>7. (\A k \in 1 .. Len(q) : q[k] \in reach)' /\ Unexplored(c)'
  BY <1>1 DEF Unexplored
<1> QED BY <1>5, <1>6, <1>7

LEMMA WormTurnsKeeps == ASSUME MazeInv, WormTurns PROVE MazeInv'
<1> USE DEF WormTurns
<1>1. remaining = Cardinality(Points \cap wall) /\ remaining \in Nat /\ reach = {} /\ q = <<>>
  BY DEF MazeInv, ShapeInv, MazeTypeOK, WormInv
<1>2. CASE remaining > 0
  <2>1. phase' = "pick" /\ UNCHANGED <<reach, q, q_start, remaining>>
    BY <1>2
  <2>2. ShapeInv'
    BY <2>1 DEF MazeInv, ShapeInv, MazeTypeOK
  <2>3. WormInv' /\ QueueInv' /\ PlaceInv'
    BY <2>1, <1>1, SameWalls DEF MazeInv, WormInv, QueueInv, PlaceInv
  <2>4. SearchInv'
    BY <2>1 DEF SearchInv
  <2> QED BY <2>2, <2>3, <2>4 DEF MazeInv
<1>3. CASE ~(remaining > 0)
  <2> DEFINE s == MAZE_INDEX(1, 1)
  <2>1. reach' = reach \cup {s} /\ q' = <<s>> /\ q_start' = 0 /\ phase' = "mark"
        /\ remaining' = maze_x_dim * maze_y_dim
    BY <1>3 DEF StartMark
  <2>2. Points \cap wall = {}
    <3>1. IsFiniteSet(Points \cap wall)
      BY PointsCount, FS_Subset, Points \cap wall \in SUBSET Points
    <3>2. Cardinality(Points \cap wall) = 0
      BY <1>1, <1>3
    <3> QED BY <3>1, <3>2, FS_EmptySet
  <2>3. s \in Points /\ s \in Reachable
    BY PointsIn, StartReachable
  <2> HIDE DEF s
  <2>4. remaining' = Cardinality(Points \ reach) /\ remaining' \in Nat
    <3>1. Points \ reach = Points
      BY <1>1
    <3>2. maze_x_dim * maze_y_dim \in Nat
      BY MazeAssumption
    <3> QED BY <2>1, <3>1, <3>2, PointsCount
  <2>5. /\ reach' \subseteq Points /\ QueueInv'
        /\ (q \in Seq(Points))' /\ (q_start \in 0 .. Len(q))'
        /\ (\A k \in 1 .. Len(q) : q[k] \in reach)'
        /\ Unexplored(s)'
        /\ (remaining - Len(q) = Cardinality(Points \ reach))'
    BY <2>1, <2>3, <2>4, <1>1, StartMarkIs
  <2>6. reach' = {s}
    BY <2>1, <1>1
  <2>7. ShapeInv'
    BY <2>1, <2>4, <2>5 DEF MazeInv, ShapeInv, MazeTypeOK
  <2>8. WormInv' /\ PlaceInv'
    BY <2>1, <2>2, SameWalls DEF MazeInv, WormInv, PlaceInv
  <2>9. SearchInv'
    <3>1. MAZE_INDEX(1, 1) \in reach' /\ reach' \subseteq Reachable'
      BY <2>3, <2>6, SameWalls DEF s
    <3>2. (\A i \in reach : Unexplored(i) \/ Adjacent(i) \subseteq reach)'
      BY <2>5, <2>6
    <3> QED BY <2>1, <2>5, <3>1, <3>2 DEF SearchInv
  <2> QED BY <2>5, <2>7, <2>8, <2>9 DEF MazeInv
<1> QED BY <1>2, <1>3

-----------------------------------------------------------------------------
(* The search.                                                              *)

LEMMA MarkStepKeeps == ASSUME MazeInv, MarkStep PROVE MazeInv'
<1> DEFINE c == q[q_start + 1]
           found == Found(c)
           new == Adjacent(c) \ reach
<1>1. /\ phase = "mark" /\ q_start # Len(q) /\ q_start' = q_start + 1
      /\ q' = q \o found /\ reach' = reach \cup {found[i] : i \in DOMAIN found}
      /\ UNCHANGED <<phase, wall, fruit, exit, n_fruits, x, y, pref_dir, remaining, trials>>
  BY DEF MarkStep
<1>2. /\ q \in Seq(Points) /\ q_start \in 0 .. Len(q) /\ Len(q) \in Nat
      /\ reach \subseteq Points /\ reach \subseteq Reachable /\ DugInside /\ MAZE_INDEX(1, 1) \in reach
      /\ \A k \in 1 .. Len(q) : q[k] \in reach
      /\ \A i \in reach : Unexplored(i) \/ Adjacent(i) \subseteq reach
      /\ remaining - Len(q) = Cardinality(Points \ reach) /\ remaining \in Nat
      /\ \A i, j \in 1 .. Len(q) : q[i] = q[j] => i = j
  BY <1>1, LenProperties DEF MazeInv, ShapeInv, MazeTypeOK, SearchInv, WormInv, QueueInv
<1>3. q_start + 1 \in 1 .. Len(q) /\ c \in reach /\ c \in Points /\ c \in Reachable /\ c \in Int
  BY <1>1, <1>2, PointInt
<1>4. Lists(found, new)
  BY <1>3, FoundLists
<1>5. new \subseteq Points /\ new \subseteq Reachable
  BY <1>2, <1>3, ReachOn DEF Reachable
<1> HIDE DEF c, found, new
<1>6. {found[i] : i \in DOMAIN found} = new /\ Len(found) \in Nat
  <2>1. found \in Seq(new) /\ Len(found) \in Nat /\ found \in [1 .. Len(found) -> new]
    BY <1>4, LenProperties DEF Lists
  <2> QED BY <1>4, <2>1 DEF Lists
<1>7. reach' = reach \cup new
  BY <1>1, <1>6
<1>8. new \cap reach = {}
  BY DEF new
<1>9. found \in Seq(Points)
  <2>1. found \in [1 .. Len(found) -> Points]
    BY <1>4, <1>5, LenProperties DEF Lists
  <2> QED BY <2>1, <1>6, IsASeq
<1>10. /\ q' \in Seq(Points) /\ Len(q') = Len(q) + Len(found)
       /\ \A i \in 1 .. Len(q') : q'[i] = IF i <= Len(q) THEN q[i] ELSE found[i - Len(q)]
  BY <1>1, <1>2, <1>9, ConcatProperties
<1>11. \A i \in 1 .. Len(found) : found[i] \in new
  BY <1>4, ElementOfSeq DEF Lists
<1>12. QueueInv'
  <2>1. Lists(q, {q[k] : k \in 1 .. Len(q)})
    <3>1. q \in [1 .. Len(q) -> {q[k] : k \in 1 .. Len(q)}]
      BY <1>2, LenProperties
    <3>2. q \in Seq({q[k] : k \in 1 .. Len(q)})
      BY <3>1, <1>2, IsASeq
    <3> QED BY <3>2, <1>2 DEF Lists
  <2>2. {q[k] : k \in 1 .. Len(q)} \cap new = {}
    BY <1>2, <1>8
  <2>3. Lists(q', {q[k] : k \in 1 .. Len(q)} \cup new)
    BY <2>1, <2>2, <1>1, <1>4, ListBoth
  <2> QED BY <2>3 DEF Lists, QueueInv
<1>13. (\A k \in 1 .. Len(q) : q[k] \in reach)'
  <2> SUFFICES ASSUME NEW k \in 1 .. Len(q') PROVE q'[k] \in reach'
    OBVIOUS
  <2>1. CASE k <= Len(q)
    BY <2>1, <1>2, <1>7, <1>10
  <2>2. CASE ~(k <= Len(q))
    <3>1. k - Len(q) \in 1 .. Len(found) /\ q'[k] = found[k - Len(q)]
      BY <2>2, <1>2, <1>6, <1>10
    <3> QED BY <3>1, <1>7, <1>11
  <2> QED BY <2>1, <2>2
<1>14. (remaining - Len(q) = Cardinality(Points \ reach))'
  <2>1. IsFiniteSet(Points \ reach') /\ IsFiniteSet(new) /\ Cardinality(new) = Len(found)
    BY PointsCount, FS_Subset, <1>4, ListCount, Points \ reach' \in SUBSET Points
  <2>2. Points \ reach = (Points \ reach') \cup new /\ (Points \ reach') \cap new = {}
    BY <1>5, <1>7, <1>8
  <2>3. Cardinality(Points \ reach) = Cardinality(Points \ reach') + Cardinality(new) - Cardinality({})
    <3> DEFINE rest == Points \ reach'
    <3>1. IsFiniteSet(rest) /\ Points \ reach = rest \cup new /\ rest \cap new = {}
      BY <2>1, <2>2
    <3> HIDE DEF rest
    <3>2. Cardinality(rest \cup new) = Cardinality(rest) + Cardinality(new) - Cardinality(rest \cap new)
      BY <2>1, <3>1, FS_Union
    <3>3. Cardinality(Points \ reach) = Cardinality(rest) + Cardinality(new) - Cardinality({})
      BY <3>1, <3>2
    <3> QED BY <3>3 DEF rest
  <2>4. Cardinality({}) = 0 /\ Cardinality(Points \ reach') \in Nat
    BY <2>1, FS_EmptySet, FS_CardinalityType
  <2>5. remaining' = remaining
    BY <1>1
  <2> QED BY <2>1, <2>3, <2>4, <2>5, <1>2, <1>6, <1>10, SMTT(30)
<1>15. (\A i \in reach : Unexplored(i) \/ Adjacent(i) \subseteq reach)'
  <2> SUFFICES ASSUME NEW i \in reach', ~Unexplored(i)' PROVE Adjacent(i) \subseteq reach'
    BY <1>1, SameWalls
  <2>1. CASE i \in new
    <3>1. PICK k \in 1 .. Len(found) : found[k] = i
      BY <2>1, <1>4 DEF Lists
    <3>2. k + Len(q) \in q_start' + 1 .. Len(q') /\ q'[k + Len(q)] = i
      <4>1. k + Len(q) \in 1 .. Len(q') /\ (k + Len(q)) - Len(q) = k /\ ~(k + Len(q) <= Len(q))
        BY <1>2, <1>6, <1>10
      <4>2. q'[k + Len(q)] = found[k]
        BY <4>1, <1>10
      <4> QED BY <4>1, <4>2, <3>1, <1>1, <1>2, <1>3
    <3> QED BY <3>2 DEF Unexplored
  <2>2. CASE i \in reach /\ i = c
    BY <2>2, <1>7 DEF new
  <2>3. CASE i \in reach /\ i # c
    <3>1. ~Unexplored(i)
      <4> SUFFICES ASSUME NEW k \in q_start + 1 .. Len(q), q[k] = i PROVE FALSE
        BY DEF Unexplored
      <4>1. k # q_start + 1
        BY <2>3 DEF c
      <4>2. k \in q_start' + 1 .. Len(q') /\ q'[k] = q[k]
        BY <4>1, <1>1, <1>2, <1>6, <1>10
      <4> QED BY <4>2 DEF Unexplored
    <3> QED BY <3>1, <2>3, <1>2, <1>7
  <2> QED BY <2>1, <2>2, <2>3, <1>7
<1>16. reach' \subseteq Points /\ reach' \subseteq Reachable' /\ MAZE_INDEX(1, 1) \in reach'
  BY <1>1, <1>2, <1>5, <1>7, SameWalls
<1>17. ShapeInv'
  <2>1. MazeTypeOK'
    BY <1>1, <1>16 DEF MazeInv, ShapeInv, MazeTypeOK
  <2>2. (q_start \in 0 .. Len(q))'
    BY <1>1, <1>2, <1>6, <1>10
  <2> QED BY <2>1, <2>2, <1>10 DEF ShapeInv
<1>18. WormInv' /\ PlaceInv'
  BY <1>1, SameWalls DEF MazeInv, WormInv, PlaceInv
<1>19. SearchInv'
  BY <1>1, <1>13, <1>14, <1>15, <1>16 DEF SearchInv
<1> QED BY <1>12, <1>17, <1>18, <1>19 DEF MazeInv

\* The loop of the second phase goes on, or ends with every point marked.
LEMMA LoopKeeps ==
  ASSUME MazeInv, phase \in {"mark", "connect"}, NEW left, Loop(left),
         left = Cardinality(Points \ reach), Closed(reach),
         remaining' = left, x' \in OddX, y' \in OddY, trials' \in 0 .. MAX_TRIALS,
         UNCHANGED <<wall, fruit, exit, n_fruits, pref_dir, q, q_start>>
  PROVE  MazeInv'
<1>1. /\ reach \subseteq Points /\ reach \subseteq Reachable /\ MAZE_INDEX(1, 1) \in reach
      /\ Points \cap wall = {} /\ DugInside
  BY DEF MazeInv, ShapeInv, MazeTypeOK, WormInv, SearchInv
<1>2. IsFiniteSet(Points \ reach) /\ left \in Nat
  BY PointsCount, FS_Subset, FS_CardinalityType, Points \ reach \in SUBSET Points
<1>3. QueueInv'
  BY DEF MazeInv, QueueInv
<1>4. CASE left > 0
  <2>1. phase' = "connect" /\ UNCHANGED reach
    BY <1>4 DEF Loop
  <2>2. ShapeInv'
    BY <2>1, <1>2 DEF MazeInv, ShapeInv, MazeTypeOK
  <2>3. WormInv' /\ PlaceInv'
    BY <2>1, SameWalls DEF MazeInv, WormInv, PlaceInv
  <2>4. SearchInv'
    BY <2>1, <1>1, SameWalls DEF SearchInv
  <2> QED BY <1>3, <2>2, <2>3, <2>4 DEF MazeInv
<1>5. CASE ~(left > 0)
  <2>1. phase' = "fruit" /\ reach' = reach \ Points
    BY <1>5 DEF Loop, Leave
  <2>2. reach' = {}
    BY <2>1, <1>1
  <2>3. Reachable = Points
    <3>1. left = 0
      BY <1>2, <1>5
    <3>2. Points \ reach = {}
      BY <1>2, <3>1, FS_EmptySet
    <3> QED BY <3>2, <1>1 DEF Reachable
  <2>4. ShapeInv'
    BY <2>1, <2>2, <1>2 DEF MazeInv, ShapeInv, MazeTypeOK
  <2>5. WormInv'
    BY <2>1, <1>1, SameWalls DEF WormInv
  <2>6. PlaceInv'
    BY <2>1, <2>2, <2>3, SameWalls DEF MazeInv, PlaceInv
  <2>7. SearchInv'
    BY <2>1 DEF SearchInv
  <2> QED BY <1>3, <2>4, <2>5, <2>6, <2>7 DEF MazeInv
<1> QED BY <1>4, <1>5

LEMMA MarkEndsKeeps == ASSUME MazeInv, MarkEnds PROVE MazeInv'
<1> USE DEF MarkEnds
<1>1. /\ reach \subseteq Points /\ remaining - Len(q) = Cardinality(Points \ reach)
      /\ MAZE_INDEX(1, 1) \in reach /\ reach \subseteq Reachable
      /\ x \in OddX /\ y \in OddY /\ trials \in 0 .. MAX_TRIALS
  BY DEF MazeInv, ShapeInv, MazeTypeOK, SearchInv
<1>2. Closed(reach)
  <2>1. ASSUME NEW i \in reach PROVE ~Unexplored(i)
    BY LenProperties DEF MazeInv, ShapeInv, Unexplored
  <2> QED BY <2>1, <1>1 DEF MazeInv, SearchInv, Closed
<1>3. CASE Loop(remaining')
  BY <1>1, <1>2, <1>3, LoopKeeps
<1>4. CASE phase' = "connect" /\ UNCHANGED reach
  <2>1. Cardinality(Points \ reach) \in Nat
    BY PointsCount, FS_Subset, FS_CardinalityType, Points \ reach \in SUBSET Points
  <2>2. ShapeInv'
    BY <2>1, <1>1, <1>4 DEF MazeInv, ShapeInv, MazeTypeOK
  <2>3. WormInv' /\ PlaceInv' /\ QueueInv'
    BY <1>4, SameWalls DEF MazeInv, WormInv, PlaceInv, QueueInv
  <2>4. SearchInv'
    BY <1>1, <1>2, <1>4, SameWalls DEF SearchInv
  <2> QED BY <2>2, <2>3, <2>4 DEF MazeInv
<1> QED BY <1>3, <1>4

\* A point that is joined: the wall to a marked point falls, and the search
\* starts again from it.
LEMMA WallFalls ==
  ASSUME MazeInv, phase = "connect", NEW a \in OddX, NEW b \in OddY,
         NEW c, c = MAZE_INDEX(a, b), c \notin reach,
         NEW s, s = Joint(a, b, c), s # 0,
         wall' = wall \ {c + s}, StartMark(a, b), remaining' = remaining,
         x' \in OddX, y' \in OddY, trials' \in 0 .. MAX_TRIALS,
         UNCHANGED <<fruit, exit, n_fruits, pref_dir>>
  PROVE  MazeInv'
<1>1. /\ reach \subseteq Points /\ reach \subseteq Reachable /\ MAZE_INDEX(1, 1) \in reach
      /\ Points \cap wall = {} /\ DugInside /\ Closed(reach)
      /\ remaining = Cardinality(Points \ reach) /\ remaining \in Nat
  BY DEF MazeInv, ShapeInv, MazeTypeOK, WormInv, SearchInv
<1>2. /\ s \in Strides /\ c + 2 * s \in reach /\ c + 2 * s \in Points
  BY JointIs
<1>3. PICK m \in 1 .. Width - 1, n \in 1 .. 2 * maze_y_dim - 1 :
         c + s = MAZE_INDEX(m, n) /\ m % 2 # n % 2 /\ m % 2 \in 0 .. 1 /\ n % 2 \in 0 .. 1
  BY JointIs
<1>4. c \in Points \ reach
  BY DEF Points
<1>5. reach' = reach \cup {c} /\ q' = <<c>> /\ q_start' = 0 /\ phase' = "mark"
  BY DEF StartMark
<1>6. /\ reach' \subseteq Points /\ QueueInv'
      /\ (q \in Seq(Points))' /\ (q_start \in 0 .. Len(q))'
      /\ (\A k \in 1 .. Len(q) : q[k] \in reach)'
      /\ Unexplored(c)'
      /\ (remaining - Len(q) = Cardinality(Points \ reach))'
  BY <1>1, <1>4, <1>5, StartMarkIs
<1>7. DugInside'
  <2> SUFFICES ASSUME NEW i \in (0 .. Size - 1) \ wall'
               PROVE  \E u \in 1 .. Width - 1, v \in 1 .. 2 * maze_y_dim - 1 :
                         (u % 2 = 1 \/ v % 2 = 1) /\ i = MAZE_INDEX(u, v)
    BY DEF DugInside
  <2>1. CASE i = c + s
    BY <2>1, <1>3
  <2>2. CASE i # c + s
    BY <2>2, <1>1 DEF DugInside
  <2> QED BY <2>1, <2>2
<1>8. ASSUME NEW i \in reach PROVE Adjacent(i)' \subseteq Adjacent(i) \cup {c}
  <2> SUFFICES ASSUME NEW d \in Strides, i + d \notin wall', i + 2 * d # c
               PROVE  i + d \notin wall
    BY DEF Adjacent
  <2>1. CASE i + d = c + s
    <3>1. i = c
      BY <2>1, <1>1, <1>2, <1>3, <1>4, TwoSides
    <3> QED BY <3>1, <1>4
  <2>2. CASE i + d # c + s
    BY <2>2
  <2> QED BY <2>1, <2>2
<1>9. \A i : Adjacent(i) \subseteq Adjacent(i)'
  BY DEF Adjacent
<1>10. Reachable \subseteq Reachable'
  BY <1>9 DEF Reachable, Closed
<1>11. c \in Adjacent(c + 2 * s)'
  <2>1. c \in Int /\ s \in Int /\ -s \in Strides
    BY <1>2, <1>4, PointInt, StrideInt
  <2>2. c = (c + 2 * s) + 2 * (-s) /\ (c + 2 * s) + (-s) = c + s
    BY <2>1
  <2> QED BY <2>1, <2>2 DEF Adjacent
<1>12. c \in Reachable'
  <2>1. c + 2 * s \in Reachable'
    BY <1>1, <1>2, <1>10
  <2> QED BY <2>1, <1>4, <1>11 DEF Reachable, Closed
<1>13. ShapeInv'
  BY <1>1, <1>5, <1>6 DEF MazeInv, ShapeInv, MazeTypeOK
<1>14. WormInv'
  BY <1>1, <1>5, <1>7 DEF WormInv
<1>15. PlaceInv'
  BY <1>5 DEF MazeInv, PlaceInv
<1>16. SearchInv'
  <2>1. MAZE_INDEX(1, 1) \in reach' /\ reach' \subseteq Reachable'
    BY <1>1, <1>5, <1>10, <1>12
  <2>2. (\A i \in reach : Unexplored(i) \/ Adjacent(i) \subseteq reach)'
    <3> SUFFICES ASSUME NEW i \in reach', i # c PROVE Adjacent(i)' \subseteq reach'
      BY <1>6
    <3>1. i \in reach
      BY <1>5
    <3>2. Adjacent(i) \subseteq reach
      BY <3>1, <1>1 DEF Closed
    <3> QED BY <3>1, <3>2, <1>5, <1>8
  <2> QED BY <1>5, <1>6, <2>1, <2>2 DEF SearchInv
<1> QED BY <1>6, <1>13, <1>14, <1>15, <1>16 DEF MazeInv

\* Join, by the scan or at random.
LEMMA JoinKeeps ==
  ASSUME MazeInv, phase = "connect", NEW a \in OddX, NEW b \in OddY, Join(a, b),
         x' \in OddX, y' \in OddY, trials' \in 0 .. MAX_TRIALS,
         UNCHANGED <<fruit, exit, n_fruits, pref_dir, remaining>>
  PROVE  MazeInv'
<1> DEFINE c == MAZE_INDEX(a, b)
           s == Joint(a, b, c)
<1>1. CASE c \in reach \/ s = 0
  <2>1. Loop(remaining) /\ UNCHANGED <<wall, q, q_start>>
    BY <1>1 DEF Join
  <2>2. Closed(reach) /\ remaining = Cardinality(Points \ reach)
    BY DEF MazeInv, SearchInv
  <2> QED BY <2>1, <2>2, LoopKeeps
<1>2. CASE ~(c \in reach \/ s = 0)
  <2>1. wall' = wall \ {c + s} /\ StartMark(a, b)
    BY <1>2 DEF Join
  <2> HIDE DEF c, s
  <2>2. c = MAZE_INDEX(a, b) /\ s = Joint(a, b, c)
    BY DEF c, s
  <2> QED BY <1>2, <2>1, <2>2, WallFalls
<1> QED BY <1>1, <1>2

LEMMA ConnectKeeps == ASSUME MazeInv, ConnectScan \/ ConnectRandom PROVE MazeInv'
<1>1. x \in OddX /\ y \in OddY /\ trials \in 0 .. MAX_TRIALS /\ MAX_TRIALS \in Nat
  BY MazeAssumption DEF MazeInv, ShapeInv, MazeTypeOK
<1>2. CASE ConnectScan
  <2>1. x' \in OddX /\ y' \in OddY
    <3>1. /\ x \in 1 .. Width - 1 /\ x % 2 = 1 /\ Width = maze_x_dim * 2 /\ Width \in Nat
          /\ y \in 1 .. 2 * maze_y_dim - 1 /\ y % 2 = 1 /\ maze_y_dim \in Nat
      BY <1>1, OddIs, WidthIs, MazeAssumption
    <3>2. /\ x' = IF x + 2 > Width THEN x + 2 - Width ELSE x + 2
          /\ y' = IF x + 2 > Width
                  THEN IF y + 2 > 2 * maze_y_dim THEN y + 2 - 2 * maze_y_dim ELSE y + 2
                  ELSE y
      BY <1>2, <3>1 DEF ConnectScan, ScanPoint
    <3>3. x' \in 1 .. Width - 1 /\ x' % 2 = 1
      BY <3>1, <3>2, WidthIs
    <3>4. y' \in 1 .. 2 * maze_y_dim - 1 /\ y' % 2 = 1
      BY <3>1, <3>2
    <3> QED BY <3>3, <3>4, OddIs
  <2>2. trials' \in 0 .. MAX_TRIALS
    BY <1>1, <1>2 DEF ConnectScan
  <2> QED BY <1>2, <2>1, <2>2, JoinKeeps DEF ConnectScan
<1>3. CASE ConnectRandom
  <2>1. trials' \in 0 .. MAX_TRIALS
    BY <1>1, <1>3 DEF ConnectRandom, Scanning
  <2> QED BY <1>3, <2>1, JoinKeeps DEF ConnectRandom
<1> QED BY <1>2, <1>3

-----------------------------------------------------------------------------
(* Fruits and exit, and the theorems.                                       *)

LEMMA PlaceKeeps == ASSUME MazeInv, AddFruit \/ PlaceExit PROVE MazeInv'
<1>1. UNCHANGED <<wall, reach, q, q_start, remaining, trials, pref_dir>> /\ phase = "fruit"
      /\ phase' \in {"fruit", "done"}
  BY DEF AddFruit, PlaceExit
<1>2. QueueInv' /\ WormInv' /\ SearchInv'
  BY <1>1, SameWalls DEF MazeInv, QueueInv, WormInv, SearchInv
<1>3. IsFiniteSet(fruit) /\ fruit \subseteq Points
  BY PointsCount, FS_Subset DEF MazeInv, ShapeInv, MazeTypeOK
<1>4. CASE AddFruit
  <2>1. PICK i \in Points \ fruit : fruit' = fruit \cup {i}
    BY <1>4 DEF AddFruit
  <2>2. Cardinality(fruit') = n_fruits'
    BY <2>1, <1>3, <1>4, FS_AddElement DEF AddFruit, MazeInv, PlaceInv
  <2>3. n_fruits' \in 0 .. start_fruits
    BY <1>4, MazeAssumption DEF AddFruit, MazeInv, ShapeInv, MazeTypeOK
  <2>4. ShapeInv'
    BY <2>1, <2>3, <1>1, <1>4 DEF AddFruit, MazeInv, ShapeInv, MazeTypeOK
  <2>5. PlaceInv'
    BY <2>2, <1>1, <1>4, SameWalls DEF AddFruit, MazeInv, PlaceInv
  <2> QED BY <1>2, <2>4, <2>5 DEF MazeInv
<1>5. CASE PlaceExit
  <2>1. exit' \in ExitPoints /\ exit' \in OddX \X OddY
    BY <1>5 DEF PlaceExit, ExitPoints
  <2>2. ShapeInv'
    BY <2>1, <1>1, <1>5 DEF PlaceExit, MazeInv, ShapeInv, MazeTypeOK
  <2>3. PlaceInv'
    BY <2>1, <1>1, <1>5, SameWalls DEF PlaceExit, ExitPoints, MazeInv, PlaceInv
  <2> QED BY <1>2, <2>2, <2>3 DEF MazeInv
<1> QED BY <1>4, <1>5

\* Every step of make_maze keeps MazeInv.
THEOREM MazeInductive == MazeSpec => []MazeInv
<1>1. MazeInv /\ [MazeNext]_mazeVars => MazeInv'
  <2> SUFFICES ASSUME MazeInv, [MazeNext]_mazeVars PROVE MazeInv'
    OBVIOUS
  <2>1. CASE UNCHANGED mazeVars
    <3>1. ShapeInv' /\ WormInv' /\ QueueInv'
      BY <2>1, SameWalls DEF mazeVars, MazeInv, ShapeInv, MazeTypeOK, WormInv, QueueInv
    <3>2. SearchInv'
      BY <2>1, SameWalls DEF mazeVars, MazeInv, SearchInv, Unexplored
    <3>3. PlaceInv'
      BY <2>1, SameWalls DEF mazeVars, MazeInv, PlaceInv, ExitPoints
    <3> QED BY <3>1, <3>2, <3>3 DEF MazeInv
  <2> QED BY <2>1, PickKeeps, WormStepKeeps, WormTurnsKeeps, MarkStepKeeps, MarkEndsKeeps,
             ConnectKeeps, PlaceKeeps DEF MazeNext
<1> QED BY MazeInitInv, <1>1, PTL DEF MazeSpec

\* The counts, the lattice, the marks and the queue of make_maze agree with the
\* maze at every step, for every size of maze.
THEOREM BookkeepingIsExact == MazeSpec => []BookkeepingExact
<1>1. MazeInv => BookkeepingExact
  <2> SUFFICES ASSUME MazeInv PROVE BookkeepingExact
    OBVIOUS
  <2>1. MazeTypeOK
    BY DEF MazeInv, ShapeInv
  <2>2. RemainingExact
    BY DEF MazeInv, WormInv, SearchInv, RemainingExact
  <2>3. LatticeKept
    BY DugLattice DEF MazeInv, WormInv
  <2>4. ReachExact
    BY ClosedIsAll DEF MazeInv, SearchInv, ReachExact
  <2>5. QueueFits
    <3>1. q \in Seq(Points) /\ Len(q) \in Nat /\ q \in [1 .. Len(q) -> Points]
      BY LenProperties DEF MazeInv, ShapeInv
    <3> DEFINE S == {q[i] : i \in 1 .. Len(q)}
    <3>2. DOMAIN q = 1 .. Len(q) /\ S \in SUBSET Points
      BY <3>1
    <3>3. q \in Seq(S)
      <4>1. q \in [1 .. Len(q) -> S]
        BY <3>1
      <4> QED BY <4>1, <3>1, IsASeq
    <3>4. Lists(q, S)
      BY <3>3 DEF Lists, MazeInv, QueueInv
    <3> HIDE DEF S
    <3>5. Cardinality(S) = Len(q)
      BY <3>4, ListCount
    <3>6. Cardinality(S) <= Cardinality(Points)
      BY <3>2, PointsCount, FS_Subset
    <3> QED BY <3>2, <3>5, <3>6, PointsCount DEF QueueFits, S
  <2> QED BY <2>1, <2>2, <2>3, <2>4, <2>5 DEF BookkeepingExact
<1> QED BY MazeInductive, <1>1, PTL

\* What make_maze promises holds whatever the worms did: every point can be
\* reached from (1,1), no marker is left, the fruits are placed, and the exit
\* is on a point without one.
THEOREM MazeIsMade == MazeSpec => []MazeMade
<1>1. MazeInv => MazeMade
  <2> SUFFICES ASSUME MazeInv, phase = "done" PROVE MazeMade
    BY DEF MazeMade
  <2>1. MAZE_INDEX(exit[1], exit[2]) \in Points \ fruit
    BY DEF MazeInv, PlaceInv, ExitPoints, Points
  <2> QED BY <2>1 DEF MazeInv, PlaceInv, MazeMade
<1> QED BY MazeInductive, <1>1, PTL

\* The squares of the finished maze as the game sees them.
OpenSquares ==
  {p \in (1 .. Width - 1) \X (1 .. 2 * maze_y_dim - 1) : MAZE_INDEX(p[1], p[2]) \notin wall}
FruitSquares == {p \in OddX \X OddY : MAZE_INDEX(p[1], p[2]) \in fruit}

\* The game is given what it relies on (GameAssumption): in every maze that
\* make_maze builds the player starts on an open square, the fruits are finite
\* in number and in the open, and so is the exit, which none of them hides.
THEOREM MazeIsPlayable ==
  MazeSpec => [](phase = "done" => Playable(OpenSquares, FruitSquares, exit))
<1>1. MazeInv => (phase = "done" => Playable(OpenSquares, FruitSquares, exit))
  <2> SUFFICES ASSUME MazeInv, phase = "done" PROVE Playable(OpenSquares, FruitSquares, exit)
    OBVIOUS
  <2>1. Points \cap wall = {} /\ exit \in ExitPoints
    BY DEF MazeInv, WormInv, PlaceInv
  <2>2. Width \in Nat /\ 2 * maze_y_dim \in Nat
    BY WidthIs, MazeAssumption
  <2>3. OpenSquares \subseteq Nat \X Nat
    BY <2>2 DEF OpenSquares
  <2>4. ASSUME NEW p \in OddX \X OddY PROVE p \in OpenSquares
    <3>1. p[1] \in OddX /\ p[2] \in OddY /\ p = <<p[1], p[2]>>
      OBVIOUS
    <3>2. p[1] \in 1 .. Width - 1 /\ p[2] \in 1 .. 2 * maze_y_dim - 1
      BY <3>1, OddIs
    <3>3. MAZE_INDEX(p[1], p[2]) \in Points
      BY <3>1 DEF Points
    <3> QED BY <3>1, <3>2, <3>3, <2>1 DEF OpenSquares
  <2>5. <<1, 1>> \in OpenSquares
    BY <2>4, OddIs
  <2>6. FruitSquares \subseteq OpenSquares
    BY <2>4 DEF FruitSquares
  <2>7. IsFiniteSet(FruitSquares)
    <3>1. IsFiniteSet(1 .. Width - 1) /\ IsFiniteSet(1 .. 2 * maze_y_dim - 1)
      BY <2>2, FS_Interval, Width - 1 \in Int, 2 * maze_y_dim - 1 \in Int
    <3>2. OddX \in SUBSET (1 .. Width - 1) /\ OddY \in SUBSET (1 .. 2 * maze_y_dim - 1)
      BY OddIs
    <3>3. IsFiniteSet(OddX) /\ IsFiniteSet(OddY)
      BY <3>1, <3>2, FS_Subset
    <3>4. IsFiniteSet(OddX \X OddY) /\ FruitSquares \in SUBSET (OddX \X OddY)
      BY <3>3, FS_Product DEF FruitSquares
    <3> QED BY <3>4, FS_Subset
  <2>8. exit \in OpenSquares \ FruitSquares
    BY <2>1, <2>4 DEF ExitPoints, FruitSquares
  <2> QED BY <2>3, <2>5, <2>6, <2>7, <2>8 DEF Playable
<1> QED BY MazeInductive, <1>1, PTL

=============================================================================
