------------------------------ MODULE MazeGame ------------------------------
(***************************************************************************)
(* The three threads of src/mp2/mazegame.c and the state they share.       *)
(* rtc_thread runs the levels, moves the player a pixel per tick and polls *)
(* the Tux buttons into cmd without the mutex; keyboard_thread turns the   *)
(* bytes of stdin, which never blocks, into next_dir and quit_flag;        *)
(* tux_thread sleeps on cv until cmd is set.  A stretch of code between    *)
(* lock and unlock that touches nothing another thread writes outside the  *)
(* lock is one action, enabled when the mutex is free.                     *)
(***************************************************************************)
EXTENDS Integers, FiniteSets, Sequences

CONSTANTS
    BLOCK_DIM,      \* BLOCK_X_DIM = BLOCK_Y_DIM
    MAX_LEVEL,
    MAX_TICKS,      \* ticks handled after one read of the RTC (8)
    MAX_SPURIOUS,   \* bound on wakeups from pthread_cond_wait without a signal
    Open,           \* open squares of a maze that make_maze built
    FruitAt, ExitAt,
    Buttons,        \* directions the Tux buttons can give; "none", "several"
    Keys            \* what is typed: directions, "quit", "plain"

Dirs == {"up", "right", "down", "left"}

\* What the game relies on in the maze that make_maze leaves: its open squares,
\* those with a fruit, and the exit.
Playable(open, fruits, way_out) ==
    /\ open \subseteq Nat \X Nat /\ IsFiniteSet(fruits)
    /\ <<1, 1>> \in open /\ fruits \subseteq open /\ way_out \in open \ fruits

ASSUME GameAssumption ==
    /\ BLOCK_DIM \in Nat \ {0} /\ MAX_LEVEL \in Nat \ {0} /\ MAX_TICKS \in Nat \ {0}
    /\ MAX_SPURIOUS \in Nat
    /\ Playable(Open, FruitAt, ExitAt)
    /\ Buttons \subseteq Dirs \cup {"none", "several"} /\ "none" \in Buttons
    /\ Keys \subseteq Dirs \cup {"quit", "plain"}

VARIABLES
    quit_flag, winner, next_dir, dir, play, move_cnt, cmd,
    level, ticks, goto_next_level,
    uneaten,        \* squares with MAZE_FRUIT
    fruits_left,    \* n_fruits of maze.c
    rpc,            \* rtc_thread
    kpc, state,     \* keyboard_thread and its escape sequence state
    tty,            \* bytes of stdin not read yet
    tpc,            \* tux_thread: "loop" | "lock" | "test" | "wait" | "waiting" | "woken" | "switch" | "end"
    mtx,            \* TRUE while tux_thread holds the mutex
    spurious,       \* wakeups without a signal so far
    over            \* main has joined both threads

shared == <<quit_flag, winner, next_dir, cmd>>
player == <<dir, play, move_cnt, uneaten, fruits_left>>
rtc    == <<level, ticks, goto_next_level, rpc>>
kbd    == <<kpc, state, tty>>
tux    == <<tpc, mtx, spurious>>
vars   == <<shared, player, rtc, kbd, tux, over>>

Delta == [up |-> <<0, -1>>, right |-> <<1, 0>>, down |-> <<0, 1>>, left |-> <<-1, 0>>,
          stop |-> <<0, 0>>]
Opposite == [up |-> "down", down |-> "up", left |-> "right", right |-> "left", stop |-> "none"]
Square == <<play[1] \div BLOCK_DIM, play[2] \div BLOCK_DIM>>

\* The threads have just been created; next_dir = UP is the key code 65.
Init ==
    /\ quit_flag = FALSE /\ winner = FALSE /\ next_dir = "stop" /\ cmd = "none"
    /\ dir = "stop" /\ play = <<BLOCK_DIM, BLOCK_DIM>> /\ move_cnt = 0
    /\ uneaten = {} /\ fruits_left = 0
    /\ level = 1 /\ ticks = 0 /\ goto_next_level = FALSE /\ rpc = "level"
    /\ kpc = "loop" /\ state = 0 /\ tty = <<>>
    /\ tpc = "loop" /\ mtx = FALSE /\ spurious = 0
    /\ over = FALSE

-----------------------------------------------------------------------------
(* rtc_thread.                                                              *)

\* check_for_fruit and check_for_win, called by unveil_around_player.
Eaten(f, p) == f \ {p}
Win(f, n, p) == n = 0 /\ p = ExitAt

\* The head of the level loop: prepare_maze_level, the player at (1,1),
\* stopped; next_dir is reset without the mutex.
StartLevel ==
    /\ rpc = "level" /\ level <= MAX_LEVEL /\ ~quit_flag
    /\ goto_next_level' = FALSE
    /\ play' = <<BLOCK_DIM, BLOCK_DIM>> /\ move_cnt' = 0
    /\ dir' = "stop" /\ next_dir' = "stop"
    /\ uneaten' = Eaten(FruitAt, <<1, 1>>) /\ fruits_left' = Cardinality(Eaten(FruitAt, <<1, 1>>))
    /\ rpc' = "read"
    /\ UNCHANGED <<quit_flag, winner, cmd, level, ticks, kbd, tux, over>>

\* The loop over levels ends: the player has won unless quit_flag is set.
RtcEnd ==
    /\ rpc = "level" /\ (level > MAX_LEVEL \/ quit_flag)
    /\ winner' = ~quit_flag
    /\ rpc' = "end"
    /\ UNCHANGED <<quit_flag, next_dir, cmd, player, level, ticks, goto_next_level, kbd, tux, over>>

\* The loop of one level: read the RTC, which says how many ticks have gone
\* by, or leave.
ReadRtc ==
    /\ rpc = "read" /\ ~quit_flag /\ ~goto_next_level
    /\ ticks' \in 1 .. MAX_TICKS
    /\ rpc' = "poll"
    /\ UNCHANGED <<shared, player, level, goto_next_level, kbd, tux, over>>

LeaveLevel ==
    /\ rpc = "read" /\ (quit_flag \/ goto_next_level)
    /\ level' = level + 1
    /\ rpc' = "level"
    /\ UNCHANGED <<shared, player, ticks, goto_next_level, kbd, tux, over>>

\* ioctl(fd_tux, TUX_BUTTONS, &cmd): the buttons now pressed, mutex or not.
PollButtons ==
    /\ rpc = "poll" /\ ticks > 0
    /\ cmd' \in Buttons
    /\ rpc' = "signal"
    /\ UNCHANGED <<quit_flag, winner, next_dir, player, level, ticks, goto_next_level, kbd, tux, over>>

\* Mutant: the condition is signalled without the mutex.
SignalTux_unlocked ==
    /\ rpc = "signal"
    /\ tpc' = IF cmd # "none" /\ tpc = "waiting" THEN "woken" ELSE tpc
    /\ rpc' = "decide"
    /\ UNCHANGED <<shared, player, level, ticks, goto_next_level, kbd, mtx, spurious, over>>

\* Under the mutex, wake the tux thread if a button is pressed.
SignalTux ==
    /\ rpc = "signal" /\ ~mtx
    /\ tpc' = IF cmd # "none" /\ tpc = "waiting" THEN "woken" ELSE tpc
    /\ rpc' = "decide"
    /\ UNCHANGED <<shared, player, level, ticks, goto_next_level, kbd, mtx, spurious, over>>

\* find_open_directions at the player's square.
OpenDir(d) == <<Square[1] + Delta[d][1], Square[2] + Delta[d][2]>> \in Open

\* Mutant: the count is kept.
Turned_kept ==
    IF next_dir = Opposite[dir] THEN <<next_dir, move_cnt>> ELSE <<dir, move_cnt>>

\* A key for the opposite direction takes effect between two squares: the
\* pixels left to go are then the ones already gone.
Turned ==
    IF next_dir = Opposite[dir]
    THEN <<next_dir, IF move_cnt > 0 THEN BLOCK_DIM - move_cnt ELSE 0>>
    ELSE <<dir, move_cnt>>

\* On a square, the new direction if it is open; open[DIR_STOP] lies behind
\* the array, but then dir is DIR_STOP too.
Chosen(d) ==
    IF next_dir \in Dirs /\ OpenDir(next_dir) THEN next_dir ELSE d

Running(d) == IF d \in Dirs /\ OpenDir(d) THEN d ELSE "stop"

\* The second stretch under the mutex: direction, unveiling, win.
Decide ==
    LET d == Turned[1]
        f == Eaten(uneaten, Square)
        n == IF Square \in uneaten THEN fruits_left - 1 ELSE fruits_left
        r == Running(Chosen(d))
    IN  /\ rpc = "decide" /\ ~mtx
        /\ IF Turned[2] # 0
           THEN /\ dir' = d /\ move_cnt' = Turned[2] /\ rpc' = "move"
                /\ UNCHANGED <<uneaten, fruits_left, goto_next_level>>
           ELSE /\ uneaten' = f /\ fruits_left' = n
                /\ IF Win(f, n, Square)
                   THEN /\ goto_next_level' = TRUE /\ rpc' = "frame"
                        /\ dir' = d /\ move_cnt' = 0
                   ELSE /\ dir' = r
                        /\ move_cnt' = IF r = "stop" THEN 0 ELSE BLOCK_DIM
                        /\ rpc' = "move" /\ UNCHANGED goto_next_level
        /\ UNCHANGED <<shared, play, level, ticks, kbd, tux, over>>

\* move_up, move_right, move_down, move_left, and the next tick.
MovePlayer ==
    /\ rpc = "move"
    /\ play' = <<play[1] + Delta[dir][1], play[2] + Delta[dir][2]>>
    /\ move_cnt' = IF dir = "stop" THEN move_cnt ELSE move_cnt - 1
    /\ ticks' = ticks - 1
    /\ rpc' = IF ticks = 1 THEN "frame" ELSE "poll"
    /\ UNCHANGED <<shared, dir, uneaten, fruits_left, level, goto_next_level, kbd, tux, over>>

\* The frame is drawn (module Display).
DrawFrame ==
    /\ rpc = "frame"
    /\ rpc' = "read"
    /\ UNCHANGED <<shared, player, level, ticks, goto_next_level, kbd, tux, over>>

-----------------------------------------------------------------------------
(* keyboard_thread.                                                         *)

\* A key puts its bytes into stdin: an arrow is 27, 91 and 65 to 68.  "plain"
\* stands for the characters '[' and 'D' (91 and 68) typed after each other.
KeyTyped(k) ==
    /\ tty = <<>> /\ ~over
    /\ tty' = IF k \in Dirs THEN <<"esc", "[", k>>
              ELSE IF k = "plain" THEN <<"[", "left">> ELSE <<k>>
    /\ UNCHANGED <<shared, player, rtc, kpc, state, tux, over>>

\* getc on the non-blocking stdin: the next byte, or EOF ("eof").
GetC == IF tty = <<>> THEN "eof" ELSE Head(tty)

\* The escape sequence state after a byte.
NextState(key) ==
    IF key = "esc" THEN 1 ELSE IF key = "[" /\ state = 1 THEN 2 ELSE 0

\* One turn of the loop.  An arrow that is complete needs the mutex.
KeyLoop ==
    LET key   == GetC
        arrow == key \in Dirs /\ state = 2
    IN  /\ kpc = "loop" /\ ~winner
        /\ arrow => ~mtx
        /\ tty' = IF tty = <<>> THEN tty ELSE Tail(tty)
        /\ quit_flag' = (quit_flag \/ key = "quit")
        /\ kpc' = IF key = "quit" THEN "end" ELSE "loop"
        /\ state' = IF key = "quit" THEN state ELSE NextState(key)
        /\ next_dir' = IF arrow THEN key ELSE next_dir
        /\ UNCHANGED <<winner, cmd, player, rtc, tux, over>>

KeyEnd ==
    /\ kpc = "loop" /\ winner
    /\ kpc' = "end"
    /\ UNCHANGED <<shared, player, rtc, state, tty, tux, over>>

-----------------------------------------------------------------------------
(* tux_thread.                                                              *)

TuxStays == UNCHANGED <<quit_flag, winner, cmd, player, rtc, kbd, over>>

TuxLoop ==
    /\ tpc = "loop"
    /\ tpc' = IF quit_flag \/ winner THEN "end" ELSE "lock"
    /\ UNCHANGED <<mtx, spurious, next_dir>> /\ TuxStays

TuxLock ==
    /\ tpc \in {"lock", "woken"} /\ ~mtx
    /\ mtx' = TRUE /\ tpc' = "test"
    /\ UNCHANGED <<spurious, next_dir>> /\ TuxStays

\* The test of the inner loop.  cmd is read again in the switch, and may have
\* changed in between.
TuxTest ==
    /\ tpc = "test"
    /\ tpc' = IF cmd = "none" THEN "wait" ELSE "switch"
    /\ UNCHANGED <<mtx, spurious, next_dir>> /\ TuxStays

\* Mutant: the mutex is kept while waiting.
TuxWait_holding ==
    /\ tpc = "wait"
    /\ tpc' = "waiting"
    /\ UNCHANGED <<mtx, spurious, next_dir>> /\ TuxStays

\* pthread_cond_wait gives up the mutex.
TuxWait ==
    /\ tpc = "wait"
    /\ mtx' = FALSE /\ tpc' = "waiting"
    /\ UNCHANGED <<spurious, next_dir>> /\ TuxStays

TuxSpurious ==
    /\ tpc = "waiting" /\ spurious < MAX_SPURIOUS
    /\ tpc' = "woken" /\ spurious' = spurious + 1
    /\ UNCHANGED <<mtx, next_dir>> /\ TuxStays

TuxSwitch ==
    /\ tpc = "switch"
    /\ next_dir' = IF cmd \in Dirs THEN cmd ELSE next_dir
    /\ mtx' = FALSE /\ tpc' = "loop"
    /\ UNCHANGED spurious /\ TuxStays

-----------------------------------------------------------------------------
(* main: both threads joined, the tux thread cancelled, mode X left.        *)

MainEnds ==
    /\ rpc = "end" /\ kpc = "end" /\ ~over
    /\ over' = TRUE
    /\ UNCHANGED <<shared, player, rtc, kbd, tux>>

Rtc == \/ StartLevel \/ RtcEnd \/ ReadRtc \/ LeaveLevel \/ PollButtons
       \/ SignalTux \/ Decide \/ MovePlayer \/ DrawFrame
Keyboard == KeyLoop \/ KeyEnd
Tux == TuxLoop \/ TuxLock \/ TuxTest \/ TuxWait \/ TuxSwitch

Next ==
    \/ /\ ~over
       /\ \/ Rtc \/ Keyboard \/ Tux \/ TuxSpurious \/ \E k \in Keys : KeyTyped(k)
    \/ MainEnds

\* Each thread runs on; the RTC keeps interrupting.
Spec == /\ Init /\ [][Next]_vars
        /\ WF_vars(~over /\ Rtc) /\ WF_vars(~over /\ Keyboard)
        /\ WF_vars(~over /\ Tux) /\ WF_vars(MainEnds)

-----------------------------------------------------------------------------
(* Properties.                                                              *)

TypeOK ==
    /\ next_dir \in Dirs \cup {"stop"} /\ dir \in Dirs \cup {"stop"} /\ cmd \in Buttons
    /\ move_cnt \in 0 .. BLOCK_DIM /\ level \in 1 .. MAX_LEVEL + 1
    /\ ticks \in 0 .. MAX_TICKS /\ state \in 0 .. 2 /\ Len(tty) <= 3
    /\ fruits_left \in 0 .. Cardinality(FruitAt)

Aligned(p) == p[1] % BLOCK_DIM = 0 /\ p[2] % BLOCK_DIM = 0

\* "move_cnt tracks moves remaining between maze squares.  When not moving,
\* it should be 0" (mazegame.c 458-459): a square lies exactly move_cnt
\* pixels ahead, through any sequence of turns in mid-corridor.
MoveCounted ==
    /\ Aligned(<<play[1] + move_cnt * Delta[dir][1], play[2] + move_cnt * Delta[dir][2]>>)
    /\ dir = "stop" => move_cnt = 0

\* No pixel of the player is ever inside a wall.
NeverInWall ==
    \A dx, dy \in {0, BLOCK_DIM - 1} :
        <<(play[1] + dx) \div BLOCK_DIM, (play[2] + dy) \div BLOCK_DIM>> \in Open

\* The wakeup is not lost although cmd is written outside the mutex: once
\* rtc_thread has passed its signal with a button pressed, tux_thread does
\* not sleep.
WakeupNotLost ==
    rpc = "decide" /\ cmd # "none" => tpc # "waiting"

\* The player only ever turns to a direction that an arrow key or a button
\* gave: the bytes of an arrow typed one by one as characters do nothing.
ArrowOnly == next_dir \in Keys \cup Buttons \cup {"stop"}

\* The player leaves a level by its exit, with every fruit eaten, or by
\* quitting; winner is set only after the last level.
LevelWon ==
    /\ goto_next_level => uneaten = {} /\ play = <<ExitAt[1] * BLOCK_DIM, ExitAt[2] * BLOCK_DIM>>
    /\ winner => level > MAX_LEVEL

\* A quit ends the program, whatever the threads were doing: no thread is
\* left in a lock or asleep where main would wait for it.
QuitEnds == quit_flag ~> over

\* So does winning the last level: keyboard_thread leaves its loop by winner,
\* without a key being typed, and tux_thread ends with the process.
WinEnds == winner ~> over

\* Through any interleaving of the three threads the player keeps to the
\* corridors, turns only where he was told to and leaves a level as he should.
PlayerKept == TypeOK /\ MoveCounted /\ NeverInWall /\ ArrowOnly /\ LevelWon

\* The program ends once the game is quit or won.
GameEnds == QuitEnds /\ WinEnds

=============================================================================
