------------------------------ MODULE Display ------------------------------
(***************************************************************************)
(* The scrolling display of the maze game: the build buffer and the mode X *)
(* video memory of src/mp2/modex.c, the panning and the per-tick drawing   *)
(* of src/mp2/mazegame.c and the maze images of src/mp2/maze.c.            *)
(*                                                                         *)
(* Screen memory is kept byte by byte, because the arithmetic on addresses *)
(* is what can go wrong: four planes in reverse order in one buffer, a     *)
(* window that drifts through the buffer and is moved back by an           *)
(* overlapping copy, two video pages behind a status bar.  A byte is the   *)
(* number of the picture and of the pixel in it.  SCROLL_Y_DIM is a macro  *)
(* without parentheses, IMAGE_Y_DIM - STATUS_BAR_HEIGHT, and is expanded   *)
(* here as the preprocessor expands it.                                    *)
(***************************************************************************)
EXTENDS Integers, FiniteSets, Sequences, SequencesExt

CONSTANTS
    SCROLL_X_WIDTH,         \* bytes in one row of one plane
    SCROLL_ROWS,            \* IMAGE_Y_DIM - STATUS_BAR_HEIGHT
    FONT_WIDTH, FONT_HEIGHT,
    EXTRA,                  \* spare bytes of the build buffer (20000)
    MEM_FENCE_WIDTH,
    PAGE,                   \* the bit of target_img that show_screen flips
    BLOCK_DIM,              \* BLOCK_X_DIM = BLOCK_Y_DIM
    PAN_BORDER, SHOW_MIN,
    maze_x_dim, maze_y_dim,
    MAX_LEVEL,
    MAX_TICKS,              \* ticks handled in one pass (8)
    MAX_MOVES,              \* bound on the one-pixel moves of a game
    Open,                   \* the open squares of the maze make_maze built
    FruitAt, ExitAt         \* where it put the fruits and the exit

ASSUME DisplayAssumption ==
    /\ {SCROLL_X_WIDTH, SCROLL_ROWS, FONT_WIDTH, FONT_HEIGHT, PAGE, BLOCK_DIM,
        MAX_LEVEL, MAX_TICKS, MAX_MOVES, maze_x_dim, maze_y_dim} \subseteq Nat \ {0}
    /\ {EXTRA, MEM_FENCE_WIDTH, PAN_BORDER, SHOW_MIN} \subseteq Nat
    /\ (4 * SCROLL_X_WIDTH) % FONT_WIDTH = 0

VARIABLES
    pc,             \* "level" | "first" | "wait" | "move" | "over"
    level,
    build,          \* the build buffer, fences included
    img3_off,
    show,           \* <<show_x, show_y>>, also game_info.map_x and map_y
    g_mask,         \* the background under the player
    vram,           \* video memory, one function per plane
    target_img,
    play,           \* <<play_x, play_y>>
    reach, fruit,   \* maze squares with MAZE_REACH, with a fruit (indices)
    n_fruits,
    bar,            \* what the last fill_status_bar wrote
    ticks,
    won,            \* goto_next_level
    moves           \* one-pixel moves so far (bounds the model)

vars == <<pc, level, build, img3_off, show, g_mask, vram, target_img, play,
          reach, fruit, n_fruits, bar, ticks, won, moves>>

-----------------------------------------------------------------------------
(* Sizes (modex.h 51-57, modex.c 69-72).                                    *)

STATUS_BAR_HEIGHT == FONT_HEIGHT + 2
IMAGE_Y_DIM  == SCROLL_ROWS + STATUS_BAR_HEIGHT
SCROLL_X_DIM == 4 * SCROLL_X_WIDTH
NUM_CHARS    == SCROLL_X_DIM \div FONT_WIDTH
PX_PER_PLANE_SB == SCROLL_X_WIDTH * STATUS_BAR_HEIGHT

\* SCROLL_X_WIDTH * IMAGE_Y_DIM - STATUS_BAR_HEIGHT, as the macro expands.
SCROLL_SIZE     == SCROLL_X_WIDTH * IMAGE_Y_DIM - STATUS_BAR_HEIGHT
SCREEN_SIZE     == SCROLL_SIZE * 4 + 1
BUILD_BUF_SIZE  == SCREEN_SIZE + EXTRA
BUILD_BASE_INIT == (BUILD_BUF_SIZE - SCREEN_SIZE) \div 2

\* Values of a byte that are not a pixel of the maze.
MEM_FENCE_MAGIC == -1
UNKNOWN         == -2          \* whatever lies behind the build buffer
PlayerPixel(dx, dy) == -3 - dy * BLOCK_DIM - dx
Opaque == {p \in (0 .. BLOCK_DIM - 1) \X (0 .. BLOCK_DIM - 1) : p # <<0, 0>>}

BuildIdx == -MEM_FENCE_WIDTH .. BUILD_BUF_SIZE + MEM_FENCE_WIDTH - 1
FenceIdx == BuildIdx \ (0 .. BUILD_BUF_SIZE - 1)
VramIdx  == 0 .. PX_PER_PLANE_SB + PAGE + SCROLL_X_WIDTH * IMAGE_Y_DIM - 1

-----------------------------------------------------------------------------
(* The maze (maze.c).                                                       *)

MAZE_INDEX(x, y) == x + (y + 1) * maze_x_dim * 2

\* The picture of a square: the exit, mist (with or without a bump), a fruit,
\* or the open space or wall that the (constant) layout gives that index.
find_block(r, f, n, x, y) ==
    LET i    == MAZE_INDEX(x, y)
        kind == IF n = 0 /\ i = MAZE_INDEX(ExitAt[1], ExitAt[2]) THEN 0
                ELSE IF i \notin r THEN IF i \in f THEN 1 ELSE 2
                ELSE IF i \in f THEN 3 ELSE 4
    IN  IF kind < 4 THEN kind ELSE 4 + i

PixelOf(blk, sub_x, sub_y) ==
    (blk * BLOCK_DIM + sub_y) * BLOCK_DIM + sub_x + 1

fill_horiz_buffer(r, f, n, x, y) ==
    LET sub_x == x % BLOCK_DIM
    IN  [idx \in 0 .. SCROLL_X_DIM - 1 |->
            PixelOf(find_block(r, f, n, x \div BLOCK_DIM + (sub_x + idx) \div BLOCK_DIM,
                               y \div BLOCK_DIM),
                    (sub_x + idx) % BLOCK_DIM, y % BLOCK_DIM)]

fill_vert_buffer(r, f, n, x, y) ==
    LET sub_y == y % BLOCK_DIM
    IN  [idx \in 0 .. SCROLL_ROWS - 1 |->
            PixelOf(find_block(r, f, n, x \div BLOCK_DIM,
                               y \div BLOCK_DIM + (sub_y + idx) \div BLOCK_DIM),
                    x % BLOCK_DIM, (sub_y + idx) % BLOCK_DIM)]

-----------------------------------------------------------------------------
(* The build buffer (modex.c).  An operator takes the buffer b, the offset  *)
(* off and the window w and returns the buffer after the call.              *)

\* The byte of pixel (x, y) of the logical view.
PixelAddr(off, x, y) ==
    off + x \div 4 + y * SCROLL_X_WIDTH + (3 - (x % 4)) * SCROLL_SIZE

\* b after storing val[i] at address addr[i], for each i; an address outside
\* the buffer would enlarge its domain.
Store(b, addr, val) ==
    LET hit == {addr[i] : i \in DOMAIN addr}
    IN  [a \in DOMAIN b \cup hit |->
            IF a \in hit THEN val[CHOOSE i \in DOMAIN addr : addr[i] = a] ELSE b[a]]

draw_horiz_line(b, off, w, y, buf) ==
    LET p_off == 3 - (w[1] % 4)
        addr  == [i \in 0 .. SCROLL_X_DIM - 1 |->
                    off + w[1] \div 4 + (w[2] + y) * SCROLL_X_WIDTH
                        + (i + 3 - p_off) \div 4 + ((p_off - i) % 4) * SCROLL_SIZE]
    IN  IF y < 0 \/ y >= SCROLL_ROWS THEN b ELSE Store(b, addr, buf)

draw_vert_line(b, off, w, x, buf) ==
    LET addr == [i \in 0 .. SCROLL_ROWS - 1 |->
                    off + (w[1] + x) \div 4 + w[2] * SCROLL_X_WIDTH
                        + (3 - ((w[1] + x) % 4)) * SCROLL_SIZE + i * SCROLL_X_WIDTH]
    IN  IF x < 0 \/ x >= SCROLL_X_DIM THEN b ELSE Store(b, addr, buf)

\* The part of a block at pos that lies in the window w: columns and rows.
ClipLo(pos, w)        == IF w - pos < 0 THEN 0 ELSE w - pos
ClipHi(pos, w, width) == IF w + width - pos > BLOCK_DIM THEN BLOCK_DIM ELSE w + width - pos
Clip(pos, w) ==
    (ClipLo(pos[1], w[1]) .. ClipHi(pos[1], w[1], SCROLL_X_DIM) - 1) \X
    (ClipLo(pos[2], w[2]) .. ClipHi(pos[2], w[2], SCROLL_ROWS) - 1)

\* blk is a block image, row by row.
draw_full_block(b, off, w, pos, blk) ==
    LET pts == Clip(pos, w)
    IN  Store(b, [p \in pts |-> PixelAddr(off, pos[1] + p[1], pos[2] + p[2])],
                 [p \in pts |-> blk[p[2] * BLOCK_DIM + p[1]]])

\* Place of pixel p of a clipped block in the bytes the loop walks through
\* one after the other (the saved background and the mask of the player).
Nth(pos, w, p) ==
    LET xl == ClipLo(pos[1], w[1])
        xr == ClipHi(pos[1], w[1], SCROLL_X_DIM)
    IN  (p[2] - ClipLo(pos[2], w[2])) * (xr - xl) + p[1] - xl

Drawn(pos, w, p) ==
    \E q \in Opaque : q[2] * BLOCK_DIM + q[1] = Nth(pos, w, p)

draw_mask_block(b, off, w, pos) ==
    LET pts == {p \in Clip(pos, w) : Drawn(pos, w, p)}
    IN  Store(b, [p \in pts |-> PixelAddr(off, pos[1] + p[1], pos[2] + p[2])],
                 [p \in pts |-> PlayerPixel(p[1], p[2])])

saved_background(b, off, w, pos) ==
    LET pts == Clip(pos, w)
    IN  Store(g_mask, [p \in pts |-> Nth(pos, w, p)],
                      [p \in pts |-> b[PixelAddr(off, pos[1] + p[1], pos[2] + p[2])]])

\* set_view_window: does window w fit where the buffer stands, and are the
\* old window o and the new one apart (the unparenthesised macro subtracts
\* IMAGE_Y_DIM and STATUS_BAR_HEIGHT both)?
Fits(off, w) ==
    /\ off + w[1] \div 4 + w[2] * SCROLL_X_WIDTH >= 0
    /\ off + 3 * SCROLL_SIZE + (w[1] + SCROLL_X_DIM - 1) \div 4
           + (w[2] + SCROLL_ROWS - 1) * SCROLL_X_WIDTH < BUILD_BUF_SIZE

Apart(o, w) ==
    \/ w[1] <= o[1] - SCROLL_X_DIM \/ w[1] >= o[1] + SCROLL_X_DIM
    \/ w[2] <= o[2] - IMAGE_Y_DIM - STATUS_BAR_HEIGHT \/ w[2] >= o[2] + SCROLL_ROWS

\* A byte loop that copies n bytes from s to t, first byte first or last byte
\* first: where the areas overlap the wrong way it reads what it has written.
CopyUp(b, s, t, n) ==
    Store(b, [i \in 0 .. n - 1 |-> t + i],
             [i \in 0 .. n - 1 |-> b[s + IF t > s THEN i % (t - s) ELSE i]])

CopyDown(b, s, t, n) ==
    Store(b, [i \in 0 .. n - 1 |-> t + i],
             [i \in 0 .. n - 1 |->
                b[s + i + IF s > t THEN ((n - 1 - i) \div (s - t)) * (s - t) ELSE 0]])

view_offset(off, w) ==
    IF Fits(off, w) THEN off
    ELSE BUILD_BASE_INIT - w[1] \div 4 - w[2] * SCROLL_X_WIDTH

\* Mutant: the copy always runs forwards.
view_build_forwards(b, off, o, w) ==
    LET larger(i)  == IF w[i] > o[i] THEN w[i] ELSE o[i]
        smaller(i) == IF w[i] > o[i] THEN o[i] ELSE w[i]
        start_off  == larger(1) \div 4 + larger(2) * SCROLL_X_WIDTH
        length     == (smaller(1) + SCROLL_X_DIM - 1) \div 4
                        + (smaller(2) + SCROLL_ROWS - 1) * SCROLL_X_WIDTH
                        + 1 - start_off + 3 * SCROLL_SIZE
    IN  IF Fits(off, w) \/ Apart(o, w) THEN b
        ELSE CopyUp(b, off + start_off, view_offset(off, w) + start_off, length)

view_build(b, off, o, w) ==
    LET larger(i)  == IF w[i] > o[i] THEN w[i] ELSE o[i]
        smaller(i) == IF w[i] > o[i] THEN o[i] ELSE w[i]
        start_off  == larger(1) \div 4 + larger(2) * SCROLL_X_WIDTH
        length     == (smaller(1) + SCROLL_X_DIM - 1) \div 4
                        + (smaller(2) + SCROLL_ROWS - 1) * SCROLL_X_WIDTH
                        + 1 - start_off + 3 * SCROLL_SIZE
        start_addr  == off + start_off
        target_addr == view_offset(off, w) + start_off
    IN  IF Fits(off, w) \/ Apart(o, w) THEN b
        ELSE IF start_addr < target_addr
             THEN CopyDown(b, start_addr, target_addr, length)
             ELSE CopyUp(b, start_addr, target_addr, length)

-----------------------------------------------------------------------------
(* Video memory (modex.c).                                                  *)

\* copy_image moves a whole plane of IMAGE_Y_DIM rows, status bar rows
\* included, so it may read behind the build buffer.
copy_image(plane, b, src, scr_addr) ==
    [a \in VramIdx |->
        IF a \in scr_addr .. scr_addr + SCROLL_X_WIDTH * IMAGE_Y_DIM - 1
        THEN LET s == src + a - scr_addr IN IF s \in DOMAIN b THEN b[s] ELSE UNKNOWN
        ELSE plane[a]]

flip(target) == IF target >= PAGE THEN target - PAGE ELSE target + PAGE

\* Mutant: the planes behind the first one are not moved on by a byte.
show_screen_unshifted(b, off, w, target) ==
    LET p_off == 3 - (w[1] % 4)
        addr  == off + w[1] \div 4 + w[2] * SCROLL_X_WIDTH
    IN  [i \in 0 .. 3 |->
            copy_image(vram[i], b, addr + ((p_off - i + 4) % 4) * SCROLL_SIZE, target)]

\* Video memory after show_screen with buffer b, window w, page target.
show_screen(b, off, w, target) ==
    LET p_off == 3 - (w[1] % 4)
        addr  == off + w[1] \div 4 + w[2] * SCROLL_X_WIDTH
    IN  [i \in 0 .. 3 |->
            copy_image(vram[i], b,
                       addr + ((p_off - i + 4) % 4) * SCROLL_SIZE + (IF p_off < i THEN 1 ELSE 0),
                       target)]

\* The font, abstracted: character c lights pixel m of row r.
FontBit(c, r, m) == (c + r + m) % 3 = 0

\* ASCII_graphic_conversion: a blank row, the characters, a blank row, then
\* regrouped by planes.  str is a sequence of NUM_CHARS character codes.
pixel_buffer(str) ==
    [px \in 0 .. SCROLL_X_DIM * STATUS_BAR_HEIGHT - 1 |->
        LET row == px \div SCROLL_X_DIM - 1
            col == px % SCROLL_X_DIM
        IN  IF row \in 0 .. FONT_HEIGHT - 1
               /\ FontBit(str[col \div FONT_WIDTH + 1], row, col % FONT_WIDTH)
            THEN 1 ELSE 0]

ASCII_graphic_conversion(str) ==
    LET px == pixel_buffer(str)
    IN  [k \in 0 .. 4 * PX_PER_PLANE_SB - 1 |->
            px[4 * (k % PX_PER_PLANE_SB) + k \div PX_PER_PLANE_SB]]

\* The message: the level, the fruits, blanks (time and words abstracted).
message(lev, n) == [c \in 1 .. NUM_CHARS |-> IF c = 1 THEN lev ELSE IF c = 2 THEN n ELSE 9]

fill_status_bar(lev, n) ==
    LET plane_buffer == ASCII_graphic_conversion(message(lev, n))
    IN  [i \in 0 .. 3 |->
            [a \in VramIdx |-> IF a < PX_PER_PLANE_SB
                               THEN plane_buffer[i * PX_PER_PLANE_SB + a] ELSE vram[i][a]]]

-----------------------------------------------------------------------------
(* One square at a time: state s of the maze and of the buffer together.    *)

ImageOf(s, x, y) ==
    [k \in 0 .. BLOCK_DIM * BLOCK_DIM - 1 |->
        PixelOf(find_block(s.reach, s.fruit, s.n, x, y), k % BLOCK_DIM, k \div BLOCK_DIM)]

DrawSquare(s, off, w, x, y) ==
    draw_full_block(s.build, off, w, <<x * BLOCK_DIM, y * BLOCK_DIM>>, ImageOf(s, x, y))

unveil_space(s, off, w, x, y) ==
    LET i == MAZE_INDEX(x, y)
        t == [s EXCEPT !.reach = @ \cup {i}]
    IN  IF x < 0 \/ x > 2 * maze_x_dim \/ y < 0 \/ y > 2 * maze_y_dim \/ i \in s.reach
        THEN s
        ELSE [t EXCEPT !.build = DrawSquare(t, off, w, x, y)]

check_for_fruit(s, off, w, x, y) ==
    LET i == MAZE_INDEX(x, y)
        t == [s EXCEPT !.fruit = @ \ {i}, !.n = @ - 1]
        u == IF t.n = 0 THEN [t EXCEPT !.build = DrawSquare(t, off, w, ExitAt[1], ExitAt[2])] ELSE t
    IN  IF x < 0 \/ x >= 2 * maze_x_dim \/ y < 0 \/ y >= 2 * maze_y_dim \/ i \notin s.fruit
        THEN s
        ELSE [u EXCEPT !.build = DrawSquare(u, off, w, x, y)]

check_for_win(s, x, y) == s.n = 0 /\ <<x, y>> = ExitAt

Around(x, y) ==
    << <<x-1, y-1>>, <<x-1, y>>, <<x-1, y+1>>, <<x, y-1>>, <<x, y>>, <<x, y+1>>,
       <<x+1, y-1>>, <<x+1, y>>, <<x+1, y+1>>, <<x, y-2>>, <<x+2, y>>, <<x, y+2>>, <<x-2, y>> >>

unveil_around_player(s, off, w, p) ==
    LET x == p[1] \div BLOCK_DIM
        y == p[2] \div BLOCK_DIM
    IN  FoldLeft(LAMBDA t, q : unveil_space(t, off, w, q[1], q[2]),
                 check_for_fruit(s, off, w, x, y), Around(x, y))

-----------------------------------------------------------------------------
(* The game's use of the display (mazegame.c).                              *)

\* After set_mode_X: window at (0,0), buffer zeroed inside its fences, video
\* memory cleared; the threads have just been created.
Init ==
    /\ pc = "level" /\ level = 1
    /\ build = [a \in BuildIdx |-> IF a \in FenceIdx THEN MEM_FENCE_MAGIC ELSE 0]
    /\ img3_off = BUILD_BASE_INIT /\ show = <<0, 0>>
    /\ g_mask = [k \in 0 .. BLOCK_DIM * BLOCK_DIM - 1 |-> 0]
    /\ vram = [i \in 0 .. 3 |-> [a \in VramIdx |-> 0]]
    /\ target_img = PX_PER_PLANE_SB
    /\ play = <<BLOCK_DIM, BLOCK_DIM>>
    /\ reach = {} /\ fruit = {} /\ n_fruits = 0
    /\ bar = <<>> /\ ticks = 0 /\ won = FALSE /\ moves = 0

\* prepare_maze_level and the start of a level in rtc_thread: a new maze,
\* the view at its corner, every line drawn, the first squares unveiled, and
\* the screen shown once without the player.
StartLevel ==
    LET w == <<SHOW_MIN, SHOW_MIN>>
        off == view_offset(img3_off, w)
        f == {MAZE_INDEX(q[1], q[2]) : q \in FruitAt}
        lines == FoldLeft(LAMBDA b, i : draw_horiz_line(b, off, w, i - 1,
                            fill_horiz_buffer({}, f, Cardinality(f), w[1], w[2] + i - 1)),
                          view_build(build, img3_off, show, w),
                          [i \in 1 .. SCROLL_ROWS |-> i])
        s == unveil_around_player([build |-> lines, reach |-> {}, fruit |-> f, n |-> Cardinality(f)],
                                  off, w, <<BLOCK_DIM, BLOCK_DIM>>)
        masked == draw_mask_block(s.build, off, w, <<BLOCK_DIM, BLOCK_DIM>>)
    IN  /\ pc = "level" /\ level <= MAX_LEVEL
        /\ pc' = "first" /\ won' = FALSE
        /\ img3_off' = off /\ show' = w
        /\ play' = <<BLOCK_DIM, BLOCK_DIM>>
        /\ reach' = s.reach /\ fruit' = s.fruit /\ n_fruits' = s.n
        /\ target_img' = flip(target_img)
        /\ vram' = show_screen(s.build, off, w, flip(target_img))
        /\ g_mask' = saved_background(s.build, off, w, <<BLOCK_DIM, BLOCK_DIM>>)
        /\ build' = draw_full_block(masked, off, w, <<BLOCK_DIM, BLOCK_DIM>>, g_mask')
        /\ UNCHANGED <<level, bar, ticks, moves>>

\* A timer interrupt was read: the status bar is redrawn and data >> 8 says
\* how many ticks have to be handled.
Tick ==
    /\ pc \in {"first", "wait"}
    /\ pc' = "move"
    /\ vram' = fill_status_bar(level, n_fruits)
    /\ bar' = <<level, n_fruits>>
    /\ ticks' \in 1 .. MAX_TICKS
    /\ UNCHANGED <<level, build, img3_off, show, g_mask, target_img, play,
                   reach, fruit, n_fruits, won, moves>>

\* A one-pixel move (move_up, move_right, move_down, move_left): the player's
\* new position p and the view that follows it when the pan border is passed.
Delta == [up |-> <<0, -1>>, right |-> <<1, 0>>, down |-> <<0, 1>>, left |-> <<-1, 0>>]
Moved(d) == <<play[1] + Delta[d][1], play[2] + Delta[d][2]>>

pans(d, p) ==
    CASE d = "up"    -> p[2] < show[2] + BLOCK_DIM * PAN_BORDER /\ show[2] > SHOW_MIN
      [] d = "right" -> /\ p[1] > show[1] + SCROLL_X_DIM - BLOCK_DIM * (PAN_BORDER + 1)
                        /\ show[1] + SCROLL_X_DIM < (2 * maze_x_dim + 1) * BLOCK_DIM - SHOW_MIN
      [] d = "down"  -> /\ p[2] > show[2] + SCROLL_ROWS - BLOCK_DIM * (PAN_BORDER + 1)
                        /\ show[2] + SCROLL_ROWS < (2 * maze_y_dim + 1) * BLOCK_DIM - SHOW_MIN
      [] d = "left"  -> p[1] < show[1] + BLOCK_DIM * PAN_BORDER /\ show[1] > SHOW_MIN

panned_line(b, off, w, d, s) ==
    CASE d = "up"    -> draw_horiz_line(b, off, w, 0,
                            fill_horiz_buffer(s.reach, s.fruit, s.n, w[1], w[2]))
      [] d = "down"  -> draw_horiz_line(b, off, w, SCROLL_ROWS - 1,
                            fill_horiz_buffer(s.reach, s.fruit, s.n, w[1], w[2] + SCROLL_ROWS - 1))
      [] d = "left"  -> draw_vert_line(b, off, w, 0,
                            fill_vert_buffer(s.reach, s.fruit, s.n, w[1], w[2]))
      [] d = "right" -> draw_vert_line(b, off, w, SCROLL_X_DIM - 1,
                            fill_vert_buffer(s.reach, s.fruit, s.n, w[1] + SCROLL_X_DIM - 1, w[2]))

\* On a lattice point the squares around the player are unveiled; then the
\* player stays or moves a pixel along the corridor.  Which way is the
\* business of MazeGame: any legal one here.
Aligned(p) == p[1] % BLOCK_DIM = 0 /\ p[2] % BLOCK_DIM = 0
SquareOf(p) == <<p[1] \div BLOCK_DIM, p[2] \div BLOCK_DIM>>
Legal(d) ==
    IF Aligned(play) THEN <<play[1] \div BLOCK_DIM + Delta[d][1],
                            play[2] \div BLOCK_DIM + Delta[d][2]>> \in Open
    ELSE (play[1] % BLOCK_DIM # 0) <=> (d \in {"left", "right"})

Unveiled ==
    LET s == [build |-> build, reach |-> reach, fruit |-> fruit, n |-> n_fruits]
    IN  IF Aligned(play) THEN unveil_around_player(s, img3_off, show, play) ELSE s

Move(d) ==
    LET s   == Unveiled
        p   == Moved(d)
        w   == IF pans(d, p) THEN <<show[1] + Delta[d][1], show[2] + Delta[d][2]>> ELSE show
        off == view_offset(img3_off, w)
    IN  /\ pc = "move" /\ ticks > 0 /\ Legal(d)
        /\ moves < MAX_MOVES /\ moves' = moves + 1
        /\ ~(Aligned(play) /\ check_for_win(s, SquareOf(play)[1], SquareOf(play)[2]))
        /\ play' = p /\ ticks' = ticks - 1
        /\ reach' = s.reach /\ fruit' = s.fruit /\ n_fruits' = s.n
        /\ show' = w
        /\ img3_off' = IF w = show THEN img3_off ELSE off
        /\ build' = IF w = show THEN s.build
                    ELSE panned_line(view_build(s.build, img3_off, show, w), off, w, d, s)
        /\ UNCHANGED <<pc, level, g_mask, vram, target_img, bar, won>>

\* The player stands still (DIR_STOP), or has reached the exit with no fruit
\* left, which ends the level and drops the remaining ticks.
Stay ==
    LET s == Unveiled
    IN  /\ pc = "move" /\ ticks > 0 /\ Aligned(play)
        /\ won' = check_for_win(s, SquareOf(play)[1], SquareOf(play)[2])
        /\ ticks' = IF won' THEN 0 ELSE ticks - 1
        /\ build' = s.build /\ reach' = s.reach /\ fruit' = s.fruit /\ n_fruits' = s.n
        /\ UNCHANGED <<pc, level, img3_off, show, g_mask, vram, target_img, play, bar, moves>>

\* The ticks are used up: the player is drawn over the saved background, the
\* screen shown, the background put back.
Frame ==
    LET masked == draw_mask_block(build, img3_off, show, play)
    IN  /\ pc = "move" /\ ticks = 0
        /\ g_mask' = saved_background(build, img3_off, show, play)
        /\ target_img' = flip(target_img)
        /\ vram' = show_screen(masked, img3_off, show, flip(target_img))
        /\ build' = draw_full_block(masked, img3_off, show, play, g_mask')
        /\ pc' = IF won THEN "level" ELSE "wait"
        /\ level' = IF won THEN level + 1 ELSE level
        /\ UNCHANGED <<img3_off, show, play, reach, fruit, n_fruits, bar, ticks, won, moves>>

\* quit_flag was set by the keyboard thread, or the last level is won:
\* clear_mode_X checks the fences and leaves mode X.
ClearModeX ==
    /\ pc \in {"first", "wait", "level"}
    /\ pc' = "over"
    /\ UNCHANGED <<level, build, img3_off, show, g_mask, vram, target_img, play,
                   reach, fruit, n_fruits, bar, ticks, won, moves>>

Next ==
    \/ StartLevel
    \/ Tick
    \/ \E d \in DOMAIN Delta : Move(d)
    \/ Stay
    \/ Frame
    \/ ClearModeX

Spec == Init /\ [][Next]_vars

-----------------------------------------------------------------------------
(* Properties.                                                              *)

\* Every variable has its type; in particular no store has left the buffer.
TypeOK ==
    /\ pc \in {"level", "first", "wait", "move", "over"}
    /\ level \in 1 .. MAX_LEVEL + 1 /\ ticks \in 0 .. MAX_TICKS /\ won \in BOOLEAN
    /\ DOMAIN build = BuildIdx /\ DOMAIN g_mask = 0 .. BLOCK_DIM * BLOCK_DIM - 1
    /\ \A i \in 0 .. 3 : DOMAIN vram[i] = VramIdx
    /\ target_img \in {PX_PER_PLANE_SB, PX_PER_PLANE_SB + PAGE}

\* What the logical view shows at pixel (x, y), by definition.
World(x, y) ==
    PixelOf(find_block(reach, fruit, n_fruits, x \div BLOCK_DIM, y \div BLOCK_DIM),
            x % BLOCK_DIM, y % BLOCK_DIM)

Window == (show[1] .. show[1] + SCROLL_X_DIM - 1) \X (show[2] .. show[2] + SCROLL_ROWS - 1)
InPlay == pc \in {"first", "wait", "move"}

\* set_view_window copies "all data from the old window that are within the
\* new screen ... so only data not previously on the screen must be drawn"
\* (modex.c 442-446): at every moment of a level, whatever path the player
\* took and however often the window was moved in the buffer, each pixel of
\* the view is at its address.  The game never redraws a frame as a whole.
WindowDrawn ==
    InPlay => \A p \in Window : build[PixelAddr(img3_off, p[1], p[2])] = World(p[1], p[2])

\* The test at the end of clear_mode_X never reports a broken fence.
FenceIntact ==
    \A a \in FenceIdx : build[a] = MEM_FENCE_MAGIC

\* The pixel the VGA shows at column c, row r below the status bar.
Shown(c, r) == vram[c % 4][target_img + r * SCROLL_X_WIDTH + c \div 4]

OnPlayer(x, y) == <<x - play[1], y - play[2]>> \in Opaque

\* After show_screen the page on display is the view, pixel for pixel, with
\* the player over it; the other page and the bar are not in it.
ScreenRight ==
    pc \in {"first", "wait"} =>
        \A c \in 0 .. SCROLL_X_DIM - 1, r \in 0 .. SCROLL_ROWS - 1 :
            LET x == show[1] + c
                y == show[2] + r
            IN  Shown(c, r) = IF pc = "wait" /\ OnPlayer(x, y)
                              THEN PlayerPixel(x - play[1], y - play[2]) ELSE World(x, y)

\* The status bar always shows the last message, in row-major order through
\* the four planes: no page that show_screen fills reaches into it.
BarShown ==
    bar # <<>> =>
        \A x \in 0 .. SCROLL_X_DIM - 1, y \in 0 .. STATUS_BAR_HEIGHT - 1 :
            vram[x % 4][y * SCROLL_X_WIDTH + x \div 4] =
                IF y \in 1 .. FONT_HEIGHT
                   /\ FontBit(message(bar[1], bar[2])[x \div FONT_WIDTH + 1], y - 1, x % FONT_WIDTH)
                THEN 1 ELSE 0

\* The player's block is never clipped by the window: draw_mask_block saves a
\* clipped background without the gaps draw_full_block then skips.
PlayerInside ==
    InPlay => /\ play[1] >= show[1] /\ play[1] + BLOCK_DIM <= show[1] + SCROLL_X_DIM
              /\ play[2] >= show[2] /\ play[2] + BLOCK_DIM <= show[2] + SCROLL_ROWS

\* The build buffer is right at every moment: the view is drawn, the player is
\* inside it, and nothing was stored beyond the buffer.
ViewKept == TypeOK /\ WindowDrawn /\ PlayerInside /\ FenceIntact

\* What the VGA shows after show_screen is right in both of its parts.
ScreenShown == ScreenRight /\ BarShown

=============================================================================
