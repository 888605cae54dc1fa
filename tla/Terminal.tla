------------------------------ MODULE Terminal -------------------------------
(* The terminals of the mp3 kernel (term.c): one line buffer per process     *)
(* group, filled by the keyboard interrupt for the group on screen and       *)
(* emptied by term_read, and one screen per group, which is the video page   *)
(* while the group is visible and a save page otherwise.                     *)
(*                                                                           *)
(* term_read runs with interrupts on except where it says cli, so it is five *)
(* steps; a key press, a term_write and a switch_term each run under cli and *)
(* are one step.  The scheduler appears only as the freedom of any group to  *)
(* take the next step.  A character is "c", the newline is "n" and the       *)
(* backspace is "b".                                                         *)
EXTENDS Integers, Sequences

CONSTANTS Groups,            \* process groups, one terminal each
          TERM_BUFFER_SIZE,  \* 128
          TAB_SIZE,          \* 4
          NUM_COLS,          \* 80
          NUM_ROWS,          \* 25
          MaxWrite           \* bound: characters of one term_write

ASSUME TerminalAssumption == /\ Groups \subseteq Nat /\ 0 \in Groups
                             /\ TERM_BUFFER_SIZE \in Nat \ {0}
                             /\ TAB_SIZE \in Nat \ {0}
                             /\ NUM_COLS \in Nat \ {0}
                             /\ NUM_ROWS \in 1 .. NUM_COLS
                             /\ MaxWrite \in Nat

Chars == {"c", "n"}
Writes == UNION {[1 .. n -> Chars \cup {"b"}] : n \in 1 .. MaxWrite}
Cursors == [x : 0 .. NUM_COLS - 1, y : 0 .. NUM_ROWS - 1]
Home == [x |-> 0, y |-> 0]
VIDEO_KERNEL == -1                 \* the page on screen; g is g's save page
Pages == Groups \cup {VIDEO_KERNEL}

VARIABLES
  read_in_progress, newline_seen,  \* term_struct_t: flags, 0 or 1
  term_buff,                       \* term_struct_t: the line buffer
  cursor,                          \* term_struct_t: cursor of a hidden terminal
  visible_group,
  screen_cursor,                   \* lib.c: screen_x, screen_y
  page,                            \* groups whose output each video page holds
  pc,                              \* where each group is in term_read
  raced,                           \* history: groups that saw a badly timed key
  at,                              \* history: where each terminal's output ends
  shown                            \* history: groups with output since a clear

lineVars   == <<read_in_progress, newline_seen, term_buff, raced>>
screenVars == <<cursor, visible_group, screen_cursor, page, at, shown>>
vars == <<read_in_progress, newline_seen, term_buff, cursor, visible_group,
          screen_cursor, page, pc, raced, at, shown>>

Init ==
  /\ read_in_progress = [g \in Groups |-> 0]
  /\ newline_seen = [g \in Groups |-> 0]
  /\ term_buff = [g \in Groups |-> <<>>]
  /\ cursor = [g \in Groups |-> Home]
  /\ visible_group = 0
  /\ screen_cursor = Home
  /\ page = [p \in Pages |-> {}]
  /\ pc = [g \in Groups |-> "idle"]
  /\ raced = {}
  /\ at = [g \in Groups |-> Home]
  /\ shown = {}

-----------------------------------------------------------------------------
(* Output.                                                                   *)

\* putc of a newline; on the last row the screen scrolls and the row stays.
Newline(p) == [x |-> 0, y |-> IF p.y + 1 >= NUM_ROWS THEN NUM_ROWS - 1 ELSE p.y + 1]

\* putc of a backspace: to the end of the previous row, or nowhere.
Back(p) ==
  IF p.x > 0 THEN [x |-> p.x - 1, y |-> p.y]
  ELSE IF p.y > 0 THEN [x |-> NUM_COLS - 1, y |-> p.y - 1] ELSE Home

\* putc of another character; past the last cell the screen scrolls.
Forward(p) ==
  LET row == p.y + (p.x + 1) \div NUM_COLS
  IN [x |-> (p.x + 1) % NUM_COLS,
      y |-> IF row \div NUM_ROWS # 0 THEN p.y ELSE row % NUM_ROWS]

\* __print_char: a backspace is destructive, "\b \b".
print_char(p, c) ==
  CASE c = "n" -> Newline(p)
    [] c = "b" -> Back(Forward(Back(p)))
    [] OTHER -> Forward(p)

\* The cursor after the characters of s have been printed.
Printed(p, s) ==
  LET after[i \in 0 .. Len(s)] ==
        IF i = 0 THEN p ELSE print_char(after[i - 1], s[i])
  IN after[Len(s)]

\* Both coordinates are reduced modulo the number of columns.
set_cursor(p) == [x |-> p.x % NUM_COLS, y |-> p.y % NUM_COLS]

\* Characters printed on the visible terminal.
Echo(s) ==
  /\ page' = [page EXCEPT ![VIDEO_KERNEL] = @ \cup {visible_group}]
  /\ screen_cursor' = Printed(screen_cursor, s)
  /\ at' = [at EXCEPT ![visible_group] = Printed(@, s)]
  /\ shown' = shown \cup {visible_group}
  /\ UNCHANGED <<cursor, visible_group>>

\* The hidden branch of term_write: onto the save page, at the saved cursor,
\* and the screen's own pointer and cursor put back.
WriteHidden(g, s) ==
  /\ page' = [page EXCEPT ![g] = @ \cup {g}]
  /\ cursor' = [cursor EXCEPT ![g] = Printed(set_cursor(@), s)]
  /\ screen_cursor' = set_cursor(screen_cursor)

term_write(g, s) ==
  /\ pc[g] = "idle"
  /\ IF visible_group = g
     THEN Echo(s)
     ELSE /\ WriteHidden(g, s)
          /\ at' = [at EXCEPT ![g] = Printed(@, s)]
          /\ shown' = shown \cup {g}
          /\ UNCHANGED visible_group
  /\ UNCHANGED <<lineVars, pc>>

\* Mutant: the new terminal's page is shown before the old one's is saved.
SwitchPages_swapped(h) ==
  LET restored == [page EXCEPT ![VIDEO_KERNEL] = page[h]]
  IN [restored EXCEPT ![visible_group] = restored[VIDEO_KERNEL]]

\* Save the screen, then show the new terminal's save page.
SwitchPages(h) ==
  LET saved == [page EXCEPT ![visible_group] = page[VIDEO_KERNEL]]
  IN [saved EXCEPT ![VIDEO_KERNEL] = saved[h]]

\* Alt-F1..F3; switching to the terminal on screen is allowed.
switch_term(h) ==
  LET saved == [cursor EXCEPT ![visible_group] = screen_cursor] IN
    /\ cursor' = saved
    /\ page' = SwitchPages(h)
    /\ visible_group' = h
    /\ screen_cursor' = set_cursor(saved[h])
    /\ UNCHANGED <<lineVars, pc, at, shown>>

\* Ctrl-L: the screen is cleared, the line buffer is not.
clear_term ==
  /\ page' = [page EXCEPT ![VIDEO_KERNEL] = {}]
  /\ screen_cursor' = Home
  /\ at' = [at EXCEPT ![visible_group] = Home]
  /\ shown' = shown \ {visible_group}
  /\ UNCHANGED <<lineVars, cursor, visible_group, pc>>

-----------------------------------------------------------------------------
(* Input: add_char_term, in the keyboard interrupt.                          *)

Size(g) == Len(term_buff[g])

\* __add_char_to_term refuses a character other than newline when one place is
\* left, and every character when none is.
Accepts(g, c) == \/ Size(g) < TERM_BUFFER_SIZE - 1
                 \/ Size(g) = TERM_BUFFER_SIZE - 1 /\ c = "n"

\* A key that reaches the buffer after the newline that ends the line a reader
\* is waiting for, or a newline that a reader will not wait for although it
\* has claimed the buffer.
Untimely(g, c) == \/ pc[g] \in {"waiting", "seen"} /\ newline_seen[g] = 1
                  \/ pc[g] \in {"claimed", "copied"} /\ c = "n"
RacedAfter(g, c) == IF Untimely(g, c) THEN raced \cup {g} ELSE raced

AddChar ==
  LET g == visible_group IN
    /\ Accepts(g, "c")
    /\ term_buff' = [term_buff EXCEPT ![g] = Append(@, "c")]
    /\ raced' = RacedAfter(g, "c")
    /\ Echo(<<"c">>)
    /\ UNCHANGED <<read_in_progress, newline_seen, pc>>

\* Mutant: the loop stops at a tab stop only.
TabSpaces_unbounded(size) ==
  CHOOSE k \in 1 .. TAB_SIZE : (size + k) % TAB_SIZE = 0

\* Spaces up to the next tab stop, or until one place is left.
TabSpaces(size) ==
  LET Stops(k) == size + k = TERM_BUFFER_SIZE - 1 \/ (size + k) % TAB_SIZE = 0
  IN CHOOSE k \in 1 .. TAB_SIZE : Stops(k) /\ \A j \in 1 .. k - 1 : ~Stops(j)

AddTab ==
  LET g == visible_group
      spaces == [i \in 1 .. TabSpaces(Size(g)) |-> "c"]
  IN /\ Accepts(g, "c")
     /\ term_buff' = [term_buff EXCEPT ![g] = @ \o spaces]
     /\ raced' = RacedAfter(g, "c")
     /\ Echo(spaces)
     /\ UNCHANGED <<read_in_progress, newline_seen, pc>>

\* A line no one is reading is dropped.
AfterNewline(g) ==
  IF read_in_progress[g] = 1 THEN Append(term_buff[g], "n") ELSE <<>>

AddNewline ==
  LET g == visible_group IN
    /\ Accepts(g, "n")
    /\ term_buff' = [term_buff EXCEPT ![g] = AfterNewline(g)]
    /\ newline_seen' = [newline_seen EXCEPT ![g] = 1]
    /\ raced' = IF read_in_progress[g] = 0 THEN raced \ {g} ELSE RacedAfter(g, "n")
    /\ Echo(<<"n">>)
    /\ UNCHANGED <<read_in_progress, pc>>

\* Moves the cursor back over the last character of the buffer, newline or not.
Backspace ==
  LET g == visible_group IN
    /\ Size(g) > 0
    /\ term_buff' = [term_buff EXCEPT ![g] = SubSeq(@, 1, Size(g) - 1)]
    /\ raced' = RacedAfter(g, "c")
    /\ Echo(<<"b">>)
    /\ UNCHANGED <<read_in_progress, newline_seen, pc>>

-----------------------------------------------------------------------------
(* term_read.                                                                *)

Goto(g, from, to) == pc[g] = from /\ pc' = [pc EXCEPT ![g] = to]

\* Lines 72-82, under cli: claim the buffer.
ReadClaim(g) ==
  /\ Goto(g, "idle", "claimed")
  /\ read_in_progress[g] = 0
  /\ read_in_progress' = [read_in_progress EXCEPT ![g] = 1]
  /\ UNCHANGED <<newline_seen, term_buff, raced, screenVars>>

\* Mutant: a newline seen before the read counts as its own.
ReadReset_skip(g) ==
  /\ Goto(g, "claimed", "waiting")
  /\ UNCHANGED <<lineVars, screenVars>>

\* Line 85, interrupts on.
ReadReset(g) ==
  /\ Goto(g, "claimed", "waiting")
  /\ newline_seen' = [newline_seen EXCEPT ![g] = 0]
  /\ UNCHANGED <<read_in_progress, term_buff, raced, screenVars>>

\* Mutant: the buffer is polled in place of the flag.
ReadSeen_by_buffer(g) ==
  /\ Goto(g, "waiting", "seen")
  /\ Size(g) > 0 /\ term_buff[g][Size(g)] = "n"
  /\ UNCHANGED <<lineVars, screenVars>>

\* Lines 86-95: poll, under cli.
ReadSeen(g) ==
  /\ Goto(g, "waiting", "seen")
  /\ newline_seen[g] = 1
  /\ UNCHANGED <<lineVars, screenVars>>

\* Lines 97-105, under cli: copy out (at most nbytes) and empty the buffer.
ReadCopy(g) ==
  /\ Goto(g, "seen", "copied")
  /\ term_buff' = [term_buff EXCEPT ![g] = <<>>]
  /\ raced' = raced \ {g}
  /\ UNCHANGED <<read_in_progress, newline_seen, screenVars>>

\* Line 107, interrupts on.
ReadDone(g) ==
  /\ Goto(g, "copied", "idle")
  /\ read_in_progress' = [read_in_progress EXCEPT ![g] = 0]
  /\ UNCHANGED <<newline_seen, term_buff, raced, screenVars>>

ReadStep(g) == \/ ReadClaim(g) \/ ReadReset(g) \/ ReadSeen(g)
               \/ ReadCopy(g) \/ ReadDone(g)

Next == \/ \E g \in Groups : ReadStep(g)
        \/ \E g \in Groups, s \in Writes : term_write(g, s)
        \/ AddChar \/ AddTab \/ AddNewline \/ Backspace
        \/ clear_term
        \/ \E h \in Groups : switch_term(h)

Spec == Init /\ [][Next]_vars

(* Fairness.  A group inside term_read gets the CPU again and again          *)
(* (Process!RoundRobin) and keys do not keep it from its next instruction.   *)
(* The user owes nothing.                                                    *)
FairSpec ==
  /\ Spec
  /\ \A g \in Groups :
       WF_vars(ReadReset(g) \/ ReadSeen(g) \/ ReadCopy(g) \/ ReadDone(g))

-----------------------------------------------------------------------------
(* Properties.                                                               *)

(* Flags, buffers, cursors and pages stay in their types; cursors stay on    *)
(* the screen.                                                               *)
TypeOK ==
  /\ read_in_progress \in [Groups -> {0, 1}]
  /\ newline_seen \in [Groups -> {0, 1}]
  /\ term_buff \in [Groups -> Seq(Chars)]
  /\ cursor \in [Groups -> Cursors]
  /\ visible_group \in Groups
  /\ screen_cursor \in Cursors
  /\ page \in [Pages -> SUBSET Groups]
  /\ pc \in [Groups -> {"idle", "claimed", "waiting", "seen", "copied"}]
  /\ raced \subseteq Groups
  /\ at \in [Groups -> Cursors]
  /\ shown \subseteq Groups

(* No key press writes past the end of a line buffer, tabs at the boundary   *)
(* included, and the last place is only ever taken by a newline, so that a   *)
(* line can always be finished.                                              *)
BufferBounded ==
  \A g \in Groups :
    /\ Size(g) <= TERM_BUFFER_SIZE
    /\ Size(g) = TERM_BUFFER_SIZE => term_buff[g][TERM_BUFFER_SIZE] = "n"

\* One newline, at the end.
IsLine(s) == Len(s) > 0 /\ \A i \in 1 .. Len(s) : s[i] = "n" <=> i = Len(s)

(* What term_read copies out is one line, the newline at its end included,   *)
(* unless a key was badly timed.                                             *)
LineComplete ==
  \A g \in Groups : pc[g] = "seen" /\ g \notin raced => IsLine(term_buff[g])

(* A group that waits for a newline can be given one: there is room for it   *)
(* in the buffer, unless a key was badly timed.                              *)
RoomForNewline ==
  \A g \in Groups : pc[g] = "waiting" /\ newline_seen[g] = 0 /\ g \notin raced
                      => Accepts(g, "n")

(* Once the newline is there the read returns, whatever is typed meanwhile   *)
(* and whichever terminal is on screen.                                      *)
ReadCompletes ==
  \A g \in Groups : pc[g] = "waiting" /\ newline_seen[g] = 1 ~> pc[g] = "idle"

Display(g) == page[IF visible_group = g THEN VIDEO_KERNEL ELSE g]
CursorOf(g) == IF visible_group = g THEN screen_cursor ELSE cursor[g]

(* A terminal shows what was written to it since it was last cleared and     *)
(* nothing else, whatever the order of writes, key presses and switches.     *)
ScreensKept ==
  \A g \in Groups : Display(g) = IF g \in shown THEN {g} ELSE {}

(* The output of a terminal continues where it ended, on screen or hidden.   *)
CursorFollows == \A g \in Groups : CursorOf(g) = at[g]

(* A line buffer is never overrun and a waiting reader always has room for   *)
(* the newline it waits for.                                                 *)
BufferSound == BufferBounded /\ RoomForNewline

(* Terminals do not disturb each other: each keeps its screen and the place  *)
(* where its output goes on.                                                 *)
TerminalsApart == TypeOK /\ ScreensKept /\ CursorFollows

=============================================================================
