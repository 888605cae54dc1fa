------------------------------ MODULE Programs ------------------------------
(***************************************************************************)
(* The shell and the programs of src/mp3/syscalls that use files and the   *)
(* terminal: cat, ls, grep, counter and syserr, on the system calls of     *)
(* Files.  A step is one system call and what the program does with its    *)
(* result.  The shell waits for the program it executes, so only one of    *)
(* them runs.                                                              *)
(***************************************************************************)
EXTENDS Files

CONSTANTS
    BUFSIZE,        \* 1024, the buffers of cat and grep
    Commands,       \* lines typed, without their newline
    Busy,           \* commands whose programs go on to use files (a bound)
    ProgramOf,      \* the program an executable's name stands for
    CounterMax,     \* how far each choice makes counter count
    WrongNames,     \* names that are almost those of files, and the empty one
    Junk            \* bytes an uninitialised buffer may hold

NL == "\n"
EXIT == <<"e", "x", "i", "t">>
Lookup == <<"0", "1", "2", "3", "4", "5", "6", "7", "8", "9">>

ASSUME ProgramsAssumption ==
    /\ BUFSIZE \in Nat \ {0} /\ Busy \subseteq Commands
    /\ Commands \subseteq Seq(STRING) /\ WrongNames \in Seq(Strings)

VARIABLES
    prog,       \* the program that runs, "shell" while none does
    pc,         \* where it is: "start", "loop", "file" or "done"
    mem,        \* its variables
    out,        \* what it has written to the terminal
    rval        \* what it returned

pvars == <<vars, prog, pc, mem, out, rval>>

\* mem.data[i + 1] is data[i].  History: clean says that data[BUFSIZE] was not
\* by chance a newline, from is what had been written before this file.
NoMem == [dir |-> 0, fd |-> 0, name |-> <<>>, data |-> <<>>, last |-> 0,
          clean |-> TRUE, from |-> 0]

-----------------------------------------------------------------------------
(* ece391support.c: strings in buffers. *)

\* The string that starts at position i of a buffer; past its end there is NUL.
ece391_strlen(s) == CHOOSE n \in 0..Len(s) : /\ CharAt(s, n) = NUL
                                             /\ \A i \in 0..n - 1 : CharAt(s, i) # NUL
StringAt(buf, i) == LET s == SubSeq(buf, i + 1, Len(buf)) IN SubSeq(s, 1, ece391_strlen(s))

\* The bytes from position i on, up to the NUL, moved to the front.
ece391_strcpy(buf, i) ==
    LET s == StringAt(buf, i) \o <<NUL>> IN s \o SubSeq(buf, Len(s) + 1, Len(buf))

ece391_strncmp(s1, s2, n) == strncmp_equal(s1, s2, n)

-----------------------------------------------------------------------------
(* Returning from main: the program halts. *)

Return(status, written) ==
    /\ pc' = "done" /\ rval' = status /\ out' = out \o written
    /\ UNCHANGED <<prog, mem>>

\* Open and go on at the given place, or complain and return.
OpenOr(fname, next, m, complaint, status) ==
    /\ system_open(fname)
    /\ IF OpenResult(fname) = -1 THEN Return(status, <<complaint>>)
       ELSE pc' = next /\ mem' = m /\ UNCHANGED <<prog, out, rval>>

(* cat *)

cat_start ==
    /\ prog = "cat" /\ pc = "start"
    /\ IF system_getargs(BUFSIZE) = <<>>
       THEN Return(3, <<"could not read arguments">>) /\ UNCHANGED vars
       ELSE LET name == StringAt(system_getargs(BUFSIZE), 0)
            IN  OpenOr(name, "loop", [mem EXCEPT !.fd = OpenResult(name)], "file not found", 2)


\* A read that fails ends the program too; on a descriptor that open gave it
\* does not.  Writing to the terminal does not fail.
cat_read ==
    /\ prog = "cat" /\ pc = "loop" /\ system_read(mem.fd, BUFSIZE)
    /\ LET data == ReadResult(mem.fd, BUFSIZE)
       IN  IF data = <<>> THEN Return(0, <<>>)
           ELSE out' = out \o data /\ UNCHANGED <<prog, pc, mem, rval>>

(* ls *)

ls_start ==
    /\ prog = "ls" /\ pc = "start"
    /\ OpenOr(<<".">>, "loop", [mem EXCEPT !.fd = OpenResult(<<".">>)], "directory open failed", 2)

\* SBUFSIZE - 1 is FILENAME_LEN; the padding of the name is written as well.
ls_read ==
    /\ prog = "ls" /\ pc = "loop" /\ system_read(mem.fd, FILENAME_LEN)
    /\ LET name == ReadResult(mem.fd, FILENAME_LEN)
       IN  IF name = <<>> THEN Return(0, <<>>)
           ELSE out' = out \o name \o <<NL>> /\ UNCHANGED <<prog, pc, mem, rval>>

-----------------------------------------------------------------------------
(* grep *)

grep_start ==
    /\ prog = "grep" /\ pc = "start"
    /\ IF system_getargs(BUFSIZE) = <<>>
       THEN Return(3, <<"could not read argument">>) /\ UNCHANGED vars
       ELSE OpenOr(<<".">>, "loop", [mem EXCEPT !.dir = OpenResult(<<".">>)],
                   "directory open failed", 2)

\* main reads a name; one that starts with a dot is passed over.
grep_name ==
    /\ prog = "grep" /\ pc = "loop" /\ system_read(mem.dir, FILENAME_LEN)
    /\ LET name == ReadResult(mem.dir, FILENAME_LEN)
       IN  IF name = <<>> THEN Return(0, <<>>)
           ELSE /\ IF name[1] = "." THEN UNCHANGED <<pc, mem>>
                   ELSE pc' = "open" /\ mem' = [mem EXCEPT !.name = StringAt(name, 0)]
                /\ UNCHANGED <<prog, out, rval>>

\* do_one_file begins; data is on the stack and holds anything.
grep_open ==
    /\ prog = "grep" /\ pc = "open"
    /\ \E d \in [1..BUFSIZE + 1 -> Junk] :
          OpenOr(mem.name, "file",
                 [mem EXCEPT !.fd = OpenResult(mem.name), !.data = d, !.last = 0,
                             !.clean = d[BUFSIZE + 1] # NL, !.from = Len(out)],
                 "file open failed", 3)

\* The lines of data[0..last - 1] begin at 0 and after newlines, and end at a
\* newline or at last.
LineStarts(m) == {0} \cup {i \in 1..m.last - 1 : m.data[i] = NL}
LineEnd(m, line_start) ==
    CHOOSE e \in line_start..m.last :
        /\ e = m.last \/ m.data[e + 1] = NL
        /\ \A i \in line_start..e - 1 : m.data[i + 1] # NL

Found(line, s) ==
    \E check \in DOMAIN line :
        line[check] = s[1] /\ ece391_strncmp(SubSeq(line, check, Len(line)), s, Len(s))

\* Mutant: a line that is cut by the end of the buffer is not kept.
Keep_none(m, cnt, line_start) == FALSE

\* A line without its newline is kept for the next read, unless it is the
\* last one or fills the buffer.
Keep(m, cnt, line_start) ==
    m.data[LineEnd(m, line_start) + 1] # NL /\ cnt # 0 /\ line_start # 0

\* A line that is found is written up to its end or a NUL in it.
Written(m, cnt, s) ==
    LET sts == SetToSortSeq({i \in LineStarts(m) : ~Keep(m, cnt, i)}, <)
    IN  FlattenSeq([k \in DOMAIN sts |->
            LET line == SubSeq(m.data, sts[k] + 1, LineEnd(m, sts[k]))
            IN  IF Found(line, s) THEN m.name \o <<":">> \o StringAt(line, 0) \o <<NL>> ELSE <<>>])

\* The buffer afterwards: the ends of lines are NULs, a line that is kept is
\* moved to the front.
Rest(m, cnt) ==
    LET ends == {LineEnd(m, i) + 1 : i \in LineStarts(m)}
        data == [k \in DOMAIN m.data |-> IF k \in ends THEN NUL ELSE m.data[k]]
        kept == {i \in LineStarts(m) : Keep(m, cnt, i)}
    IN  IF kept = {} THEN [m EXCEPT !.data = data, !.last = 0]
        ELSE LET i == CHOOSE i \in kept : TRUE
             IN  [m EXCEPT !.data = ece391_strcpy(data, i), !.last = @ - i]

Fill(m, bytes) ==
    [m EXCEPT !.last = @ + Len(bytes),
              !.data = SubSeq(@, 1, m.last) \o bytes \o SubSeq(@, m.last + Len(bytes) + 1, Len(@))]

grep_read ==
    /\ prog = "grep" /\ pc = "file" /\ system_read(mem.fd, BUFSIZE - mem.last)
    /\ \E bytes \in {ReadResult(mem.fd, BUFSIZE - mem.last)} :
       \E m \in {Fill(mem, bytes)} :
          /\ mem' = Rest(m, Len(bytes))
          /\ out' = out \o Written(m, Len(bytes), StringAt(args, 0))
          /\ pc' = IF bytes = <<>> THEN "close" ELSE "file"
    /\ UNCHANGED <<prog, rval>>

grep_close ==
    /\ prog = "grep" /\ pc = "close" /\ system_close(mem.fd)
    /\ pc' = "loop" /\ mem' = [NoMem EXCEPT !.dir = mem.dir]
    /\ UNCHANGED <<prog, out, rval>>

-----------------------------------------------------------------------------
(* counter *)

\* The digits of a number in some radix, the lowest first; then reversed.
Digits(value, radix) ==
    LET digits[newval \in 0..value] ==
            IF newval = 0 THEN <<>>
            ELSE <<Lookup[(newval % radix) + 1]>> \o digits[newval \div radix]
    IN  digits[value]
ece391_strrev(s) == Reverse(s)
ece391_itoa(value, radix) ==
    IF value = 0 THEN <<Lookup[1]>> ELSE ece391_strrev(Digits(value, radix))

\* The user chooses how far to count; an empty line counts to 0, a wrong choice
\* returns.
counter_start ==
    /\ prog = "counter" /\ pc = "start" /\ ~halted
    /\ \/ \E max \in {CounterMax[c] : c \in DOMAIN CounterMax} \cup {0} :
             pc' = "loop" /\ mem' = [mem EXCEPT !.from = max] /\ UNCHANGED <<prog, out, rval>>
       \/ Return(0, <<"Wrong Choice!">>)
    /\ UNCHANGED vars

counter_print ==
    /\ prog = "counter" /\ pc = "loop" /\ ~halted
    /\ IF mem.last < mem.from
       THEN /\ out' = out \o ece391_itoa(mem.last + 1, 10) \o <<NL>>
            /\ mem' = [mem EXCEPT !.last = @ + 1] /\ UNCHANGED <<prog, pc, rval>>
       ELSE Return(0, <<>>)
    /\ UNCHANGED vars

-----------------------------------------------------------------------------
(* syserr: calls that have to fail, a sequence of them for each test.      *)

Call(op, arg) == [op |-> op, arg |-> arg]
Each(op, lo, hi) == [i \in 1..hi + 1 - lo |-> Call(op, lo + i - 1)]
NEG_FD == -1073741823
BIG_FD == 1073741823
BadFd(fd) == <<Call("read", fd), Call("write", fd), Call("close", fd)>>

err_neg_fd == BadFd(NEG_FD)
err_big_fd == BadFd(BIG_FD)

\* One call more than there are descriptors; closing them is not a test.
err_open_lots ==
    [i \in 1..FD_ARRAY_SIZE - 1 |-> Call("lots", <<".">>)]
    \o Each("close_lots", 2, FD_ARRAY_SIZE - 1)

err_open == [i \in DOMAIN WrongNames |-> Call("open", WrongNames[i])]
err_unopened ==
    Each("close", 0, FD_ARRAY_SIZE - 1)
    \o Each("read", 2, FD_ARRAY_SIZE - 1) \o Each("write", 2, FD_ARRAY_SIZE - 1)
err_vidmap == <<Call("vidmap", "null"), Call("vidmap", "kernel")>>
err_stdin_out == <<Call("write", 0), Call("read", 1)>>

\* Test 8, numbers no system call has, is left out.
Tests == <<err_neg_fd, err_big_fd, err_open_lots, err_open, err_unopened, err_vidmap, err_stdin_out>>

\* The calls left to make are kept in data, the failed opens of
\* err_open_lots are counted in last, a call that does not fail makes rval 2.
syserr_start ==
    /\ prog = "syserr" /\ pc = "start" /\ ~halted
    /\ \E select \in 0..Len(Tests) :
          mem' = [mem EXCEPT !.data = IF select = 0 THEN FlattenSeq(Tests) ELSE Tests[select],
                             !.last = IF select \in {0, 3} THEN 0 ELSE 1]
    /\ pc' = "loop" /\ UNCHANGED <<vars, prog, out, rval>>

Fails(c) ==
    CASE c.op = "read" -> ReadFails(c.arg)
      [] c.op = "write" -> WriteFails(c.arg)
      [] c.op = "close" -> CloseFails(c.arg)
      [] c.op = "vidmap" -> ~__validate_user_ptr(c.arg)
      [] c.op \in {"open", "lots"} -> OpenResult(c.arg) = -1
      [] OTHER -> TRUE

\* A read or write that does not fail would be a terminal's.
Effect(c) ==
    CASE c.op \in {"close", "close_lots"} /\ ~CloseFails(c.arg) -> system_close(c.arg)
      [] c.op \in {"open", "lots"} -> system_open(c.arg)
      [] OTHER -> UNCHANGED vars

syserr_call ==
    /\ prog = "syserr" /\ pc = "loop" /\ ~halted
    /\ IF mem.data = <<>>
       THEN Return(IF mem.last = 1 THEN rval ELSE 2, <<>>) /\ UNCHANGED vars
       ELSE LET c == Head(mem.data)
            IN  /\ Effect(c)
                /\ mem' = [mem EXCEPT !.data = Tail(@),
                              !.last = IF c.op = "lots" /\ Fails(c) THEN @ + 1 ELSE @]
                /\ rval' = IF c.op # "lots" /\ ~Fails(c) THEN 2 ELSE rval
                /\ UNCHANGED <<prog, pc, out>>

-----------------------------------------------------------------------------
(* Any other program makes file calls and returns. *)

other_call ==
    /\ prog = "other" /\ pc = "start" /\ cmdline \in Busy /\ FileCall
    /\ UNCHANGED <<prog, pc, mem, out, rval>>

other_return ==
    /\ prog = "other" /\ pc = "start" /\ ~halted
    /\ Return(0, <<>>)
    /\ UNCHANGED vars

(* The shell: a line is read, stripped of its newline and executed. *)

shell_line(line) ==
    LET buf == IF line # <<>> /\ Last(line) = NL THEN Front(line) ELSE line
    IN  /\ prog = "shell"
        /\ IF buf = EXIT \/ buf = <<>>      \* an exit starts a shell again: Process
           THEN UNCHANGED pvars
           ELSE /\ system_execute(buf)
                /\ IF cmdline' = <<>>             \* no such command
                   THEN UNCHANGED <<prog, pc>>
                   ELSE /\ prog' = LET name == Filename(Trimmed(buf))
                                   IN  IF name \in DOMAIN ProgramOf THEN ProgramOf[name] ELSE "other"
                        /\ pc' = "start"
                /\ UNCHANGED <<mem, out, rval>>

\* execute returns to the shell, after an exception too; the shell says how the
\* program ended and goes on.
shell_resume ==
    /\ prog # "shell" /\ (pc = "done" \/ halted) /\ return_from_exec
    /\ prog' = "shell" /\ pc' = "start" /\ mem' = NoMem /\ out' = <<>> /\ rval' = 0

Init ==
    /\ Fresh /\ prog = "shell" /\ pc = "start" /\ mem = NoMem /\ out = <<>> /\ rval = 0

Program ==
    \/ cat_start \/ cat_read \/ ls_start \/ ls_read
    \/ counter_start \/ counter_print \/ syserr_start \/ syserr_call
    \/ grep_start \/ grep_name \/ grep_open \/ grep_read \/ grep_close

Next ==
    \/ Program \/ other_call \/ other_return \/ shell_resume
    \/ \E command \in Commands : shell_line(command \o <<NL>>)

\* Every process gets its turn (GroupsProgress of Process), and the shell is
\* resumed when its child halts.
Spec == Init /\ [][Next]_pvars /\ WF_pvars(Program \/ shell_resume)

-----------------------------------------------------------------------------
(* Properties. *)

\* The entry a name opens.
Named(name) == read_dentry_by_name(name)
Padded(e) == strncpy(e.filename, FILENAME_LEN)

\* What there is to read of an entry.
Content(e) ==
    CASE e.filetype = "file" -> FileBytes(e.inode_num)
      [] e.filetype = "dir" -> FlattenSeq([i \in DOMAIN dir_entries |->
                                  SubSeq(Padded(dir_entries[i]), 1,
                                         IF BUFSIZE < FILENAME_LEN THEN BUFSIZE ELSE FILENAME_LEN)])
      [] OTHER -> <<>>

\* The lines of a file, by the positions of its newlines.
LinesOf(b) ==
    LET ends == SetToSortSeq({i \in DOMAIN b : b[i] = NL} \cup {Len(b) + 1}, <)
    IN  [k \in DOMAIN ends |-> SubSeq(b, IF k = 1 THEN 1 ELSE ends[k - 1] + 1, ends[k] - 1)]

HasWord(line, s) == \E i \in 0..Len(line) - Len(s) : SubSeq(line, i + 1, i + Len(s)) = s

Matching(name, b, s) ==
    FlattenSeq([k \in DOMAIN LinesOf(b) |->
        IF HasWord(LinesOf(b)[k], s) THEN name \o <<":">> \o LinesOf(b)[k] \o <<NL>> ELSE <<>>])

\* grep is for text: no NUL, and lines that fit its buffer.
Text(b) == NUL \notin Range(b) /\ \A k \in DOMAIN LinesOf(b) : Len(LinesOf(b)[k]) <= BUFSIZE

\* cat has written the beginning of the file its argument names, and all of it
\* when it returns 0.
CatExact ==
    prog = "cat" /\ pc # "start" /\ rval = 0 =>
        LET c == Content(Named(Word(cmdline, 1)))
        IN  IsPrefix(out, c) /\ (pc = "done" => out = c)

\* ls has written a line for each entry it has passed, and for every one when
\* it returns 0.
LsExact ==
    prog = "ls" /\ pc # "start" /\ rval = 0 =>
        LET lines(n) == FlattenSeq([i \in 1..n |-> Padded(dir_entries[i]) \o <<NL>>])
        IN  /\ out = lines(fd_table[mem.fd].file_position)
            /\ pc = "done" => out = lines(Len(dir_entries))

\* When grep is done with a text file it has written exactly the lines of it
\* that contain its argument, however the reads cut them.
GrepExact ==
    LET c == Content(Named(mem.name))
    IN  prog = "grep" /\ pc = "close" /\ mem.clean /\ Text(c) =>
            SubSeq(out, mem.from + 1, Len(out)) = Matching(mem.name, c, StringAt(args, 0))

\* counter has written the numbers up to where it is, in decimal.
Numeral(n) ==
    LET len == CHOOSE k \in 1..n : 10^(k - 1) <= n /\ n < 10^k
    IN  [d \in 1..len |-> Lookup[((n \div 10^(len - d)) % 10) + 1]]
CounterExact ==
    prog = "counter" /\ mem.from # 0 =>
        /\ out = FlattenSeq([n \in 1..mem.last |-> Numeral(n) \o <<NL>>])
        /\ pc = "done" => mem.last = mem.from

\* Every call syserr makes fails, whatever the calls before it have done to the
\* table.
SyserrPasses == prog = "syserr" /\ pc = "done" => rval = 0

\* The programs write what their files hold, no more and no less, and the
\* repository's own test of failing calls passes.
OutputExact == CatExact /\ LsExact /\ GrepExact /\ CounterExact /\ SyserrPasses


=============================================================================
