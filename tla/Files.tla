------------------------------- MODULE Files --------------------------------
(***************************************************************************)
(* The read-only file system of src/mp3/student-distrib/file_sys.c, the    *)
(* file descriptors of a process (system.c, pcb.c) and what execute takes  *)
(* from a command line and a file: arguments and program image.  The       *)
(* system calls of one process do not overlap, so each is one action.      *)
(* Characters and bytes are members of small sets; NUL ends a string.      *)
(***************************************************************************)
EXTENDS Integers, Sequences, SequencesExt, FiniteSets

CONSTANTS
    FILENAME_LEN,       \* 32
    BLOCK_SIZE,         \* 4096
    FD_ARRAY_SIZE,      \* 8
    TERM_BUFFER_SIZE,   \* 128
    MAX_NUM_ARGS,       \* 3
    EXEC_MAGIC_STR,     \* the bytes an executable starts with
    dir_entries,        \* the image: entries [filename, filetype, inode_num]
    inodes,             \* inode i is inodes[i + 1]: [length, data_block_num]
    data_blocks,        \* data block b is data_blocks[b + 1]
    Names,              \* names the program opens, without their NUL
    Lengths             \* how many bytes it reads at a time

NUL == "NUL"
SPACE == " "

\* Strings without the NUL that ends them.
Strings == Seq(STRING \ {NUL})

\* The image is well formed: there is an inode, a file has all the blocks that
\* its length asks for, and those exist.
ImageAssumption ==
    /\ dir_entries \in Seq([filename : Strings, filetype : STRING, inode_num : Nat])
    /\ inodes \in Seq([length : Nat, data_block_num : Seq(Nat)]) /\ inodes # <<>>
    /\ data_blocks \in Seq([1..BLOCK_SIZE -> STRING])
    /\ \A i \in DOMAIN dir_entries : Len(dir_entries[i].filename) <= FILENAME_LEN
    /\ \A i \in DOMAIN inodes :
          /\ inodes[i].length <= BLOCK_SIZE * Len(inodes[i].data_block_num)
          /\ \A k \in DOMAIN inodes[i].data_block_num :
                inodes[i].data_block_num[k] < Len(data_blocks)

ASSUME FilesAssumption ==
    /\ {FILENAME_LEN, BLOCK_SIZE, TERM_BUFFER_SIZE, MAX_NUM_ARGS} \subseteq Nat \ {0}
    /\ FD_ARRAY_SIZE \in Nat /\ FD_ARRAY_SIZE > 2
    /\ ImageAssumption
    /\ EXEC_MAGIC_STR \in Seq(STRING) /\ Names \subseteq Strings /\ Lengths \subseteq Int

VARIABLES
    fd_table,           \* of the current process
    args,               \* args[0..args_len - 1] of its PCB
    image,              \* what __load_program copied into its program page
    halted,             \* a call went through a missing operation: page fault
    opened, cmdline,    \* history: names opened, command executed
    got                 \* history: bytes read since open, last name of a directory

vars == <<fd_table, args, image, halted, opened, got, cmdline>>

Fds == 0..FD_ARRAY_SIZE - 1
NOT_IN_USE == [flags |-> "NOT_IN_USE", file_ops |-> "NULL", inode |-> 0, file_position |-> 0]
Entry(ops, ino) == [flags |-> "IN_USE", file_ops |-> ops, inode |-> ino, file_position |-> 0]
NoFiles == [fd \in Fds |-> <<>>]
InUse(fd) == fd \in Fds /\ fd_table[fd].flags = "IN_USE"

-----------------------------------------------------------------------------
(* lib.c: strings are sequences; reading past one gives NUL. *)

CharAt(s, i) == IF i < Len(s) THEN s[i + 1] ELSE NUL

\* Equal for n characters, or up to a NUL both have before that.
strncmp_equal(s1, s2, n) ==
    \A i \in 0..n - 1 :
        (\A j \in 0..i - 1 : CharAt(s1, j) # NUL) => CharAt(s1, i) = CharAt(s2, i)

strncpy(s, n) == [i \in 1..n |-> CharAt(s, i - 1)]

-----------------------------------------------------------------------------
(* Lookup and data of the image. *)

\* Mutant: a prefix of a name is enough.
Match_prefix(fname, e) == strncmp_equal(fname, e.filename, Len(fname))

Match(fname, e) ==
    /\ strncmp_equal(fname, e.filename, Len(fname))
    /\ strncmp_equal(fname, e.filename, Len(e.filename))

\* The numbers of the matching entries whose inode exists; the first is taken.
Matches(fname) ==
    IF Len(fname) > FILENAME_LEN THEN {}
    ELSE {i \in DOMAIN dir_entries :
             dir_entries[i].inode_num < Len(inodes) /\ Match(fname, dir_entries[i])}

read_dentry_by_name(fname) ==
    dir_entries[CHOOSE i \in Matches(fname) : \A j \in Matches(fname) : i <= j]

\* One round of the loop of read_data: dnode_num and pos_in_dnode go on to the
\* next block at the end of one, and a byte is appended to buf.
NextByte(ino, was) ==
    LET wrap  == was.pos >= BLOCK_SIZE
        num   == IF wrap THEN was.num + 1 ELSE was.num
        pos   == IF wrap THEN 0 ELSE was.pos
        dnode == data_blocks[ino.data_block_num[num + 1] + 1]
    IN  [num |-> num, pos |-> pos + 1, buf |-> Append(was.buf, dnode[pos + 1])]

\* As many rounds as there are bytes to read.
ReadLoop(ino, first, rounds) ==
    LET loop[n \in 0..rounds] == IF n = 0 THEN first ELSE NextByte(ino, loop[n - 1])
    IN  loop[rounds].buf

Start(num, pos) == [num |-> num, pos |-> pos, buf |-> <<>>]
Rounds(ino, offset, length) ==
    IF length < ino.length - offset THEN length ELSE ino.length - offset

\* Mutant: every read begins at the start of a block.
read_data_from_start(inode_idx, offset, length) ==
    LET ino == inodes[inode_idx + 1]
    IN  IF length = 0 \/ offset >= ino.length THEN <<>>
        ELSE ReadLoop(ino, Start(offset \div BLOCK_SIZE, 0), Rounds(ino, offset, length))

read_data(inode_idx, offset, length) ==
    LET ino == inodes[inode_idx + 1]
    IN  IF length = 0 \/ offset >= ino.length THEN <<>>
        ELSE ReadLoop(ino, Start(offset \div BLOCK_SIZE, offset % BLOCK_SIZE),
                      Rounds(ino, offset, length))

-----------------------------------------------------------------------------
(* The system calls on descriptors. *)

get_new_fd(tbl) == CHOOSE fd \in Fds : /\ tbl[fd].flags = "NOT_IN_USE"
                                       /\ \A g \in 0..fd - 1 : tbl[g].flags = "IN_USE"
Free(tbl) == \E fd \in Fds : tbl[fd].flags = "NOT_IN_USE"

Ops == [rtc |-> "rtc", dir |-> "dir", file |-> "file"]

\* An entry of unknown type leaves its descriptor in use without operations.
\* The open functions of files and directories do nothing, rtc_open resets
\* the group's clock.
OpenEntry(tbl, e) ==
    [tbl EXCEPT ![get_new_fd(tbl)] =
        Entry(IF e.filetype \in DOMAIN Ops THEN Ops[e.filetype] ELSE "NULL", e.inode_num)]

\* The descriptor open returns, or -1.
OpenResult(fname) ==
    IF /\ Matches(fname) # {} /\ Free(fd_table)
       /\ read_dentry_by_name(fname).filetype \in DOMAIN Ops
    THEN get_new_fd(fd_table) ELSE -1

system_open(fname) ==
    /\ ~halted
    /\ IF Matches(fname) # {} /\ Free(fd_table)
       THEN /\ fd_table' = OpenEntry(fd_table, read_dentry_by_name(fname))
            /\ opened' = [opened EXCEPT ![get_new_fd(fd_table)] = fname]
            /\ got' = [got EXCEPT ![get_new_fd(fd_table)] = <<>>]
       ELSE UNCHANGED <<fd_table, opened, got>>
    /\ UNCHANGED <<args, image, halted, cmdline>>

\* A call through a NULL table faults and the process is halted.
Fault == halted' = TRUE /\ UNCHANGED <<fd_table, args, image, opened, got, cmdline>>

\* The bytes a read gives: those of the file, one entry's name cut at nbytes,
\* nothing from the RTC.
ReadResult(fd, nbytes) ==
    LET f == fd_table[fd]
        n == IF nbytes < FILENAME_LEN THEN nbytes ELSE FILENAME_LEN
    IN  CASE f.file_ops = "file" -> read_data(f.inode, f.file_position, nbytes)
          [] f.file_ops = "dir" /\ f.file_position < Len(dir_entries) ->
                strncpy(dir_entries[f.file_position + 1].filename, n)
          [] OTHER -> <<>>

\* file_read advances the position by what it read.
file_read(fd, nbytes) ==
    /\ fd_table' = [fd_table EXCEPT ![fd].file_position = @ + Len(ReadResult(fd, nbytes))]
    /\ got' = [got EXCEPT ![fd] = @ \o ReadResult(fd, nbytes)]

\* dir_read steps to the next entry, until there is none.
dir_read(fd, nbytes) ==
    IF fd_table[fd].file_position >= Len(dir_entries) THEN UNCHANGED <<fd_table, got>>
    ELSE /\ fd_table' = [fd_table EXCEPT ![fd].file_position = @ + 1]
         /\ got' = [got EXCEPT ![fd] = ReadResult(fd, nbytes)]

\* The reads of the RTC and of the terminal are those of Rtc and Terminal.
system_read(fd, nbytes) ==
    /\ ~halted /\ InUse(fd)
    /\ LET ops == fd_table[fd].file_ops
       IN  \/ ops = "NULL" /\ Fault
           \/ ops = "file" /\ nbytes >= 0 /\ file_read(fd, nbytes)
              /\ UNCHANGED <<args, image, halted, opened, cmdline>>
           \/ ops = "dir" /\ nbytes >= 0 /\ dir_read(fd, nbytes)
              /\ UNCHANGED <<args, image, halted, opened, cmdline>>
           \/ (ops \notin {"NULL", "file", "dir"} \/ (ops # "NULL" /\ nbytes < 0))
              /\ UNCHANGED vars

\* file_write and dir_write always fail, as does a table without a write.
system_write(fd) ==
    /\ ~halted /\ InUse(fd)
    /\ IF fd_table[fd].file_ops = "NULL" THEN Fault ELSE UNCHANGED vars

\* file_close, dir_close and rtc_close; 0 and 1 are not closed by a program.
system_close(fd) ==
    /\ ~halted /\ InUse(fd) /\ fd >= 2
    /\ IF fd_table[fd].file_ops = "NULL" THEN Fault
       ELSE /\ fd_table' = [fd_table EXCEPT ![fd].flags = "NOT_IN_USE", ![fd].file_ops = "NULL"]
            /\ opened' = [opened EXCEPT ![fd] = <<>>] /\ got' = [got EXCEPT ![fd] = <<>>]
            /\ UNCHANGED <<args, image, halted, cmdline>>

\* The calls that return -1.
ReadFails(fd) == ~InUse(fd) \/ fd_table[fd].file_ops = "stdout"
WriteFails(fd) == ~InUse(fd) \/ fd_table[fd].file_ops \in {"stdin", "file", "dir"}
CloseFails(fd) == ~InUse(fd) \/ fd < 2

\* Pointers a program passes: null, into the kernel, into its own page.
__validate_user_ptr(ptr) == ptr = "user"

-----------------------------------------------------------------------------
(* system_execute: the command line. *)

\* The first position from i on that does not hold a space.
Skip(c, i) == CHOOSE j \in i..Len(c) : /\ CharAt(c, j) # SPACE
                                       /\ \A k \in i..j - 1 : CharAt(c, k) = SPACE

\* Copying stops at a space, at the end, and at the last place of the buffer.
WordEnd(c, i) ==
    CHOOSE j \in i..Len(c) :
        /\ j >= TERM_BUFFER_SIZE - 1 \/ CharAt(c, j) \in {SPACE, NUL}
        /\ \A k \in i..j - 1 : k < TERM_BUFFER_SIZE - 1 /\ CharAt(c, k) \notin {SPACE, NUL}

\* The next argument is copied from position i: a NUL follows it at the end of
\* the command, a space otherwise.
NextArg(c, was) ==
    LET end  == WordEnd(c, was.i)
        next == Skip(c, end)
    IN  IF CharAt(c, was.i) = NUL THEN was
        ELSE [i |-> next, a |-> was.a \o SubSeq(c, was.i + 1, end)
                                      \o <<IF CharAt(c, next) = NUL THEN NUL ELSE SPACE>>]

ParseArgs(c, i) ==
    LET parse[n \in 0..MAX_NUM_ARGS] ==
            IF n = 0 THEN [i |-> i, a |-> <<>>] ELSE NextArg(c, parse[n - 1])
    IN  parse[MAX_NUM_ARGS].a

Filename(c) == SubSeq(c, 1, WordEnd(c, 0))

\* Mutant: only one space is skipped after the name.
Arguments_one_space(c) == ParseArgs(c, WordEnd(c, 0) + 1)

Arguments(c) == ParseArgs(c, Skip(c, WordEnd(c, 0)))

(* The table of a new process and the loading of its program. *)

pcb_setup == [fd \in Fds |-> IF fd = 0 THEN Entry("stdin", 0)
                             ELSE IF fd = 1 THEN Entry("stdout", 0) ELSE NOT_IN_USE]

\* Mutant: the position is not reset after the check.
LoadLoop_not_rewound(inode_idx) ==
    read_data(inode_idx, Len(EXEC_MAGIC_STR), inodes[inode_idx + 1].length)

\* __load_program reads a byte at a time until it gets none.
LoadLoop(inode_idx) ==
    LET page[n \in 0..inodes[inode_idx + 1].length] ==
            IF n = 0 THEN <<>> ELSE page[n - 1] \o read_data(inode_idx, n - 1, 1)
        ends == {n \in DOMAIN page : read_data(inode_idx, n, 1) = <<>>}
    IN  page[CHOOSE n \in ends : \A m \in ends : n <= m]

Loads(fname) ==
    /\ Matches(fname) # {} /\ read_dentry_by_name(fname).filetype \in DOMAIN Ops
    /\ read_data(read_dentry_by_name(fname).inode_num, 0, Len(EXEC_MAGIC_STR)) = EXEC_MAGIC_STR

\* The descriptor the loader used is closed, but keeps inode and position.
LoaderTable(fname) ==
    [pcb_setup EXCEPT ![2] = [NOT_IN_USE EXCEPT
        !.inode = read_dentry_by_name(fname).inode_num,
        !.file_position = inodes[read_dentry_by_name(fname).inode_num + 1].length]]

\* The command from its first character that is no space.
Trimmed(command) == SubSeq(command, Skip(command, 0) + 1, Len(command))

\* The child runs in place of its parent; a failure leaves the parent alone.
system_execute(command) ==
    LET c == Trimmed(command)
        fname == Filename(c)
    IN  /\ ~halted
        /\ IF Loads(fname)
           THEN /\ fd_table' = LoaderTable(fname)
                /\ args' = Arguments(c) /\ cmdline' = command
                /\ image' = LoadLoop(read_dentry_by_name(fname).inode_num)
                /\ opened' = NoFiles /\ got' = NoFiles
           ELSE UNCHANGED <<fd_table, args, image, opened, got, cmdline>>
        /\ UNCHANGED halted

\* What system_getargs copies to a buffer of nbytes; nothing is a failure.
system_getargs(nbytes) == IF Len(args) > nbytes \/ args = <<>> THEN <<>> ELSE args

-----------------------------------------------------------------------------
\* A shell: it has made no call on files.
Fresh ==
    /\ fd_table = pcb_setup /\ args = <<>> /\ image = <<>> /\ halted = FALSE
    /\ opened = NoFiles /\ got = NoFiles /\ cmdline = <<>>

\* execute returns: the parent, a shell, goes on with its own table.
return_from_exec ==
    /\ fd_table' = pcb_setup /\ args' = <<>> /\ image' = <<>> /\ halted' = FALSE
    /\ opened' = NoFiles /\ got' = NoFiles /\ cmdline' = <<>>

\* A program may make any of these calls in any order.
FileCall ==
    \/ \E fname \in Names : system_open(fname)
    \/ \E fd \in Fds, nbytes \in Lengths : system_read(fd, nbytes)
    \/ \E fd \in Fds : system_write(fd) \/ system_close(fd)

-----------------------------------------------------------------------------
(* Properties. *)

\* Descriptors, arguments and image keep their types; the standard streams
\* are always there.
TypeOK ==
    /\ \A fd \in Fds : /\ fd_table[fd].flags \in {"IN_USE", "NOT_IN_USE"}
                       /\ fd_table[fd].file_ops \in {"NULL", "stdin", "stdout", "rtc", "dir", "file"}
                       /\ fd_table[fd].inode \in 0..Len(inodes) - 1
                       /\ fd_table[fd].file_position \in Nat
    /\ fd_table[0].file_ops = "stdin" /\ fd_table[1].file_ops = "stdout"
    /\ halted \in BOOLEAN

\* The content of a file, from its inode alone.
FileBytes(i) ==
    SubSeq(FlattenSeq([k \in DOMAIN inodes[i + 1].data_block_num |->
                          data_blocks[inodes[i + 1].data_block_num[k] + 1]]), 1, inodes[i + 1].length)

\* However the reads are sized, what a program has read through a descriptor
\* is the beginning of the file, without a gap or a repetition across the
\* ends of blocks, and the position is its length.
ReadsInOrder ==
    \A fd \in Fds : fd_table[fd].flags = "IN_USE" /\ fd_table[fd].file_ops = "file" =>
        /\ IsPrefix(got[fd], FileBytes(fd_table[fd].inode))
        /\ fd_table[fd].file_position = Len(got[fd])

\* A read that returns nothing is at the end of the file: a program that reads
\* until then has read all of it.
EofIsEnd ==
    \A fd \in Fds, n \in Lengths :
        (/\ fd_table[fd].flags = "IN_USE" /\ fd_table[fd].file_ops = "file" /\ n > 0
         /\ read_data(fd_table[fd].inode, fd_table[fd].file_position, n) = <<>>)
        => got[fd] = FileBytes(fd_table[fd].inode)

\* A descriptor in use stands for an entry whose name is exactly the one that
\* was opened, with that entry's inode and operations.
DescriptorsSound ==
    \A fd \in 2..FD_ARRAY_SIZE - 1 : fd_table[fd].flags = "IN_USE" =>
        \E i \in DOMAIN dir_entries :
            /\ dir_entries[i].filename = opened[fd]
            /\ dir_entries[i].inode_num = fd_table[fd].inode
            /\ fd_table[fd].file_ops = IF dir_entries[i].filetype \in DOMAIN Ops
                                       THEN dir_entries[i].filetype ELSE "NULL"

\* However descriptors were opened and closed, a name of the image whose inode
\* exists can be opened while fewer than FD_ARRAY_SIZE are in use, and opening
\* it takes none of those.
Openable ==
    Cardinality({fd \in Fds : fd_table[fd].flags = "IN_USE"}) < FD_ARRAY_SIZE =>
        /\ Free(fd_table) /\ fd_table[get_new_fd(fd_table)].flags = "NOT_IN_USE"
        /\ \A i \in DOMAIN dir_entries : dir_entries[i].inode_num < Len(inodes) =>
              Matches(dir_entries[i].filename) # {}

\* A process faults in a file call only through a descriptor that opening an
\* entry of unknown type left behind.
FaultsExplained ==
    halted => \E fd \in Fds, i \in DOMAIN dir_entries :
                 /\ fd_table[fd].flags = "IN_USE" /\ opened[fd] = dir_entries[i].filename
                 /\ dir_entries[i].filetype \notin DOMAIN Ops

\* The words of a command line.
Starts(c) == {i \in DOMAIN c : c[i] # SPACE /\ (i = 1 \/ c[i - 1] = SPACE)}
NthStart(c, n) == CHOOSE i \in Starts(c) : Cardinality({j \in Starts(c) : j < i}) = n
WordAt(c, i) == SelectSeq([k \in 1..Len(c) + 1 - i |->
                              IF \A m \in i..i + k - 1 : c[m] # SPACE THEN c[i + k - 1] ELSE SPACE],
                          LAMBDA x : x # SPACE)
Word(c, n) == WordAt(c, NthStart(c, n))
Joined(c, n) == FlattenSeq([k \in 1..n |-> Word(c, k) \o <<IF k = Cardinality(Starts(c)) - 1
                                                           THEN NUL ELSE SPACE>>])

\* getargs gives the words after the program's name, at most MAX_NUM_ARGS of
\* them, separated by single spaces; they are terminated when there are no
\* more.  (A command that does not fit the buffer is cut.)
ArgsExact ==
    LET n == Cardinality(Starts(cmdline)) - 1
    IN  cmdline # <<>> /\ Len(cmdline) < TERM_BUFFER_SIZE =>
            system_getargs(TERM_BUFFER_SIZE) =
                Joined(cmdline, IF n <= MAX_NUM_ARGS THEN n ELSE MAX_NUM_ARGS)

\* Whatever the command, the arguments fit the buffer of the PCB.
ArgsFit == Len(args) <= TERM_BUFFER_SIZE

\* The program is named by the first word.
NameExact == cmdline # <<>> => Filename(Trimmed(cmdline)) = Filename(Word(cmdline, 0))

\* Whatever calls were made since, the image of a program that runs is the
\* whole content of one executable file, that of the name in its command.
ImageWhole ==
    cmdline # <<>> =>
        /\ IsPrefix(EXEC_MAGIC_STR, image)
        /\ \E i \in DOMAIN dir_entries : /\ dir_entries[i].filename = Filename(Trimmed(cmdline))
                                         /\ image = FileBytes(dir_entries[i].inode_num)

\* Reading to the end of a file gives the file, to a program and to the loader.
ReadsExact == ReadsInOrder /\ EofIsEnd /\ ImageWhole

\* The descriptor table is sound after any sequence of calls.
TableSound == TypeOK /\ DescriptorsSound /\ Openable /\ FaultsExplained

\* A program starts as its command line says: it is the one named there,
\* getargs gives back the arguments and no more than fit.
ExecuteRight == NameExact /\ ArgsExact /\ ArgsFit

=============================================================================
