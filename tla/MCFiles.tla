------------------------------ MODULE MCFiles -------------------------------
(***************************************************************************)
(* A small image for Programs: names that are prefixes of each other, an   *)
(* entry whose inode does not exist and one of unknown type, files that    *)
(* end inside, at and just past a block, blocks out of order, an           *)
(* executable with a NUL in it, texts whose lines end inside, at and past  *)
(* a buffer, one without a last newline.                                   *)
(***************************************************************************)
EXTENDS Programs

D(name, type, ino) == [filename |-> name, filetype |-> type, inode_num |-> ino]

MC_dir_entries == <<
    D(<<".">>, "dir", 0), D(<<"r">>, "rtc", 0),
    D(<<"p", "q", "p">>, "file", 9), D(<<"p", "q", "p">>, "file", 2),
    D(<<"p", "q">>, "file", 1), D(<<"p">>, "file", 3),
    D(<<"c">>, "file", 3), D(<<"l">>, "file", 3), D(<<"g">>, "file", 3), D(<<"s">>, "file", 3), D(<<"n">>, "file", 3),
    D(<<"t">>, "file", 4), D(<<"v", "w">>, "file", 5), D(<<"u">>, "odd", 0)>>

MC_inodes == <<
    [length |-> 0, data_block_num |-> <<>>],
    [length |-> 5, data_block_num |-> <<3, 0, 2>>],
    [length |-> 4, data_block_num |-> <<1, 4>>],
    [length |-> 4, data_block_num |-> <<5, 6>>],
    [length |-> 13, data_block_num |-> <<7, 8, 9, 10, 11, 12, 13>>],
    [length |-> 10, data_block_num |-> <<14, 15, 16, 7, 9>>]>>

MC_data_blocks == <<
    <<"1", "2">>, <<"3", "4">>, <<"5", "6">>, <<"7", "8">>, <<"9", "a">>, <<"m", "x">>, <<NUL, "b">>,
    <<"b", NL>>, <<"a", "a">>, <<"b", NL>>, <<"a", "b">>, <<NL, NL>>, <<"b", "b">>, <<"a", NL>>,
    <<"b", "b">>, <<"a", "b">>, <<NL, "b">> >>

MC_EXEC_MAGIC_STR == <<"m", "x">>

MC_ProgramOf == (<<"c">> :> "cat") @@ (<<"l">> :> "ls") @@ (<<"g">> :> "grep") @@ (<<"s">> :> "syserr")
                @@ (<<"n">> :> "counter")

MC_Names == {<<".">>, <<"r">>, <<"p", "q", "p">>, <<"p", "q">>, <<"p">>, <<"u">>,
             <<>>, <<"q">>, <<"p", "q", "p", "p">>}

\* A program's name and every sequence of up to 10 letters and spaces, and
\* commands that start with spaces, name something else or run cat, ls and grep.
MC_Commands ==
    {<<"p">> \o c : c \in UNION {[1..n -> {"p", " "}] : n \in 0..10}}
    \cup {c \o <<"p", "q">> : c \in UNION {[1..n -> {"p", " "}] : n \in 0..2}}
    \cup {<<" ", " ", "p", " ", "q">>, <<"r">>, <<".">>, <<"u", " ", "p">>, <<>>, <<" ">>, EXIT}
    \cup {<<"c">>, <<"c", " ", "t">>, <<" ", "c", " ", " ", "v", "w">>, <<"c", " ", ".">>, <<"c", " ", "r">>,
          <<"c", " ", "p", "q">>, <<"c", " ", "u">>, <<"c", " ", "q">>, <<"c", " ", "t", " ", "t">>}
    \cup {<<"l">>, <<"s">>, <<"n">>, <<"g">>, <<"g", " ", "a">>, <<"g", " ", "a", "b">>, <<"g", " ", "b">>}

MC_Lengths == {-1, 1, 3}

MC_Busy == {<<"p", " ", "p">>}

MC_WrongNames == << <<"p", "q", "p", "p">>, <<"l", "l">>, <<"v">>, <<>> >>

MC_CounterMax == ("0" :> 12) @@ ("1" :> 101)

MC_Junk == {NL, "a"}
=============================================================================
