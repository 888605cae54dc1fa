-------------------------------- MODULE Fifo --------------------------------
(***************************************************************************)
(* What a ring buffer promises its users: a writer adds the first bytes of *)
(* what it has to write after the ones already there, never more than      *)
(* Capacity of them wait, and a reader gets the oldest ones, in order,     *)
(* each of them once.                                                      *)
(***************************************************************************)
EXTENDS Integers, Sequences

CONSTANTS Capacity, Writers, Readers

VARIABLES
    offered,    \* offered[w]: the bytes writer w has to write
    buf,        \* the bytes that wait
    out         \* out[r]: the bytes reader r got last

Init == buf = <<>> /\ out = [r \in Readers |-> <<>>]

\* As many bytes as there is room for; the rest the writer keeps or loses.
Add ==
    \E w \in Writers : \E k \in 0..Len(offered[w]) :
        buf' = buf \o SubSeq(offered[w], 1, k) /\ Len(buf') <= Capacity

Take == \E r \in Readers : buf = out'[r] \o buf'

Spec == Init /\ [][Add \/ Take]_buf
=============================================================================
