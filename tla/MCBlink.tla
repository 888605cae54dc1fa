------------------------------ MODULE MCBlink -------------------------------
(***************************************************************************)
(* Two locations, one of them for two different structures, with lengths   *)
(* of one tick, of several, and zero; two come with an address in next.    *)
(***************************************************************************)
EXTENDS Blink

A(loc, on, off, len_on, len_off, nxt) ==
    [location |-> loc, on_char |-> on, off_char |-> off, on_length |-> len_on,
     off_length |-> len_off, countdown |-> 0, status |-> 0, next |-> nxt]

MC_Args == {A("l1", "a", "b", 1, 2, WILD), A("l2", "c", "d", 2, 1, NULL),
            A("l1", "e", "f", 0, 1, WILD)}
=============================================================================
