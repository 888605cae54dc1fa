----------------------------- MODULE MCDisplay -----------------------------
(***************************************************************************)
(* A small display: 8 by 7 pixels over a maze of 18 by 14, blocks of 2 by  *)
(* 2, one fruit and the exit on the corridor, a spare area of 5 bytes so   *)
(* that a walk round the corridor moves the window in the buffer in every  *)
(* direction.                                                              *)
(***************************************************************************)
EXTENDS Display

OpenValue    == ((1 .. 5) \X {1}) \cup ({5} \X (1 .. 3))
FruitAtValue == {<<5, 3>>}
ExitAtValue  == <<3, 1>>

=============================================================================
