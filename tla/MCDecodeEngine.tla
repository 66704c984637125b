--------------------------- MODULE MCDecodeEngine ---------------------------
(* DecodeEngine.tla with the sizes of the program for TLC: 12000 samples a *)
(* second, frames of 15 s.                                                 *)
EXTENDS DecodeEngine

(* The first and the last place of a whole transmission, and the first one *)
(* that is kept short in seconds.                                          *)
SomePlaces ==
  {[t |-> 0, bin |-> 0], [t |-> 27840, bin |-> 0], [t |-> 50880, bin |-> 951]}

(* (int)(((float)t / 12000) * 12000) is t - 1 at these places of the grid. *)
FloatShort ==
  {50880, 56640, 62400, 100800, 101760, 112320, 113280, 124800, 125760}
=============================================================================
