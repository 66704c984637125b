---------------------------- MODULE MCSampleRing -----------------------------
(* Small instances of SampleRing.tla for TLC.                              *)
EXTENDS SampleRing

(* 4 samples of 5 device samples each, 3 of them dropped at the end, as 12 *)
(* of 131072 are; and a short buffer.                                      *)
TwoLengths == {23, 12}
=============================================================================
