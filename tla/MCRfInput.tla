----------------------------- MODULE MCRfInput ------------------------------
(* Small instances of RfInput.tla for TLC.                                 *)
EXTENDS RfInput
=============================================================================
