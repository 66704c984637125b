------------------------------ MODULE MCPipeline ------------------------------
(* Small instances of Pipeline.tla for TLC.                                *)
EXTENDS Pipeline

(* A frame without messages, and one with a message.                       *)
PlainResults == {<< >>, <<TRUE>>}
=============================================================================
