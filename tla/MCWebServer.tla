----------------------------- MODULE MCWebServer -----------------------------
(* Small instances of WebServer.tla for TLC.                               *)
EXTENDS WebServer

(* A stream, a handler in steps, and the last one to be removed.           *)
SomePaths == {"events", "status", "audio"}
=============================================================================
