------------------------------ MODULE DecodeLog ------------------------------
(***************************************************************************)
(* What the application promises to its user: every captured frame in      *)
(* which something was decoded is settled once, in the order of capture -  *)
(* either its messages are in the log or their insertion was refused by    *)
(* the database - and the program finishes only when nothing is left over. *)
(*                                                                         *)
(* A frame is what the engine will decode from it: a sequence with one     *)
(* element per message, TRUE when the CRC of the message is valid.         *)
(***************************************************************************)
EXTENDS Naturals, Sequences

CONSTANT Results   \* what a frame can contain, a set of sequences of Booleans

VARIABLES
  frames,   \* the captured frames, oldest first
  logged,   \* numbers of the frames whose messages are in the log, in log order
  refused,  \* numbers of the frames whose insertion failed
  phase     \* "running", "finished" or "aborted"

logVars == <<frames, logged, refused, phase>>

Loud == {f \in 1 .. Len(frames) : frames[f] # << >>}

Settled == {logged[i] : i \in 1 .. Len(logged)} \union refused

(* The oldest frame with messages that is not settled yet.                 *)
Oldest(f) ==
  /\ f \in Loud \ Settled
  /\ \A g \in Loud : g < f => g \in Settled

Init ==
  /\ frames = << >>
  /\ logged = << >>
  /\ refused = {}
  /\ phase = "running"

Capture ==
  /\ phase = "running"
  /\ \E r \in Results : frames' = Append(frames, r)
  /\ UNCHANGED <<logged, refused, phase>>

Log ==
  /\ phase = "running"
  /\ \E f \in 1 .. Len(frames) : Oldest(f) /\ logged' = Append(logged, f)
  /\ UNCHANGED <<frames, refused, phase>>

Refuse ==
  /\ phase = "running"
  /\ \E f \in 1 .. Len(frames) : Oldest(f) /\ refused' = refused \union {f}
  /\ UNCHANGED <<frames, logged, phase>>

Finish ==
  /\ phase = "running"
  /\ Loud \subseteq Settled
  /\ phase' = "finished"
  /\ UNCHANGED <<frames, logged, refused>>

Abort ==
  /\ phase = "running"
  /\ phase' = "aborted"
  /\ UNCHANGED <<frames, logged, refused>>

Next == Capture \/ Log \/ Refuse \/ Finish \/ Abort

Spec == Init /\ [][Next]_logVars
=============================================================================
