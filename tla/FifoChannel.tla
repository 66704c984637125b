----------------------------- MODULE FifoChannel -----------------------------
(***************************************************************************)
(* What the threads of main.cpp rely on when they talk through a           *)
(* hf::ThreadSafeQueue: values come out in the order they went in, each    *)
(* one once, and a consumer is told "no more" (pop returned false) only    *)
(* after stop() was called and everything accepted so far was delivered.   *)
(*                                                                         *)
(* The channel is seen from outside: the history of what was accepted and  *)
(* of what was delivered.  ThreadSafeQueue.tla refines it.                 *)
(***************************************************************************)
EXTENDS Naturals, Sequences

CONSTANTS
  Values,     \* what can be pushed
  Consumers,  \* threads that call pop in a loop
  MaxPushes   \* bound: number of values accepted in one behaviour

VARIABLES
  accepted,   \* every value pushed so far, oldest first
  delivered,  \* every value handed to some consumer so far, oldest first
  closed,     \* stop() has taken effect
  ended       \* consumers whose pop returned false

chanVars == <<accepted, delivered, closed, ended>>

Init ==
  /\ accepted = << >>
  /\ delivered = << >>
  /\ closed = FALSE
  /\ ended = {}

Accept ==
  /\ Len(accepted) < MaxPushes
  /\ \E v \in Values : accepted' = Append(accepted, v)
  /\ UNCHANGED <<delivered, closed, ended>>

Deliver ==
  /\ Len(delivered) < Len(accepted)
  /\ delivered' = Append(delivered, accepted[Len(delivered) + 1])
  /\ UNCHANGED <<accepted, closed, ended>>

Close ==
  /\ closed' = TRUE
  /\ UNCHANGED <<accepted, delivered, ended>>

EndOfStream ==
  /\ closed
  /\ Len(delivered) = Len(accepted)
  /\ \E c \in Consumers : ended' = ended \union {c}
  /\ UNCHANGED <<accepted, delivered, closed>>

Next == Accept \/ Deliver \/ Close \/ EndOfStream

Spec == Init /\ [][Next]_chanVars
=============================================================================
