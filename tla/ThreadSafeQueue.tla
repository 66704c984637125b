--------------------------- MODULE ThreadSafeQueue ---------------------------
(***************************************************************************)
(* include/thread_safe_queue.hpp: a mutex, a condition variable, a deque   *)
(* and a stopped flag.  push, pop and stop are modelled at the granularity *)
(* at which threads can interleave: taking the mutex, the critical section *)
(* that ends by releasing it, and the notification sent after the release. *)
(*                                                                         *)
(* A producer calls push any number of times, a consumer calls pop until   *)
(* it returns false (both loops of main.cpp have this form), a stopper     *)
(* calls stop once.                                                        *)
(***************************************************************************)
EXTENDS Naturals, Sequences, FiniteSets

CONSTANTS
  Producers, Consumers, Stoppers,  \* disjoint sets of threads
  Values,                          \* what can be pushed
  NoThread,                        \* owner of a free mutex
  MaxPushes                        \* bound on the number of pushes

Threads == Producers \union Consumers \union Stoppers

ASSUME ThreadsAssumption ==
  /\ IsFiniteSet(Threads)
  /\ Producers \intersect Consumers = {}
  /\ Producers \intersect Stoppers = {}
  /\ Consumers \intersect Stoppers = {}
  /\ NoThread \notin Threads

ASSUME MaxPushesAssumption == MaxPushes \in Nat

VARIABLES
  mutex,      \* mutex_: the thread that holds it, or NoThread
  queue,      \* queue_
  stopped,    \* stopped_
  pc,         \* where each thread is
  accepted,   \* history: every value pushed
  delivered,  \* history: every value popped
  ended       \* consumers whose pop returned false

shared == <<mutex, queue, stopped>>
vars == <<mutex, queue, stopped, pc, accepted, delivered, ended>>

(***************************************************************************)
(* "pop": holds the mutex, about to evaluate the predicate; "sleepy": the  *)
(* predicate was false, the mutex is still held; "waiting": asleep in      *)
(* cv_.wait; "woken": notified or woken spuriously, has to take the mutex  *)
(* again before the predicate is evaluated.                                *)
(***************************************************************************)
ProducerLocs == {"idle", "push", "notifyOne"}
ConsumerLocs == {"idle", "pop", "sleepy", "waiting", "woken", "done"}
StopperLocs == {"idle", "stop", "notifyAll", "done"}
Critical == {"push", "pop", "sleepy", "stop"}

At(loc) == {t \in Threads : pc[t] = loc}

TypeOK ==
  /\ mutex \in Threads \union {NoThread}
  /\ queue \in Seq(Values)
  /\ stopped \in BOOLEAN
  /\ pc \in [Threads -> ProducerLocs \union ConsumerLocs \union StopperLocs]
  /\ \A t \in Producers : pc[t] \in ProducerLocs
  /\ \A t \in Consumers : pc[t] \in ConsumerLocs
  /\ \A t \in Stoppers : pc[t] \in StopperLocs
  /\ accepted \in Seq(Values)
  /\ delivered \in Seq(Values)
  /\ ended \in SUBSET Consumers

Init ==
  /\ mutex = NoThread
  /\ queue = << >>
  /\ stopped = FALSE
  /\ pc = [t \in Threads |-> "idle"]
  /\ accepted = << >>
  /\ delivered = << >>
  /\ ended = {}

-----------------------------------------------------------------------------
(* Mutex and condition variable.                                           *)

Goto(t, loc) == pc' = [pc EXCEPT ![t] = loc]

Lock(t, from, to) ==
  /\ pc[t] = from
  /\ mutex = NoThread
  /\ mutex' = t
  /\ Goto(t, to)

(* Leave the critical section: the lock_guard or unique_lock goes away.    *)
Unlock(t, from, to) ==
  /\ pc[t] = from
  /\ mutex = t
  /\ mutex' = NoThread
  /\ Goto(t, to)

-----------------------------------------------------------------------------
(* push *)

PushLock(t) ==
  /\ Len(accepted) < MaxPushes
  /\ Lock(t, "idle", "push")
  /\ UNCHANGED <<queue, stopped, accepted, delivered, ended>>

(* Fault: no notification is sent.                                         *)
PushBackSilently(t) ==
  /\ Unlock(t, "push", "idle")
  /\ \E v \in Values :
       /\ queue' = Append(queue, v)
       /\ accepted' = Append(accepted, v)
  /\ UNCHANGED <<stopped, delivered, ended>>

PushBack(t) ==
  /\ Unlock(t, "push", "notifyOne")
  /\ \E v \in Values :
       /\ queue' = Append(queue, v)
       /\ accepted' = Append(accepted, v)
  /\ UNCHANGED <<stopped, delivered, ended>>

(* cv_.notify_one() runs without the mutex; it is lost when nobody waits.  *)
NotifyOne(t) ==
  /\ pc[t] = "notifyOne"
  /\ IF At("waiting") = {}
     THEN Goto(t, "idle")
     ELSE \E c \in At("waiting") :
            pc' = [pc EXCEPT ![t] = "idle", ![c] = "woken"]
  /\ UNCHANGED <<shared, accepted, delivered, ended>>

-----------------------------------------------------------------------------
(* pop *)

PopLock(t) ==
  /\ Lock(t, "idle", "pop")
  /\ UNCHANGED <<queue, stopped, accepted, delivered, ended>>

(* The predicate of cv_.wait is false ...                                  *)
PopTest(t) ==
  /\ pc[t] = "pop"
  /\ queue = << >> /\ ~stopped
  /\ Goto(t, "sleepy")
  /\ UNCHANGED <<shared, accepted, delivered, ended>>

(* ... and the wait releases the mutex and sleeps, in one atomic step.     *)
PopWait(t) ==
  /\ Unlock(t, "sleepy", "waiting")
  /\ UNCHANGED <<queue, stopped, accepted, delivered, ended>>

SpuriousWakeup(t) ==
  /\ pc[t] = "waiting"
  /\ Goto(t, "woken")
  /\ UNCHANGED <<shared, accepted, delivered, ended>>

Relock(t) ==
  /\ Lock(t, "woken", "pop")
  /\ UNCHANGED <<queue, stopped, accepted, delivered, ended>>

(* pop returns true; the caller handles the value and calls pop again.     *)
PopFront(t) ==
  /\ queue # << >>
  /\ Unlock(t, "pop", "idle")
  /\ delivered' = Append(delivered, Head(queue))
  /\ queue' = Tail(queue)
  /\ UNCHANGED <<stopped, accepted, ended>>

(* Fault: the flag is tested after the wait instead of the deque.          *)
PopFalseWhenStopped(t) ==
  /\ stopped
  /\ Unlock(t, "pop", "done")
  /\ ended' = ended \union {t}
  /\ UNCHANGED <<queue, stopped, accepted, delivered>>

(* pop returns false; the caller's loop ends.                              *)
PopFalse(t) ==
  /\ queue = << >> /\ stopped
  /\ Unlock(t, "pop", "done")
  /\ ended' = ended \union {t}
  /\ UNCHANGED <<queue, stopped, accepted, delivered>>

-----------------------------------------------------------------------------
(* stop *)

StopLock(t) ==
  /\ Lock(t, "idle", "stop")
  /\ UNCHANGED <<queue, stopped, accepted, delivered, ended>>

(* Faults: the flag is written without the mutex, only one consumer is     *)
(* notified.                                                               *)
SetStoppedUnlocked(t) ==
  /\ pc[t] = "idle"
  /\ Goto(t, "notifyAll")
  /\ stopped' = TRUE
  /\ UNCHANGED <<mutex, queue, accepted, delivered, ended>>

SetStoppedNotifyOne(t) ==
  /\ Unlock(t, "stop", "notifyOne")
  /\ stopped' = TRUE
  /\ UNCHANGED <<queue, accepted, delivered, ended>>

SetStopped(t) ==
  /\ Unlock(t, "stop", "notifyAll")
  /\ stopped' = TRUE
  /\ UNCHANGED <<queue, accepted, delivered, ended>>

NotifyAllWakesOne(t) ==
  /\ pc[t] = "notifyAll"
  /\ IF At("waiting") = {}
     THEN Goto(t, "done")
     ELSE \E c \in At("waiting") :
            pc' = [pc EXCEPT ![t] = "done", ![c] = "woken"]
  /\ UNCHANGED <<shared, accepted, delivered, ended>>

NotifyAll(t) ==
  /\ pc[t] = "notifyAll"
  /\ pc' = [u \in Threads |-> IF u = t THEN "done"
                              ELSE IF pc[u] = "waiting" THEN "woken"
                              ELSE pc[u]]
  /\ UNCHANGED <<shared, accepted, delivered, ended>>

-----------------------------------------------------------------------------

ProducerStep(t) == PushLock(t) \/ PushBack(t) \/ NotifyOne(t)
ConsumerStep(t) ==
  \/ PopLock(t) \/ PopTest(t) \/ PopWait(t) \/ Relock(t) \/ PopFront(t) \/ PopFalse(t)
StopperStep(t) == StopLock(t) \/ SetStopped(t) \/ NotifyAll(t)

Next ==
  \/ \E t \in Producers : ProducerStep(t)
  \/ \E t \in Consumers : ConsumerStep(t) \/ SpuriousWakeup(t)
  \/ \E t \in Stoppers : StopperStep(t)

Spec == Init /\ [][Next]_vars

(***************************************************************************)
(* A started call runs on: threads are scheduled, and a thread that asks   *)
(* for a mutex which is released again and again gets it (the critical     *)
(* sections are a few instructions).  Nobody is obliged to push or to      *)
(* call stop, and a spurious wakeup may never come.                        *)
(***************************************************************************)
Fairness ==
  /\ \A t \in Producers : WF_vars(PushBack(t) \/ NotifyOne(t))
  /\ \A t \in Consumers :
       /\ SF_vars(PopLock(t))
       /\ SF_vars(Relock(t))
       /\ WF_vars(PopTest(t) \/ PopWait(t) \/ PopFront(t) \/ PopFalse(t))
  /\ \A t \in Stoppers : WF_vars(SetStopped(t) \/ NotifyAll(t))

FairSpec == Spec /\ Fairness

-----------------------------------------------------------------------------
(* Properties                                                              *)

(* Nothing is lost, duplicated or reordered between push_back and          *)
(* pop_front: what was popped, followed by what is queued, is what was     *)
(* pushed.                                                                 *)
Conservation == accepted = delivered \o queue

(* No wakeup is lost.  While some consumer sleeps, every queued value has  *)
(* a notification still to be sent or a consumer on its way to the         *)
(* predicate, and a stop has its notify_all still to be sent: the release  *)
(* of the mutex before cv_.notify_one() and cv_.notify_all() is harmless.  *)
Underway ==
  Cardinality(At("notifyOne")) + Cardinality(At("woken")) + Cardinality(At("pop"))

NoLostWakeup ==
  At("waiting") # {} =>
    /\ Len(queue) <= Underway
    /\ stopped => At("notifyAll") # {}

(* The class as a whole is the FIFO channel its users rely on.             *)
Channel == INSTANCE FifoChannel WITH closed <- stopped
ChannelSpec == Channel!Spec

(* A value pushed while some consumer still calls pop is eventually        *)
(* popped, whatever the interleaving with stop.                            *)
EveryValueDelivered ==
  \A n \in 1 .. MaxPushes :
    (Len(accepted) >= n /\ ended # Consumers) ~> (Len(delivered) >= n)

(* Once stop() took effect every consumer's loop ends.                     *)
StopEndsEveryConsumer == stopped ~> (ended = Consumers)

(* The inductive strengthening used in ThreadSafeQueueProofs: who is in a  *)
(* critical section holds the mutex, a consumer about to sleep saw a state *)
(* that still holds, and the pushing thread respects the bound.            *)
MutexHeld == \A t \in Threads : pc[t] \in Critical <=> mutex = t

SleepyPredicate ==
  \A t \in Consumers : pc[t] = "sleepy" => queue = << >> /\ ~stopped

RoomToPush ==
  /\ Len(accepted) <= MaxPushes
  /\ \A t \in Producers : pc[t] = "push" => Len(accepted) < MaxPushes

IndInv ==
  TypeOK /\ MutexHeld /\ SleepyPredicate /\ RoomToPush /\ Conservation /\ NoLostWakeup

-----------------------------------------------------------------------------
(* Why stop ends every loop                                                *)

(* The steps that a thread has left in its calls once the queue is         *)
(* stopped; a queued value costs a pop and the way back to it.             *)
CallLeft(t) ==
  CASE pc[t] = "push" -> 4
    [] pc[t] = "waiting" \/ (t \in Stoppers /\ pc[t] = "idle") -> 3
    [] pc[t] \in {"woken", "stop"} \/ (t \in Consumers /\ pc[t] = "idle") -> 2
    [] pc[t] \in {"pop", "notifyOne", "notifyAll"} -> 1
    [] OTHER -> 0

(* Their sum: thread t is counted CallLeft(t) times.                       *)
WithLeft(k) == {t \in Threads : CallLeft(t) >= k}
Work ==
  2 * Len(queue) + Cardinality(WithLeft(1)) + Cardinality(WithLeft(2))
    + Cardinality(WithLeft(3)) + Cardinality(WithLeft(4))

(* After stop() took effect nobody goes round in pop for ever, spurious    *)
(* wakeups included: only a new call of push adds work.                    *)
StoppedShrinks ==
  [][ stopped => (\E t \in Producers : PushLock(t)) \/ Work' < Work ]_vars

(* The threads that can take a step of the call they are in, or of the     *)
(* next pop of a consumer's loop.                                          *)
CanGo(t) ==
  \/ pc[t] \in {"notifyOne", "notifyAll"}
  \/ pc[t] \in Critical /\ mutex = t
  \/ mutex = NoThread /\ pc[t] = "woken"
  \/ mutex = NoThread /\ t \in Consumers /\ pc[t] = "idle"

(* While values are queued or the queue is stopped, the consumers that are *)
(* left never all sleep with nobody about to wake them, and never all wait *)
(* for the mutex of a thread that cannot release it.                       *)
NotStuck ==
  (queue # << >> \/ stopped) /\ ended # Consumers => \E t \in Threads : CanGo(t)

(* A consumer whose pop returned false has left its loop.                  *)
EndedDone == \A t \in Consumers : t \in ended <=> pc[t] = "done"
=============================================================================
