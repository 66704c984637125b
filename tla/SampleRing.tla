----------------------------- MODULE SampleRing ------------------------------
(***************************************************************************)
(* src/rf_input.cpp, handle_samples and snapshot: librtlsdr's worker       *)
(* decimates each buffer of the device and puts it into a ring of 15 s, at *)
(* the place that the system clock gives for the moment of the callback;   *)
(* the capture thread and GET /api/audio copy the ring.                    *)
(*                                                                         *)
(* Time is counted in samples of the decimated stream.  A sample is the    *)
(* time at which it was complete, 0 where the ring was never written; its  *)
(* slot in the ring should be its time minus one, modulo the ring.  The    *)
(* clock is read in milliseconds, which are Grain samples each (12 in the  *)
(* code).  A callback comes late, and the clock may be off and be stepped. *)
(***************************************************************************)
EXTENDS Integers, Sequences

CONSTANTS
  RingSize,      \* ring_buffer_.size()
  Decimation,    \* kDecimation
  Grain,         \* samples per millisecond
  Lengths,       \* device samples that a callback can bring
  MaxLate, MaxBack,  \* how far the clock of a callback is ahead or behind
  MaxCallbacks   \* bound on the number of callbacks

ASSUME RingAssumption ==
  /\ RingSize \in Nat \ {0} /\ Decimation \in Nat \ {0} /\ Grain \in Nat \ {0}
  /\ RingSize % Grain = 0

(* A buffer gives a sample at least and fits into the ring: librtlsdr's    *)
(* hold a good half of a second.                                           *)
ASSUME LengthsAssumption ==
  Lengths \subseteq Nat /\ \A len \in Lengths : len \div Decimation \in 1 .. RingSize

ASSUME BoundsAssumption ==
  MaxLate \in Nat /\ MaxBack \in Nat /\ MaxCallbacks \in Nat

VARIABLES
  worker,     \* where handle_samples is
  received,   \* device samples so far
  down, pos,  \* its local variables
  ring,       \* ring_buffer_
  ringPos,    \* ring_pos_
  frame,      \* the last result of snapshot
  callbacks,
  at,         \* history: where each slot's sample was put, not reduced to the ring
  lastEnd,    \* history: where the last buffer ended, not reduced to the ring
  steady      \* history: the clock was never behind that of the callback before

vars == <<worker, received, down, pos, ring, ringPos, frame, callbacks, at, lastEnd, steady>>

Slots == 0 .. RingSize - 1

TypeOK ==
  /\ worker \in {"idle", "write", "lost"}
  /\ received \in Nat /\ callbacks \in 0 .. MaxCallbacks
  /\ down \in Seq(Nat) /\ Len(down) <= RingSize /\ pos \in Slots
  /\ ring \in [Slots -> Nat] /\ ringPos \in Slots
  /\ frame \in [1 .. RingSize -> Nat]
  /\ at \in [Slots -> Int] /\ lastEnd \in Int /\ steady \in BOOLEAN

Init ==
  /\ worker = "idle" /\ received = 0 /\ callbacks = 0
  /\ down = << >> /\ pos = 0
  /\ ring = [p \in Slots |-> 0] /\ ringPos = 0
  /\ frame = [i \in 1 .. RingSize |-> 0]
  /\ at = [p \in Slots |-> 0] /\ lastEnd = 0 /\ steady = TRUE

-----------------------------------------------------------------------------
(* handle_samples                                                          *)

(* acc and count are local: what is left over at the end is dropped.       *)
Decimate(len) ==
  [k \in 1 .. len \div Decimation |-> (received + k * Decimation) \div Decimation]

(* The clock, rounded down to a millisecond.                               *)
ClockAt(samples) == (samples \div Grain) * Grain

(* Fault: the buffer is put behind the clock instead of before it.         *)
PlaceAhead(end, n) == end % RingSize

Place(end, n) == ((end % RingSize) + RingSize - n) % RingSize

ReadClock ==
  /\ worker = "idle" /\ worker' = "write"
  /\ callbacks < MaxCallbacks /\ callbacks' = callbacks + 1
  /\ \E len \in Lengths, skew \in -MaxBack .. MaxLate :
       LET n == len \div Decimation
           end == ClockAt((received + len) \div Decimation + skew)
       IN  /\ received' = received + len
           /\ down' = Decimate(len)
           /\ pos' = Place(end, n)
           /\ lastEnd' = end
           /\ steady' = (steady /\ lastEnd <= end)
  /\ UNCHANGED <<ring, ringPos, frame, at>>

(* The sample of the buffer that is copied to slot p, if there is one.     *)
Index(p) == ((p - pos) % RingSize) + 1

Written == [p \in Slots |-> IF Index(p) <= Len(down) THEN down[Index(p)] ELSE ring[p]]
PutAt ==
  [p \in Slots |->
     IF Index(p) <= Len(down) THEN lastEnd - Len(down) + Index(p) ELSE at[p]]

(* Fault: ring_pos_ is left at the beginning of the buffer.                *)
WriteKeepsPos ==
  /\ worker = "write" /\ worker' = "idle"
  /\ ring' = Written /\ at' = PutAt
  /\ ringPos' = pos
  /\ UNCHANGED <<received, down, pos, frame, callbacks, lastEnd, steady>>

(* Fault: ring_pos_ is not reduced to the ring.                            *)
WriteOnePast ==
  /\ worker = "write" /\ worker' = "idle"
  /\ ring' = Written /\ at' = PutAt
  /\ ringPos' = pos + Len(down)
  /\ UNCHANGED <<received, down, pos, frame, callbacks, lastEnd, steady>>

(* The copy, under buffer_mutex_.                                          *)
Write ==
  /\ worker = "write" /\ worker' = "idle"
  /\ ring' = Written /\ at' = PutAt
  /\ ringPos' = (pos + Len(down)) % RingSize
  /\ UNCHANGED <<received, down, pos, frame, callbacks, lastEnd, steady>>

(* rtlsdr_read_async returns because the device is gone: nothing writes    *)
(* the ring again, and nothing clears it.                                  *)
Lose ==
  /\ worker = "idle" /\ worker' = "lost"
  /\ UNCHANGED <<received, down, pos, ring, ringPos, frame, callbacks, at, lastEnd, steady>>

-----------------------------------------------------------------------------
(* snapshot, under buffer_mutex_                                           *)

Snapshot ==
  /\ frame' = [i \in 1 .. RingSize |-> ring[(ringPos + i - 1) % RingSize]]
  /\ UNCHANGED <<worker, received, down, pos, ring, ringPos, callbacks, at, lastEnd, steady>>

Next == ReadClock \/ Write \/ Lose \/ Snapshot

Spec == Init /\ [][Next]_vars

-----------------------------------------------------------------------------
(* Properties                                                              *)

(* "a ring buffer of IQ samples aligned to 15-second time slots using      *)
(* NTP-synchronized system clock": however long the receiver runs, and     *)
(* although each callback drops its left-over samples, a sample is off its *)
(* slot by the error of the clock, a millisecond and one sample at most.   *)
Offsets == -(MaxBack + Grain - 1) .. MaxLate + 1
MayBeAt(t, p) == \E off \in Offsets : p = (t - 1 + off) % RingSize
Aligned == \A p \in Slots : ring[p] # 0 => MayBeAt(ring[p], p)

(* A frame handed to the decoder, or played, goes from its oldest sample   *)
(* to its newest one, unless the clock was stepped back.  Where the clock  *)
(* moves by more than a buffer holds, slots are skipped and keep what a    *)
(* lap of the ring ago was put into them: such a sample is the only one    *)
(* that can follow a newer one.                                            *)
LapAgo == RingSize - (MaxLate + MaxBack + Grain)
Newest(f) == CHOOSE t \in {f[i] : i \in DOMAIN f} : \A j \in DOMAIN f : f[j] <= t
FrameInOrder ==
  steady => \A i, j \in DOMAIN frame :
              i < j /\ frame[j] # 0 /\ Newest(frame) - frame[j] <= LapAgo
                => frame[i] < frame[j]

(* The inductive invariant: a buffer that is about to be written is a run  *)
(* of consecutive samples, younger than all in the ring, whose place is    *)
(* the clock's time.                                                       *)
Consecutive(base) == down = [k \in 1 .. Len(down) |-> base + k]
AboutToWrite ==
  worker = "write" =>
    LET n == Len(down)
    IN  /\ n > 0 /\ pos = (lastEnd - n) % RingSize
        /\ \E base \in 0 .. received :
             /\ Consecutive(base) /\ lastEnd - n - base \in Offsets
             /\ base + n <= received \div Decimation
             /\ \A p \in Slots : ring[p] <= base

(* A sample lies where it was put, within the clock's error of its time.   *)
Located ==
  /\ \A p \in Slots : ring[p] # 0 => p = (at[p] - 1) % RingSize /\ at[p] - ring[p] \in Offsets
  /\ \A p \in Slots : ring[p] <= received \div Decimation

(* With a steady clock later samples were put further, the newest one      *)
(* furthest, where ring_pos_ points behind it.                             *)
Top == (ringPos - 1) % RingSize
InOrder ==
  /\ ring[Top] = 0 => \A p \in Slots : ring[p] = 0
  /\ ring[Top] # 0 => at[Top] <= lastEnd /\ ringPos = at[Top] % RingSize
  /\ \A p \in Slots : ring[p] # 0 => at[p] <= at[Top] /\ ring[p] <= ring[Top]
  /\ \A p, q \in Slots :
       ring[p] # 0 /\ ring[q] # 0 /\ at[p] < at[q] => ring[p] < ring[q]

IndInv == TypeOK /\ AboutToWrite /\ Located /\ (steady => InOrder) /\ FrameInOrder
=============================================================================
