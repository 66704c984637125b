------------------------ MODULE ThreadSafeQueueProofs ------------------------
(***************************************************************************)
(* Proofs about ThreadSafeQueue.tla, for any finite number of producers,   *)
(* consumers and stoppers: the inductive invariant IndInv, with type       *)
(* correctness, conservation of values and the absence of lost wakeups as  *)
(* corollaries, the refinement of the FIFO channel, and that a stopped     *)
(* queue makes progress and is never stuck.                                *)
(***************************************************************************)
EXTENDS ThreadSafeQueue, FiniteSetTheorems, SequenceTheorems, TLAPS

-----------------------------------------------------------------------------
(* How the sets At(loc) and their sizes change.                            *)

(* The threads at a location are finitely many.                            *)
LEMMA AtFinite ==
  ASSUME NEW f, NEW loc
  PROVE  /\ IsFiniteSet({t \in Threads : f[t] = loc})
         /\ Cardinality({t \in Threads : f[t] = loc}) \in Nat
<1>1. {t \in Threads : f[t] = loc} \in SUBSET Threads
  OBVIOUS
<1>2. IsFiniteSet({t \in Threads : f[t] = loc})
  BY <1>1, FS_Subset, ThreadsAssumption
<1> QED
  BY <1>2, FS_CardinalityType

(* A thread that moves leaves one location and joins another one.          *)
LEMMA Move ==
  ASSUME NEW S, pc \in [Threads -> S],
         NEW t \in Threads, NEW from, NEW to,
         pc[t] = from, from # to, pc' = [pc EXCEPT ![t] = to]
  PROVE  /\ Cardinality(At(from)') = Cardinality(At(from)) - 1
         /\ Cardinality(At(to)') = Cardinality(At(to)) + 1
<1>1. At(from)' = At(from) \ {t} /\ t \in At(from)
  BY DEF At
<1>2. At(to)' = At(to) \union {t} /\ t \notin At(to)
  BY DEF At
<1>3. IsFiniteSet(At(from)) /\ IsFiniteSet(At(to))
  BY AtFinite DEF At
<1>4. Cardinality(At(from)') = Cardinality(At(from)) - 1
  BY <1>1, <1>3, FS_RemoveElement
<1>5. Cardinality(At(to)') = Cardinality(At(to)) + 1
  BY <1>2, <1>3, FS_AddElement
<1> QED
  BY <1>4, <1>5

(* The other locations keep their threads.                                 *)
LEMMA Stay ==
  ASSUME NEW S, pc \in [Threads -> S],
         NEW t \in Threads, NEW from, NEW to, NEW loc,
         pc[t] = from, pc' = [pc EXCEPT ![t] = to], loc # from, loc # to
  PROVE  At(loc)' = At(loc)
BY DEF At

-----------------------------------------------------------------------------
(* One lemma per conjunct of the inductive invariant.                      *)

(* Every action keeps the variables in their types.                        *)
LEMMA TypeStep ==
  ASSUME TypeOK, [Next]_vars
  PROVE  TypeOK'
<1> USE ThreadsAssumption
    DEF TypeOK, Threads, ProducerLocs, ConsumerLocs, StopperLocs
<1>1. ASSUME NEW t \in Producers, ProducerStep(t)
      PROVE  TypeOK'
  <2>1. CASE PushLock(t)
    BY <2>1 DEF PushLock, Lock, Goto
  <2>2. CASE PushBack(t)
    BY <2>2 DEF PushBack, Unlock, Goto
  <2>3. CASE NotifyOne(t)
    <3>1. CASE At("waiting") = {}
      BY <2>3, <3>1 DEF NotifyOne, Goto, shared
    <3>2. CASE At("waiting") # {}
      <4>1. PICK c \in At("waiting") :
              pc' = [pc EXCEPT ![t] = "idle", ![c] = "woken"]
        BY <2>3, <3>2 DEF NotifyOne
      <4>2. c \in Consumers
        BY DEF At
      <4> QED
        BY <2>3, <4>1, <4>2 DEF NotifyOne, shared
    <3> QED
      BY <3>1, <3>2
  <2> QED
    BY <1>1, <2>1, <2>2, <2>3 DEF ProducerStep
<1>2. ASSUME NEW t \in Consumers, ConsumerStep(t) \/ SpuriousWakeup(t)
      PROVE  TypeOK'
  <2>1. CASE PopLock(t) \/ Relock(t)
    BY <2>1 DEF PopLock, Relock, Lock, Goto
  <2>2. CASE PopTest(t) \/ SpuriousWakeup(t)
    BY <2>2 DEF PopTest, SpuriousWakeup, Goto, shared
  <2>3. CASE PopWait(t)
    BY <2>3 DEF PopWait, Unlock, Goto
  <2>4. CASE PopFront(t)
    BY <2>4 DEF PopFront, Unlock, Goto
  <2>5. CASE PopFalse(t)
    BY <2>5 DEF PopFalse, Unlock, Goto
  <2> QED
    BY <1>2, <2>1, <2>2, <2>3, <2>4, <2>5 DEF ConsumerStep
<1>3. ASSUME NEW t \in Stoppers, StopperStep(t)
      PROVE  TypeOK'
  <2>1. CASE StopLock(t)
    BY <2>1 DEF StopLock, Lock, Goto
  <2>2. CASE SetStopped(t)
    BY <2>2 DEF SetStopped, Unlock, Goto
  <2>3. CASE NotifyAll(t)
    BY <2>3 DEF NotifyAll, shared
  <2> QED
    BY <1>3, <2>1, <2>2, <2>3 DEF StopperStep
<1>4. CASE UNCHANGED vars
  BY <1>4 DEF vars
<1> QED
  BY <1>1, <1>2, <1>3, <1>4 DEF Next

(* The mutex is held by the one thread that is in a critical section.      *)
LEMMA MutexStep ==
  ASSUME TypeOK, MutexHeld, [Next]_vars
  PROVE  MutexHeld'
<1> USE ThreadsAssumption DEF TypeOK, MutexHeld, Critical
<1> USE DEF Threads
<1>1. ASSUME NEW t \in Producers, ProducerStep(t)
      PROVE  MutexHeld'
  <2>1. CASE PushLock(t)
    BY <2>1 DEF PushLock, Lock, Goto
  <2>2. CASE PushBack(t)
    BY <2>2 DEF PushBack, Unlock, Goto
  <2>3. CASE NotifyOne(t)
    BY <2>3 DEF NotifyOne, Goto, shared, At
  <2> QED
    BY <1>1, <2>1, <2>2, <2>3 DEF ProducerStep
<1>2. ASSUME NEW t \in Consumers, ConsumerStep(t) \/ SpuriousWakeup(t)
      PROVE  MutexHeld'
  <2>1. CASE PopLock(t) \/ Relock(t)
    BY <2>1 DEF PopLock, Relock, Lock, Goto
  <2>2. CASE PopTest(t) \/ SpuriousWakeup(t)
    BY <2>2 DEF PopTest, SpuriousWakeup, Goto, shared
  <2>3. CASE PopWait(t) \/ PopFront(t) \/ PopFalse(t)
    BY <2>3 DEF PopWait, PopFront, PopFalse, Unlock, Goto
  <2> QED
    BY <1>2, <2>1, <2>2, <2>3 DEF ConsumerStep
<1>3. ASSUME NEW t \in Stoppers, StopperStep(t)
      PROVE  MutexHeld'
  <2>1. CASE StopLock(t)
    BY <2>1 DEF StopLock, Lock, Goto
  <2>2. CASE SetStopped(t)
    BY <2>2 DEF SetStopped, Unlock, Goto
  <2>3. CASE NotifyAll(t)
    BY <2>3 DEF NotifyAll, shared
  <2> QED
    BY <1>3, <2>1, <2>2, <2>3 DEF StopperStep
<1>4. CASE UNCHANGED vars
  BY <1>4 DEF vars
<1> QED
  BY <1>1, <1>2, <1>3, <1>4 DEF Next

(* What a consumer saw before it sleeps cannot change: whoever would       *)
(* change the queue or the flag needs the mutex.                           *)
LEMMA SleepyStep ==
  ASSUME TypeOK, MutexHeld, SleepyPredicate, [Next]_vars
  PROVE  SleepyPredicate'
<1> USE ThreadsAssumption DEF TypeOK, MutexHeld, SleepyPredicate, Critical, Threads
<1>1. ASSUME NEW t \in Producers, ProducerStep(t)
      PROVE  SleepyPredicate'
  <2>1. CASE PushLock(t) \/ PushBack(t)
    BY <2>1 DEF PushLock, PushBack, Lock, Unlock, Goto
  <2>2. CASE NotifyOne(t)
    BY <2>2 DEF NotifyOne, Goto, shared, At
  <2> QED
    BY <1>1, <2>1, <2>2 DEF ProducerStep
<1>2. ASSUME NEW t \in Consumers, ConsumerStep(t) \/ SpuriousWakeup(t)
      PROVE  SleepyPredicate'
  <2>1. CASE PopTest(t) \/ SpuriousWakeup(t)
    BY <2>1 DEF PopTest, SpuriousWakeup, Goto, shared
  <2>2. CASE PopLock(t) \/ Relock(t)
    BY <2>2 DEF PopLock, Relock, Lock, Goto
  <2>3. CASE PopWait(t) \/ PopFront(t) \/ PopFalse(t)
    BY <2>3 DEF PopWait, PopFront, PopFalse, Unlock, Goto
  <2> QED
    BY <1>2, <2>1, <2>2, <2>3 DEF ConsumerStep
<1>3. ASSUME NEW t \in Stoppers, StopperStep(t)
      PROVE  SleepyPredicate'
  <2>1. CASE StopLock(t) \/ SetStopped(t)
    BY <2>1 DEF StopLock, SetStopped, Lock, Unlock, Goto
  <2>2. CASE NotifyAll(t)
    BY <2>2 DEF NotifyAll, shared
  <2> QED
    BY <1>3, <2>1, <2>2 DEF StopperStep
<1>4. CASE UNCHANGED vars
  BY <1>4 DEF vars
<1> QED
  BY <1>1, <1>2, <1>3, <1>4 DEF Next

(* The bound on pushes is respected: at most one thread is about to push.  *)
LEMMA RoomStep ==
  ASSUME TypeOK, MutexHeld, RoomToPush, [Next]_vars
  PROVE  RoomToPush'
<1> USE ThreadsAssumption, MaxPushesAssumption
    DEF TypeOK, MutexHeld, RoomToPush, Critical, Threads
<1>1. ASSUME NEW t \in Producers, ProducerStep(t)
      PROVE  RoomToPush'
  <2>1. CASE PushLock(t)
    BY <2>1 DEF PushLock, Lock, Goto
  <2>2. CASE PushBack(t)
    <3>1. PICK v \in Values : accepted' = Append(accepted, v)
      BY <2>2 DEF PushBack
    <3>2. Len(accepted') = Len(accepted) + 1 /\ Len(accepted) < MaxPushes
      BY <2>2, <3>1 DEF PushBack, Unlock
    <3>3. \A u \in Producers : pc'[u] # "push"
      BY <2>2 DEF PushBack, Unlock, Goto
    <3> QED
      BY <3>2, <3>3
  <2>3. CASE NotifyOne(t)
    BY <2>3 DEF NotifyOne, Goto, shared, At
  <2> QED
    BY <1>1, <2>1, <2>2, <2>3 DEF ProducerStep
<1>2. ASSUME NEW t \in Consumers, ConsumerStep(t) \/ SpuriousWakeup(t)
      PROVE  RoomToPush'
  BY <1>2 DEF ConsumerStep, PopLock, Relock, PopTest, PopWait, SpuriousWakeup, PopFront,
              PopFalse, Lock, Unlock, Goto, shared
<1>3. ASSUME NEW t \in Stoppers, StopperStep(t)
      PROVE  RoomToPush'
  BY <1>3 DEF StopperStep, StopLock, SetStopped, NotifyAll, Lock, Unlock, Goto, shared
<1>4. CASE UNCHANGED vars
  BY <1>4 DEF vars
<1> QED
  BY <1>1, <1>2, <1>3, <1>4 DEF Next

(* push_back and pop_front keep the history together.                      *)
LEMMA ConservationStep ==
  ASSUME TypeOK, Conservation, [Next]_vars
  PROVE  Conservation'
<1>a. delivered \in Seq(Values) /\ queue \in Seq(Values)
  BY DEF TypeOK
<1>b. accepted = delivered \o queue
  BY DEF Conservation
<1>1. ASSUME NEW t \in Producers, PushBack(t)
      PROVE  Conservation'
  <2>1. PICK v \in Values : queue' = Append(queue, v) /\ accepted' = Append(accepted, v)
    BY <1>1 DEF PushBack
  <2>2. delivered' = delivered
    BY <1>1 DEF PushBack
  <2>3. Append(delivered \o queue, v) = delivered \o Append(queue, v)
    <3>1. v \in Values /\ delivered \o queue \in Seq(Values)
      BY <1>a, <2>1
    <3> QED
      BY <1>a, <3>1
  <2> QED
    BY <1>b, <2>1, <2>2, <2>3, Zenon DEF Conservation
<1>2. ASSUME NEW t \in Consumers, PopFront(t)
      PROVE  Conservation'
  <2>1. queue # << >> /\ queue' = Tail(queue) /\ delivered' = Append(delivered, Head(queue))
    BY <1>2 DEF PopFront
  <2>2. accepted' = accepted
    BY <1>2 DEF PopFront
  <2>3. Append(delivered, Head(queue)) \o Tail(queue) = delivered \o queue
    BY <1>a, <2>1, HeadTailProperties, ConcatProperties
  <2> QED
    BY <1>b, <2>1, <2>2, <2>3, Zenon DEF Conservation
<1>3. CASE UNCHANGED <<queue, accepted, delivered>>
  BY <1>3, <1>b DEF Conservation
<1>4. \/ \E t \in Producers : PushBack(t)
      \/ \E t \in Consumers : PopFront(t)
      \/ UNCHANGED <<queue, accepted, delivered>>
  BY DEF Next, vars, shared, ProducerStep, ConsumerStep, StopperStep, PushLock, NotifyOne,
         PopLock, Relock, PopTest, PopWait, SpuriousWakeup, PopFalse, StopLock,
         SetStopped, NotifyAll
<1> QED
  BY <1>1, <1>2, <1>3, <1>4

-----------------------------------------------------------------------------
(* No lost wakeup.                                                         *)

(* The wakeups on their way are finitely many, before and after a step.    *)
LEMMA UnderwayType == Underway \in Nat
<1>1. /\ Cardinality(At("notifyOne")) \in Nat
      /\ Cardinality(At("woken")) \in Nat
      /\ Cardinality(At("pop")) \in Nat
  BY AtFinite DEF At
<1> QED
  BY <1>1 DEF Underway

(* The same after a step.                                                  *)
LEMMA UnderwayPrimed == Underway' \in Nat
<1>1. /\ Cardinality(At("notifyOne")') \in Nat
      /\ Cardinality(At("woken")') \in Nat
      /\ Cardinality(At("pop")') \in Nat
  BY AtFinite DEF At
<1> QED
  BY <1>1 DEF Underway

(* Every action keeps the promise; only PopWait can make a first sleeper,  *)
(* and it leaves an empty queue and a flag that is not set.                *)
LEMMA WakeupStep ==
  ASSUME IndInv, [Next]_vars
  PROVE  NoLostWakeup'
<1> DEFINE L == ProducerLocs \union ConsumerLocs \union StopperLocs
<1>a. /\ pc \in [Threads -> L]
      /\ TypeOK /\ NoLostWakeup /\ SleepyPredicate
      /\ queue \in Seq(Values)
  BY DEF IndInv, TypeOK
<1>b. /\ Cardinality(At("notifyOne")) \in Nat
      /\ Cardinality(At("woken")) \in Nat
      /\ Cardinality(At("pop")) \in Nat
  BY AtFinite DEF At
<1>c. Len(queue) \in Nat /\ Underway \in Nat
  BY <1>a, UnderwayType
<1>1. ASSUME NEW t \in Producers, ProducerStep(t)
      PROVE  NoLostWakeup'
  <2>t. t \in Threads
    BY DEF Threads
  <2>1. CASE PushLock(t)
    <3>1. pc[t] = "idle" /\ pc' = [pc EXCEPT ![t] = "push"] /\ UNCHANGED <<queue, stopped>>
      BY <2>1 DEF PushLock, Lock, Goto
    <3>2. \A loc \in {"waiting", "notifyOne", "woken", "pop", "notifyAll"} :
            At(loc)' = At(loc)
      BY <1>a, <2>t, <3>1 DEF At
    <3> QED
      BY <1>a, <3>1, <3>2 DEF NoLostWakeup, Underway
  <2>2. CASE PushBack(t)
    <3>1. pc[t] = "push" /\ pc' = [pc EXCEPT ![t] = "notifyOne"] /\ stopped' = stopped
      BY <2>2 DEF PushBack, Unlock, Goto
    <3>2. Len(queue') = Len(queue) + 1
      BY <1>a, <2>2 DEF PushBack
    <3>3. \A loc \in {"waiting", "woken", "pop", "notifyAll"} : At(loc)' = At(loc)
      BY <1>a, <2>t, <3>1 DEF At
    <3>4. Cardinality(At("notifyOne")') = Cardinality(At("notifyOne")) + 1
      BY <1>a, <2>t, <3>1, Move
    <3>5. Underway' = Underway + 1
      BY <1>b, <3>3, <3>4 DEF Underway
    <3> QED
      BY <1>a, <1>c, <3>1, <3>2, <3>3, <3>5 DEF NoLostWakeup
  <2>3. CASE NotifyOne(t)
    <3>0. pc[t] = "notifyOne" /\ UNCHANGED <<queue, stopped>>
      BY <2>3 DEF NotifyOne, shared
    <3>1. CASE At("waiting") = {}
      <4>1. pc' = [pc EXCEPT ![t] = "idle"]
        BY <2>3, <3>1 DEF NotifyOne, Goto
      <4>2. At("waiting")' = {}
        BY <1>a, <2>t, <3>0, <3>1, <4>1 DEF At
      <4> QED
        BY <4>2 DEF NoLostWakeup
    <3>2. CASE At("waiting") # {}
      <4>1. PICK c \in At("waiting") : pc' = [pc EXCEPT ![t] = "idle", ![c] = "woken"]
        BY <2>3, <3>2 DEF NotifyOne
      <4>2. c \in Threads /\ pc[c] = "waiting" /\ c # t
        BY <3>0, <4>1 DEF At
      <4>3. /\ At("notifyOne")' = At("notifyOne") \ {t} /\ t \in At("notifyOne")
            /\ At("woken")' = At("woken") \union {c} /\ c \notin At("woken")
        BY <1>a, <2>t, <3>0, <4>1, <4>2 DEF At
      <4>4. At("pop")' = At("pop") /\ At("notifyAll")' = At("notifyAll")
        BY <1>a, <2>t, <3>0, <4>1, <4>2 DEF At
      <4>5. IsFiniteSet(At("notifyOne")) /\ IsFiniteSet(At("woken"))
        BY AtFinite DEF At
      <4>6. /\ Cardinality(At("notifyOne")') = Cardinality(At("notifyOne")) - 1
            /\ Cardinality(At("woken")') = Cardinality(At("woken")) + 1
        BY <4>3, <4>5, FS_RemoveElement, FS_AddElement
      <4>7. Underway' = Underway
        BY <1>b, <4>4, <4>6 DEF Underway
      <4> QED
        BY <1>a, <3>0, <3>2, <4>4, <4>7 DEF NoLostWakeup
    <3> QED
      BY <3>1, <3>2
  <2> QED
    BY <1>1, <2>1, <2>2, <2>3 DEF ProducerStep
<1>2. ASSUME NEW t \in Consumers, ConsumerStep(t) \/ SpuriousWakeup(t)
      PROVE  NoLostWakeup'
  <2>t. t \in Threads
    BY DEF Threads
  <2>1. CASE PopLock(t)
    <3>1. pc[t] = "idle" /\ pc' = [pc EXCEPT ![t] = "pop"] /\ UNCHANGED <<queue, stopped>>
      BY <2>1 DEF PopLock, Lock, Goto
    <3>2. \A loc \in {"waiting", "notifyOne", "woken", "notifyAll"} : At(loc)' = At(loc)
      BY <1>a, <2>t, <3>1 DEF At
    <3>3. Cardinality(At("pop")') = Cardinality(At("pop")) + 1
      BY <1>a, <2>t, <3>1, Move
    <3>4. Underway' = Underway + 1
      BY <1>b, <3>2, <3>3 DEF Underway
    <3> QED
      BY <1>a, <1>c, <3>1, <3>2, <3>4 DEF NoLostWakeup
  <2>2. CASE PopTest(t)
    <3>1. queue' = << >> /\ stopped' = FALSE
      BY <1>a, <2>2 DEF PopTest, shared, TypeOK
    <3> QED
      BY <3>1, UnderwayPrimed DEF NoLostWakeup
  <2>3. CASE PopWait(t)
    <3>1. queue' = << >> /\ stopped' = FALSE
      BY <1>a, <2>3 DEF PopWait, Unlock, SleepyPredicate, TypeOK
    <3> QED
      BY <3>1, UnderwayPrimed DEF NoLostWakeup
  <2>4. CASE SpuriousWakeup(t)
    <3>1. pc[t] = "waiting" /\ pc' = [pc EXCEPT ![t] = "woken"] /\ UNCHANGED <<queue, stopped>>
      BY <2>4 DEF SpuriousWakeup, Goto, shared
    <3>2. /\ \A loc \in {"notifyOne", "pop", "notifyAll"} : At(loc)' = At(loc)
          /\ At("waiting") # {}
      BY <1>a, <2>t, <3>1 DEF At
    <3>3. Cardinality(At("woken")') = Cardinality(At("woken")) + 1
      BY <1>a, <2>t, <3>1, Move
    <3>4. Underway' = Underway + 1
      BY <1>b, <3>2, <3>3 DEF Underway
    <3> QED
      BY <1>a, <1>c, <3>1, <3>2, <3>4 DEF NoLostWakeup
  <2>5. CASE Relock(t)
    <3>1. pc[t] = "woken" /\ pc' = [pc EXCEPT ![t] = "pop"] /\ UNCHANGED <<queue, stopped>>
      BY <2>5 DEF Relock, Lock, Goto
    <3>2. \A loc \in {"waiting", "notifyOne", "notifyAll"} : At(loc)' = At(loc)
      BY <1>a, <2>t, <3>1 DEF At
    <3>3. /\ Cardinality(At("woken")') = Cardinality(At("woken")) - 1
          /\ Cardinality(At("pop")') = Cardinality(At("pop")) + 1
      BY <1>a, <2>t, <3>1, Move
    <3>4. Underway' = Underway
      BY <1>b, <3>2, <3>3 DEF Underway
    <3> QED
      BY <1>a, <3>1, <3>2, <3>4 DEF NoLostWakeup
  <2>6. CASE PopFront(t)
    <3>1. pc[t] = "pop" /\ pc' = [pc EXCEPT ![t] = "idle"] /\ stopped' = stopped
      BY <2>6 DEF PopFront, Unlock, Goto
    <3>2. Len(queue') = Len(queue) - 1
      BY <1>a, <2>6 DEF PopFront
    <3>3. \A loc \in {"waiting", "notifyOne", "woken", "notifyAll"} : At(loc)' = At(loc)
      BY <1>a, <2>t, <3>1 DEF At
    <3>4. Cardinality(At("pop")') = Cardinality(At("pop")) - 1
      BY <1>a, <2>t, <3>1, Move
    <3>5. Underway' = Underway - 1
      BY <1>b, <3>3, <3>4 DEF Underway
    <3> QED
      BY <1>a, <1>c, <3>1, <3>2, <3>3, <3>5 DEF NoLostWakeup
  <2>7. CASE PopFalse(t)
    <3>1. pc[t] = "pop" /\ pc' = [pc EXCEPT ![t] = "done"] /\ stopped' = stopped
      BY <2>7 DEF PopFalse, Unlock, Goto
    <3>2. queue' = << >>
      BY <2>7 DEF PopFalse
    <3>3. \A loc \in {"waiting", "notifyAll"} : At(loc)' = At(loc)
      BY <1>a, <2>t, <3>1 DEF At
    <3> QED
      BY <1>a, <3>1, <3>2, <3>3, UnderwayPrimed DEF NoLostWakeup
  <2> QED
    BY <1>2, <2>1, <2>2, <2>3, <2>4, <2>5, <2>6, <2>7 DEF ConsumerStep
<1>3. ASSUME NEW t \in Stoppers, StopperStep(t)
      PROVE  NoLostWakeup'
  <2>t. t \in Threads
    BY DEF Threads
  <2>1. CASE StopLock(t)
    <3>1. pc[t] = "idle" /\ pc' = [pc EXCEPT ![t] = "stop"] /\ UNCHANGED <<queue, stopped>>
      BY <2>1 DEF StopLock, Lock, Goto
    <3>2. \A loc \in {"waiting", "notifyOne", "woken", "pop", "notifyAll"} :
            At(loc)' = At(loc)
      BY <1>a, <2>t, <3>1 DEF At
    <3> QED
      BY <1>a, <3>1, <3>2 DEF NoLostWakeup, Underway
  <2>2. CASE SetStopped(t)
    <3>1. pc[t] = "stop" /\ pc' = [pc EXCEPT ![t] = "notifyAll"] /\ queue' = queue
      BY <2>2 DEF SetStopped, Unlock, Goto
    <3>2. \A loc \in {"waiting", "notifyOne", "woken", "pop"} : At(loc)' = At(loc)
      BY <1>a, <2>t, <3>1 DEF At
    <3>3. At("notifyAll")' # {}
      BY <1>a, <2>t, <3>1 DEF At
    <3> QED
      BY <1>a, <3>1, <3>2, <3>3 DEF NoLostWakeup, Underway
  <2>3. CASE NotifyAll(t)
    <3>1. At("waiting")' = {}
      BY <2>3 DEF NotifyAll, At
    <3> QED
      BY <3>1 DEF NoLostWakeup
  <2> QED
    BY <1>3, <2>1, <2>2, <2>3 DEF StopperStep
<1>4. CASE UNCHANGED vars
  BY <1>a, <1>4 DEF vars, NoLostWakeup, Underway, At
<1> QED
  BY <1>1, <1>2, <1>3, <1>4 DEF Next

-----------------------------------------------------------------------------
(* The theorems.                                                           *)

(* The inductive invariant holds at the start ...                          *)
LEMMA InitInd == Init => IndInv
<1> SUFFICES ASSUME Init PROVE IndInv
  OBVIOUS
<1> USE ThreadsAssumption, MaxPushesAssumption DEF Init
<1>1. TypeOK
  <2>1. pc \in [Threads -> {"idle"}]
    OBVIOUS
  <2>2. /\ pc \in [Threads -> ProducerLocs \union ConsumerLocs \union StopperLocs]
        /\ \A t \in Producers : pc[t] \in ProducerLocs
        /\ \A t \in Consumers : pc[t] \in ConsumerLocs
        /\ \A t \in Stoppers : pc[t] \in StopperLocs
    BY <2>1 DEF ProducerLocs, ConsumerLocs, StopperLocs, Threads
  <2>3. << >> \in Seq(Values)
    OBVIOUS
  <2> QED
    BY <2>2, <2>3 DEF TypeOK
<1>2. MutexHeld /\ SleepyPredicate /\ RoomToPush
  BY DEF MutexHeld, SleepyPredicate, RoomToPush, Critical, Threads
<1>3. Conservation
  BY DEF Conservation
<1>4. NoLostWakeup
  BY DEF NoLostWakeup, At
<1> QED
  BY <1>1, <1>2, <1>3, <1>4 DEF IndInv

(* ... and every step preserves it.                                        *)
LEMMA NextInd == IndInv /\ [Next]_vars => IndInv'
<1> SUFFICES ASSUME IndInv, [Next]_vars PROVE IndInv'
  OBVIOUS
<1>1. TypeOK /\ MutexHeld /\ SleepyPredicate /\ RoomToPush /\ Conservation
  BY DEF IndInv
<1> QED
  BY <1>1, TypeStep, MutexStep, SleepyStep, RoomStep, ConservationStep, WakeupStep DEF IndInv

(* IndInv is an invariant of the queue for any finite set of threads and   *)
(* any bound on the pushes.                                                *)
THEOREM Inductive == Spec => []IndInv
BY InitInd, NextInd, PTL DEF Spec

(* Type correctness of the queue.                                          *)
THEOREM TypeCorrect == Spec => []TypeOK
<1>1. IndInv => TypeOK
  BY DEF IndInv
<1> QED
  BY <1>1, Inductive, PTL

(* Nothing pushed is lost, duplicated or reordered inside the queue.       *)
THEOREM Conserved == Spec => []Conservation
<1>1. IndInv => Conservation
  BY DEF IndInv
<1> QED
  BY <1>1, Inductive, PTL

(* No consumer sleeps through a push or a stop, although both notify after *)
(* they have released the mutex.                                           *)
THEOREM NoWakeupLost == Spec => []NoLostWakeup
<1>1. IndInv => NoLostWakeup
  BY DEF IndInv
<1> QED
  BY <1>1, Inductive, PTL

-----------------------------------------------------------------------------
(* Refinement of the FIFO channel.                                         *)

(* What push, pop and stop do inside is what the channel does or nothing.  *)
LEMMA StepRefines ==
  ASSUME IndInv, [Next]_vars
  PROVE  [Channel!Next]_(Channel!chanVars)
<1>a. /\ queue \in Seq(Values) /\ delivered \in Seq(Values) /\ accepted \in Seq(Values)
      /\ accepted = delivered \o queue
      /\ RoomToPush
  BY DEF IndInv, TypeOK, Conservation
<1>1. ASSUME NEW t \in Producers, PushBack(t)
      PROVE  Channel!Accept
  <2>1. Len(accepted) < MaxPushes
    BY <1>1, <1>a DEF PushBack, Unlock, RoomToPush
  <2> QED
    BY <1>1, <2>1 DEF PushBack, Channel!Accept
<1>2. ASSUME NEW t \in Consumers, PopFront(t)
      PROVE  Channel!Deliver
  <2>1. queue # << >> /\ delivered' = Append(delivered, Head(queue))
        /\ UNCHANGED <<accepted, stopped, ended>>
    BY <1>2 DEF PopFront
  <2>2. Len(queue) > 0
    BY <1>a, <2>1
  <2>3. Len(delivered) < Len(accepted) /\ accepted[Len(delivered) + 1] = Head(queue)
    BY <1>a, <2>2
  <2> QED
    BY <2>1, <2>3 DEF Channel!Deliver
<1>3. ASSUME NEW t \in Stoppers, SetStopped(t)
      PROVE  Channel!Close
  BY <1>3 DEF SetStopped, Channel!Close
<1>4. ASSUME NEW t \in Consumers, PopFalse(t)
      PROVE  Channel!EndOfStream
  <2>1. queue = << >> /\ stopped /\ ended' = ended \union {t}
        /\ UNCHANGED <<accepted, delivered, stopped>>
    BY <1>4 DEF PopFalse
  <2>2. Len(delivered) = Len(accepted)
    BY <1>a, <2>1
  <2> QED
    BY <2>1, <2>2 DEF Channel!EndOfStream
<1>5. CASE UNCHANGED <<accepted, delivered, stopped, ended>>
  BY <1>5 DEF Channel!chanVars
<1>6. \/ \E t \in Producers : PushBack(t)
      \/ \E t \in Consumers : PopFront(t) \/ PopFalse(t)
      \/ \E t \in Stoppers : SetStopped(t)
      \/ UNCHANGED <<accepted, delivered, stopped, ended>>
  BY DEF Next, vars, shared, ProducerStep, ConsumerStep, StopperStep, PushLock, NotifyOne,
         PopLock, Relock, PopTest, PopWait, SpuriousWakeup, StopLock, NotifyAll
<1> QED
  BY <1>1, <1>2, <1>3, <1>4, <1>5, <1>6 DEF Channel!Next

(* The class implements the channel its users rely on: first in first out, *)
(* each value once, and "no more" only after stop and the last value.      *)
THEOREM Refinement == Spec => ChannelSpec
<1>1. Init => Channel!Init
  BY DEF Init, Channel!Init
<1>2. IndInv /\ [Next]_vars => [Channel!Next]_(Channel!chanVars)
  BY StepRefines
<1> QED
  BY <1>1, <1>2, Inductive, PTL DEF Spec, ChannelSpec, Channel!Spec

-----------------------------------------------------------------------------
(* What stop leaves to be done.                                            *)

(* The threads with steps left are finitely many.                          *)
LEMMA WithLeftFinite ==
  ASSUME NEW k
  PROVE  /\ IsFiniteSet(WithLeft(k)) /\ Cardinality(WithLeft(k)) \in Nat
         /\ IsFiniteSet(WithLeft(k)') /\ Cardinality(WithLeft(k)') \in Nat
<1>1. WithLeft(k) \in SUBSET Threads /\ WithLeft(k)' \in SUBSET Threads
  BY DEF WithLeft
<1>2. IsFiniteSet(WithLeft(k)) /\ IsFiniteSet(WithLeft(k)')
  BY <1>1, FS_Subset, ThreadsAssumption
<1> QED
  BY <1>2, FS_CardinalityType

(* A thread has at most four steps left.                                   *)
LEMMA CallLeftType == ASSUME NEW t PROVE CallLeft(t) \in 0 .. 4
BY DEF CallLeft

LEMMA CallLeftPrimed == ASSUME NEW t PROVE CallLeft(t)' \in 0 .. 4
BY DEF CallLeft

(* Whether thread t is counted among those with k steps left.              *)
Counted(n, k) == IF n >= k THEN 1 ELSE 0

(* One thread moves: a count changes by the thread alone.                  *)
LEMMA CountMoves ==
  ASSUME NEW t \in Threads, NEW k \in 1 .. 4,
         \A u \in Threads \ {t} : CallLeft(u)' = CallLeft(u)
  PROVE  Cardinality(WithLeft(k)') = Cardinality(WithLeft(k)) + Counted(CallLeft(t)', k)
                                      - Counted(CallLeft(t), k)
<1>1. WithLeft(k) \ {t} = WithLeft(k)' \ {t}
  BY DEF WithLeft
<1>2. t \in WithLeft(k) <=> CallLeft(t) >= k
  BY DEF WithLeft
<1>3. t \in WithLeft(k)' <=> CallLeft(t)' >= k
  BY DEF WithLeft
<1>4. Cardinality(WithLeft(k)) = Cardinality(WithLeft(k) \ {t}) + Counted(CallLeft(t), k)
  <2>1. Cardinality(WithLeft(k) \ {t})
          = IF t \in WithLeft(k) THEN Cardinality(WithLeft(k)) - 1
            ELSE Cardinality(WithLeft(k))
    BY WithLeftFinite, FS_RemoveElement
  <2>2. Cardinality(WithLeft(k)) \in Nat
    BY WithLeftFinite
  <2> QED
    BY <1>2, <2>1, <2>2 DEF Counted
<1>5. Cardinality(WithLeft(k)') = Cardinality(WithLeft(k)' \ {t}) + Counted(CallLeft(t)', k)
  <2>1. Cardinality(WithLeft(k)' \ {t})
          = IF t \in WithLeft(k)' THEN Cardinality(WithLeft(k)') - 1
            ELSE Cardinality(WithLeft(k)')
    BY WithLeftFinite, FS_RemoveElement
  <2>2. Cardinality(WithLeft(k)') \in Nat
    BY WithLeftFinite
  <2> QED
    BY <1>3, <2>1, <2>2 DEF Counted
<1>6. PICK n \in Nat : n = Cardinality(WithLeft(k) \ {t})
  BY WithLeftFinite, FS_RemoveElement, FS_CardinalityType
<1>7. PICK a \in Nat : a = Counted(CallLeft(t), k)
  BY DEF Counted
<1>8. PICK b \in Nat : b = Counted(CallLeft(t)', k)
  BY DEF Counted
<1>9. Cardinality(WithLeft(k)) = n + a /\ Cardinality(WithLeft(k)') = n + b
  BY <1>1, <1>4, <1>5, <1>6, <1>7, <1>8
<1> QED
  BY <1>7, <1>8, <1>9

(* So the sum changes by what the thread has less, or more, to do.         *)
LEMMA OneMoves ==
  ASSUME TypeOK, NEW t \in Threads, NEW to, Goto(t, to),
         NEW a \in 0 .. 4, NEW b \in 0 .. 4, CallLeft(t) = a, CallLeft(t)' = b
  PROVE  Cardinality(WithLeft(1)') + Cardinality(WithLeft(2)') + Cardinality(WithLeft(3)')
           + Cardinality(WithLeft(4)')
         = Cardinality(WithLeft(1)) + Cardinality(WithLeft(2)) + Cardinality(WithLeft(3))
             + Cardinality(WithLeft(4)) + b - a
<1>1. \A u \in Threads \ {t} : CallLeft(u)' = CallLeft(u)
  <2>1. \A u \in Threads \ {t} : pc'[u] = pc[u]
    BY DEF Goto, TypeOK
  <2> QED
    BY <2>1 DEF CallLeft
<1>2. \A k \in 1 .. 4 :
        Cardinality(WithLeft(k)') = Cardinality(WithLeft(k)) + Counted(b, k) - Counted(a, k)
  BY <1>1, CountMoves
<1>3. \A k \in 1 .. 4 : Cardinality(WithLeft(k)) \in Nat
  BY WithLeftFinite
<1>4. /\ Counted(a, 1) + Counted(a, 2) + Counted(a, 3) + Counted(a, 4) = a
      /\ Counted(b, 1) + Counted(b, 2) + Counted(b, 3) + Counted(b, 4) = b
  BY DEF Counted
<1>5. \A k \in 1 .. 4 : Counted(a, k) \in Nat /\ Counted(b, k) \in Nat
  BY DEF Counted
<1> QED
  BY <1>2, <1>3, <1>4, <1>5

(* Several threads move, none of them to more work and one to less.        *)
LEMMA SeveralMove ==
  ASSUME \A u \in Threads : CallLeft(u)' <= CallLeft(u),
         NEW t \in Threads, CallLeft(t) = 1, CallLeft(t)' = 0,
         queue' = queue, Len(queue) \in Nat
  PROVE  Work' < Work
<1>1. ASSUME NEW k \in 1 .. 4
      PROVE  WithLeft(k)' \subseteq WithLeft(k)
  BY CallLeftType, CallLeftPrimed DEF WithLeft
<1>2. \A k \in 1 .. 4 : Cardinality(WithLeft(k)') <= Cardinality(WithLeft(k))
  BY <1>1, WithLeftFinite, FS_Subset
<1>3. t \in WithLeft(1) /\ t \notin WithLeft(1)'
  BY DEF WithLeft
<1>4. Cardinality(WithLeft(1)') < Cardinality(WithLeft(1))
  <2>1. WithLeft(1)' \in SUBSET (WithLeft(1) \ {t})
    BY <1>1, <1>3
  <2>2. /\ IsFiniteSet(WithLeft(1) \ {t})
        /\ Cardinality(WithLeft(1) \ {t}) = Cardinality(WithLeft(1)) - 1
    BY <1>3, WithLeftFinite, FS_RemoveElement
  <2>3. Cardinality(WithLeft(1)') <= Cardinality(WithLeft(1) \ {t})
    BY <2>1, <2>2, FS_Subset
  <2> QED
    BY <2>2, <2>3, WithLeftFinite
<1>5. \A k \in 1 .. 4 : Cardinality(WithLeft(k)) \in Nat /\ Cardinality(WithLeft(k)') \in Nat
  BY WithLeftFinite
<1>6. PICK w1 \in Nat, w2 \in Nat, w3 \in Nat, w4 \in Nat :
        /\ Cardinality(WithLeft(1)) = w1 /\ Cardinality(WithLeft(2)) = w2
        /\ Cardinality(WithLeft(3)) = w3 /\ Cardinality(WithLeft(4)) = w4
  BY <1>5
<1>7. PICK v1 \in Nat, v2 \in Nat, v3 \in Nat, v4 \in Nat :
        /\ Cardinality(WithLeft(1)') = v1 /\ Cardinality(WithLeft(2)') = v2
        /\ Cardinality(WithLeft(3)') = v3 /\ Cardinality(WithLeft(4)') = v4
  BY <1>5
<1>8. v1 < w1 /\ v2 <= w2 /\ v3 <= w3 /\ v4 <= w4
  BY <1>2, <1>4, <1>6, <1>7
<1>9. PICK n \in Nat : Len(queue) = n /\ Len(queue') = n
  OBVIOUS
<1>10. Work = 2 * n + w1 + w2 + w3 + w4 /\ Work' = 2 * n + v1 + v2 + v3 + v4
  BY <1>6, <1>7, <1>9 DEF Work
<1> QED
  BY <1>8, <1>10

(* One thread moves and the queue is as long as n and then m values.       *)
LEMMA WorkMoves ==
  ASSUME TypeOK, NEW t \in Threads, NEW to, Goto(t, to),
         NEW a \in 0 .. 4, NEW b \in 0 .. 4, CallLeft(t) = a, CallLeft(t)' = b,
         NEW n \in Nat, NEW m \in Nat, Len(queue) = n, Len(queue') = m,
         2 * m + b < 2 * n + a
  PROVE  Work' < Work
<1>1. /\ \A k \in 1 .. 4 : Cardinality(WithLeft(k)) \in Nat
      /\ \A k \in 1 .. 4 : Cardinality(WithLeft(k)') \in Nat
  BY WithLeftFinite
<1>2. PICK w1 \in Nat, w2 \in Nat, w3 \in Nat, w4 \in Nat :
        /\ Cardinality(WithLeft(1)) = w1 /\ Cardinality(WithLeft(2)) = w2
        /\ Cardinality(WithLeft(3)) = w3 /\ Cardinality(WithLeft(4)) = w4
  BY <1>1
<1>3. PICK v1 \in Nat, v2 \in Nat, v3 \in Nat, v4 \in Nat :
        /\ Cardinality(WithLeft(1)') = v1 /\ Cardinality(WithLeft(2)') = v2
        /\ Cardinality(WithLeft(3)') = v3 /\ Cardinality(WithLeft(4)') = v4
  BY <1>1
<1>4. v1 + v2 + v3 + v4 = w1 + w2 + w3 + w4 + b - a
  BY <1>2, <1>3, OneMoves
<1>5. Work = 2 * n + w1 + w2 + w3 + w4
  BY <1>2 DEF Work
<1>6. Work' = 2 * m + v1 + v2 + v3 + v4
  BY <1>3 DEF Work
<1> QED
  BY <1>4, <1>5, <1>6

(* A producer ends its call: the value that it pushed is worth less than   *)
(* the push was, and who is woken has one step less to take.               *)
LEMMA ProducerShrinks ==
  ASSUME TypeOK, NEW t \in Producers, PushBack(t) \/ NotifyOne(t)
  PROVE  Work' < Work
<1>a. /\ t \in Threads /\ t \notin Consumers /\ t \notin Stoppers
      /\ pc \in [Threads -> ProducerLocs \union ConsumerLocs \union StopperLocs]
      /\ Len(queue) \in Nat
  BY ThreadsAssumption DEF TypeOK, Threads
<1>1. CASE PushBack(t)
  <2>1. pc[t] = "push" /\ Goto(t, "notifyOne") /\ pc'[t] = "notifyOne"
    BY <1>1, <1>a DEF PushBack, Unlock, Goto
  <2>2. CallLeft(t) = 4 /\ CallLeft(t)' = 1
    BY <1>a, <2>1 DEF CallLeft
  <2>3. Len(queue') = Len(queue) + 1
    BY <1>1 DEF PushBack, TypeOK
  <2> QED
    BY <1>a, <2>1, <2>2, <2>3, WorkMoves
<1>2. CASE NotifyOne(t) /\ At("waiting") = {}
  <2>1. pc[t] = "notifyOne" /\ Goto(t, "idle") /\ pc'[t] = "idle" /\ queue' = queue
    BY <1>2, <1>a DEF NotifyOne, Goto, shared
  <2>2. CallLeft(t) = 1 /\ CallLeft(t)' = 0
    BY <1>a, <2>1 DEF CallLeft
  <2> QED
    BY <1>a, <2>1, <2>2, WorkMoves
<1>3. CASE NotifyOne(t) /\ At("waiting") # {}
  <2>1. PICK c \in At("waiting") : pc' = [pc EXCEPT ![t] = "idle", ![c] = "woken"]
    BY <1>3 DEF NotifyOne
  <2>2. pc[t] = "notifyOne" /\ queue' = queue
    BY <1>3 DEF NotifyOne, shared
  <2>3. c \in Threads /\ pc[c] = "waiting" /\ c # t
    BY <2>2 DEF At
  <2>4. /\ pc'[t] = "idle" /\ pc'[c] = "woken"
        /\ \A u \in Threads \ {t, c} : pc'[u] = pc[u]
    BY <1>a, <2>1, <2>3
  <2>5. CallLeft(t) = 1 /\ CallLeft(t)' = 0
    BY <1>a, <2>2, <2>4 DEF CallLeft
  <2>6. CallLeft(c) = 3 /\ CallLeft(c)' = 2
    BY <2>3, <2>4 DEF CallLeft
  <2>7. \A u \in Threads \ {t, c} : CallLeft(u)' = CallLeft(u)
    BY <2>4 DEF CallLeft
  <2>8. \A u \in Threads : CallLeft(u)' <= CallLeft(u)
    <3> SUFFICES ASSUME NEW u \in Threads
                 PROVE  CallLeft(u)' <= CallLeft(u)
      OBVIOUS
    <3>1. CASE u \notin {t, c}
      BY <2>7, <3>1, CallLeftType
    <3> QED
      BY <2>5, <2>6, <3>1
  <2> QED
    BY <1>a, <2>2, <2>5, <2>8, SeveralMove
<1> QED
  BY <1>1, <1>2, <1>3

(* A consumer: a value popped pays for the way back to the mutex.          *)
LEMMA ConsumerShrinks ==
  ASSUME TypeOK, stopped, SleepyPredicate, NEW t \in Consumers,
         ConsumerStep(t) \/ SpuriousWakeup(t)
  PROVE  Work' < Work
<1>a. /\ t \in Threads /\ t \notin Producers /\ t \notin Stoppers
      /\ pc \in [Threads -> ProducerLocs \union ConsumerLocs \union StopperLocs]
      /\ queue \in Seq(Values) /\ Len(queue) \in Nat
  BY ThreadsAssumption DEF TypeOK, Threads
<1>1. CASE PopLock(t)
  <2>1. pc[t] = "idle" /\ Goto(t, "pop") /\ pc'[t] = "pop" /\ queue' = queue
    BY <1>1, <1>a DEF PopLock, Lock, Goto
  <2>2. CallLeft(t) = 2 /\ CallLeft(t)' = 1
    BY <1>a, <2>1 DEF CallLeft
  <2> QED
    BY <1>a, <2>1, <2>2, WorkMoves
<1>2. CASE Relock(t)
  <2>1. pc[t] = "woken" /\ Goto(t, "pop") /\ pc'[t] = "pop" /\ queue' = queue
    BY <1>2, <1>a DEF Relock, Lock, Goto
  <2>2. CallLeft(t) = 2 /\ CallLeft(t)' = 1
    BY <1>a, <2>1 DEF CallLeft
  <2> QED
    BY <1>a, <2>1, <2>2, WorkMoves
<1>3. CASE SpuriousWakeup(t)
  <2>1. pc[t] = "waiting" /\ Goto(t, "woken") /\ pc'[t] = "woken" /\ queue' = queue
    BY <1>3, <1>a DEF SpuriousWakeup, Goto, shared
  <2>2. CallLeft(t) = 3 /\ CallLeft(t)' = 2
    BY <1>a, <2>1 DEF CallLeft
  <2> QED
    BY <1>a, <2>1, <2>2, WorkMoves
<1>4. CASE PopFront(t)
  <2>1. pc[t] = "pop" /\ Goto(t, "idle") /\ pc'[t] = "idle"
    BY <1>4, <1>a DEF PopFront, Unlock, Goto
  <2>2. CallLeft(t) = 1 /\ CallLeft(t)' = 2
    BY <1>a, <2>1 DEF CallLeft
  <2>3. Len(queue) > 0 /\ Len(queue') = Len(queue) - 1
    BY <1>4, <1>a DEF PopFront
  <2> QED
    BY <1>a, <2>1, <2>2, <2>3, WorkMoves
<1>5. CASE PopFalse(t)
  <2>1. pc[t] = "pop" /\ Goto(t, "done") /\ pc'[t] = "done" /\ queue' = queue
    BY <1>5, <1>a DEF PopFalse, Unlock, Goto
  <2>2. CallLeft(t) = 1 /\ CallLeft(t)' = 0
    BY <1>a, <2>1 DEF CallLeft
  <2> QED
    BY <1>a, <2>1, <2>2, WorkMoves
<1>6. ~PopTest(t) /\ ~PopWait(t)
  BY DEF PopTest, PopWait, Unlock, SleepyPredicate
<1> QED
  BY <1>1, <1>2, <1>3, <1>4, <1>5, <1>6 DEF ConsumerStep

(* A stopper, though another one stopped the queue already.                *)
LEMMA StopperShrinks ==
  ASSUME TypeOK, NEW t \in Stoppers, StopperStep(t)
  PROVE  Work' < Work
<1>a. /\ t \in Threads /\ t \notin Producers /\ t \notin Consumers
      /\ pc \in [Threads -> ProducerLocs \union ConsumerLocs \union StopperLocs]
      /\ Len(queue) \in Nat
  BY ThreadsAssumption DEF TypeOK, Threads
<1>1. CASE StopLock(t)
  <2>1. pc[t] = "idle" /\ Goto(t, "stop") /\ pc'[t] = "stop" /\ queue' = queue
    BY <1>1, <1>a DEF StopLock, Lock, Goto
  <2>2. CallLeft(t) = 3 /\ CallLeft(t)' = 2
    BY <1>a, <2>1 DEF CallLeft
  <2> QED
    BY <1>a, <2>1, <2>2, WorkMoves
<1>2. CASE SetStopped(t)
  <2>1. pc[t] = "stop" /\ Goto(t, "notifyAll") /\ pc'[t] = "notifyAll" /\ queue' = queue
    BY <1>2, <1>a DEF SetStopped, Unlock, Goto
  <2>2. CallLeft(t) = 2 /\ CallLeft(t)' = 1
    BY <1>a, <2>1 DEF CallLeft
  <2> QED
    BY <1>a, <2>1, <2>2, WorkMoves
<1>3. CASE NotifyAll(t)
  <2>1. pc[t] = "notifyAll" /\ pc'[t] = "done" /\ queue' = queue
    BY <1>3, <1>a DEF NotifyAll, shared
  <2>2. CallLeft(t) = 1 /\ CallLeft(t)' = 0
    BY <1>a, <2>1 DEF CallLeft
  <2>3. ASSUME NEW u \in Threads
        PROVE  CallLeft(u)' <= CallLeft(u)
    <3>1. CASE u = t
      BY <2>2, <3>1
    <3>2. CASE u # t /\ pc[u] = "waiting"
      <4>1. pc'[u] = "woken"
        BY <1>3, <3>2 DEF NotifyAll
      <4>2. CallLeft(u) = 3 /\ CallLeft(u)' = 2
        BY <3>2, <4>1 DEF CallLeft
      <4> QED
        BY <4>2
    <3>3. CASE u # t /\ pc[u] # "waiting"
      <4>1. pc'[u] = pc[u]
        BY <1>3, <3>3 DEF NotifyAll
      <4>2. CallLeft(u)' = CallLeft(u)
        BY <4>1 DEF CallLeft
      <4> QED
        BY <4>2, CallLeftType
    <3> QED
      BY <3>1, <3>2, <3>3
  <2> QED
    BY <1>a, <2>1, <2>2, <2>3, SeveralMove
<1> QED
  BY <1>1, <1>2, <1>3 DEF StopperStep

LEMMA WorkType == TypeOK => Work \in Nat
<1>1. ASSUME TypeOK PROVE Work \in Nat
  <2>1. \A k \in 1 .. 4 : Cardinality(WithLeft(k)) \in Nat
    BY WithLeftFinite
  <2>2. Len(queue) \in Nat
    BY <1>1 DEF TypeOK
  <2> QED
    BY <2>1, <2>2 DEF Work
<1> QED
  BY <1>1

(* Once the queue is stopped every step but the start of a push leaves     *)
(* less to be done, a natural number of steps, so the consumers' loops     *)
(* cannot go round for ever.                                               *)
THEOREM StopMakesProgress == Spec => StoppedShrinks /\ [](Work \in Nat)
<1>1. ASSUME IndInv, Next, stopped, ~(\E t \in Producers : PushLock(t))
      PROVE  Work' < Work
  <2>1. TypeOK /\ SleepyPredicate
    BY <1>1 DEF IndInv
  <2>2. ASSUME NEW t \in Producers, ProducerStep(t)
        PROVE  Work' < Work
    BY <1>1, <2>1, <2>2, ProducerShrinks DEF ProducerStep
  <2>3. ASSUME NEW t \in Consumers, ConsumerStep(t) \/ SpuriousWakeup(t)
        PROVE  Work' < Work
    BY <1>1, <2>1, <2>3, ConsumerShrinks
  <2>4. ASSUME NEW t \in Stoppers, StopperStep(t)
        PROVE  Work' < Work
    BY <2>1, <2>4, StopperShrinks
  <2> QED
    BY <1>1, <2>2, <2>3, <2>4 DEF Next
<1>2. IndInv /\ [Next]_vars =>
        [stopped => (\E t \in Producers : PushLock(t)) \/ Work' < Work]_vars
  BY <1>1
<1> QED
  BY <1>2, TypeCorrect, Inductive, WorkType, PTL DEF Spec, StoppedShrinks

(* The consumers that ended are those whose loop is done.                  *)
LEMMA EndedAlways == Spec => []EndedDone
<1>1. Init => EndedDone
  BY DEF Init, EndedDone, Threads
<1>2. ASSUME TypeOK, EndedDone, [Next]_vars
      PROVE  EndedDone'
  <2> USE <1>2, ThreadsAssumption DEF TypeOK, EndedDone, Threads
  <2>1. ASSUME NEW t \in Producers, ProducerStep(t)
        PROVE  EndedDone'
    <3>1. CASE PushLock(t) \/ PushBack(t)
      BY <3>1 DEF PushLock, PushBack, Lock, Unlock, Goto
    <3>2. CASE NotifyOne(t)
      BY <3>2 DEF NotifyOne, Goto, At
    <3> QED
      BY <2>1, <3>1, <3>2 DEF ProducerStep
  <2>2. ASSUME NEW t \in Consumers, ConsumerStep(t) \/ SpuriousWakeup(t)
        PROVE  EndedDone'
    <3>1. CASE PopLock(t) \/ Relock(t) \/ PopTest(t) \/ SpuriousWakeup(t)
      BY <3>1 DEF PopLock, Relock, PopTest, SpuriousWakeup, Lock, Goto
    <3>2. CASE PopWait(t) \/ PopFront(t) \/ PopFalse(t)
      BY <3>2 DEF PopWait, PopFront, PopFalse, Unlock, Goto
    <3> QED
      BY <2>2, <3>1, <3>2 DEF ConsumerStep
  <2>3. ASSUME NEW t \in Stoppers, StopperStep(t)
        PROVE  EndedDone'
    <3>1. CASE StopLock(t) \/ SetStopped(t)
      BY <3>1 DEF StopLock, SetStopped, Lock, Unlock, Goto
    <3>2. CASE NotifyAll(t)
      BY <3>2 DEF NotifyAll
    <3> QED
      BY <2>3, <3>1, <3>2 DEF StopperStep
  <2>4. CASE UNCHANGED vars
    BY <2>4 DEF vars
  <2> QED
    BY <2>1, <2>2, <2>3, <2>4 DEF Next
<1> QED
  BY <1>1, <1>2, TypeCorrect, PTL DEF Spec

(* No deadlock: with a value queued, or the queue stopped, some thread can *)
(* go on in its call until every consumer's loop has ended.                *)
THEOREM NobodyStuck == Spec => []NotStuck
<1>1. ASSUME IndInv, EndedDone, queue # << >> \/ stopped, ended # Consumers,
             \A t \in Threads : ~CanGo(t)
      PROVE  FALSE
  <2>1. /\ TypeOK /\ MutexHeld /\ NoLostWakeup
    BY <1>1 DEF IndInv
  <2>2. \A t \in Threads : pc[t] \notin Critical /\ pc[t] \notin {"notifyOne", "notifyAll"}
    BY <1>1, <2>1 DEF CanGo, MutexHeld
  <2>3. mutex = NoThread
    BY <2>1, <2>2 DEF MutexHeld, TypeOK
  <2>4. \A t \in Threads : pc[t] # "woken" /\ (t \in Consumers => pc[t] # "idle")
    BY <1>1, <2>3 DEF CanGo
  <2>5. PICK c \in Consumers : pc[c] # "done"
    BY <1>1, <2>1 DEF EndedDone, TypeOK
  <2>6. c \in At("waiting")
    BY <2>1, <2>2, <2>4, <2>5 DEF TypeOK, ConsumerLocs, Critical, At, Threads
  <2>7. /\ At("notifyOne") = {} /\ At("woken") = {} /\ At("pop") = {}
        /\ At("notifyAll") = {}
    BY <2>2, <2>4 DEF At, Critical
  <2>8. Underway = 0
    BY <2>7, FS_EmptySet DEF Underway
  <2>9. Len(queue) <= 0 /\ ~stopped
    BY <2>1, <2>6, <2>7, <2>8 DEF NoLostWakeup
  <2>10. queue = << >>
    BY <2>1, <2>9 DEF TypeOK
  <2> QED
    BY <1>1, <2>9, <2>10
<1>2. IndInv /\ EndedDone => NotStuck
  BY <1>1 DEF NotStuck
<1> QED
  BY <1>2, Inductive, EndedAlways, PTL
=============================================================================
