--------------------------- MODULE RfInputProofs ----------------------------
(***************************************************************************)
(* Proofs about RfInput.tla, for every number of web server threads,       *)
(* presets and requests, with and without failures of the device.          *)
(***************************************************************************)
EXTENDS RfInput, TLAPS

LEMMA InitInv == Init => IndInv
<1> SUFFICES ASSUME Init PROVE IndInv
  OBVIOUS
<1>1. 0 \in 0 .. NumPresets - 1 /\ 0 \in 0 .. NumPresets /\ NumPresets \in 0 .. NumPresets
      /\ 0 \in 0 .. MaxPosts /\ 0 \in 0 .. kMaxTries
  BY PresetsAssumption, BoundsAssumption DEF kMaxTries
<1>2. TypeOK
  BY <1>1 DEF Init, TypeOK, MainLocs, Serving, WorkerLocs, SetterLocs
<1>3. LifeCycle /\ SoloPreset /\ SoloRetuneAgrees
  BY DEF Init, LifeCycle, SoloPreset, SoloRetuneAgrees, Setters
<1> QED
  BY <1>2, <1>3 DEF IndInv

(* main's and the worker's steps outside set_band leave the band alone.    *)
LEMMA LifeInv ==
  ASSUME IndInv, MainStep \/ Sigint \/ WorkerStep
  PROVE  IndInv'
<1> USE DEF IndInv
<1>1. CASE SetSampleRate
  <2>1. 0 \in 0 .. NumPresets /\ Main \in Setters
    BY PresetsAssumption DEF Setters
  <2>2. TypeOK'
    BY <1>1, <2>1 DEF SetSampleRate, MainGoto, Goto, TypeOK, MainLocs, Serving, SetterLocs
  <2>3. LifeCycle'
    BY <1>1, <2>1, HandlersAssumption DEF SetSampleRate, MainGoto, Goto, TypeOK, LifeCycle,
       Setters, Serving
  <2>4. SoloPreset' /\ SoloRetuneAgrees'
    BY <1>1, <2>1 DEF SetSampleRate, Goto, TypeOK, SoloPreset, SoloRetuneAgrees
  <2> QED
    BY <2>2, <2>3, <2>4
<1>2. CASE ~SetSampleRate
  <2>1. UNCHANGED <<preset, tuned, pc, index, posts, solo, settled>>
    BY <1>2 DEF MainStep, TryNext, OpenDevice, OpenFails, OpenReturns, Start, Stop, Cancel, Join, Close,
       Sigint, WorkerStep, ResetBuffer, EnterReadAsync, LeaveReadAsync, band
  <2>2. SoloPreset' /\ SoloRetuneAgrees'
    BY <2>1 DEF SoloPreset, SoloRetuneAgrees
  <2>3. TypeOK'
    <3>1. slot' \in 0 .. kMaxTries
      <4>1. CASE TryNext
        BY <4>1 DEF TryNext, kMaxTries, TypeOK
      <4>2. CASE ~TryNext
        <5>1. slot' = slot
          BY <1>2, <4>2 DEF MainStep, OpenDevice, OpenFails, OpenReturns, Start, Stop, Cancel,
             Join, Close, Sigint, WorkerStep, ResetBuffer, EnterReadAsync, LeaveReadAsync
        <5> QED
          BY <5>1 DEF TypeOK
      <4> QED
        BY <4>1, <4>2
    <3>2. main' \in MainLocs /\ worker' \in WorkerLocs
      BY <1>2 DEF MainStep, TryNext, OpenDevice, OpenFails, OpenReturns, Start, Stop, Cancel, Join,
         Close, Sigint, WorkerStep, ResetBuffer, EnterReadAsync, LeaveReadAsync, MainGoto,
         WorkerGoto, TypeOK, MainLocs, Serving, WorkerLocs
    <3>3. running' \in BOOLEAN /\ dev' \in BOOLEAN /\ rated' \in BOOLEAN
      BY <1>2 DEF MainStep, TryNext, OpenDevice, OpenFails, OpenReturns, Start, Stop, Cancel, Join,
         Close, Sigint, WorkerStep, ResetBuffer, EnterReadAsync, LeaveReadAsync, TypeOK
    <3>4. async' \in {"inactive", "running", "canceling"}
      BY <1>2 DEF MainStep, TryNext, OpenDevice, OpenFails, OpenReturns, Start, Stop, Cancel, Join,
         Close, Sigint, WorkerStep, ResetBuffer, EnterReadAsync, LeaveReadAsync, TypeOK
    <3> QED
      BY <2>1, <3>1, <3>2, <3>3, <3>4 DEF TypeOK
  <2>4. LifeCycle'
    <3>0. CASE TryNext
      <4>1. UNCHANGED <<main, worker, running, dev>>
        BY <3>0 DEF TryNext
      <4> QED
        BY <2>1, <4>1 DEF LifeCycle
    <3>10. CASE OpenDevice
      <4>1. main = "open" /\ main' = "openRate" /\ dev' /\ UNCHANGED <<worker, running>>
        BY <3>10 DEF OpenDevice, MainGoto
      <4> QED
        BY <2>1, <4>1 DEF LifeCycle, Serving
    <3>1. CASE OpenFails
      BY <2>1, <3>1 DEF OpenFails, MainGoto, LifeCycle, Serving
    <3>2. CASE OpenReturns
      BY <2>1, <3>2 DEF OpenReturns, MainGoto, LifeCycle, Serving
    <3>3. CASE Start
      BY <2>1, <3>3 DEF Start, MainGoto, LifeCycle, Serving
    <3>4. CASE Sigint
      BY <2>1, <3>4 DEF Sigint, MainGoto, LifeCycle, Serving
    <3>5. CASE Stop
      BY <2>1, <3>5 DEF Stop, MainGoto, LifeCycle, Serving, TypeOK
    <3>6. CASE Cancel
      BY <2>1, <3>6 DEF Cancel, MainGoto, LifeCycle, Serving
    <3>7. CASE Join
      BY <2>1, <3>7 DEF Join, MainGoto, LifeCycle, Serving
    <3>8. CASE Close
      <4>1. \A t \in Setters : pc[t] = "idle"
        BY <3>8 DEF Close, MainGoto, LifeCycle, Serving, Setters
      <4>2. ~running /\ worker \notin {"reset", "enter", "reading"}
        BY <3>8 DEF Close, MainGoto, LifeCycle
      <4> QED
        BY <2>1, <3>8, <4>1, <4>2 DEF Close, MainGoto, LifeCycle, Setters
    <3>9. CASE WorkerStep
      BY <2>1, <3>9 DEF WorkerStep, ResetBuffer, EnterReadAsync, LeaveReadAsync,
         WorkerGoto, LifeCycle
    <3> QED
      BY <1>2, <3>0, <3>1, <3>2, <3>3, <3>4, <3>5, <3>6, <3>7, <3>8, <3>9,
         <3>10 DEF MainStep
  <2> QED
    BY <2>2, <2>3, <2>4
<1> QED
  BY <1>1, <1>2

(* The steps of set_band, by a web server thread or by main inside open.   *)
LEMMA SetBandInv ==
  ASSUME IndInv, NEW t \in Setters, SetBand(t)
  PROVE  IndInv'
<1> USE DEF IndInv
<1>1. /\ UNCHANGED <<main, worker, running, dev, slot, rated, async, index, posts>>
      /\ pc[t] # "idle"
      /\ \E to \in SetterLocs : pc' = [pc EXCEPT ![t] = to] /\ (to = "retune" => dev)
      /\ UNCHANGED tuned \/ tuned' = index[t]
      /\ UNCHANGED preset \/ (preset' = index[t] /\ index[t] < NumPresets)
      /\ solo' \in SUBSET Setters /\ settled' \in BOOLEAN
  <2>1. CASE Reject(t)
    BY <2>1 DEF Reject, Goto, life, SetterLocs, TypeOK
  <2>2. CASE Assign(t)
    <3>1. solo' \in SUBSET Setters
      BY <2>2 DEF Assign
    <3> QED
      BY <2>2, <3>1 DEF Assign, Goto, life, SetterLocs
  <2>3. CASE CheckDevice(t)
    <3>1. /\ UNCHANGED <<main, worker, running, dev, slot, rated, async, preset, tuned, index,
                         posts, solo, settled>>
          /\ pc[t] = "check" /\ pc' = [pc EXCEPT ![t] = IF dev THEN "retune" ELSE "idle"]
      BY <2>3 DEF CheckDevice, Goto, life
    <3>2. CASE dev
      BY <3>1, <3>2 DEF SetterLocs, TypeOK
    <3>3. CASE ~dev
      BY <3>1, <3>3 DEF SetterLocs, TypeOK
    <3> QED
      BY <3>2, <3>3
  <2>4. CASE Retune(t)
    <3>1. settled' \in BOOLEAN
      BY <2>4 DEF Retune
    <3> QED
      BY <2>4, <3>1 DEF Retune, Goto, life, SetterLocs, TypeOK
  <2>5. CASE RetuneFails(t)
    BY <2>5 DEF RetuneFails, Goto, life, SetterLocs, TypeOK
  <2> QED
    BY <2>1, <2>2, <2>3, <2>4, <2>5 DEF SetBand
<1>2. PICK to \in SetterLocs : pc' = [pc EXCEPT ![t] = to] /\ (to = "retune" => dev)
  BY <1>1
<1>3. index[t] \in 0 .. NumPresets /\ NumPresets \in Nat
  BY PresetsAssumption DEF TypeOK
<1>4. TypeOK'
  <2>1. preset' \in 0 .. NumPresets - 1
    BY <1>1, <1>3 DEF TypeOK
  <2>2. tuned' \in 0 .. NumPresets
    BY <1>1, <1>3 DEF TypeOK
  <2> QED
    BY <1>1, <1>2, <2>1, <2>2 DEF TypeOK
<1>5. LifeCycle'
  <2>1. \A u \in Setters : pc'[u] = IF u = t THEN to ELSE pc[u]
    BY <1>2 DEF TypeOK
  <2> QED
    BY <1>1, <1>2, <2>1, HandlersAssumption DEF LifeCycle, Setters
<1>6. SoloPreset' /\ SoloRetuneAgrees'
  <2>1. CASE Assign(t)
    <3>1. /\ preset' = index[t] /\ index' = index /\ ~settled'
          /\ solo' \subseteq {t}
      BY <2>1 DEF Assign
    <3> QED
      BY <3>1 DEF SoloPreset, SoloRetuneAgrees
  <2>2. CASE Retune(t)
    <3>1. /\ pc[t] = "retune" /\ tuned' = index[t] /\ settled' = (t \in solo)
          /\ preset' = preset /\ index' = index /\ solo' = solo
          /\ pc' = [pc EXCEPT ![t] = "idle"]
      BY <2>2 DEF Retune, Goto
    <3>2. settled' => tuned' = preset'
      BY <3>1 DEF SoloPreset
    <3>3. \A u \in solo : u \in Setters /\ pc'[u] = IF u = t THEN "idle" ELSE pc[u]
      BY <3>1 DEF TypeOK
    <3> QED
      BY <3>1, <3>2, <3>3 DEF SoloPreset, SoloRetuneAgrees
  <2>3. CASE Reject(t) \/ CheckDevice(t) \/ RetuneFails(t)
    <3>1. /\ pc[t] \in {"call", "check", "retune"}
          /\ (pc[t] = "call" => pc' = [pc EXCEPT ![t] = "idle"])
          /\ UNCHANGED <<preset, tuned, index, solo, settled>>
      BY <2>3 DEF Reject, CheckDevice, RetuneFails, Goto
    <3>2. \A u \in solo : u \in Setters
                          /\ (pc'[u] \in {"check", "retune"} => pc[u] \in {"check", "retune"})
      BY <1>2, <3>1 DEF TypeOK
    <3> QED
      BY <3>1, <3>2 DEF SoloPreset, SoloRetuneAgrees
  <2> QED
    BY <2>1, <2>2, <2>3 DEF SetBand
<1> QED
  BY <1>4, <1>5, <1>6

LEMMA PostInv ==
  ASSUME IndInv, NEW h \in Handlers, Post(h)
  PROVE  IndInv'
<1> USE DEF IndInv
<1>1. /\ UNCHANGED <<main, worker, running, dev, slot, rated, async, preset, tuned, solo>>
      /\ UNCHANGED settled
      /\ main \in Serving /\ pc[h] = "idle" /\ pc' = [pc EXCEPT ![h] = "call"]
      /\ \E i \in 0 .. NumPresets : index' = [index EXCEPT ![h] = i]
      /\ posts < MaxPosts /\ posts' = posts + 1 /\ h \in Setters
  BY DEF Post, Goto, life, Setters
<1>2. posts' \in 0 .. MaxPosts
  BY <1>1, BoundsAssumption DEF TypeOK
<1>3. TypeOK'
  BY <1>1, <1>2 DEF TypeOK, SetterLocs
<1>4. \A t \in Setters : pc'[t] = (IF t = h THEN "call" ELSE pc[t])
                         /\ (t # h => index'[t] = index[t])
  BY <1>1 DEF TypeOK
<1>5. LifeCycle'
  BY <1>1, <1>4, HandlersAssumption DEF LifeCycle, Setters
<1>6. SoloPreset' /\ SoloRetuneAgrees'
  <2>1. \A t \in solo : t \in Setters
    BY DEF TypeOK
  <2> QED
    BY <1>1, <1>4, <2>1 DEF SoloPreset, SoloRetuneAgrees
<1> QED
  BY <1>3, <1>5, <1>6

(* The invariant of RfInput.tla is inductive.                              *)
THEOREM Inductive == Spec => []IndInv
<1>1. IndInv /\ [Next]_vars => IndInv'
  <2> SUFFICES ASSUME IndInv, [Next]_vars PROVE IndInv'
    OBVIOUS
  <2>1. CASE MainStep \/ Sigint \/ WorkerStep
    BY <2>1, LifeInv
  <2>2. CASE \E t \in Setters : SetBand(t)
    BY <2>2, SetBandInv
  <2>3. CASE \E h \in Handlers : Post(h)
    BY <2>3, PostInv
  <2>4. CASE UNCHANGED vars
    BY <2>4 DEF vars, life, band, IndInv, TypeOK, LifeCycle, SoloPreset, SoloRetuneAgrees
  <2> QED
    BY <2>1, <2>2, <2>3, <2>4 DEF Next
<1> QED
  BY <1>1, InitInv, PTL DEF Spec

(* The fields of RfInput keep their types; above all current_preset_ is an *)
(* index of a preset at every moment, whatever index a request carries.    *)
THEOREM TypeCorrect == Spec => []TypeOK
<1>1. IndInv => TypeOK
  BY DEF IndInv
<1> QED
  BY <1>1, Inductive, PTL

(* No call into librtlsdr uses a device that is not open.                  *)
THEOREM DeviceOpen == Spec => []DeviceOpenWhileUsed
<1>1. IndInv => DeviceOpenWhileUsed
  BY DEF IndInv, LifeCycle, DeviceOpenWhileUsed
<1> QED
  BY <1>1, Inductive, PTL

(* A set_band that met no other one and succeeded leaves the shown band    *)
(* and the tuner in agreement.                                             *)
THEOREM SoloAgrees == Spec => []SoloRetuneAgrees
<1>1. IndInv => SoloRetuneAgrees
  BY DEF IndInv
<1> QED
  BY <1>1, Inductive, PTL

=============================================================================
