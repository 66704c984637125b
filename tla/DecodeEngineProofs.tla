------------------------- MODULE DecodeEngineProofs -------------------------
(***************************************************************************)
(* Invariants of DecodeEngine.tla, for any number of candidates and frames *)
(* and however often JS8 is switched on and off meanwhile; and that a call *)
(* of process comes nearer to its end and is never stuck.                  *)
(***************************************************************************)
EXTENDS DecodeEngine, TLAPS, SequenceTheorems, FiniteSetTheorems

LEMMA ModeType == ASSUME NEW kind, NEW allow  PROVE ModeOf(kind, allow) \in Modes
BY DEF ModeOf, Modes

(* A task decides rightly with the flag as it is when it decides.          *)
LEMMA DecidesRightly ==
  ASSUME FlagHistory, NEW kind \in Kinds, js8 \in BOOLEAN
  PROVE  Matches(kind, ModeOf(kind, js8))
BY DEF FlagHistory, Kinds, Matches, ModeOf

(* Samples, symbols and bins.                                              *)
LEMMA RoomForData ==
  ASSUME NEW c \in Candidates, HasRoom(c), NEW start \in RefinedStarts(c)
  PROVE  /\ start \in 0 .. FrameLen
         /\ \A s \in 0 .. 77 : start + (s + 1) * SymbolLen <= FrameLen
<1> DEFINE step == SymbolLen \div 8
<1>1. SymbolLen \in Nat /\ SymbolLen = 8 * step /\ step \in Nat /\ FrameLen \in Nat
  BY FrameAssumption
<1>2. c.at.t \in Int
  BY FrameAssumption DEF Candidates, Grid
<1> HIDE DEF step
<1>3. FirstSample(c) \in Int /\ FirstSample(c) + 79 * SymbolLen <= FrameLen
  BY <1>2 DEF FirstSample, HasRoom
<1>4. PICK i \in -4 .. 4 : start = FirstSample(c) + i * step
  BY DEF RefinedStarts, step
<1>5. i * step <= 4 * step /\ i * step \in Int
  BY <1>1, <1>4
<1>6. start \in Int /\ start >= 0 /\ start <= FrameLen - 79 * SymbolLen + 4 * step
  BY <1>1, <1>3, <1>4, <1>5 DEF RefinedStarts
<1>7. ASSUME NEW s \in 0 .. 77 PROVE start + (s + 1) * SymbolLen <= FrameLen
  <2>1. (s + 1) * SymbolLen <= 78 * SymbolLen /\ (s + 1) * SymbolLen \in Int
    BY <1>1
  <2> QED
    BY <1>1, <1>6, <2>1
<1> QED
  BY <1>1, <1>6, <1>7

LEMMA BinType ==
  ASSUME NEW c \in Candidates, NEW bin \in RefinedBins(c)
  PROVE  bin \in 0 .. SymbolLen - 8
BY FrameAssumption DEF RefinedBins, Candidates, Grid

LEMMA HeardWhatIsThere ==
  ASSUME NEW k \in Slots, task[k] = "decode", SignalIsWhole
  PROVE  Heard(k) = KindOf(hidden[k])
<1>1. DataTones # {}
  BY DEF DataTones
<1> QED
  BY <1>1 DEF SignalIsWhole, Heard, KindOf

LEMMA KindType == ASSUME NEW c \in Candidates PROVE KindOf(c) \in Kinds
BY DEF KindOf, Candidates, Kinds

(* What matched goes on matching when the flag is switched again.          *)
LEMMA MatchesStill ==
  ASSUME NEW kind, NEW mode, Matches(kind, mode), everOn => everOn', everOff => everOff'
  PROVE  Matches(kind, mode)'
BY DEF Matches

-----------------------------------------------------------------------------

LEMMA InitInductive == Init => IndInv
<1> SUFFICES ASSUME Init PROVE IndInv
  OBVIOUS
<1>1. hidden \in Seq(Candidates) /\ results \in Seq(Modes) /\ Len(hidden) = 0 /\ Len(results) = 0
  BY DEF Init
<1>2. TypeOK
  BY <1>1, BoundsAssumption, FrameAssumption
     DEF Init, TypeOK, Slots, TaskLocs, Modes, Nowhere, Silent
<1>3. Futures
  BY <1>1, BoundsAssumption DEF Init, Futures, Slots
<1>4. FlagHistory
  BY DEF Init, FlagHistory
<1>5. Finished
  BY DEF Init, Finished
<1>6. Signals /\ SignalIsWhole
  BY DEF Init, Signals, SignalIsWhole, Silent
<1> QED
  BY <1>2, <1>3, <1>4, <1>5, <1>6 DEF IndInv

(* process is called, in a state without tasks.                            *)
LEMMA DetectInductive == ASSUME IndInv, Detect PROVE IndInv'
<1> USE DEF IndInv
<1>1. PICK n \in 0 .. MaxCandidates : hidden' \in [1 .. n -> Candidates]
  BY DEF Detect
<1>2. hidden' \in Seq(Candidates) /\ Len(hidden') = n
  BY <1>1, BoundsAssumption, SeqDef
<1>3. results' \in Seq(Modes) /\ Len(results') = 0
  BY DEF Detect
<1>4. TypeOK'
  BY <1>1, <1>2, <1>3, BoundsAssumption, FrameAssumption
     DEF TypeOK, Detect, CallerGoto, Slots, TaskLocs, Modes, Nowhere, Silent
<1>5. Futures'
  BY <1>2, <1>3, BoundsAssumption DEF Detect, CallerGoto, Futures, Slots
<1>6. FlagHistory' /\ Finished'
  BY DEF Detect, FlagHistory, Finished, TypeOK
<1>7. Signals' /\ SignalIsWhole'
  BY DEF Detect, Signals, SignalIsWhole, Silent
<1> QED
  BY <1>4, <1>5, <1>6, <1>7

(* The caller goes on; only Get and Launch touch what the invariant names. *)
LEMMA CallerInductive == ASSUME IndInv, CallerStep \/ LaunchFails PROVE IndInv'
<1> USE DEF IndInv
<1>a. /\ Len(hidden) \in Nat /\ Len(results) \in Nat /\ Len(hidden) <= MaxCandidates
      /\ launched \in Nat /\ MaxCandidates \in Nat
  BY BoundsAssumption DEF TypeOK
<1>b. UNCHANGED <<hidden, signal, found, tones, result, js8, everOn, everOff, frames,
                   toggles>>
  BY DEF CallerStep, Launch, LaunchFails, Launched, Get, Return, Terminate, signal
<1>d. (\A k \in Slots : task'[k] = task[k] \/ (task'[k] = "start" /\ task[k] = "none"))
        => Signals' /\ SignalIsWhole'
  <2> SUFFICES ASSUME \A k \in Slots :
                        task'[k] = task[k] \/ (task'[k] = "start" /\ task[k] = "none")
               PROVE  Signals' /\ SignalIsWhole'
    OBVIOUS
  <2>1. Signals'
    BY <1>b DEF Signals, Nowhere, HasRoom, FirstSample
  <2>2. SignalIsWhole'
    BY <1>b DEF SignalIsWhole, HasRoom, FirstSample
  <2> QED
    BY <2>1, <2>2
<1>c. (\A k \in 1 .. launched' : task'[k] = "done" => k <= launched /\ task[k] = "done")
        => FlagHistory' /\ Finished'
  BY <1>a, <1>b, MatchesStill DEF FlagHistory, Finished
<1>1. CASE Launch
  <2>1. /\ caller = "launch" /\ caller' = "launch" /\ launched < Len(hidden)
        /\ launched' = launched + 1 /\ results' = results
        /\ task' = [task EXCEPT ![launched + 1] = "start"]
    BY <1>1 DEF Launch, CallerGoto
  <2>2. launched + 1 \in Slots
    BY <1>a, <2>1 DEF Slots
  <2>3. TypeOK'
    BY <1>a, <1>b, <2>1, <2>2 DEF TypeOK, TaskLocs
  <2>9. \A k \in Slots : task'[k] = IF k = launched + 1 THEN "start" ELSE task[k]
    BY <2>1 DEF TypeOK
  <2>4. Futures'
    <3>1. \A k \in Slots : task'[k] = "none" <=> k > launched'
      <4>1. \A k \in Slots : k \in Int
        BY DEF Slots
      <4> QED
        BY <1>a, <2>1, <2>9, <4>1 DEF Futures
    <3>2. \A k \in 1 .. Len(results) :
            k \in Slots /\ k # launched + 1 /\ task'[k] = "done" /\ results'[k] = result'[k]
      <4>1. \A k \in 1 .. Len(results) : k \in Slots /\ k # launched + 1
        BY <1>a, <2>1 DEF Slots, TypeOK
      <4> QED
        BY <1>b, <2>1, <2>9, <4>1 DEF Futures
    <3> QED
      BY <2>1, <3>1, <3>2 DEF Futures
  <2>5. \A k \in 1 .. launched' : task'[k] = "done" => k <= launched /\ task[k] = "done"
    BY <1>a, <2>1, <2>2 DEF TypeOK, Slots
  <2>6. \A k \in Slots : task'[k] = task[k] \/ (task'[k] = "start" /\ task[k] = "none")
    <3>1. task[launched + 1] = "none"
      BY <1>a, <2>2 DEF Futures
    <3> QED
      BY <2>9, <3>1
  <2>7. FlagHistory' /\ Finished'
    BY <1>c, <2>5
  <2>8. Signals' /\ SignalIsWhole'
    BY <1>d, <2>6
  <2> QED
    BY <2>3, <2>4, <2>7, <2>8
<1>2. CASE Get
  <2>1. /\ caller = "collect" /\ UNCHANGED <<caller, launched, task>>
        /\ Len(results) < launched /\ task[Len(results) + 1] = "done"
        /\ results' = Append(results, result[Len(results) + 1])
    BY <1>2 DEF Get
  <2>2. result[Len(results) + 1] \in Modes
    BY <1>a, <2>1 DEF TypeOK, Slots
  <2>3. /\ results' \in Seq(Modes) /\ Len(results') = Len(results) + 1
        /\ \A k \in 1 .. Len(results) : results'[k] = results[k]
        /\ results'[Len(results) + 1] = result[Len(results) + 1]
    BY <2>1, <2>2, AppendProperties DEF TypeOK
  <2>4. TypeOK'
    BY <1>a, <1>b, <2>1, <2>3 DEF TypeOK
  <2>5. Futures'
    BY <1>a, <1>b, <2>1, <2>3 DEF Futures
  <2>6. FlagHistory' /\ Finished'
    BY <1>a, <1>c, <2>1
  <2>7. Signals' /\ SignalIsWhole'
    <3>1. \A k \in Slots : task'[k] = task[k]
      BY <2>1
    <3> QED
      BY <1>d, <3>1
  <2> QED
    BY <2>4, <2>5, <2>6, <2>7
<1>3. CASE Launched \/ Return \/ Terminate \/ LaunchFails
  <2>1. UNCHANGED <<launched, task, results>>
    BY <1>3 DEF Launched, Return, Terminate, LaunchFails
  <2>2. \/ caller = "launch" /\ caller' = "collect" /\ launched = Len(hidden)
        \/ caller = "collect" /\ caller' = "idle" /\ Len(results) = launched
        \/ caller' \in {"unwind", "terminated"}
    BY <1>3 DEF Launched, Return, Terminate, LaunchFails, CallerGoto
  <2>3. TypeOK'
    BY <1>b, <2>1, <2>2 DEF TypeOK
  <2>4. Futures'
    BY <1>b, <2>1, <2>2 DEF Futures
  <2>6. FlagHistory' /\ Finished'
    BY <1>a, <1>c, <2>1
  <2>7. Signals' /\ SignalIsWhole'
    <3>1. \A k \in Slots : task'[k] = task[k]
      BY <2>1
    <3> QED
      BY <1>d, <3>1
  <2> QED
    BY <2>3, <2>4, <2>6, <2>7
<1> QED
  BY <1>1, <1>2, <1>3 DEF CallerStep

(* What a step of a task makes of its signal.                              *)
LEMMA SignalStep ==
  ASSUME IndInv, NEW k \in Slots, TaskStep(k), hidden[k] \in Candidates, hidden' = hidden
  PROVE  /\ found' \in [Slots -> [bin : 0 .. SymbolLen - 1, start : 0 .. FrameLen]]
         /\ tones' \in [Slots -> SUBSET Symbols]
         /\ Signals' /\ SignalIsWhole'
<1> USE DEF IndInv
<1>a. \A j \in Slots : HasRoom(hidden[j])' <=> HasRoom(hidden[j])
  BY DEF HasRoom, FirstSample
<1>b. PICK to \in TaskLocs : task' = [task EXCEPT ![k] = to]
  BY DEF TaskStep, Demodulate, Planned, Executed, Destroyed, Decode, TaskGoto, TaskLocs
<1>c. \A j \in Slots \ {k} : task'[j] = task[j]
  BY <1>b DEF TypeOK
<1>d. Nowhere' = Nowhere /\ Nowhere[k] \in [bin : 0 .. SymbolLen - 1, start : 0 .. FrameLen]
  BY FrameAssumption DEF Nowhere
<1>1. CASE Demodulate(k) \/ Planned(k)
  <2>1. UNCHANGED <<found, tones>>
    BY <1>1 DEF Demodulate, Planned, signal
  <2>2. /\ tones[k] = {}
        /\ \/ task'[k] \in {"plan", "execute"} /\ HasRoom(hidden[k])
           \/ task'[k] = "decode" /\ ~HasRoom(hidden[k])
        /\ task[k] \in {"start", "plan"}
    BY <1>1 DEF Demodulate, Planned, TaskGoto, TypeOK, Signals
  <2>3. found[k] = Nowhere[k] /\ found[k].start >= 0 /\ found[k].bin \in 0 .. SymbolLen - 8
    BY <2>2, FrameAssumption DEF Signals, Nowhere
  <2>4. Signals'
    BY <1>a, <1>c, <1>d, <2>1, <2>2, <2>3 DEF Signals
  <2>5. SignalIsWhole'
    BY <1>a, <1>c, <2>1, <2>2, <2>3 DEF SignalIsWhole
  <2> QED
    BY <2>1, <2>4, <2>5 DEF TypeOK
<1>2. CASE Executed(k)
  <2>1. PICK bin \in RefinedBins(hidden[k]), start \in RefinedStarts(hidden[k]) :
          /\ found' = [found EXCEPT ![k] = [bin |-> bin, start |-> start]]
          /\ tones' = [tones EXCEPT ![k] =
                         {s \in Symbols : start + (s + 1) * SymbolLen <= FrameLen}]
    BY <1>2 DEF Executed
  <2>2. task[k] = "execute" /\ task'[k] = "destroy" /\ HasRoom(hidden[k])
    BY <1>2 DEF Executed, TaskGoto, TypeOK, Signals
  <2>3. bin \in 0 .. SymbolLen - 8 /\ start \in 0 .. FrameLen
        /\ \A s \in 0 .. 77 : start + (s + 1) * SymbolLen <= FrameLen
    BY <2>2, BinType, RoomForData
  <2>4. bin \in 0 .. SymbolLen - 1
    BY <2>3, FrameAssumption
  <2>5. /\ found'[k] = [bin |-> bin, start |-> start]
        /\ tones'[k] = {s \in Symbols : start + (s + 1) * SymbolLen <= FrameLen}
        /\ \A j \in Slots \ {k} : found'[j] = found[j] /\ tones'[j] = tones[j]
    BY <2>1 DEF TypeOK
  <2>6. DataTones \subseteq tones'[k] /\ tones'[k] # {}
    BY <2>3, <2>5 DEF DataTones, Symbols
  <2>7. Signals'
    BY <1>a, <1>c, <1>d, <2>2, <2>5, <2>6 DEF Signals
  <2>8. SignalIsWhole'
    BY <1>a, <1>c, <2>2, <2>3, <2>5, <2>6 DEF SignalIsWhole
  <2> QED
    BY <2>1, <2>3, <2>4, <2>7, <2>8 DEF TypeOK
<1>3. CASE Destroyed(k)
  <2>1. UNCHANGED <<found, tones>> /\ task[k] = "destroy" /\ task'[k] = "decode"
    BY <1>3 DEF Destroyed, TaskGoto, TypeOK, signal
  <2>2. tones[k] # {}
    BY <2>1 DEF Signals, SignalIsWhole
  <2>3. Signals'
    BY <1>a, <1>c, <1>d, <2>1, <2>2 DEF Signals
  <2>4. SignalIsWhole'
    BY <1>a, <1>c, <2>1, <2>2 DEF SignalIsWhole
  <2> QED
    BY <2>1, <2>3, <2>4 DEF TypeOK
<1>4. CASE Decode(k)
  <2>1. /\ found' = [found EXCEPT ![k] = Nowhere[k]] /\ tones' = [tones EXCEPT ![k] = {}]
        /\ task'[k] = "done"
    BY <1>4 DEF Decode, TaskGoto, TypeOK
  <2>2. /\ found'[k] = Nowhere[k] /\ tones'[k] = {}
        /\ \A j \in Slots \ {k} : found'[j] = found[j] /\ tones'[j] = tones[j]
    BY <2>1 DEF TypeOK
  <2>3. Signals'
    BY <1>a, <1>c, <1>d, <2>1, <2>2 DEF Signals
  <2>4. SignalIsWhole'
    BY <1>a, <1>c, <2>1, <2>2 DEF SignalIsWhole
  <2> QED
    BY <1>d, <2>1, <2>3, <2>4 DEF TypeOK
<1> QED
  BY <1>1, <1>2, <1>3, <1>4 DEF TaskStep

(* A task goes on.                                                         *)
LEMMA TaskInductive == ASSUME IndInv, NEW k \in Slots, TaskStep(k) PROVE IndInv'
<1> USE DEF IndInv
<1>a. /\ Len(hidden) \in Nat /\ Len(results) \in Nat /\ Len(hidden) <= MaxCandidates
      /\ launched \in Nat /\ launched <= Len(hidden) /\ MaxCandidates \in Nat
  BY BoundsAssumption DEF TypeOK
<1>b. UNCHANGED <<caller, hidden, launched, results, js8, everOn, everOff, frames, toggles>>
  BY DEF TaskStep, Demodulate, Planned, Executed, Destroyed, Decode, TaskGoto
<1>c. PICK to \in TaskLocs \ {"none"} :
        /\ task[k] \notin {"none", "done"} /\ task' = [task EXCEPT ![k] = to]
        /\ \/ to # "done" /\ result' = result
           \/ to = "done" /\ task[k] = "decode"
              /\ result' = [result EXCEPT ![k] = ModeOf(Heard(k), js8)]
  BY DEF TaskStep, Demodulate, Planned, Executed, Destroyed, Decode, TaskGoto, TaskLocs
<1>d. k \in 1 .. launched /\ hidden[k] \in Candidates
  BY <1>a, <1>c DEF TypeOK, Futures, Slots
<1>e. ~(k <= Len(results))
  BY <1>a, <1>c, <1>d DEF Futures
<1>f. /\ found' \in [Slots -> [bin : 0 .. SymbolLen - 1, start : 0 .. FrameLen]]
      /\ tones' \in [Slots -> SUBSET Symbols]
      /\ Signals' /\ SignalIsWhole'
  <2> HIDE DEF IndInv
  <2> QED
    BY <1>b, <1>d, SignalStep
<1>1. TypeOK'
  <2>1. task' \in [Slots -> TaskLocs]
    BY <1>c DEF TypeOK
  <2>2. result' \in [Slots -> Modes]
    <3>1. CASE result' = result
      BY <3>1 DEF TypeOK
    <3>2. CASE result' = [result EXCEPT ![k] = ModeOf(Heard(k), js8)]
      <4>1. ModeOf(Heard(k), js8) \in Modes
        BY ModeType
      <4> QED
        BY <3>2, <4>1 DEF TypeOK
    <3> QED
      BY <1>c, <3>1, <3>2
  <2> QED
    BY <1>b, <1>f, <2>1, <2>2 DEF TypeOK
<1>g. /\ task'[k] \notin {"none"} /\ \A j \in Slots \ {k} : task'[j] = task[j]
      /\ \A j \in Slots \ {k} : result'[j] = result[j]
  BY <1>c DEF TypeOK
<1>2. Futures'
  BY <1>a, <1>b, <1>c, <1>d, <1>e, <1>g DEF Futures, Slots
<1>3. Finished'
  <2> SUFFICES ASSUME NEW j \in 1 .. launched, task'[j] = "done"
               PROVE  Matches(KindOf(hidden[j]), result[j])'
    BY <1>b DEF Finished
  <2>1. CASE j = k
    <3>1. to = "done" /\ task[k] = "decode"
      BY <1>c, <2>1 DEF TypeOK
    <3>2. result'[j] = ModeOf(KindOf(hidden[j]), js8)
      BY <1>c, <2>1, <3>1, HeardWhatIsThere DEF TypeOK
    <3>3. Matches(KindOf(hidden[j]), ModeOf(KindOf(hidden[j]), js8))
      BY <1>d, <2>1, DecidesRightly, KindType DEF TypeOK
    <3> QED
      BY <1>b, <3>2, <3>3 DEF Matches, KindOf, HasRoom, FirstSample
  <2>2. CASE j # k
    <3>1. task[j] = "done" /\ result'[j] = result[j]
      <4>1. j \in Slots \ {k}
        BY <1>a, <2>2 DEF Slots, TypeOK
      <4> QED
        BY <1>g, <4>1
    <3> QED
      BY <1>b, <3>1 DEF Finished, Matches, KindOf, HasRoom, FirstSample
  <2> QED
    BY <2>1, <2>2
<1> QED
  BY <1>1, <1>2, <1>3, <1>b, <1>f DEF FlagHistory

(* JS8 is switched on or off.                                              *)
LEMMA SetJs8Inductive == ASSUME IndInv, SetJs8 PROVE IndInv'
<1> USE DEF IndInv
<1>1. PICK en \in BOOLEAN :
        js8' = en /\ everOn' = (everOn \/ en) /\ everOff' = (everOff \/ ~en)
  BY DEF SetJs8
<1>2. TypeOK'
  BY <1>1, BoundsAssumption DEF TypeOK, SetJs8, signal
<1>3. Futures' /\ FlagHistory'
  BY <1>1 DEF SetJs8, Futures, FlagHistory, TypeOK
<1>4. Finished'
  BY <1>1 DEF SetJs8, Finished, Matches, KindOf, HasRoom, FirstSample
<1>5. Signals' /\ SignalIsWhole'
  BY DEF SetJs8, signal, Signals, SignalIsWhole, HasRoom, FirstSample, Nowhere
<1> QED
  BY <1>2, <1>3, <1>4, <1>5

(* The inductive invariant of the decode engine.                           *)
THEOREM Inductive == Spec => []IndInv
<1>1. IndInv /\ [Next]_vars => IndInv'
  <2> SUFFICES ASSUME IndInv, [Next]_vars PROVE IndInv'
    OBVIOUS
  <2>1. CASE UNCHANGED vars
    <3>1. TypeOK' /\ Futures' /\ FlagHistory'
      BY <2>1 DEF vars, signal, IndInv, TypeOK, Futures, FlagHistory
    <3>2. Signals' /\ SignalIsWhole'
      BY <2>1 DEF vars, signal, IndInv, Signals, SignalIsWhole, HasRoom, FirstSample, Nowhere
    <3>3. Finished'
      BY <2>1 DEF vars, IndInv, Finished, Matches, KindOf, HasRoom, FirstSample
    <3> QED
      BY <3>1, <3>2, <3>3 DEF IndInv
  <2>2. CASE Next
    BY <2>2, DetectInductive, CallerInductive, TaskInductive, SetJs8Inductive DEF Next
  <2> QED
    BY <2>1, <2>2
<1> QED
  BY <1>1, InitInductive, PTL DEF Spec

(* Every variable keeps to its type.                                       *)
THEOREM TypeCorrect == Spec => []TypeOK
<1>1. IndInv => TypeOK
  BY DEF IndInv
<1> QED
  BY <1>1, Inductive, PTL

(* process returns only when every task it started is done with the frame. *)
THEOREM FrameSafe == Spec => []FrameOutlivesTasks
<1>1. IndInv => FrameOutlivesTasks
  BY BoundsAssumption DEF IndInv, TypeOK, Futures, FrameOutlivesTasks, Slots
<1> QED
  BY <1>1, Inductive, PTL

(* Whatever the refinements choose, a transmission with room for all its   *)
(* symbols is read within the frame, with all the tones that carry data.   *)
THEOREM SignalsWhole == Spec => []SignalIsWhole
<1>1. IndInv => SignalIsWhole
  BY DEF IndInv
<1> QED
  BY <1>1, Inductive, PTL

(* The results are those of the candidates, in their order, with JS8 as it *)
(* was set when each was decoded.                                          *)
THEOREM ResultsRight == Spec => []ResultsMatchCandidates
<1>1. IndInv => ResultsMatchCandidates
  BY DEF IndInv, TypeOK, Futures, Finished, ResultsMatchCandidates
<1> QED
  BY <1>1, Inductive, PTL

-----------------------------------------------------------------------------
(* The end of a call of process.                                           *)

(* The candidates with steps left are finitely many.                       *)
LEMMA WithLeftFinite ==
  ASSUME NEW n
  PROVE  /\ IsFiniteSet(WithLeft(n)) /\ Cardinality(WithLeft(n)) \in Nat
         /\ IsFiniteSet(WithLeft(n)') /\ Cardinality(WithLeft(n)') \in Nat
<1>1. IsFiniteSet(Slots)
  BY FS_Interval, BoundsAssumption DEF Slots
<1>2. WithLeft(n) \in SUBSET Slots /\ WithLeft(n)' \in SUBSET Slots
  BY DEF WithLeft, Slots
<1>3. IsFiniteSet(WithLeft(n)) /\ IsFiniteSet(WithLeft(n)')
  BY <1>1, <1>2, FS_Subset
<1> QED
  BY <1>3, FS_CardinalityType

(* A task has at most six steps left.                                      *)
LEMMA TaskLeftType == ASSUME NEW k PROVE TaskLeft(k) \in 0 .. 6
BY DEF TaskLeft

LEMMA TaskLeftPrimed == ASSUME NEW k PROVE TaskLeft(k)' \in 0 .. 6
BY DEF TaskLeft

(* A task that takes a step is counted once less, and no task is counted   *)
(* more often than before.                                                 *)
LEMMA FewerCounted ==
  ASSUME NEW k \in Slots, NEW a \in 0 .. 6, NEW b \in 0 .. 6, b < a,
         TaskLeft(k) = a, TaskLeft(k)' = b,
         \A j \in Slots \ {k} : TaskLeft(j)' = TaskLeft(j)
  PROVE  /\ \A n \in 1 .. 6 : Cardinality(WithLeft(n)') <= Cardinality(WithLeft(n))
         /\ Cardinality(WithLeft(a)') < Cardinality(WithLeft(a))
<1>1. ASSUME NEW n \in 1 .. 6
      PROVE  WithLeft(n)' \subseteq WithLeft(n)
  <2> SUFFICES ASSUME NEW j \in WithLeft(n)' PROVE j \in WithLeft(n)
    OBVIOUS
  <2>1. j \in Slots /\ TaskLeft(j)' >= n
    BY DEF WithLeft, Slots
  <2>2. TaskLeft(j) >= n
    <3>1. CASE j = k
      BY <2>1, <3>1
    <3>2. CASE j # k
      BY <2>1, <3>2
    <3> QED
      BY <3>1, <3>2
  <2> QED
    BY <2>1, <2>2 DEF WithLeft
<1>2. \A n \in 1 .. 6 : Cardinality(WithLeft(n)') <= Cardinality(WithLeft(n))
  BY <1>1, WithLeftFinite, FS_Subset
<1>3. a \in 1 .. 6 /\ k \in WithLeft(a) /\ k \notin WithLeft(a)'
  BY DEF WithLeft
<1>4. WithLeft(a)' \in SUBSET (WithLeft(a) \ {k})
  BY <1>1, <1>3
<1>5. /\ IsFiniteSet(WithLeft(a) \ {k})
      /\ Cardinality(WithLeft(a) \ {k}) = Cardinality(WithLeft(a)) - 1
  BY <1>3, WithLeftFinite, FS_RemoveElement
<1>6. Cardinality(WithLeft(a)') <= Cardinality(WithLeft(a) \ {k})
  BY <1>4, <1>5, FS_Subset
<1>7. PICK m \in Nat : m = Cardinality(WithLeft(a))
  BY WithLeftFinite
<1>8. PICK l \in Nat : l = Cardinality(WithLeft(a)')
  BY WithLeftFinite
<1>9. l < m
  BY <1>5, <1>6, <1>7, <1>8
<1> QED
  BY <1>2, <1>7, <1>8, <1>9

(* The caller and the futures do not get more to do, and a task has less.  *)
LEMMA TaskMoves ==
  ASSUME TypeOK, UNCHANGED <<caller, results>>, NEW k \in Slots, NEW to,
         task' = [task EXCEPT ![k] = to], TaskLeft(k)' < TaskLeft(k)
  PROVE  CallLeft' < CallLeft
<1>a. PICK a \in 0 .. 6 : TaskLeft(k) = a
  BY TaskLeftType
<1>b. PICK b \in 0 .. 6 : TaskLeft(k)' = b
  BY TaskLeftPrimed
<1>c. b < a
  BY <1>a, <1>b
<1>1. \A j \in Slots \ {k} : TaskLeft(j)' = TaskLeft(j)
  <2>1. \A j \in Slots \ {k} : task'[j] = task[j]
    BY DEF TypeOK
  <2> QED
    BY <2>1 DEF TaskLeft
<1>2. PICK c \in Nat : c = CallerLeft /\ CallerLeft' = c
  <2>1. CallerLeft \in Nat
    BY DEF CallerLeft
  <2>2. CallerLeft' = CallerLeft
    BY DEF CallerLeft
  <2> QED
    BY <2>1, <2>2
<1>3. PICK r \in Nat : r = Len(results) /\ Len(results') = r
  BY DEF TypeOK
<1>4. PICK w1 \in Nat, w2 \in Nat, w3 \in Nat, w4 \in Nat, w5 \in Nat, w6 \in Nat :
        /\ Cardinality(WithLeft(1)) = w1 /\ Cardinality(WithLeft(2)) = w2
        /\ Cardinality(WithLeft(3)) = w3 /\ Cardinality(WithLeft(4)) = w4
        /\ Cardinality(WithLeft(5)) = w5 /\ Cardinality(WithLeft(6)) = w6
  BY WithLeftFinite
<1>5. PICK v1 \in Nat, v2 \in Nat, v3 \in Nat, v4 \in Nat, v5 \in Nat, v6 \in Nat :
        /\ Cardinality(WithLeft(1)') = v1 /\ Cardinality(WithLeft(2)') = v2
        /\ Cardinality(WithLeft(3)') = v3 /\ Cardinality(WithLeft(4)') = v4
        /\ Cardinality(WithLeft(5)') = v5 /\ Cardinality(WithLeft(6)') = v6
  BY WithLeftFinite
<1>6. /\ \A n \in 1 .. 6 : Cardinality(WithLeft(n)') <= Cardinality(WithLeft(n))
      /\ Cardinality(WithLeft(a)') < Cardinality(WithLeft(a))
  BY <1>1, <1>a, <1>b, <1>c, FewerCounted
<1>7. v1 <= w1 /\ v2 <= w2 /\ v3 <= w3 /\ v4 <= w4 /\ v5 <= w5 /\ v6 <= w6
  BY <1>4, <1>5, <1>6
<1>8. v1 < w1 \/ v2 < w2 \/ v3 < w3 \/ v4 < w4 \/ v5 < w5 \/ v6 < w6
  <2>1. a = 1 \/ a = 2 \/ a = 3 \/ a = 4 \/ a = 5 \/ a = 6
    BY <1>c
  <2> QED
    BY <1>4, <1>5, <1>6, <2>1
<1>9. CallLeft = c + (MaxCandidates - r) + w1 + w2 + w3 + w4 + w5 + w6
  BY <1>2, <1>3, <1>4 DEF CallLeft
<1>10. CallLeft' = c + (MaxCandidates - r) + v1 + v2 + v3 + v4 + v5 + v6
  BY <1>2, <1>3, <1>5 DEF CallLeft
<1> QED
  BY <1>7, <1>8, <1>9, <1>10, BoundsAssumption

(* The tasks stand still, and the caller has n and then m left to do.      *)
LEMMA CallerMoves ==
  ASSUME TypeOK, task' = task,
         NEW n \in Int, NEW m \in Int, m <= n,
         CallerLeft + (MaxCandidates - Len(results)) = n,
         (CallerLeft + (MaxCandidates - Len(results)))' = m
  PROVE  /\ m < n => CallLeft' < CallLeft
         /\ m = n => CallLeft' = CallLeft
<1>1. \A i \in 1 .. 6 : WithLeft(i)' = WithLeft(i)
  BY DEF WithLeft, TaskLeft, Slots
<1>2. PICK w1 \in Nat, w2 \in Nat, w3 \in Nat, w4 \in Nat, w5 \in Nat, w6 \in Nat :
        /\ Cardinality(WithLeft(1)) = w1 /\ Cardinality(WithLeft(2)) = w2
        /\ Cardinality(WithLeft(3)) = w3 /\ Cardinality(WithLeft(4)) = w4
        /\ Cardinality(WithLeft(5)) = w5 /\ Cardinality(WithLeft(6)) = w6
  BY WithLeftFinite
<1>3. CallLeft = n + w1 + w2 + w3 + w4 + w5 + w6
  BY <1>2 DEF CallLeft
<1>4. /\ Cardinality(WithLeft(1)') = w1 /\ Cardinality(WithLeft(2)') = w2
      /\ Cardinality(WithLeft(3)') = w3 /\ Cardinality(WithLeft(4)') = w4
      /\ Cardinality(WithLeft(5)') = w5 /\ Cardinality(WithLeft(6)') = w6
  <2>1. /\ WithLeft(1)' = WithLeft(1) /\ WithLeft(2)' = WithLeft(2) /\ WithLeft(3)' = WithLeft(3)
        /\ WithLeft(4)' = WithLeft(4) /\ WithLeft(5)' = WithLeft(5) /\ WithLeft(6)' = WithLeft(6)
    BY <1>1
  <2> QED
    BY <1>2, <2>1
<1>5. CallLeft' = m + w1 + w2 + w3 + w4 + w5 + w6
  BY <1>4 DEF CallLeft
<1> QED
  BY <1>3, <1>5

(* A task goes on.                                                         *)
LEMMA TaskShrinks ==
  ASSUME TypeOK, NEW k \in Slots, TaskStep(k)
  PROVE  CallLeft' < CallLeft
<1>1. /\ UNCHANGED <<caller, results>>
      /\ \/ /\ task[k] = "start"
            /\ \/ task' = [task EXCEPT ![k] = "plan"]
               \/ task' = [task EXCEPT ![k] = "decode"]
         \/ task[k] = "plan" /\ task' = [task EXCEPT ![k] = "execute"]
         \/ task[k] = "execute" /\ task' = [task EXCEPT ![k] = "destroy"]
         \/ task[k] = "destroy" /\ task' = [task EXCEPT ![k] = "decode"]
         \/ task[k] = "decode" /\ task' = [task EXCEPT ![k] = "done"]
  BY DEF TaskStep, Demodulate, Planned, Executed, Destroyed, Decode, TaskGoto
<1>2. task \in [Slots -> TaskLocs]
  BY DEF TypeOK
<1>3. TaskLeft(k)' < TaskLeft(k)
  BY <1>1, <1>2 DEF TaskLeft
<1> QED
  BY <1>1, <1>3, TaskMoves

(* The caller goes on, or fails to.                                        *)
LEMMA CallerShrinks ==
  ASSUME TypeOK, Futures, CallerStep \/ LaunchFails
  PROVE  CallLeft' < CallLeft
<1>a. /\ Len(results) \in Nat /\ MaxCandidates \in Nat /\ launched \in Nat
      /\ Len(hidden) \in Nat /\ launched <= Len(hidden) /\ Len(hidden) <= MaxCandidates
  BY BoundsAssumption DEF TypeOK
<1>1. CASE Launch
  <2>1. /\ UNCHANGED <<caller, results>> /\ launched + 1 \in Slots
        /\ task' = [task EXCEPT ![launched + 1] = "start"]
    BY <1>1, <1>a DEF Launch, CallerGoto, Slots
  <2>2. task[launched + 1] = "none"
    BY <1>a, <2>1 DEF Futures
  <2>3. TaskLeft(launched + 1) = 6
    BY <2>2 DEF TaskLeft
  <2>4. PICK k \in Slots : k = launched + 1
    BY <2>1
  <2>5. task'[k] = "start" /\ task' = [task EXCEPT ![k] = "start"]
    BY <2>1, <2>4 DEF TypeOK
  <2>6. TaskLeft(k) = 6 /\ TaskLeft(k)' = 5
    BY <2>3, <2>4, <2>5 DEF TaskLeft
  <2>7. TaskLeft(k)' < TaskLeft(k)
    BY <2>6
  <2> QED
    BY <2>1, <2>5, <2>7, TaskMoves
<1>2. CASE Get
  <2>1. /\ UNCHANGED <<caller, task>> /\ Len(results') = Len(results) + 1
    BY <1>2 DEF Get, TypeOK
  <2>2. PICK c \in Nat : CallerLeft = c /\ CallerLeft' = c
    BY <2>1 DEF CallerLeft
  <2>3. PICK r \in Nat : Len(results) = r /\ Len(results') = r + 1
    BY <1>a, <2>1
  <2> QED
    BY <1>a, <2>1, <2>2, <2>3, CallerMoves
<1>3. CASE Launched \/ Return \/ Terminate \/ LaunchFails
  <2>1. /\ UNCHANGED <<task, results>>
        /\ \/ caller = "launch" /\ caller' = "collect"
           \/ caller = "launch" /\ caller' = "unwind"
           \/ caller = "launch" /\ caller' = "terminated"
           \/ caller = "collect" /\ caller' = "idle"
           \/ caller = "unwind" /\ caller' = "terminated"
    BY <1>3 DEF Launched, Return, Terminate, LaunchFails, CallerGoto
  <2>2. PICK c \in Nat, d \in Nat : d < c /\ CallerLeft = c /\ CallerLeft' = d
    BY <2>1 DEF CallerLeft
  <2>3. PICK r \in Nat : Len(results) = r /\ Len(results') = r
    BY <1>a, <2>1
  <2> QED
    BY <1>a, <2>1, <2>2, <2>3, CallerMoves
<1> QED
  BY <1>1, <1>2, <1>3 DEF CallerStep

LEMMA CallLeftNat == TypeOK => CallLeft \in Nat
<1>1. ASSUME TypeOK PROVE CallLeft \in Nat
  <2>1. PICK r \in Nat : r = Len(results) /\ r <= MaxCandidates
    <3>1. /\ Len(results) \in Nat /\ Len(hidden) \in Nat /\ launched \in Nat
          /\ Len(results) <= launched /\ launched <= Len(hidden) /\ Len(hidden) <= MaxCandidates
      BY <1>1 DEF TypeOK
    <3> QED
      BY <3>1, BoundsAssumption
  <2>2. CallerLeft \in Nat
    BY DEF CallerLeft
  <2>3. MaxCandidates - r \in Nat
    BY <2>1, BoundsAssumption
  <2>4. PICK w1 \in Nat, w2 \in Nat, w3 \in Nat, w4 \in Nat, w5 \in Nat, w6 \in Nat :
          /\ Cardinality(WithLeft(1)) = w1 /\ Cardinality(WithLeft(2)) = w2
          /\ Cardinality(WithLeft(3)) = w3 /\ Cardinality(WithLeft(4)) = w4
          /\ Cardinality(WithLeft(5)) = w5 /\ Cardinality(WithLeft(6)) = w6
    BY WithLeftFinite
  <2>5. CallLeft = CallerLeft + (MaxCandidates - r) + w1 + w2 + w3 + w4 + w5 + w6
    BY <2>1, <2>4 DEF CallLeft
  <2> QED
    BY <2>2, <2>3, <2>5
<1> QED
  BY <1>1

(* A call of process comes nearer to its end with every step, of which it  *)
(* has a natural number left.                                              *)
THEOREM CallMakesProgress == Spec => CallShrinks /\ [](CallLeft \in Nat)
<1>1. ASSUME IndInv, Next, caller \notin {"idle", "terminated"}
      PROVE  IF SetJs8 THEN CallLeft' = CallLeft ELSE CallLeft' < CallLeft
  <2>1. TypeOK /\ Futures
    BY <1>1 DEF IndInv
  <2>2. CASE SetJs8
    <3>1. UNCHANGED <<caller, results, task>>
      BY <2>2 DEF SetJs8
    <3>2. PICK c \in Nat : CallerLeft = c /\ CallerLeft' = c
      BY <3>1 DEF CallerLeft
    <3>3. PICK r \in Nat : Len(results) = r /\ Len(results') = r
      BY <2>1, <3>1 DEF TypeOK
    <3>4. CallLeft' = CallLeft
      BY <2>1, <3>1, <3>2, <3>3, CallerMoves, BoundsAssumption
    <3> QED
      BY <2>2, <3>4
  <2>3. CASE ~SetJs8
    <3>1. ~Detect
      BY <1>1 DEF Detect, CallerGoto
    <3>2. CallLeft' < CallLeft
      BY <1>1, <2>1, <2>3, <3>1, CallerShrinks, TaskShrinks DEF Next
    <3> QED
      BY <2>3, <3>2
  <2> QED
    BY <2>2, <2>3
<1>2. IndInv /\ [Next]_vars =>
        [ caller \notin {"idle", "terminated"} =>
            IF SetJs8 THEN CallLeft' = CallLeft ELSE CallLeft' < CallLeft ]_vars
  BY <1>1
<1> QED
  BY <1>2, TypeCorrect, Inductive, CallLeftNat, PTL DEF Spec, CallShrinks

(* A candidate with room for its symbols stays one: its own bin and start  *)
(* are among those the refinements look at.                                *)
LEMMA SomewhereToLook ==
  ASSUME NEW c \in Candidates, HasRoom(c)
  PROVE  RefinedBins(c) # {} /\ RefinedStarts(c) # {}
<1> DEFINE step == SymbolLen \div 8
           half == SymbolLen \div 2
<1>1. /\ SymbolLen \in Nat /\ SymbolLen = 8 * step /\ step \in Nat /\ FrameLen \in Nat
      /\ half \in Nat /\ half <= SymbolLen
  BY FrameAssumption
<1>2. /\ c.at.t \in Nat /\ c.at.bin \in 0 .. half - 9
  BY FrameAssumption DEF Candidates, Grid
<1>3. c.at.bin \in RefinedBins(c)
  BY <1>1, <1>2 DEF RefinedBins
<1>4. FirstSample(c) \in Nat
  BY <1>2, FrameAssumption DEF FirstSample
<1>5. FirstSample(c) + 7 * SymbolLen <= FrameLen
  BY <1>1, <1>4 DEF HasRoom
<1>6. FirstSample(c) = FirstSample(c) + 0 * step
  BY <1>1, <1>4
<1>7. FirstSample(c) \in {FirstSample(c) + i * step : i \in -4 .. 4}
  BY <1>6
<1>8. FirstSample(c) \in RefinedStarts(c)
  BY <1>4, <1>5, <1>7 DEF RefinedStarts
<1> QED
  BY <1>3, <1>8

(* No deadlock in a call: the task whose future the caller waits for is    *)
(* done or can go on.                                                      *)
THEOREM CallNeverStuck == Spec => []NotStuck
<1>1. ASSUME IndInv, NEW k \in 1 .. launched, task[k] # "done"
      PROVE  k \in Slots /\ TaskCanGo(k)
  <2>1. k \in Slots /\ k \in 1 .. Len(hidden) /\ task[k] \in TaskLocs
    BY <1>1, BoundsAssumption DEF IndInv, TypeOK, Slots
  <2>2. task[k] # "none"
    BY <1>1, <2>1 DEF IndInv, TypeOK, Futures
  <2>3. CASE task[k] = "execute"
    <3>1. hidden[k] \in Candidates /\ HasRoom(hidden[k])
      BY <1>1, <2>1, <2>3 DEF IndInv, TypeOK, Signals
    <3> QED
      BY <2>1, <2>3, <3>1, SomewhereToLook DEF TaskCanGo
  <2> QED
    BY <1>1, <2>1, <2>2, <2>3 DEF TaskLocs, TaskCanGo
<1>2. ASSUME IndInv, caller \notin {"idle", "terminated"}
      PROVE  CallerCanGo \/ \E k \in Slots : TaskCanGo(k)
  <2>1. /\ caller \in {"launch", "collect", "unwind"}
        /\ Len(results) \in Nat /\ launched \in Nat /\ Len(results) <= launched
    BY <1>2 DEF IndInv, TypeOK
  <2>2. CASE caller = "collect" /\ Len(results) # launched
    <3>1. Len(results) + 1 \in 1 .. launched
      BY <2>1, <2>2
    <3> QED
      BY <1>1, <1>2, <2>2, <3>1 DEF CallerCanGo
  <2>3. CASE caller = "unwind"
    BY <1>1, <1>2, <2>3 DEF CallerCanGo
  <2> QED
    BY <2>1, <2>2, <2>3 DEF CallerCanGo
<1>3. IndInv => NotStuck
  BY <1>2 DEF NotStuck
<1> QED
  BY <1>3, Inductive, PTL
=============================================================================
