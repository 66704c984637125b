---------------------------- MODULE DecodeEngine ----------------------------
(***************************************************************************)
(* src/dsp/engine.cpp, sync.cpp, demod.cpp: DecodeEngine::process looks for*)
(* candidates in a frame, starts one std::async task per candidate and     *)
(* collects their results in the order of the candidates, while POST       *)
(* /api/mode may write js8_enabled_, a plain bool, at any moment.          *)
(*                                                                         *)
(* hidden[k] is the k-th strongest candidate: the sample and the FFT bin   *)
(* at which detect finds it, and what its tones give: "ft8" or "js8" for a *)
(* payload with a valid CRC that unpacks as such, "noise" when the LDPC    *)
(* decoder or the CRC fails.  Spectra are not modelled: any bin and any    *)
(* time that a refinement looks at may be its best one.                    *)
(* FFTW is external: its planner (fftwf_plan_dft_1d, fftwf_destroy_plan)   *)
(* works on global tables without a lock, only fftwf_execute may run in    *)
(* several threads.                                                        *)
(***************************************************************************)
EXTENDS Integers, Sequences, FiniteSets

CONSTANTS
  MaxCandidates,  \* bound on what detect finds in a frame
  MaxFrames,      \* bound on the calls of process
  MaxToggles,     \* bound on the number of POST /api/mode
  SymbolLen,      \* symbol_len_, samples of a tone
  FrameLen,       \* frame.size()
  Places,         \* where detect may find candidates
  OneShort        \* samples that a float of their seconds falls short of

ASSUME BoundsAssumption ==
  MaxCandidates \in Nat /\ MaxFrames \in Nat /\ MaxToggles \in Nat

(* detect looks at every half symbol, as long as seven symbols follow, and *)
(* at the bins of the lower half that leave room for the Costas tones.     *)
Grid ==
  {p \in [t : 0 .. FrameLen - 7 * SymbolLen, bin : 0 .. (SymbolLen \div 2) - 9] :
     p.t % (SymbolLen \div 2) = 0}

ASSUME FrameAssumption ==
  /\ SymbolLen \in Nat \ {0} /\ SymbolLen % 8 = 0 /\ FrameLen \in Nat
  /\ Places \subseteq Grid /\ OneShort \subseteq Nat \ {0}

Kinds == {"ft8", "js8", "noise"}
Candidates == [at : Places, kind : Kinds]

VARIABLES
  caller,    \* where process is
  hidden,    \* the candidates of the frame
  launched,  \* futures.size()
  task,      \* per candidate: where its task is
  found,     \* per candidate: best_bin and start
  tones,     \* per candidate: the symbols that were read
  result,    \* per candidate: mode, when the task has returned
  results,   \* the vector process returns
  js8,       \* js8_enabled_
  everOn, everOff,  \* history: values of js8 since process was called
  frames, toggles

signal == <<found, tones>>
vars == <<caller, hidden, launched, task, signal, result, results, js8, everOn, everOff,
          frames, toggles>>

Slots == 1 .. MaxCandidates
Symbols == 0 .. 78
TaskLocs == {"none", "start", "plan", "execute", "destroy", "decode", "done"}
Modes == {"FT8", "JS8", "nothing"}

TypeOK ==
  /\ caller \in {"idle", "launch", "collect", "unwind", "terminated"}
  /\ hidden \in Seq(Candidates) /\ Len(hidden) <= MaxCandidates
  /\ launched \in 0 .. Len(hidden)
  /\ task \in [Slots -> TaskLocs] /\ result \in [Slots -> Modes]
  /\ found \in [Slots -> [bin : 0 .. SymbolLen - 1, start : 0 .. FrameLen]]
  /\ tones \in [Slots -> SUBSET Symbols]
  /\ results \in Seq(Modes) /\ Len(results) <= launched
  /\ js8 \in BOOLEAN /\ everOn \in BOOLEAN /\ everOff \in BOOLEAN
  /\ frames \in 0 .. MaxFrames /\ toggles \in 0 .. MaxToggles

Nowhere == [k \in Slots |-> [bin |-> 0, start |-> 0]]
Silent == [k \in Slots |-> {}]

Init ==
  /\ caller = "idle" /\ hidden = << >> /\ launched = 0
  /\ task = [k \in Slots |-> "none"] /\ result = [k \in Slots |-> "nothing"]
  /\ results = << >> /\ found = Nowhere /\ tones = Silent
  /\ js8 \in BOOLEAN /\ everOn = js8 /\ everOff = ~js8
  /\ frames = 0 /\ toggles = 0

-----------------------------------------------------------------------------
(* process, in the decoder thread                                          *)

CallerGoto(from, to) == caller = from /\ caller' = to

(* The call, up to the return of detect; no task is left from before, so   *)
(* detect has the planner for itself.                                      *)
Detect ==
  /\ CallerGoto("idle", "launch")
  /\ frames < MaxFrames /\ frames' = frames + 1
  /\ \E n \in 0 .. MaxCandidates : hidden' \in [1 .. n -> Candidates]
  /\ \A i, j \in DOMAIN hidden' : hidden'[i].at = hidden'[j].at => i = j
  /\ launched' = 0 /\ results' = << >> /\ found' = Nowhere /\ tones' = Silent
  /\ task' = [k \in Slots |-> "none"] /\ result' = [k \in Slots |-> "nothing"]
  /\ everOn' = js8 /\ everOff' = ~js8
  /\ UNCHANGED <<js8, toggles>>

(* Fault: the loop goes one past the last candidate.                       *)
LaunchOnePast ==
  /\ launched <= Len(hidden)
  /\ CallerGoto("launch", "launch")
  /\ launched' = launched + 1
  /\ task' = [task EXCEPT ![launched + 1] = "start"]
  /\ UNCHANGED <<hidden, signal, result, results, js8, everOn, everOff, frames, toggles>>

Launch ==
  /\ launched < Len(hidden)
  /\ CallerGoto("launch", "launch")
  /\ launched' = launched + 1
  /\ task' = [task EXCEPT ![launched + 1] = "start"]
  /\ UNCHANGED <<hidden, signal, result, results, js8, everOn, everOff, frames, toggles>>

(* std::async has no thread to give and throws.  Nothing catches it: the   *)
(* C++ runtime may unwind the stack first, then the futures made so far    *)
(* are destroyed, or terminate the program at once.                        *)
LaunchFails ==
  /\ launched < Len(hidden)
  /\ \E to \in {"unwind", "terminated"} : CallerGoto("launch", to)
  /\ UNCHANGED <<hidden, launched, task, signal, result, results, js8, everOn, everOff,
                 frames, toggles>>

Launched ==
  /\ launched = Len(hidden)
  /\ CallerGoto("launch", "collect")
  /\ UNCHANGED <<hidden, launched, task, signal, result, results, js8, everOn, everOff,
                 frames, toggles>>

(* Faults: results in the order in which tasks finish; a task that is not  *)
(* waited for.                                                             *)
GetAny ==
  /\ caller = "collect"
  /\ Len(results) < launched
  /\ \E k \in Slots :
       /\ task[k] = "done"
       /\ results' = Append(results, result[k])
       /\ task' = [task EXCEPT ![k] = "none"]
  /\ UNCHANGED <<caller, hidden, launched, signal, result, js8, everOn, everOff, frames, toggles>>

GetWithoutWaiting ==
  /\ caller = "collect"
  /\ Len(results) < launched
  /\ results' = Append(results, result[Len(results) + 1])
  /\ UNCHANGED <<caller, hidden, launched, task, signal, result, js8, everOn, everOff,
                 frames, toggles>>

(* f.get() of the next future.                                             *)
Get ==
  /\ caller = "collect"
  /\ Len(results) < launched
  /\ task[Len(results) + 1] = "done"
  /\ results' = Append(results, result[Len(results) + 1])
  /\ UNCHANGED <<caller, hidden, launched, task, signal, result, js8, everOn, everOff,
                 frames, toggles>>

Return ==
  /\ Len(results) = launched
  /\ CallerGoto("collect", "idle")
  /\ UNCHANGED <<hidden, launched, task, signal, result, results, js8, everOn, everOff,
                 frames, toggles>>

(* The destructor of a future of std::async waits for its task; then the   *)
(* exception leaves the thread function of the decoder.                    *)
Terminate ==
  /\ \A k \in 1 .. launched : task[k] = "done"
  /\ CallerGoto("unwind", "terminated")
  /\ UNCHANGED <<hidden, launched, task, signal, result, results, js8, everOn, everOff,
                 frames, toggles>>

-----------------------------------------------------------------------------
(* The task of candidate k: demodulate, then decode.                       *)

TaskGoto(k, from, to) ==
  /\ task[k] = from /\ task' = [task EXCEPT ![k] = to]
  /\ UNCHANGED <<caller, hidden, launched, results, js8, everOn, everOff, frames, toggles>>

(* The sample number of a candidate was kept as seconds, in a float.       *)
FirstSample(c) == IF c.at.t \in OneShort THEN c.at.t - 1 ELSE c.at.t

HasRoom(c) == FirstSample(c) + 79 * SymbolLen <= FrameLen

(* demodulate returns early, without tones, when the frame is too short.   *)
Demodulate(k) ==
  /\ TaskGoto(k, "start", IF HasRoom(hidden[k]) THEN "plan" ELSE "decode")
  /\ UNCHANGED <<signal, result>>

(* fftwf_plan_dft_1d returns.                                              *)
Planned(k) == TaskGoto(k, "plan", "execute") /\ UNCHANGED <<signal, result>>

(* The refinements: two bins and half a symbol up and down.                *)
RefinedBins(c) == {b \in c.at.bin - 2 .. c.at.bin + 2 : b >= 0 /\ b + 7 < SymbolLen}

(* Fault: a start before the frame is not skipped.                         *)
RefinedStartsUnchecked(c) ==
  {s \in {FirstSample(c) + i * (SymbolLen \div 8) : i \in -4 .. 4} :
     s + 7 * SymbolLen <= FrameLen}

RefinedStarts(c) ==
  {s \in {FirstSample(c) + i * (SymbolLen \div 8) : i \in -4 .. 4} :
     s >= 0 /\ s + 7 * SymbolLen <= FrameLen}

(* Fault: the loop over the symbols makes no progress.                     *)
ExecutedNever(k) == TaskGoto(k, "execute", "execute") /\ UNCHANGED <<signal, result>>

(* Both refinements and the 79 symbols, as far as the frame goes.          *)
Executed(k) ==
  /\ TaskGoto(k, "execute", "destroy")
  /\ \E bin \in RefinedBins(hidden[k]), start \in RefinedStarts(hidden[k]) :
       /\ found' = [found EXCEPT ![k] = [bin |-> bin, start |-> start]]
       /\ tones' = [tones EXCEPT ![k] =
                      {s \in Symbols : start + (s + 1) * SymbolLen <= FrameLen}]
  /\ UNCHANGED result

(* fftwf_destroy_plan returns.                                             *)
Destroyed(k) == TaskGoto(k, "destroy", "decode") /\ UNCHANGED <<signal, result>>

(* A payload that is no FT8 message is tried as JS8 if the flag allows.    *)
ModeOf(kind, allow) ==
  CASE kind = "ft8" -> "FT8"
    [] kind = "js8" /\ allow -> "JS8"
    [] OTHER -> "nothing"

(* MessageDecode.tla: a codeword needs the tones between the Costas ones.  *)
DataTones == 7 .. 35 \union 43 .. 71
Heard(k) == IF DataTones \subseteq tones[k] THEN hidden[k].kind ELSE "noise"

(* The refined place, once reported, and the tones are of no further use.  *)
Decode(k) ==
  /\ TaskGoto(k, "decode", "done")
  /\ result' = [result EXCEPT ![k] = ModeOf(Heard(k), js8)]
  /\ found' = [found EXCEPT ![k] = Nowhere[k]] /\ tones' = [tones EXCEPT ![k] = {}]

TaskStep(k) == Demodulate(k) \/ Planned(k) \/ Executed(k) \/ Destroyed(k) \/ Decode(k)

-----------------------------------------------------------------------------
(* set_js8_enabled, in a web server thread                                 *)

SetJs8 ==
  /\ toggles < MaxToggles /\ toggles' = toggles + 1
  /\ \E en \in BOOLEAN :
       js8' = en /\ everOn' = (everOn \/ en) /\ everOff' = (everOff \/ ~en)
  /\ UNCHANGED <<caller, hidden, launched, task, signal, result, results, frames>>

CallerStep == Launch \/ Launched \/ Get \/ Return \/ Terminate

Alive == caller # "terminated"

Next ==
  /\ Alive
  /\ \/ Detect \/ LaunchFails \/ CallerStep \/ SetJs8
     \/ \E k \in Slots : TaskStep(k)

Spec == Init /\ [][Next]_vars

(* The decoder thread and the threads of the tasks are scheduled.          *)
FairSpec ==
  Spec /\ WF_vars(Alive /\ CallerStep) /\ \A k \in Slots : WF_vars(Alive /\ TaskStep(k))

-----------------------------------------------------------------------------
(* Properties                                                              *)

(* A task holds a reference to the frame, which the decoder thread gives   *)
(* up after process has returned: no task runs then.                       *)
FrameOutlivesTasks == caller = "idle" => \A k \in Slots : task[k] \in {"none", "done"}

(* Within the frame whatever the refinements do: no sample before it and   *)
(* no bin past the FFT is read (base bin and tone, demod.cpp:111), and of  *)
(* a candidate with room for 79 symbols none of those that carry data is   *)
(* cut, so that it is decoded as if it had stayed where detect found it.   *)
SignalIsWhole ==
  \A k \in Slots :
    task[k] \in {"destroy", "decode"} =>
      /\ found[k].start >= 0 /\ found[k].bin \in 0 .. SymbolLen - 8
      /\ tones[k] = {} \/ DataTones \subseteq tones[k]
      /\ tones[k] = {} <=> ~HasRoom(hidden[k])

Matches(kind, mode) ==
  IF kind = "js8"
  THEN /\ mode \in {"JS8", "nothing"}
       /\ ~everOff => mode = "JS8"
       /\ ~everOn => mode = "nothing"
  ELSE mode = ModeOf(kind, FALSE)

(* What is to be heard at a candidate.                                     *)
KindOf(c) == IF HasRoom(c) THEN c.kind ELSE "noise"

(* What process returns, result by result, is what the candidates were, in *)
(* the order of their strength, and none is missing when it does; a JS8    *)
(* message is among it if JS8 was enabled throughout and is not if JS8 was *)
(* never enabled.                                                          *)
ResultsMatchCandidates ==
  /\ caller = "idle" => Len(results) = Len(hidden)
  /\ \A k \in 1 .. Len(results) : Matches(KindOf(hidden[k]), results[k])

(* process returns, or the program terminates.                             *)
ProcessEnds == caller # "idle" ~> caller \in {"idle", "terminated"}

(* The inductive strengthening used in DecodeEngineProofs: the futures     *)
(* collected so far are a prefix of the launched ones and their tasks are  *)
(* done, and whatever a finished task found was right when it finished.    *)
Futures ==
  /\ \A k \in Slots : task[k] = "none" <=> k > launched
  /\ \A k \in 1 .. Len(results) : task[k] = "done" /\ results[k] = result[k]
  /\ caller \in {"collect", "idle"} => launched = Len(hidden)
  /\ caller = "idle" => Len(results) = launched

(* Where a task has got to in its candidate.                               *)
Signals ==
  \A k \in Slots :
    /\ task[k] \in {"plan", "execute", "destroy"} => HasRoom(hidden[k])
    /\ task[k] \in {"none", "start", "plan", "execute"} => tones[k] = {}
    /\ task[k] # "destroy" /\ tones[k] = {} => found[k] = Nowhere[k]

FlagHistory == (js8 => everOn) /\ (~js8 => everOff)

Finished == \A k \in 1 .. launched : task[k] = "done" => Matches(KindOf(hidden[k]), result[k])

IndInv == TypeOK /\ Futures /\ Signals /\ SignalIsWhole /\ FlagHistory /\ Finished

-----------------------------------------------------------------------------
(* Why process comes to its end                                            *)

(* The steps that the caller and a task have left in a call of process.    *)
CallerLeft ==
  CASE caller = "launch" -> 3
    [] caller = "collect" -> 2
    [] caller = "unwind" -> 1
    [] OTHER -> 0
TaskLeft(k) ==
  CASE task[k] = "none" -> 6
    [] task[k] = "start" -> 5
    [] task[k] = "plan" -> 4
    [] task[k] = "execute" -> 3
    [] task[k] = "destroy" -> 2
    [] task[k] = "decode" -> 1
    [] OTHER -> 0

(* Their sum, with the futures that are not collected yet: candidate k is  *)
(* counted TaskLeft(k) times.                                              *)
WithLeft(n) == {k \in Slots : TaskLeft(k) >= n}
CallLeft ==
  CallerLeft + (MaxCandidates - Len(results))
    + Cardinality(WithLeft(1)) + Cardinality(WithLeft(2)) + Cardinality(WithLeft(3))
    + Cardinality(WithLeft(4)) + Cardinality(WithLeft(5)) + Cardinality(WithLeft(6))

(* Within a call every step of the caller or of a task leaves fewer to be  *)
(* taken, and switching JS8 on and off does not bring any back.            *)
CallShrinks ==
  [][ caller \notin {"idle", "terminated"} =>
        IF SetJs8 THEN CallLeft' = CallLeft ELSE CallLeft' < CallLeft ]_vars

(* Who can take a step.                                                    *)
CallerCanGo ==
  \/ caller = "launch"
  \/ caller = "collect" /\ (Len(results) = launched \/ task[Len(results) + 1] = "done")
  \/ caller = "unwind" /\ \A k \in 1 .. launched : task[k] = "done"
TaskCanGo(k) ==
  \/ task[k] \in {"start", "plan", "destroy", "decode"}
  \/ task[k] = "execute" /\ RefinedBins(hidden[k]) # {} /\ RefinedStarts(hidden[k]) # {}

(* The caller waits only for tasks that can go on: a candidate with room   *)
(* for its symbols has a bin and a start within the frame to settle on.    *)
NotStuck ==
  caller \notin {"idle", "terminated"} => CallerCanGo \/ \E k \in Slots : TaskCanGo(k)
=============================================================================
