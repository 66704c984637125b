------------------------------ MODULE RfInput -------------------------------
(***************************************************************************)
(* src/rf_input.cpp: the life of the receiver and the choice of the band.  *)
(*                                                                         *)
(* main opens the device, tunes it to preset 0, starts the worker that     *)
(* sits in rtlsdr_read_async, and at SIGINT stops and closes it; the web   *)
(* server is up from before open until it has been joined before stop, and *)
(* each of its threads may run set_band (POST /api/band) in between.       *)
(* current_preset_ and dev_ are plain fields that no mutex protects.       *)
(*                                                                         *)
(* librtlsdr is external: cancel_async acts only on a device that is in    *)
(* read_async, read_async returns when it was cancelled or the device is   *)
(* lost, set_center_freq tunes or fails and changes nothing.  A preset is  *)
(* its index and stands for its frequency.                                 *)
(***************************************************************************)
EXTENDS Naturals

CONSTANTS
  Handlers,    \* web server threads
  Main,        \* the main thread
  NumPresets,  \* presets_.size()
  MaxPosts,    \* bound on the number of POST /api/band
  MayFail      \* librtlsdr's setters can fail, the device can be lost

ASSUME HandlersAssumption == Main \notin Handlers

ASSUME PresetsAssumption == NumPresets \in Nat \ {0}

ASSUME BoundsAssumption == MaxPosts \in Nat /\ MayFail \in BOOLEAN

VARIABLES
  main,      \* where main is
  worker,    \* where the worker thread is
  running,   \* running_
  dev,       \* dev_ is not null: the device is open
  slot,      \* number of device indices that open has tried in vain
  rated,     \* the device samples at 240 kHz
  async,     \* what librtlsdr knows of read_async
  preset,    \* current_preset_
  tuned,     \* preset whose frequency the tuner is at; NumPresets when none
  pc, index, \* per thread: where its set_band is, with which argument
  posts,     \* requests so far
  solo,      \* history: thread in set_band that no other set_band has met
  settled    \* history: the last set_band ran alone and succeeded

kMaxTries == 5

life == <<main, worker, running, dev, slot, rated, async>>
band == <<preset, tuned, pc, index, posts, solo, settled>>
vars == <<life, band>>

Setters == Handlers \union {Main}

Serving == {"open", "openRate", "openBand", "start", "serve"}
MainLocs == Serving \union {"stop", "cancel", "join", "close", "done"}
WorkerLocs == {"unborn", "reset", "enter", "reading", "done"}
SetterLocs == {"idle", "call", "check", "retune"}

TypeOK ==
  /\ main \in MainLocs /\ worker \in WorkerLocs
  /\ running \in BOOLEAN /\ dev \in BOOLEAN
  /\ slot \in 0 .. kMaxTries /\ rated \in BOOLEAN
  /\ async \in {"inactive", "running", "canceling"}
  /\ preset \in 0 .. NumPresets - 1 /\ tuned \in 0 .. NumPresets
  /\ pc \in [Setters -> SetterLocs]
  /\ index \in [Setters -> 0 .. NumPresets]
  /\ posts \in 0 .. MaxPosts
  /\ solo \in SUBSET Setters /\ settled \in BOOLEAN

Init ==
  /\ main = "open" /\ worker = "unborn"
  /\ running = FALSE /\ dev = FALSE /\ slot = 0 /\ rated = FALSE /\ async = "inactive"
  /\ preset = 0 /\ tuned = NumPresets
  /\ pc = [t \in Setters |-> "idle"] /\ index = [t \in Setters |-> 0]
  /\ posts = 0 /\ solo = {} /\ settled = FALSE

-----------------------------------------------------------------------------
(* set_band                                                                *)

Goto(t, from, to) == pc[t] = from /\ pc' = [pc EXCEPT ![t] = to]

InSetBand == {t \in Setters : pc[t] \in {"check", "retune"}}

(* POST /api/band with any index, one past the presets included.           *)
Post(h) ==
  /\ main \in Serving
  /\ posts < MaxPosts /\ posts' = posts + 1
  /\ Goto(h, "idle", "call")
  /\ \E i \in 0 .. NumPresets : index' = [index EXCEPT ![h] = i]
  /\ UNCHANGED <<life, preset, tuned, solo, settled>>

Reject(t) ==
  /\ index[t] >= NumPresets
  /\ Goto(t, "call", "idle")
  /\ UNCHANGED <<life, preset, tuned, index, posts, solo, settled>>

(* Faults: the check of the index is off by one; a band that is already    *)
(* shown is taken to be tuned.                                             *)
AssignOnePast(t) ==
  /\ Goto(t, "call", "check")
  /\ preset' = index[t]
  /\ solo' = IF InSetBand = {} THEN {t} ELSE {}
  /\ settled' = FALSE
  /\ UNCHANGED <<life, tuned, index, posts>>

AssignIfNew(t) ==
  /\ index[t] < NumPresets
  /\ Goto(t, "call", IF preset = index[t] THEN "idle" ELSE "check")
  /\ preset' = index[t]
  /\ solo' = IF InSetBand = {} THEN {t} ELSE {}
  /\ settled' = (preset = index[t] /\ InSetBand = {})
  /\ UNCHANGED <<life, tuned, index, posts>>

Assign(t) ==
  /\ index[t] < NumPresets
  /\ Goto(t, "call", "check")
  /\ preset' = index[t]
  /\ solo' = IF InSetBand = {} THEN {t} ELSE {}
  /\ settled' = FALSE
  /\ UNCHANGED <<life, tuned, index, posts>>

(* set_frequency looks at dev_ ...                                         *)
CheckDevice(t) ==
  /\ Goto(t, "check", IF dev THEN "retune" ELSE "idle")
  /\ UNCHANGED <<life, preset, tuned, index, posts, solo, settled>>

(* ... and uses it.                                                        *)
Retune(t) ==
  /\ Goto(t, "retune", "idle")
  /\ tuned' = index[t]
  /\ settled' = (t \in solo)
  /\ UNCHANGED <<life, preset, index, posts, solo>>

RetuneFails(t) ==
  /\ MayFail
  /\ Goto(t, "retune", "idle")
  /\ UNCHANGED <<life, preset, tuned, index, posts, solo, settled>>

SetBand(t) == Reject(t) \/ Assign(t) \/ CheckDevice(t) \/ Retune(t) \/ RetuneFails(t)

-----------------------------------------------------------------------------
(* open, start, stop, close                                                *)

MainGoto(from, to) == main = from /\ main' = to

(* The slot has no device, or one that is in use.                          *)
TryNext ==
  /\ main = "open" /\ slot < kMaxTries
  /\ slot' = slot + 1
  /\ UNCHANGED <<main, worker, running, dev, rated, async, band>>

OpenDevice ==
  /\ slot < kMaxTries
  /\ MainGoto("open", "openRate")
  /\ dev' = TRUE
  /\ UNCHANGED <<worker, running, slot, rated, async, band>>

(* main goes on without a receiver.                                        *)
OpenFails ==
  /\ slot = kMaxTries
  /\ MainGoto("open", "serve")
  /\ UNCHANGED <<worker, running, dev, slot, rated, async, band>>

(* The result is not looked at; open calls set_band(0).                    *)
SetSampleRate ==
  /\ MainGoto("openRate", "openBand")
  /\ rated' = TRUE \/ (MayFail /\ UNCHANGED rated)
  /\ Goto(Main, "idle", "call")
  /\ index' = [index EXCEPT ![Main] = 0]
  /\ UNCHANGED <<worker, running, dev, slot, async, preset, tuned, posts, solo, settled>>

(* open returns true whatever became of the retune.                        *)
OpenReturns ==
  /\ MainGoto("openBand", "start")
  /\ pc[Main] = "idle"
  /\ UNCHANGED <<worker, running, dev, slot, rated, async, band>>

Start ==
  /\ MainGoto("start", "serve")
  /\ running' = TRUE /\ worker' = "reset"
  /\ UNCHANGED <<dev, slot, rated, async, band>>

(* SIGINT: main has left its wait and joined the server thread, which      *)
(* returned when the requests in progress were finished.                   *)
Sigint ==
  /\ MainGoto("serve", "stop")
  /\ \A h \in Handlers : pc[h] = "idle"
  /\ UNCHANGED <<worker, running, dev, slot, rated, async, band>>

Stop ==
  /\ MainGoto("stop", IF running THEN "cancel" ELSE "close")
  /\ running' = FALSE
  /\ UNCHANGED <<worker, dev, slot, rated, async, band>>

(* Fault: read_async is not cancelled.                                     *)
CancelMissing ==
  /\ MainGoto("cancel", "join")
  /\ UNCHANGED <<worker, running, dev, slot, rated, async, band>>

Cancel ==
  /\ MainGoto("cancel", "join")
  /\ async' = IF async = "running" THEN "canceling" ELSE async
  /\ UNCHANGED <<worker, running, dev, slot, rated, band>>

(* Fault: the worker is left to itself.                                    *)
JoinMissing ==
  /\ MainGoto("join", "close")
  /\ UNCHANGED <<worker, running, dev, slot, rated, async, band>>

Join ==
  /\ MainGoto("join", "close")
  /\ worker = "done"
  /\ UNCHANGED <<worker, running, dev, slot, rated, async, band>>

Close ==
  /\ MainGoto("close", "done")
  /\ dev' = FALSE
  /\ UNCHANGED <<worker, running, slot, rated, async, band>>

-----------------------------------------------------------------------------
(* The worker.                                                             *)

WorkerGoto(from, to) == worker = from /\ worker' = to

ResetBuffer ==
  /\ WorkerGoto("reset", "enter")
  /\ UNCHANGED <<main, running, dev, slot, rated, async, band>>

EnterReadAsync ==
  /\ WorkerGoto("enter", "reading")
  /\ async' = "running"
  /\ UNCHANGED <<main, running, dev, slot, rated, band>>

LeaveReadAsync ==
  /\ WorkerGoto("reading", "done")
  /\ async = "canceling" \/ MayFail
  /\ async' = "inactive"
  /\ UNCHANGED <<main, running, dev, slot, rated, band>>

MainStep ==
  \/ TryNext \/ OpenDevice \/ OpenFails \/ SetSampleRate \/ OpenReturns \/ Start
  \/ Stop \/ Cancel \/ Join \/ Close
WorkerStep == ResetBuffer \/ EnterReadAsync \/ LeaveReadAsync

Next ==
  \/ MainStep \/ Sigint \/ WorkerStep
  \/ \E t \in Setters : SetBand(t)
  \/ \E h \in Handlers : Post(h)

Spec == Init /\ [][Next]_vars

(***************************************************************************)
(* Threads are scheduled; librtlsdr ends a cancelled read.  SIGINT and     *)
(* requests may never come, and a device need not be lost.                 *)
(***************************************************************************)
Fairness ==
  /\ WF_vars(MainStep)
  /\ WF_vars(ResetBuffer \/ EnterReadAsync)
  /\ WF_vars(LeaveReadAsync /\ async = "canceling")
  /\ \A t \in Setters : WF_vars(SetBand(t))

FairSpec == Spec /\ Fairness

-----------------------------------------------------------------------------
(* Properties                                                              *)

(* librtlsdr is never handed a device that was closed under its user: the  *)
(* worker is joined and the web server gone before close.                  *)
DeviceOpenWhileUsed ==
  (worker \in {"reset", "enter", "reading"} \/ \E t \in Setters : pc[t] = "retune")
    => dev

(* A set_band that met no other one and did not fail leaves the band that  *)
(* is shown and the tuner in agreement, whatever went wrong before it: it  *)
(* repairs what overlapping or failed calls left.                          *)
SoloRetuneAgrees == settled => tuned = preset

(* A cancel that finds the worker inside read_async ends the program.      *)
CancelEndsWorker == (main = "cancel" /\ async = "running") ~> main = "done"

(* stop returns once it was called (main.cpp:51, graceful shutdown).       *)
StopReturns == main = "stop" ~> main = "done"

(* The inductive strengthening used in RfInputProofs: which parts are      *)
(* alive at which point of main, and that nobody has moved the preset of a *)
(* set_band which is still alone.                                          *)
LifeCycle ==
  /\ \A h \in Handlers : pc[h] # "idle" => main \in Serving
  /\ pc[Main] # "idle" => main = "openBand"
  /\ \A t \in Setters : pc[t] = "retune" => dev
  /\ main \in {"openRate", "openBand", "start", "cancel", "join"} => dev
  /\ running => dev /\ main \in {"serve", "stop"}
  /\ worker \in {"reset", "enter", "reading"} => running \/ main \in {"cancel", "join"}

SoloPreset == \A t \in solo : pc[t] \in {"check", "retune"} => preset = index[t]

IndInv == TypeOK /\ LifeCycle /\ SoloPreset /\ SoloRetuneAgrees
=============================================================================
