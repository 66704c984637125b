------------------------------ MODULE Pipeline -------------------------------
(***************************************************************************)
(* src/main.cpp: the five threads of the application, the two queues that  *)
(* connect them, start-up and the shutdown that SIGINT asks for.           *)
(*                                                                         *)
(*   capture --decode_queue--> decoder --log_queue--> logger --> database  *)
(*   server: CivetWeb's worker threads; main: starts and joins the others  *)
(*                                                                         *)
(* The queues are atomic FIFO channels: ThreadSafeQueueProofs shows that   *)
(* the class implements one.  A frame is its number in capture order;      *)
(* heard[f] is what the engine decodes from it, one Boolean (crc_ok) per   *)
(* message.  std::time is a wall clock that may be set back: a reading of  *)
(* it is any member of Times, whatever was read before.                    *)
(***************************************************************************)
EXTENDS Naturals, Sequences

CONSTANTS
  Results,     \* what a frame can contain: sequences of crc_ok flags
  MaxFrames,   \* bound on the number of captured frames
  MaxTime,     \* bound on the readings of the clock
  MaxStreams   \* bound on the number of dashboards that are open at once

ASSUME ResultsAssumption == Results \subseteq Seq(BOOLEAN)

ASSUME BoundsAssumption ==
  MaxFrames \in Nat \ {0} /\ MaxTime \in Nat /\ MaxStreams \in Nat

VARIABLES
  main, capture, decoder, logger, server,  \* where each thread is
  running,        \* the atomic flag that SIGINT clears
  crashed,        \* std::terminate was called
  heard,          \* the captured frames
  decodeQ, decodeStopped,                  \* decode_queue
  logQ, logStopped,                        \* log_queue
  decFrame,       \* frame in the decoder's hands
  logBatch,       \* batch in the logger's hands
  lastDecode, lastCount,                   \* the decoder's atomics
  setBack,        \* history: frames whose lastDecode is less than the one before it
  dbOpen,         \* DataStore has its connection
  db,             \* committed batches, oldest first
  refused,        \* frames whose insert returned false
  reading,        \* a web handler is inside DataStore::recent
  streams         \* GET /events requests being served

queues == <<decodeQ, decodeStopped, logQ, logStopped>>
hands == <<decFrame, logBatch>>
decodeTime == <<lastDecode, setBack>>
status == <<decodeTime, lastCount>>
store == <<dbOpen, db, refused>>
web == <<reading, streams>>
others == <<crashed, heard, running>>
vars == <<main, capture, decoder, logger, server, others, queues, hands, status, store, web>>

MainLocs ==
  {"openDb", "startLogger", "startServer", "openRf", "startCapture", "startDecoder",
   "wait", "joinCapture", "stopDecode", "joinDecoder", "stopLog", "joinLogger",
   "joinServer", "stopRf", "closeDb", "exited", "failed"}
CaptureLocs == {"unborn", "check", "snapshot", "stamp", "push", "sleep", "done"}
DecoderLocs == {"unborn", "pop", "process", "count", "push", "done"}
LoggerLocs == {"unborn", "pop", "insert", "done"}
ServerLocs == {"unborn", "construct", "serve", "removeMessages", "removeEvents", "done"}

Frames == 1 .. MaxFrames
Times == 0 .. MaxTime
Batches == [frame : Frames, stamp : Times]

TypeOK ==
  /\ main \in MainLocs /\ capture \in CaptureLocs /\ decoder \in DecoderLocs
  /\ logger \in LoggerLocs /\ server \in ServerLocs
  /\ running \in BOOLEAN /\ crashed \in BOOLEAN
  /\ heard \in Seq(Results) /\ Len(heard) <= MaxFrames
  /\ decodeQ \in Seq(Frames) /\ decodeStopped \in BOOLEAN
  /\ logQ \in Seq(Batches) /\ logStopped \in BOOLEAN
  /\ decFrame \in 0 .. MaxFrames
  /\ logBatch \in [frame : 0 .. MaxFrames, stamp : Times]
  /\ lastDecode \in Times /\ setBack \in SUBSET Frames
  /\ lastCount \in Nat
  /\ dbOpen \in BOOLEAN /\ db \in Seq(Batches) /\ refused \in SUBSET Frames
  /\ reading \in BOOLEAN /\ streams \in 0 .. MaxStreams

Init ==
  /\ main = "openDb" /\ capture = "unborn" /\ decoder = "unborn"
  /\ logger = "unborn" /\ server = "unborn"
  /\ running = TRUE /\ crashed = FALSE
  /\ heard = << >>
  /\ decodeQ = << >> /\ decodeStopped = FALSE
  /\ logQ = << >> /\ logStopped = FALSE
  /\ decFrame = 0 /\ logBatch = [frame |-> 0, stamp |-> 0]
  /\ lastDecode = 0 /\ lastCount = 0 /\ setBack = {}
  /\ dbOpen = FALSE /\ db = << >> /\ refused = {}
  /\ reading = FALSE /\ streams = 0

-----------------------------------------------------------------------------
(* Capture thread.                                                         *)

CaptureGoto(from, to) ==
  /\ capture = from /\ capture' = to
  /\ UNCHANGED <<main, decoder, logger, server, crashed, running, hands, store, web>>

CaptureCheck ==
  /\ CaptureGoto("check", IF running THEN "snapshot" ELSE "done")
  /\ UNCHANGED <<heard, queues, status>>

CaptureSnapshot ==
  /\ CaptureGoto("snapshot", "stamp")
  /\ \E r \in Results : heard' = Append(heard, r)
  /\ UNCHANGED <<queues, status>>

(* last_capture is written: WebServer.tla has its only reader.             *)
CaptureStamp ==
  /\ CaptureGoto("stamp", "push")
  /\ UNCHANGED <<heard, queues, status>>

CapturePush ==
  /\ CaptureGoto("push", "sleep")
  /\ decodeQ' = Append(decodeQ, Len(heard))
  /\ UNCHANGED <<heard, decodeStopped, logQ, logStopped, status>>

(* The bound: after MaxFrames frames the thread sleeps until SIGINT.       *)
CaptureWake ==
  /\ running => Len(heard) < MaxFrames
  /\ CaptureGoto("sleep", "check")
  /\ UNCHANGED <<heard, queues, status>>

-----------------------------------------------------------------------------
(* Decoder thread.                                                         *)

DecoderGoto(from, to) ==
  /\ decoder = from /\ decoder' = to
  /\ UNCHANGED <<main, capture, logger, server, others, logBatch, store, web>>

DecoderPop ==
  /\ decodeQ # << >>
  /\ DecoderGoto("pop", "process")
  /\ decFrame' = Head(decodeQ)
  /\ decodeQ' = Tail(decodeQ)
  /\ UNCHANGED <<decodeStopped, logQ, logStopped, decodeTime, lastCount>>

DecoderEnd ==
  /\ decodeQ = << >> /\ decodeStopped
  /\ DecoderGoto("pop", "done")
  /\ UNCHANGED <<queues, decFrame, decodeTime, lastCount>>

(* engine.process returns, and last_decode is the time at which it does.   *)
DecoderProcess ==
  /\ DecoderGoto("process", "count")
  /\ lastDecode' \in Times
  /\ setBack' = IF lastDecode' < lastDecode THEN setBack \union {decFrame} ELSE setBack
  /\ UNCHANGED <<queues, decFrame, lastCount>>

(* Fault: the count is one short.                                          *)
DecoderCountShort ==
  /\ DecoderGoto("count", "push")
  /\ lastCount' = Len(heard[decFrame]) - 1
  /\ UNCHANGED <<queues, decFrame, decodeTime>>

DecoderCount ==
  /\ DecoderGoto("count", "push")
  /\ lastCount' = Len(heard[decFrame])
  /\ UNCHANGED <<queues, decFrame, decodeTime>>

(* process throws, as DecodeEngine.tla shows it may: nothing catches it.   *)
DecoderThrows ==
  /\ decoder = "process"
  /\ crashed' = TRUE
  /\ UNCHANGED <<main, capture, decoder, logger, server, running, heard, queues, hands,
                 status, store, web>>

(* One record per result, stamped with last_decode; an empty batch is not  *)
(* pushed.                                                                 *)
DecoderPush ==
  /\ DecoderGoto("push", "pop")
  /\ logQ' = IF heard[decFrame] = << >> THEN logQ
             ELSE Append(logQ, [frame |-> decFrame, stamp |-> lastDecode])
  /\ UNCHANGED <<decodeQ, decodeStopped, logStopped, decFrame, decodeTime, lastCount>>

-----------------------------------------------------------------------------
(* Logger thread.                                                          *)

LoggerGoto(from, to) ==
  /\ logger = from /\ logger' = to
  /\ UNCHANGED <<main, capture, decoder, server, others, decFrame, status, web, dbOpen,
                 decodeQ, decodeStopped, logStopped>>

(* Fault: the newest batch is taken.                                       *)
LoggerPopBack ==
  /\ logQ # << >>
  /\ LoggerGoto("pop", "insert")
  /\ logBatch' = logQ[Len(logQ)]
  /\ logQ' = SubSeq(logQ, 1, Len(logQ) - 1)
  /\ UNCHANGED <<db, refused>>

LoggerPop ==
  /\ logQ # << >>
  /\ LoggerGoto("pop", "insert")
  /\ logBatch' = Head(logQ)
  /\ logQ' = Tail(logQ)
  /\ UNCHANGED <<db, refused>>

LoggerEnd ==
  /\ logQ = << >> /\ logStopped
  /\ LoggerGoto("pop", "done")
  /\ UNCHANGED <<logQ, logBatch, db, refused>>

(* The result of db.insert is ignored: a refused batch is gone.            *)
LoggerInsert ==
  /\ LoggerGoto("insert", "pop")
  /\ \/ db' = Append(db, logBatch) /\ UNCHANGED refused
     \/ refused' = refused \union {logBatch.frame} /\ UNCHANGED db
  /\ UNCHANGED <<logQ, logBatch>>

-----------------------------------------------------------------------------
(* Server thread and the requests CivetWeb serves for it.                  *)

ServerGoto(from, to) ==
  /\ server = from /\ server' = to
  /\ UNCHANGED <<main, capture, decoder, logger, heard, running, queues, hands, status,
                 store, web>>

ServerConstruct ==
  /\ ServerGoto("construct", "serve")
  /\ UNCHANGED crashed

(* CivetServer's constructor throws when the port is taken; nothing in the *)
(* thread catches it.                                                      *)
ServerThrows ==
  /\ ServerGoto("construct", "construct")
  /\ crashed' = TRUE

(* ~WebServer, with the handlers that can take long.  Removing a handler   *)
(* turns new requests away and waits until none is inside it.              *)
ServerLeaveLoop ==
  /\ ~running
  /\ ServerGoto("serve", "removeMessages")
  /\ UNCHANGED crashed

RemoveMessages ==
  /\ ~reading
  /\ ServerGoto("removeMessages", "removeEvents")
  /\ UNCHANGED crashed

RemoveEvents ==
  /\ streams = 0
  /\ ServerGoto("removeEvents", "done")
  /\ UNCHANGED crashed

RequestGoto ==
  UNCHANGED <<main, capture, decoder, logger, server, others, queues, hands, status, store>>

ReadMessages ==
  /\ server = "serve" /\ ~reading
  /\ reading' = TRUE
  /\ RequestGoto /\ UNCHANGED streams

ReadMessagesEnds ==
  /\ reading /\ reading' = FALSE
  /\ RequestGoto /\ UNCHANGED streams

OpenStream ==
  /\ server \in {"serve", "removeMessages"} /\ streams < MaxStreams
  /\ streams' = streams + 1
  /\ RequestGoto /\ UNCHANGED reading

(* The client closed the connection: the next mg_printf fails.             *)
StreamEnds ==
  /\ streams > 0
  /\ streams' = streams - 1
  /\ RequestGoto /\ UNCHANGED reading

-----------------------------------------------------------------------------
(* Main thread.                                                            *)

MainGoto(from, to) ==
  /\ main = from /\ main' = to
  /\ UNCHANGED <<others, decodeQ, logQ, hands, status, db, refused, web>>

SameThreads == UNCHANGED <<capture, decoder, logger, server>>
SameStops == UNCHANGED <<decodeStopped, logStopped>>

OpenDb ==
  /\ \/ MainGoto("openDb", "startLogger") /\ dbOpen' = TRUE
     \/ MainGoto("openDb", "failed") /\ UNCHANGED dbOpen
  /\ SameThreads /\ SameStops

StartLogger ==
  /\ MainGoto("startLogger", "startServer")
  /\ logger' = "pop"
  /\ UNCHANGED <<capture, decoder, server, dbOpen>> /\ SameStops

StartServer ==
  /\ MainGoto("startServer", "openRf")
  /\ server' = "construct"
  /\ UNCHANGED <<capture, decoder, logger, dbOpen>> /\ SameStops

OpenRf ==
  /\ MainGoto("openRf", "startCapture")
  /\ SameThreads /\ SameStops /\ UNCHANGED dbOpen

StartCapture ==
  /\ MainGoto("startCapture", "startDecoder")
  /\ capture' = "check"
  /\ UNCHANGED <<decoder, logger, server, dbOpen>> /\ SameStops

StartDecoder ==
  /\ MainGoto("startDecoder", "wait")
  /\ decoder' = "pop"
  /\ UNCHANGED <<capture, logger, server, dbOpen>> /\ SameStops

LeaveWait ==
  /\ ~running
  /\ MainGoto("wait", "joinCapture")
  /\ SameThreads /\ SameStops /\ UNCHANGED dbOpen

JoinCapture ==
  /\ capture = "done"
  /\ MainGoto("joinCapture", "stopDecode")
  /\ SameThreads /\ SameStops /\ UNCHANGED dbOpen

(* Fault: the queue is not stopped.                                        *)
StopDecodeMissing ==
  /\ MainGoto("stopDecode", "joinDecoder")
  /\ SameThreads /\ SameStops /\ UNCHANGED dbOpen

StopDecode ==
  /\ MainGoto("stopDecode", "joinDecoder")
  /\ decodeStopped' = TRUE
  /\ SameThreads /\ UNCHANGED <<logStopped, dbOpen>>

(* Fault: the join is missing.                                             *)
JoinDecoderMissing ==
  /\ MainGoto("joinDecoder", "stopLog")
  /\ SameThreads /\ SameStops /\ UNCHANGED dbOpen

JoinDecoder ==
  /\ decoder = "done"
  /\ MainGoto("joinDecoder", "stopLog")
  /\ SameThreads /\ SameStops /\ UNCHANGED dbOpen

StopLog ==
  /\ MainGoto("stopLog", "joinLogger")
  /\ logStopped' = TRUE
  /\ SameThreads /\ UNCHANGED <<decodeStopped, dbOpen>>

(* Fault: the join is missing.                                             *)
JoinLoggerMissing ==
  /\ MainGoto("joinLogger", "joinServer")
  /\ SameThreads /\ SameStops /\ UNCHANGED dbOpen

JoinLogger ==
  /\ logger = "done"
  /\ MainGoto("joinLogger", "joinServer")
  /\ SameThreads /\ SameStops /\ UNCHANGED dbOpen

(* Fault: the join is missing.                                             *)
JoinServerMissing ==
  /\ MainGoto("joinServer", "stopRf")
  /\ SameThreads /\ SameStops /\ UNCHANGED dbOpen

JoinServer ==
  /\ server = "done"
  /\ MainGoto("joinServer", "stopRf")
  /\ SameThreads /\ SameStops /\ UNCHANGED dbOpen

StopRf ==
  /\ MainGoto("stopRf", "closeDb")
  /\ SameThreads /\ SameStops /\ UNCHANGED dbOpen

CloseDb ==
  /\ MainGoto("closeDb", "exited")
  /\ dbOpen' = FALSE
  /\ SameThreads /\ SameStops

(* SIGINT, once its handler is installed.                                  *)
Sigint ==
  /\ main \notin {"openDb", "failed"}
  /\ running /\ running' = FALSE
  /\ UNCHANGED <<main, capture, decoder, logger, server, crashed, heard, queues, hands,
                 status, store, web>>

-----------------------------------------------------------------------------

CaptureStep == CaptureCheck \/ CaptureSnapshot \/ CaptureStamp \/ CapturePush \/ CaptureWake
DecoderStep == DecoderPop \/ DecoderEnd \/ DecoderProcess \/ DecoderCount \/ DecoderPush
LoggerStep == LoggerPop \/ LoggerEnd \/ LoggerInsert
ServerStep ==
  ServerConstruct \/ ServerThrows \/ ServerLeaveLoop \/ RemoveMessages \/ RemoveEvents
ClientStep == ReadMessages \/ OpenStream \/ StreamEnds
MainStep ==
  \/ OpenDb \/ StartLogger \/ StartServer \/ OpenRf \/ StartCapture \/ StartDecoder
  \/ LeaveWait \/ JoinCapture \/ StopDecode \/ JoinDecoder \/ StopLog \/ JoinLogger
  \/ JoinServer \/ StopRf \/ CloseDb

(* The process is there: it has neither returned from main nor crashed.    *)
Alive == ~crashed /\ main \notin {"exited", "failed"}

Next ==
  /\ Alive
  /\ \/ CaptureStep \/ DecoderStep \/ LoggerStep \/ ServerStep \/ MainStep
     \/ ClientStep \/ ReadMessagesEnds \/ Sigint \/ DecoderThrows

Spec == Init /\ [][Next]_vars

(* Every thread runs on, and a query of the database returns.  SIGINT may  *)
(* never come and a client may keep its dashboard open for ever.           *)
FairSpec ==
  /\ Spec
  /\ WF_vars(Alive /\ CaptureStep)
  /\ WF_vars(Alive /\ DecoderStep)
  /\ WF_vars(Alive /\ LoggerStep)
  /\ WF_vars(Alive /\ ServerStep)
  /\ WF_vars(Alive /\ MainStep)
  /\ WF_vars(Alive /\ ReadMessagesEnds)

-----------------------------------------------------------------------------
(* Properties                                                              *)

(* The pipeline keeps the promise of DecodeLog.tla: frames are settled     *)
(* once and in order, and main returns only when none is left in a queue   *)
(* or in a thread's hands.                                                 *)
LoggedFrames == [i \in 1 .. Len(db) |-> db[i].frame]
Phase == IF crashed \/ main = "failed" THEN "aborted"
         ELSE IF main = "exited" THEN "finished" ELSE "running"

Promise == INSTANCE DecodeLog WITH
  frames <- heard, logged <- LoggedFrames, phase <- Phase
PromiseSpec == Promise!Spec

(* The connection is open whenever the logger or a web handler is using    *)
(* it: db.close() comes after both have been joined.                       *)
DbOpenWhileUsed == (logger = "insert" \/ reading) => dbOpen

(* Nothing is pushed into a queue that was stopped, where a consumer may   *)
(* already have left.                                                      *)
NoPushAfterStop ==
  [][ /\ decodeStopped => Len(decodeQ') <= Len(decodeQ)
      /\ logStopped => Len(logQ') <= Len(logQ) ]_vars

(* recent() takes the rows with the largest ids for the newest messages.   *)
(* The rows are in the order of their frames, and their timestamps in that *)
(* order, too, but where the clock was set back: of two rows the later one *)
(* has the smaller timestamp only if the clock went back at the decoding   *)
(* of some frame after the first one's and no later than its own.          *)
InTime(x, y) == (\A f \in setBack : ~(x.frame < f /\ f <= y.frame)) => x.stamp <= y.stamp

LogInTimeOrder ==
  \A i, j \in 1 .. Len(db) : i < j => db[i].frame < db[j].frame /\ InTime(db[i], db[j])

(* A frame with messages is settled sooner or later, whenever SIGINT comes *)
(* and whatever the clients do.                                            *)
EveryFrameSettled ==
  \A f \in Frames :
    (f <= Len(heard) /\ heard[f] # << >>)
      ~> (crashed \/ f \in refused \/ \E i \in 1 .. Len(db) : db[i].frame = f)

(* SIGINT ends the program, unless some dashboard keeps its event stream   *)
(* open for ever: every thread leaves its loop and every join returns.     *)
(* rf.stop() is taken to return; RfInput.tla shows when it does not.       *)
SigintEndsWhenClientsLeave == []<>(streams = 0) => (~running ~> ~Alive)

-----------------------------------------------------------------------------
(* The inductive invariant behind the safety properties                    *)

(* The queues are stopped and the threads started and joined in the order  *)
(* of the statements of main.                                              *)
AfterJoinServer == {"stopRf", "closeDb", "exited"}
AfterJoinLogger == {"joinServer"} \union AfterJoinServer
AfterStopLog == {"joinLogger"} \union AfterJoinLogger
AfterJoinDecoder == {"stopLog"} \union AfterStopLog
AfterStopDecode == {"joinDecoder"} \union AfterJoinDecoder
AfterJoinCapture == {"stopDecode"} \union AfterStopDecode
BeforeLogger == {"openDb", "failed", "startLogger"}
BeforeServer == {"startServer"} \union BeforeLogger
BeforeCapture == {"openRf", "startCapture"} \union BeforeServer
BeforeDecoder == {"startDecoder"} \union BeforeCapture

StartOrder ==
  /\ main \in BeforeLogger => logger = "unborn"
  /\ main \in BeforeServer => server = "unborn"
  /\ main \in BeforeCapture => capture = "unborn"
  /\ main \in BeforeDecoder => decoder = "unborn"

ShutdownOrder ==
  /\ main \in AfterJoinCapture => capture = "done"
  /\ decodeStopped <=> main \in AfterStopDecode
  /\ decoder = "done" => decodeStopped /\ decodeQ = << >>
  /\ main \in AfterJoinDecoder => decoder = "done"
  /\ logStopped <=> main \in AfterStopLog
  /\ logger = "done" => logStopped /\ logQ = << >>
  /\ main \in AfterJoinLogger => logger = "done"
  /\ reading => server \in {"serve", "removeMessages"}
  /\ main \in AfterJoinServer => server = "done"
  /\ dbOpen <=> main \notin {"openDb", "failed", "exited"}

(* Frames pushed by the capture thread, frames popped by the decoder, and  *)
(* frames it is done with: the decode queue holds what lies between.       *)
Pushed == IF capture \in {"stamp", "push"} THEN Len(heard) - 1 ELSE Len(heard)
Popped == Pushed - Len(decodeQ)
Decoding == decoder \in {"process", "count", "push"}
Decoded == IF Decoding THEN Popped - 1 ELSE Popped

DecodeQueueInOrder ==
  /\ capture = "check" /\ running => Len(heard) < MaxFrames
  /\ capture = "snapshot" => Len(heard) < MaxFrames
  /\ capture = "unborn" => heard = << >>
  /\ capture \in {"stamp", "push"} => Len(heard) > 0
  /\ Len(decodeQ) <= Pushed
  /\ \A i \in 1 .. Len(decodeQ) : decodeQ[i] = Popped + i
  /\ Decoding => decFrame = Popped /\ decFrame > 0

(* The frames whose insert was tried, and those on their way to it.        *)
Tried == {db[i].frame : i \in 1 .. Len(db)} \union refused
Queued == {logQ[i].frame : i \in 1 .. Len(logQ)}
InHand == IF logger = "insert" THEN {logBatch.frame} ELSE {}

LogQueueInOrder ==
  /\ Tried \union InHand \union Queued = {f \in 1 .. Decoded : heard[f] # << >>}
  /\ \A f \in Tried : \A g \in InHand \union Queued : f < g
  /\ \A f \in InHand : \A g \in Queued : f < g
  /\ \A i, j \in 1 .. Len(logQ) : i < j => logQ[i].frame < logQ[j].frame

(* The stamps along the log and the queue, and the time of the decoder,    *)
(* which is the stamp of the next batch.                                   *)
UpToNow(x) == (\A f \in setBack : f <= x.frame) => x.stamp <= lastDecode

StampsInOrder ==
  /\ \A f \in setBack : f <= Popped
  /\ \A i \in 1 .. Len(logQ) : UpToNow(logQ[i])
  /\ \A i, j \in 1 .. Len(logQ) : i < j => InTime(logQ[i], logQ[j])
  /\ logger = "insert" =>
       /\ UpToNow(logBatch)
       /\ \A i \in 1 .. Len(logQ) : InTime(logBatch, logQ[i])
  /\ \A k \in 1 .. Len(db) :
       /\ UpToNow(db[k])
       /\ logger = "insert" => InTime(db[k], logBatch)
       /\ \A i \in 1 .. Len(logQ) : InTime(db[k], logQ[i])

(* Where a captured frame with messages can be: its insert was tried, or   *)
(* it is with the logger, in log_queue, with the decoder, in decode_queue, *)
(* or the capture thread is about to push it.                              *)
WithDecoder == IF Decoding THEN {decFrame} ELSE {}
ToDecode == {decodeQ[i] : i \in 1 .. Len(decodeQ)}
WithCapture == IF capture \in {"stamp", "push"} THEN {Len(heard)} ELSE {}
Places == <<Tried, InHand, Queued, WithDecoder, ToDecode, WithCapture>>

(* At every moment it is in one of these places and in no other: between   *)
(* two threads no frame gets lost and none is handed on twice.             *)
InOnePlace ==
  \A f \in 1 .. Len(heard) :
    heard[f] # << >> =>
      \E k \in 1 .. 6 : \A j \in 1 .. 6 : f \in Places[j] <=> j = k

IndInv ==
  /\ TypeOK /\ StartOrder /\ ShutdownOrder
  /\ DecodeQueueInOrder /\ LogQueueInOrder /\ StampsInOrder /\ LogInTimeOrder
-----------------------------------------------------------------------------
(* Why the shutdown comes to its end                                       *)

(* The steps that each thread has left after SIGINT, where what it queues  *)
(* for the next one counts with it.                                        *)
MainLeft ==
  CASE main = "openDb" -> 16 [] main = "startLogger" -> 15 [] main = "startServer" -> 14
    [] main = "openRf" -> 13 [] main = "startCapture" -> 12
    [] main = "startDecoder" -> 11 [] main = "wait" -> 10 [] main = "joinCapture" -> 9
    [] main = "stopDecode" -> 8 [] main = "joinDecoder" -> 7 [] main = "stopLog" -> 6
    [] main = "joinLogger" -> 5 [] main = "joinServer" -> 4 [] main = "stopRf" -> 3
    [] main = "closeDb" -> 2 [] main = "exited" -> 1 [] OTHER -> 0
CaptureLeft ==
  CASE capture = "snapshot" -> 11 [] capture = "stamp" -> 10 [] capture = "push" -> 9
    [] capture = "sleep" -> 2 [] capture = "check" -> 1 [] capture = "unborn" -> 1
    [] OTHER -> 0
DecoderLeft ==
  CASE decoder = "process" -> 6 [] decoder = "count" -> 5 [] decoder = "push" -> 4
    [] decoder = "pop" -> 1 [] decoder = "unborn" -> 1 [] OTHER -> 0
LoggerLeft ==
  CASE logger = "insert" -> 2 [] logger = "pop" -> 1 [] logger = "unborn" -> 1
    [] OTHER -> 0
ServerLeft ==
  CASE server = "unborn" -> 4 [] server = "construct" -> 4 [] server = "serve" -> 3
    [] server = "removeMessages" -> 2 [] server = "removeEvents" -> 1 [] OTHER -> 0
ThrowLeft == IF crashed THEN 0 ELSE 1

StepsLeft ==
  MainLeft + CaptureLeft + DecoderLeft + LoggerLeft + ServerLeft + ThrowLeft
    + 6 * Len(decodeQ) + 2 * Len(logQ)

(* After SIGINT no thread goes round for ever: every step of a thread      *)
(* leaves fewer to be taken, whatever the queues still hold, and a request *)
(* does not bring any back.                                                *)
ShutdownShrinks ==
  [][ ~running => IF ClientStep \/ ReadMessagesEnds THEN StepsLeft' = StepsLeft
                  ELSE StepsLeft' < StepsLeft ]_vars

(* The threads that can take a step.                                       *)
CaptureCanGo ==
  \/ capture \in {"check", "snapshot", "stamp", "push"}
  \/ capture = "sleep" /\ (running => Len(heard) < MaxFrames)
DecoderCanGo ==
  \/ decoder \in {"process", "count", "push"}
  \/ decoder = "pop" /\ (decodeQ # << >> \/ decodeStopped)
LoggerCanGo ==
  \/ logger = "insert"
  \/ logger = "pop" /\ (logQ # << >> \/ logStopped)
ServerCanGo ==
  \/ server = "construct"
  \/ server = "serve" /\ ~running
  \/ server = "removeMessages" /\ ~reading
  \/ server = "removeEvents" /\ streams = 0
MainCanGo ==
  \/ main \notin {"wait", "joinCapture", "joinDecoder", "joinLogger", "joinServer",
                  "exited", "failed"}
  \/ main = "wait" /\ ~running
  \/ main = "joinCapture" /\ capture = "done"
  \/ main = "joinDecoder" /\ decoder = "done"
  \/ main = "joinLogger" /\ logger = "done"
  \/ main = "joinServer" /\ server = "done"

(* After SIGINT the joins never wait for one another: as long as the       *)
(* process is there, some thread can go on, or main is at its last join,   *)
(* of a server thread that waits for a client.                             *)
ShutdownNotStuck ==
  Alive /\ ~running =>
    \/ CaptureCanGo \/ DecoderCanGo \/ LoggerCanGo \/ ServerCanGo \/ MainCanGo
    \/ /\ main = "joinServer"
       /\ \/ server = "removeMessages" /\ reading
          \/ server = "removeEvents" /\ streams > 0

(* The converse of StartOrder.                                             *)
Started ==
  /\ main \notin BeforeLogger => logger # "unborn"
  /\ main \notin BeforeServer => server # "unborn"
  /\ main \notin BeforeCapture => capture # "unborn"
  /\ main \notin BeforeDecoder => decoder # "unborn"
=============================================================================
