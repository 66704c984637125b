--------------------------- MODULE PipelineProofs ----------------------------
(***************************************************************************)
(* Proofs about Pipeline.tla, for any set of frame contents and any bounds *)
(* on frames and open dashboards: the inductive invariant IndInv with its  *)
(* corollaries, the rules that no stopped queue is pushed to and that a    *)
(* frame is in one place, the refinement of DecodeLog.tla, and that the    *)
(* shutdown makes progress and is never stuck.                             *)
(***************************************************************************)
EXTENDS Pipeline, SequenceTheorems, TLAPS

-----------------------------------------------------------------------------
(* Type correctness, one lemma per thread.                                 *)

(* Appending within the bound on frames and taking the tail stay in type.  *)
LEMMA CaptureType ==
  ASSUME TypeOK, DecodeQueueInOrder, CaptureStep
  PROVE  TypeOK'
<1> USE BoundsAssumption DEF TypeOK
<1>1. CASE CaptureCheck
  BY <1>1 DEF CaptureCheck, CaptureGoto, CaptureLocs, queues, hands, status, decodeTime,
      store, web
<1>2. CASE CaptureSnapshot
  <2>1. PICK r \in Results : heard' = Append(heard, r)
    BY <1>2 DEF CaptureSnapshot
  <2>2. heard' \in Seq(Results) /\ Len(heard') <= MaxFrames
    BY <1>2, <2>1 DEF CaptureSnapshot, CaptureGoto, DecodeQueueInOrder
  <2> QED
    BY <1>2, <2>2 DEF CaptureSnapshot, CaptureGoto, CaptureLocs, queues, hands, status,
        decodeTime, store, web
<1>3. CASE CaptureStamp
  BY <1>3 DEF CaptureStamp, CaptureGoto, CaptureLocs, queues, hands, status, decodeTime,
      store, web
<1>4. CASE CapturePush
  <2>1. Len(heard) \in Frames
    BY <1>4 DEF CapturePush, CaptureGoto, DecodeQueueInOrder, Frames
  <2> QED
    BY <1>4, <2>1 DEF CapturePush, CaptureGoto, CaptureLocs, hands, status, decodeTime,
        store, web
<1>5. CASE CaptureWake
  BY <1>5 DEF CaptureWake, CaptureGoto, CaptureLocs, queues, hands, status, decodeTime,
      store, web
<1> QED
  BY <1>1, <1>2, <1>3, <1>4, <1>5 DEF CaptureStep

(* The decoder handles frames that were captured.                          *)
LEMMA DecoderType ==
  ASSUME TypeOK, DecodeQueueInOrder, DecoderStep
  PROVE  TypeOK'
<1> USE BoundsAssumption DEF TypeOK
<1>1. CASE DecoderPop
  <2>1. Head(decodeQ) \in Frames /\ Tail(decodeQ) \in Seq(Frames)
    BY <1>1 DEF DecoderPop
  <2> QED
    BY <1>1, <2>1 DEF DecoderPop, DecoderGoto, DecoderLocs, Frames, others, decodeTime,
        store, web
<1>2. CASE DecoderEnd
  BY <1>2 DEF DecoderEnd, DecoderGoto, DecoderLocs, queues, others, decodeTime, store, web
<1>3. CASE DecoderProcess
  <2>1. decFrame \in Frames
    BY <1>3 DEF DecoderProcess, DecoderGoto, DecodeQueueInOrder, Decoding, Frames
  <2>2. setBack' \in SUBSET Frames
    BY <1>3, <2>1 DEF DecoderProcess
  <2> QED
    BY <1>3, <2>2 DEF DecoderProcess, DecoderGoto, DecoderLocs, queues, others, store, web
<1>4. CASE DecoderCount
  <2>1. decFrame \in 1 .. Len(heard)
    BY <1>4 DEF DecoderCount, DecoderGoto, DecodeQueueInOrder, Decoding, Popped, Pushed
  <2>2. heard[decFrame] \in Seq(BOOLEAN)
    BY <2>1, ResultsAssumption
  <2>3. lastCount' \in Nat
    BY <1>4, <2>2 DEF DecoderCount
  <2> QED
    BY <1>4, <2>3 DEF DecoderCount, DecoderGoto, DecoderLocs, queues, others, decodeTime,
        store, web
<1>5. CASE DecoderPush
  <2>1. decFrame \in Frames
    BY <1>5 DEF DecoderPush, DecoderGoto, DecodeQueueInOrder, Decoding, Frames
  <2>2. [frame |-> decFrame, stamp |-> lastDecode] \in Batches
    BY <2>1 DEF Batches
  <2>3. logQ' \in Seq(Batches)
    BY <1>5, <2>2 DEF DecoderPush
  <2> QED
    BY <1>5, <2>3 DEF DecoderPush, DecoderGoto, DecoderLocs, others, decodeTime, store, web
<1> QED
  BY <1>1, <1>2, <1>3, <1>4, <1>5 DEF DecoderStep

(* The logger handles batches of such frames.                              *)
LEMMA LoggerType ==
  ASSUME TypeOK, LogQueueInOrder, LoggerStep
  PROVE  TypeOK'
<1> USE BoundsAssumption DEF TypeOK
<1>1. CASE LoggerPop
  <2>1. Head(logQ) \in Batches /\ Tail(logQ) \in Seq(Batches)
    BY <1>1 DEF LoggerPop
  <2>2. logBatch' \in [frame : 0 .. MaxFrames, stamp : Times]
    BY <1>1, <2>1 DEF LoggerPop, Batches, Frames
  <2> QED
    BY <1>1, <2>1, <2>2 DEF LoggerPop, LoggerGoto, LoggerLocs, others, status, decodeTime,
        web
<1>2. CASE LoggerEnd
  BY <1>2 DEF LoggerEnd, LoggerGoto, LoggerLocs, others, status, decodeTime, web
<1>3. CASE LoggerInsert
  <2>1. logBatch.frame \in {f \in 1 .. Decoded : heard[f] # << >>}
    BY <1>3 DEF LoggerInsert, LoggerGoto, LogQueueInOrder, InHand
  <2>2. logBatch.frame \in Frames
    BY <2>1 DEF Frames
  <2>3. logBatch \in Batches
    BY <2>2 DEF Batches
  <2>4. db' \in Seq(Batches) /\ refused' \in SUBSET Frames
    <3>1. CASE db' = Append(db, logBatch) /\ UNCHANGED refused
      BY <2>3, <3>1
    <3>2. CASE refused' = refused \union {logBatch.frame} /\ UNCHANGED db
      BY <2>2, <3>2
    <3> QED
      BY <1>3, <3>1, <3>2 DEF LoggerInsert
  <2> QED
    BY <1>3, <2>4 DEF LoggerInsert, LoggerGoto, LoggerLocs, others, status, decodeTime, web
<1> QED
  BY <1>1, <1>2, <1>3 DEF LoggerStep

(* The server and its clients.                                             *)
LEMMA ServerType ==
  ASSUME TypeOK, ServerStep \/ ClientStep \/ ReadMessagesEnds
  PROVE  TypeOK'
<1> USE BoundsAssumption DEF TypeOK
<1>1. CASE ServerStep
  <2>1. /\ server' \in ServerLocs /\ crashed' \in BOOLEAN
        /\ UNCHANGED <<main, capture, decoder, logger, heard, running, queues, hands,
                       status, store, web>>
    BY <1>1 DEF ServerStep, ServerConstruct, ServerThrows, ServerLeaveLoop,
                RemoveMessages, RemoveEvents, ServerGoto, ServerLocs
  <2> QED
    BY <2>1 DEF queues, hands, status, decodeTime, store, web
<1>2. CASE ClientStep \/ ReadMessagesEnds
  <2>1. RequestGoto /\ reading' \in BOOLEAN
    BY <1>2 DEF ClientStep, ReadMessages, OpenStream, StreamEnds, ReadMessagesEnds
  <2>2. streams' \in 0 .. MaxStreams
    BY <1>2 DEF ClientStep, ReadMessages, OpenStream, StreamEnds, ReadMessagesEnds
  <2> QED
    BY <2>1, <2>2 DEF RequestGoto, others, queues, hands, status, decodeTime, store
<1> QED
  BY <1>1, <1>2

(* Main and the signal handler.                                            *)
LEMMA MainType ==
  ASSUME TypeOK, MainStep \/ Sigint \/ DecoderThrows
  PROVE  TypeOK'
<1> USE DEF TypeOK
<1>1. CASE MainStep
  <2>1. /\ main' \in MainLocs
        /\ UNCHANGED <<others, decodeQ, logQ, hands, status, db, refused, web>>
    BY <1>1 DEF MainStep, OpenDb, StartLogger, StartServer, OpenRf, StartCapture,
                StartDecoder, LeaveWait, JoinCapture, StopDecode, JoinDecoder, StopLog,
                JoinLogger, JoinServer, StopRf, CloseDb, MainGoto, MainLocs
  <2>2. /\ capture' \in CaptureLocs /\ decoder' \in DecoderLocs
        /\ logger' \in LoggerLocs /\ server' \in ServerLocs
    BY <1>1 DEF MainStep, OpenDb, StartLogger, StartServer, OpenRf, StartCapture,
                StartDecoder, LeaveWait, JoinCapture, StopDecode, JoinDecoder, StopLog,
                JoinLogger, JoinServer, StopRf, CloseDb, SameThreads, CaptureLocs,
                DecoderLocs, LoggerLocs, ServerLocs
  <2>3. decodeStopped' \in BOOLEAN /\ logStopped' \in BOOLEAN /\ dbOpen' \in BOOLEAN
    BY <1>1 DEF MainStep, OpenDb, StartLogger, StartServer, OpenRf, StartCapture,
                StartDecoder, LeaveWait, JoinCapture, StopDecode, JoinDecoder, StopLog,
                JoinLogger, JoinServer, StopRf, CloseDb, SameStops
  <2> QED
    BY <2>1, <2>2, <2>3 DEF others, hands, status, decodeTime, web
<1>2. CASE Sigint \/ DecoderThrows
  BY <1>2 DEF Sigint, DecoderThrows, queues, hands, status, decodeTime, store, web
<1> QED
  BY <1>1, <1>2

(* Every step keeps the variables in their types.                          *)
LEMMA TypeStep ==
  ASSUME TypeOK, DecodeQueueInOrder, LogQueueInOrder, [Next]_vars
  PROVE  TypeOK'
<1>1. CASE UNCHANGED vars
  BY <1>1 DEF TypeOK, vars, others, queues, hands, status, decodeTime, store, web
<1> QED
  BY <1>1, CaptureType, DecoderType, LoggerType, ServerType, MainType DEF Next

-----------------------------------------------------------------------------
(* Start-up and shutdown.                                                  *)

(* A thread that main has not started yet does not move.                   *)
LEMMA StartStep ==
  ASSUME TypeOK, StartOrder, [Next]_vars
  PROVE  StartOrder'
<1> USE DEF StartOrder, BeforeLogger, BeforeServer, BeforeCapture, BeforeDecoder
<1>1. CASE CaptureStep
  BY <1>1 DEF CaptureStep, CaptureCheck, CaptureSnapshot, CaptureStamp, CapturePush,
              CaptureWake, CaptureGoto
<1>2. CASE DecoderStep
  BY <1>2 DEF DecoderStep, DecoderPop, DecoderEnd, DecoderProcess, DecoderCount,
              DecoderPush, DecoderGoto
<1>3. CASE LoggerStep
  BY <1>3 DEF LoggerStep, LoggerPop, LoggerEnd, LoggerInsert, LoggerGoto
<1>4. CASE ServerStep
  BY <1>4 DEF ServerStep, ServerConstruct, ServerThrows, ServerLeaveLoop, RemoveMessages,
              RemoveEvents, ServerGoto
<1>5. CASE MainStep
  BY <1>5 DEF MainStep, OpenDb, StartLogger, StartServer, OpenRf, StartCapture,
              StartDecoder, LeaveWait, JoinCapture, StopDecode, JoinDecoder, StopLog,
              JoinLogger, JoinServer, StopRf, CloseDb, MainGoto, SameThreads
<1>6. CASE ClientStep \/ ReadMessagesEnds \/ Sigint \/ DecoderThrows \/ UNCHANGED vars
  BY <1>6 DEF ClientStep, ReadMessages, OpenStream, StreamEnds, ReadMessagesEnds,
              RequestGoto, Sigint, DecoderThrows, vars
<1> QED
  BY <1>1, <1>2, <1>3, <1>4, <1>5, <1>6 DEF Next

(* Main stops a queue after it joined the producers and before it joins    *)
(* the consumer; a thread that is done does not start again.               *)
LEMMA ShutdownStep ==
  ASSUME TypeOK, StartOrder, ShutdownOrder, [Next]_vars
  PROVE  ShutdownOrder'
<1> USE DEF ShutdownOrder, AfterJoinServer, AfterJoinLogger, AfterStopLog,
            AfterJoinDecoder, AfterStopDecode, AfterJoinCapture
<1>1. CASE CaptureStep
  BY <1>1 DEF CaptureStep, CaptureCheck, CaptureSnapshot, CaptureStamp, CapturePush,
              CaptureWake, CaptureGoto, queues, store, web
<1>2. CASE DecoderStep
  BY <1>2 DEF DecoderStep, DecoderPop, DecoderEnd, DecoderProcess, DecoderCount,
              DecoderPush, DecoderGoto, queues, store, web
<1>3. CASE LoggerStep
  BY <1>3 DEF LoggerStep, LoggerPop, LoggerEnd, LoggerInsert, LoggerGoto, web
<1>4. CASE ServerStep
  BY <1>4 DEF ServerStep, ServerConstruct, ServerThrows, ServerLeaveLoop, RemoveMessages,
              RemoveEvents, ServerGoto, queues, store, web
<1>5. CASE MainStep
  BY <1>5 DEF MainStep, OpenDb, StartLogger, StartServer, OpenRf, StartCapture,
              StartDecoder, LeaveWait, JoinCapture, StopDecode, JoinDecoder, StopLog,
              JoinLogger, JoinServer, StopRf, CloseDb, MainGoto, SameThreads, SameStops,
              StartOrder, BeforeLogger, BeforeServer, BeforeCapture, BeforeDecoder, web
<1>6. CASE ClientStep \/ ReadMessagesEnds \/ Sigint \/ DecoderThrows \/ UNCHANGED vars
  BY <1>6 DEF ClientStep, ReadMessages, OpenStream, StreamEnds, ReadMessagesEnds,
              RequestGoto, Sigint, DecoderThrows, vars, queues, store, web
<1> QED
  BY <1>1, <1>2, <1>3, <1>4, <1>5, <1>6 DEF Next

-----------------------------------------------------------------------------
(* The decode queue holds consecutive frames, and the decoder the one      *)
(* before them.                                                            *)

(* What the capture thread does to the queue and the counters.             *)
LEMMA CaptureQueue ==
  ASSUME TypeOK, DecodeQueueInOrder, CaptureStep
  PROVE  /\ DecodeQueueInOrder'
         /\ Decoded' = Decoded
         /\ \A f \in 1 .. Len(heard) : f \in 1 .. Len(heard') /\ heard'[f] = heard[f]
<1> USE DEF DecodeQueueInOrder, Decoding, Decoded, Popped, Pushed
<1>a. heard \in Seq(Results) /\ decodeQ \in Seq(Frames) /\ Len(heard) \in Nat
      /\ Len(decodeQ) \in Nat /\ running \in BOOLEAN
  BY DEF TypeOK
<1>1. CASE CaptureCheck
  BY <1>1, <1>a DEF CaptureCheck, CaptureGoto, queues, hands
<1>2. CASE CaptureSnapshot
  <2>1. PICK r \in Results : heard' = Append(heard, r)
    BY <1>2 DEF CaptureSnapshot
  <2>2. /\ Len(heard') = Len(heard) + 1
        /\ \A f \in 1 .. Len(heard) : f \in 1 .. Len(heard') /\ heard'[f] = heard[f]
    BY <1>a, <2>1
  <2>3. /\ capture = "snapshot" /\ capture' = "stamp"
        /\ UNCHANGED <<decoder, running, decodeQ, decFrame>>
    BY <1>2 DEF CaptureSnapshot, CaptureGoto, queues, hands
  <2>4. Pushed' = Pushed /\ Popped' = Popped
    BY <1>a, <2>2, <2>3
  <2> QED
    BY <1>a, <2>2, <2>3, <2>4
<1>3. CASE CaptureStamp
  BY <1>3, <1>a DEF CaptureStamp, CaptureGoto, queues, hands
<1>4. CASE CapturePush
  <2>1. /\ capture = "push" /\ capture' = "sleep" /\ decodeQ' = Append(decodeQ, Len(heard))
        /\ UNCHANGED <<decoder, running, heard, decFrame>>
    BY <1>4 DEF CapturePush, CaptureGoto, hands
  <2>2. /\ Len(decodeQ') = Len(decodeQ) + 1
        /\ \A i \in 1 .. Len(decodeQ) : decodeQ'[i] = decodeQ[i]
        /\ decodeQ'[Len(decodeQ) + 1] = Len(heard)
    BY <1>a, <2>1
  <2>3. Pushed' = Pushed + 1 /\ Popped' = Popped /\ Popped + Len(decodeQ) + 1 = Len(heard)
    BY <1>a, <2>1, <2>2
  <2>p. Popped \in Int
    BY <1>a
  <2>4. ASSUME NEW i \in 1 .. Len(decodeQ')
        PROVE  decodeQ'[i] = Popped' + i
    <3> HIDE DEF Popped
    <3>1. CASE i \in 1 .. Len(decodeQ)
      BY <1>a, <2>2, <2>3, <3>1
    <3>2. CASE i = Len(decodeQ) + 1
      <4>1. decodeQ'[i] = Len(heard)
        BY <2>2, <3>2
      <4>2. Popped' + i = Popped + Len(decodeQ) + 1
        BY <1>a, <2>3, <2>p, <3>2
      <4> QED
        BY <2>3, <4>1, <4>2
    <3> QED
      BY <1>a, <2>2, <3>1, <3>2
  <2> QED
    BY <1>a, <2>1, <2>2, <2>3, <2>4
<1>5. CASE CaptureWake
  BY <1>5, <1>a DEF CaptureWake, CaptureGoto, queues, hands
<1> QED
  BY <1>1, <1>2, <1>3, <1>4, <1>5 DEF CaptureStep

(* What the decoder does to the queue and the counters: only its last step *)
(* counts a frame as decoded.                                              *)
LEMMA DecoderQueue ==
  ASSUME TypeOK, DecodeQueueInOrder, DecoderStep
  PROVE  /\ DecodeQueueInOrder'
         /\ IF DecoderPush THEN Decoded' = Decoded + 1 /\ decFrame = Decoded'
            ELSE Decoded' = Decoded
<1> USE DEF DecodeQueueInOrder, Decoding, Decoded, Popped, Pushed
<1>a. heard \in Seq(Results) /\ decodeQ \in Seq(Frames) /\ Len(heard) \in Nat
      /\ Len(decodeQ) \in Nat /\ running \in BOOLEAN
  BY DEF TypeOK
<1>b. DecoderStep => UNCHANGED <<capture, heard, running>>
  BY DEF DecoderStep, DecoderPop, DecoderEnd, DecoderProcess, DecoderCount, DecoderPush,
         DecoderGoto, others
<1>1. CASE DecoderPop
  <2>1. /\ decoder = "pop" /\ decoder' = "process" /\ decodeQ # << >>
        /\ decFrame' = Head(decodeQ) /\ decodeQ' = Tail(decodeQ)
    BY <1>1 DEF DecoderPop, DecoderGoto
  <2>2. /\ Len(decodeQ') = Len(decodeQ) - 1 /\ Len(decodeQ) > 0
        /\ \A i \in 1 .. Len(decodeQ') : decodeQ'[i] = decodeQ[i + 1]
        /\ decFrame' = decodeQ[1]
    BY <1>a, <2>1
  <2>3. Popped' = Popped + 1 /\ Popped \in Nat
    BY <1>a, <1>b, <2>2
  <2> QED
    BY <1>a, <1>b, <2>1, <2>2, <2>3 DEF DecoderPush, DecoderGoto
<1>2. CASE DecoderEnd \/ DecoderProcess \/ DecoderCount
  <2>1. /\ UNCHANGED <<decodeQ, decFrame>> /\ ~DecoderPush
        /\ \/ decoder = "pop" /\ decoder' = "done"
           \/ decoder = "process" /\ decoder' = "count"
           \/ decoder = "count" /\ decoder' = "push"
    BY <1>2 DEF DecoderEnd, DecoderProcess, DecoderCount, DecoderPush, DecoderGoto, queues
  <2> QED
    BY <1>a, <1>b, <2>1
<1>3. CASE DecoderPush
  BY <1>3, <1>a, <1>b DEF DecoderPush, DecoderGoto
<1> QED
  BY <1>1, <1>2, <1>3 DEF DecoderStep

(* Nobody else touches them, except that main starts the two threads.      *)
LEMMA OtherQueue ==
  ASSUME TypeOK, StartOrder, DecodeQueueInOrder,
         \/ LoggerStep \/ ServerStep \/ MainStep \/ ClientStep \/ ReadMessagesEnds
         \/ Sigint \/ DecoderThrows \/ UNCHANGED vars
  PROVE  DecodeQueueInOrder' /\ Decoded' = Decoded /\ heard' = heard
<1> USE DEF DecodeQueueInOrder, Decoding, Decoded, Popped, Pushed
<1>1. CASE LoggerStep
  <2>1. UNCHANGED <<heard, running, capture, decoder, decodeQ, decFrame>>
    BY <1>1 DEF LoggerStep, LoggerPop, LoggerEnd, LoggerInsert, LoggerGoto, others
  <2> QED
    BY <2>1
<1>2. CASE ServerStep
  <2>1. UNCHANGED <<heard, running, capture, decoder, decodeQ, decFrame>>
    BY <1>2 DEF ServerStep, ServerConstruct, ServerThrows, ServerLeaveLoop,
                RemoveMessages, RemoveEvents, ServerGoto, queues, hands
  <2> QED
    BY <2>1
<1>3. CASE MainStep
  <2>1. UNCHANGED <<heard, running, decodeQ, decFrame>>
    BY <1>3 DEF MainStep, OpenDb, StartLogger, StartServer, OpenRf, StartCapture,
              StartDecoder, LeaveWait, JoinCapture, StopDecode, JoinDecoder, StopLog,
              JoinLogger, JoinServer, StopRf, CloseDb, MainGoto, others, hands
  <2>2. \/ UNCHANGED capture
        \/ capture = "unborn" /\ capture' = "check"
    BY <1>3 DEF MainStep, OpenDb, StartLogger, StartServer, OpenRf, StartCapture,
              StartDecoder, LeaveWait, JoinCapture, StopDecode, JoinDecoder, StopLog,
              JoinLogger, JoinServer, StopRf, CloseDb, MainGoto, SameThreads,
              StartOrder, BeforeCapture
  <2>3. \/ UNCHANGED decoder
        \/ decoder = "unborn" /\ decoder' = "pop"
    BY <1>3 DEF MainStep, OpenDb, StartLogger, StartServer, OpenRf, StartCapture,
              StartDecoder, LeaveWait, JoinCapture, StopDecode, JoinDecoder, StopLog,
              JoinLogger, JoinServer, StopRf, CloseDb, MainGoto, SameThreads,
              StartOrder, BeforeDecoder
  <2> QED
    BY <2>1, <2>2, <2>3, BoundsAssumption
<1>4. CASE ClientStep \/ ReadMessagesEnds
  <2>1. RequestGoto
    BY <1>4 DEF ClientStep, ReadMessages, OpenStream, StreamEnds, ReadMessagesEnds
  <2> QED
    BY <2>1 DEF RequestGoto, others, queues, hands
<1>5. CASE Sigint \/ DecoderThrows \/ UNCHANGED vars
  <2>1. /\ UNCHANGED <<heard, capture, decoder, decodeQ, decFrame>>
        /\ running' = FALSE \/ running' = running
    BY <1>5 DEF Sigint, DecoderThrows, vars, others, queues, hands
  <2> QED
    BY <2>1
<1> QED
  BY <1>1, <1>2, <1>3, <1>4, <1>5

-----------------------------------------------------------------------------
(* The log queue: every decoded frame with messages is tried, in the       *)
(* logger's hands or queued, in this order.                                *)

(* How many frames are decoded is a number within the captured ones.       *)
LEMMA DecodedType ==
  ASSUME TypeOK, DecodeQueueInOrder
  PROVE  Decoded \in Nat /\ Decoded <= Len(heard)
BY DEF TypeOK, DecodeQueueInOrder, Decoded, Decoding, Popped, Pushed

(* Capturing a frame changes nothing that is decoded already.              *)
LEMMA CaptureLog ==
  ASSUME TypeOK, DecodeQueueInOrder, LogQueueInOrder, CaptureStep
  PROVE  LogQueueInOrder'
<1>1. UNCHANGED <<logger, logQ, logBatch, db, refused>>
  BY DEF CaptureStep, CaptureCheck, CaptureSnapshot, CaptureStamp, CapturePush, CaptureWake,
         CaptureGoto, queues, hands, store
<1>2. Tried' = Tried /\ InHand' = InHand /\ Queued' = Queued
  BY <1>1 DEF Tried, InHand, Queued
<1>3. {f \in 1 .. Decoded' : heard'[f] # << >>} = {f \in 1 .. Decoded : heard[f] # << >>}
  BY CaptureQueue, DecodedType
<1> QED
  BY <1>1, <1>2, <1>3 DEF LogQueueInOrder

(* The decoder queues a frame behind all frames it decoded before.         *)
LEMMA DecoderLog ==
  ASSUME TypeOK, DecodeQueueInOrder, LogQueueInOrder, DecoderStep
  PROVE  LogQueueInOrder'
<1>a. UNCHANGED <<logger, logBatch, db, refused, heard>>
  BY DEF DecoderStep, DecoderPop, DecoderEnd, DecoderProcess, DecoderCount, DecoderPush,
         DecoderGoto, others, store
<1>b. Tried' = Tried /\ InHand' = InHand
  BY <1>a DEF Tried, InHand
<1>c. Decoded \in Nat
  BY DecodedType
<1>1. CASE logQ' = logQ /\ Decoded' = Decoded
  BY <1>1, <1>a, <1>b DEF LogQueueInOrder, Queued
<1>2. CASE DecoderPush /\ heard[decFrame] = << >>
  <2>1. logQ' = logQ /\ Queued' = Queued
    BY <1>2 DEF DecoderPush, Queued
  <2>2. Decoded' = Decoded + 1 /\ decFrame = Decoded + 1
    BY <1>2, DecoderQueue
  <2>3. {f \in 1 .. Decoded' : heard'[f] # << >>} = {f \in 1 .. Decoded : heard[f] # << >>}
    BY <1>2, <1>a, <1>c, <2>2
  <2> QED
    BY <1>b, <2>1, <2>3 DEF LogQueueInOrder
<1>3. CASE DecoderPush /\ heard[decFrame] # << >>
  <2>1. /\ logQ' = Append(logQ, [frame |-> decFrame, stamp |-> lastDecode])
        /\ logQ \in Seq(Batches)
    BY <1>3 DEF DecoderPush, TypeOK
  <2>2. /\ Len(logQ') = Len(logQ) + 1 /\ Len(logQ) \in Nat
        /\ \A i \in 1 .. Len(logQ) : logQ'[i] = logQ[i]
        /\ logQ'[Len(logQ) + 1].frame = decFrame
    BY <2>1
  <2>3. Queued' = Queued \union {decFrame}
    BY <2>2 DEF Queued
  <2>4. Decoded' = Decoded + 1 /\ decFrame = Decoded + 1
    BY <1>3, DecoderQueue
  <2>5. {f \in 1 .. Decoded' : heard'[f] # << >>}
          = {f \in 1 .. Decoded : heard[f] # << >>} \union {decFrame}
    BY <1>3, <1>a, <1>c, <2>4
  <2>6. \A f \in Tried \union InHand \union Queued : f < decFrame
    BY <1>c, <2>4 DEF LogQueueInOrder
  <2>7. \A i \in 1 .. Len(logQ) : logQ[i].frame < decFrame
    BY <2>6 DEF Queued
  <2>8. \A i, j \in 1 .. Len(logQ') : i < j => logQ'[i].frame < logQ'[j].frame
    BY <2>2, <2>7 DEF LogQueueInOrder
  <2>9. /\ Tried' \union InHand' \union Queued' = {f \in 1 .. Decoded' : heard'[f] # << >>}
        /\ \A f \in Tried' : \A g \in InHand' \union Queued' : f < g
        /\ \A f \in InHand' : \A g \in Queued' : f < g
    BY <1>b, <2>3, <2>5, <2>6 DEF LogQueueInOrder
  <2> QED
    BY <2>8, <2>9 DEF LogQueueInOrder
<1>4. DecoderPush \/ (logQ' = logQ /\ Decoded' = Decoded)
  BY DecoderQueue DEF DecoderStep, DecoderPop, DecoderEnd, DecoderProcess, DecoderCount,
      queues
<1> QED
  BY <1>1, <1>2, <1>3, <1>4

(* The logger moves the oldest batch along.                                *)
LEMMA LoggerLog ==
  ASSUME TypeOK, StartOrder, DecodeQueueInOrder, LogQueueInOrder, LoggerStep
  PROVE  LogQueueInOrder'
<1>a. Decoded' = Decoded /\ heard' = heard
  BY OtherQueue
<1>b. logQ \in Seq(Batches) /\ db \in Seq(Batches)
  BY DEF TypeOK
<1>1. CASE LoggerPop
  <2>1. /\ logger = "pop" /\ logger' = "insert" /\ logQ # << >>
        /\ logBatch' = Head(logQ) /\ logQ' = Tail(logQ)
        /\ UNCHANGED <<db, refused>>
    BY <1>1 DEF LoggerPop, LoggerGoto
  <2>2. /\ Len(logQ') = Len(logQ) - 1 /\ Len(logQ) \in Nat /\ Len(logQ) > 0
        /\ \A i \in 1 .. Len(logQ') : logQ'[i] = logQ[i + 1]
        /\ logBatch' = logQ[1]
    BY <1>b, <2>1
  <2>3. Tried' = Tried /\ InHand = {} /\ InHand' = {logQ[1].frame}
    BY <2>1, <2>2 DEF Tried, InHand
  <2>4. Queued = {logQ[1].frame} \union Queued'
    <3>1. Queued \subseteq {logQ[1].frame} \union Queued'
      <4>1. SUFFICES ASSUME NEW i \in 1 .. Len(logQ)
                     PROVE  logQ[i].frame \in {logQ[1].frame} \union Queued'
        BY DEF Queued
      <4>2. CASE i = 1
        BY <4>2
      <4>3. CASE i # 1
        <5>1. i - 1 \in 1 .. Len(logQ') /\ logQ'[i - 1] = logQ[i]
          BY <2>2, <4>3
        <5> QED
          BY <5>1 DEF Queued
      <4> QED
        BY <4>2, <4>3
    <3>2. {logQ[1].frame} \union Queued' \subseteq Queued
      BY <2>2 DEF Queued
    <3> QED
      BY <3>1, <3>2
  <2>5. \A g \in Queued' : logQ[1].frame < g
    <3>1. SUFFICES ASSUME NEW i \in 1 .. Len(logQ')
                   PROVE  logQ[1].frame < logQ'[i].frame
      BY DEF Queued
    <3>2. i + 1 \in 1 .. Len(logQ) /\ 1 \in 1 .. Len(logQ) /\ 1 < i + 1
      BY <2>2
    <3>3. logQ[1].frame < logQ[i + 1].frame
      BY <3>2 DEF LogQueueInOrder
    <3> QED
      BY <2>2, <3>3
  <2>6. \A i, j \in 1 .. Len(logQ') : i < j => logQ'[i].frame < logQ'[j].frame
    BY <2>2 DEF LogQueueInOrder
  <2> QED
    BY <1>a, <2>3, <2>4, <2>5, <2>6 DEF LogQueueInOrder
<1>2. CASE LoggerEnd
  <2>1. UNCHANGED <<logQ, db, refused>> /\ InHand = {} /\ InHand' = {}
    BY <1>2 DEF LoggerEnd, LoggerGoto, InHand
  <2> QED
    BY <1>a, <2>1 DEF LogQueueInOrder, Tried, Queued
<1>3. CASE LoggerInsert
  <2>1. InHand = {logBatch.frame} /\ InHand' = {} /\ logQ' = logQ
    BY <1>3 DEF LoggerInsert, LoggerGoto, InHand
  <2>2. Tried' = Tried \union {logBatch.frame}
    <3>1. CASE db' = Append(db, logBatch) /\ UNCHANGED refused
      <4>1. /\ Len(db') = Len(db) + 1 /\ Len(db) \in Nat
            /\ \A i \in 1 .. Len(db) : db'[i] = db[i]
            /\ db'[Len(db) + 1] = logBatch
        BY <1>b, <3>1
      <4> QED
        BY <3>1, <4>1 DEF Tried
    <3>2. CASE refused' = refused \union {logBatch.frame} /\ UNCHANGED db
      BY <3>2 DEF Tried
    <3> QED
      BY <1>3, <3>1, <3>2 DEF LoggerInsert
  <2>3. Queued' = Queued
    BY <2>1 DEF Queued
  <2> QED
    BY <1>a, <2>1, <2>2, <2>3 DEF LogQueueInOrder
<1> QED
  BY <1>1, <1>2, <1>3 DEF LoggerStep

(* Nobody else touches the log queue or the database.                      *)
LEMMA OtherLog ==
  ASSUME TypeOK, StartOrder, DecodeQueueInOrder, LogQueueInOrder,
         \/ ServerStep \/ MainStep \/ ClientStep \/ ReadMessagesEnds
         \/ Sigint \/ DecoderThrows \/ UNCHANGED vars
  PROVE  LogQueueInOrder'
<1>a. Decoded' = Decoded /\ heard' = heard
  BY OtherQueue
<1>b. UNCHANGED <<logQ, logBatch, db, refused>>
  BY DEF ServerStep, ServerConstruct, ServerThrows, ServerLeaveLoop, RemoveMessages,
         RemoveEvents, ServerGoto, MainStep, OpenDb, StartLogger, StartServer, OpenRf,
         StartCapture, StartDecoder, LeaveWait, JoinCapture, StopDecode, JoinDecoder,
         StopLog, JoinLogger, JoinServer, StopRf, CloseDb, MainGoto, ClientStep,
         ReadMessages, OpenStream, StreamEnds, ReadMessagesEnds, RequestGoto, Sigint,
         DecoderThrows, vars, queues, hands, store
<1>c. InHand' = InHand
  <2>1. CASE MainStep
    <3>1. logger' = logger \/ (logger = "unborn" /\ logger' = "pop")
      BY <2>1 DEF MainStep, OpenDb, StartLogger, StartServer, OpenRf, StartCapture,
              StartDecoder, LeaveWait, JoinCapture, StopDecode, JoinDecoder, StopLog,
              JoinLogger, JoinServer, StopRf, CloseDb, MainGoto, SameThreads,
              StartOrder, BeforeLogger
    <3> QED
      BY <1>b, <3>1 DEF InHand
  <2>2. CASE \/ ServerStep \/ ClientStep \/ ReadMessagesEnds \/ Sigint
             \/ DecoderThrows \/ UNCHANGED vars
    <3>1. logger' = logger
      BY <2>2 DEF ServerStep, ServerConstruct, ServerThrows, ServerLeaveLoop,
              RemoveMessages, RemoveEvents, ServerGoto, ClientStep, ReadMessages,
              OpenStream, StreamEnds, ReadMessagesEnds, RequestGoto, Sigint,
                  DecoderThrows, vars
    <3> QED
      BY <1>b, <3>1 DEF InHand
  <2> QED
    BY <2>1, <2>2
<1>d. Tried' = Tried /\ Queued' = Queued
  BY <1>b DEF Tried, Queued
<1> QED
  BY <1>a, <1>b, <1>c, <1>d DEF LogQueueInOrder

-----------------------------------------------------------------------------
(* Time stamps.                                                            *)

(* The number of the frame that the decoder took last only grows.          *)
LEMMA PoppedGrows ==
  ASSUME TypeOK, StartOrder, DecodeQueueInOrder, LogQueueInOrder, [Next]_vars
  PROVE  /\ Popped \in Int /\ Popped' \in Int /\ Popped <= Popped'
         /\ (Decoding => decFrame = Popped /\ Decoded = Popped - 1)
<1>1. TypeOK'
  BY TypeStep
<1>2. Popped \in Int /\ Popped' \in Int
  <2>1. /\ Len(heard) \in Nat /\ Len(decodeQ) \in Nat
        /\ Len(heard') \in Nat /\ Len(decodeQ') \in Nat
    BY <1>1 DEF TypeOK
  <2> QED
    BY <2>1 DEF Popped, Pushed
<1>3. /\ Popped = IF Decoding THEN Decoded + 1 ELSE Decoded
      /\ Popped' = IF Decoding' THEN Decoded' + 1 ELSE Decoded'
  <2>1. \A p \in Int : (p - 1) + 1 = p
    OBVIOUS
  <2>2. Popped = IF Decoding THEN Decoded + 1 ELSE Decoded
    BY <1>2, <2>1 DEF Decoded
  <2>3. Popped' = IF Decoding' THEN Decoded' + 1 ELSE Decoded'
    BY <1>2, <2>1 DEF Decoded
  <2> QED
    BY <2>2, <2>3
<1>4. Decoded \in Int
  BY <1>2 DEF Decoded
<1>5. CASE CaptureStep
  <2>1. Decoding' = Decoding
    BY <1>5 DEF CaptureStep, CaptureCheck, CaptureSnapshot, CaptureStamp, CapturePush,
                CaptureWake, CaptureGoto, Decoding
  <2>2. Decoded' = Decoded
    BY <1>5, CaptureQueue
  <2> QED
    BY <1>2, <1>3, <1>4, <2>1, <2>2 DEF DecodeQueueInOrder
<1>6. CASE DecoderStep
  <2>1. CASE DecoderPush
    <3>1. Decoded' = Decoded + 1 /\ Decoding /\ ~Decoding'
      BY <1>6, <2>1, DecoderQueue DEF DecoderPush, DecoderGoto, Decoding
    <3> QED
      BY <1>2, <1>3, <1>4, <3>1 DEF DecodeQueueInOrder
  <2>2. CASE ~DecoderPush
    <3>1. Decoded' = Decoded /\ (Decoding => Decoding')
      BY <1>6, <2>2, DecoderQueue DEF DecoderStep, DecoderPop, DecoderEnd, DecoderProcess,
          DecoderCount, DecoderGoto, Decoding
    <3> QED
      BY <1>2, <1>3, <1>4, <3>1 DEF DecodeQueueInOrder
  <2> QED
    BY <2>1, <2>2
<1>7. CASE \/ LoggerStep \/ ServerStep \/ MainStep \/ ClientStep \/ ReadMessagesEnds
           \/ Sigint \/ DecoderThrows \/ UNCHANGED vars
  <2>1. Decoding => Decoding'
    BY <1>7 DEF LoggerStep, LoggerPop, LoggerEnd, LoggerInsert, LoggerGoto, ServerStep,
         ServerConstruct, ServerThrows, ServerLeaveLoop, RemoveMessages, RemoveEvents,
         ServerGoto, MainStep, OpenDb, StartLogger, StartServer, OpenRf, StartCapture,
         StartDecoder, LeaveWait, JoinCapture, StopDecode, JoinDecoder, StopLog, JoinLogger,
         JoinServer, StopRf, CloseDb, MainGoto, SameThreads,
         StartOrder, BeforeDecoder, BeforeCapture, BeforeServer, BeforeLogger, ClientStep,
         ReadMessages, OpenStream, StreamEnds, ReadMessagesEnds, RequestGoto, Sigint,
         DecoderThrows, vars, Decoding
  <2>2. Decoded' = Decoded
    BY <1>7, OtherQueue
  <2> QED
    BY <1>2, <1>3, <1>4, <2>1, <2>2 DEF DecodeQueueInOrder
<1> QED
  BY <1>5, <1>6, <1>7 DEF Next

(* A batch that is stamped now is in time with every earlier one.          *)
LEMMA NowInTime ==
  ASSUME TypeOK, NEW x, x.stamp \in Nat, x.frame \in Int, UpToNow(x),
         NEW y, y.stamp = lastDecode, y.frame \in Int, \A f \in setBack : f <= y.frame
  PROVE  InTime(x, y)
BY DEF TypeOK, Frames, UpToNow, InTime

(* A clock reading leaves the earlier batches in time with each other, and *)
(* with the new time, unless it is a setting back, of which the frame that *)
(* was decoded is then a witness.                                          *)
LEMMA ReadingInTime ==
  ASSUME TypeOK, DecoderProcess, decFrame \in Int, NEW x, x.frame \in Int, x.stamp \in Nat
  PROVE  /\ x.frame < decFrame /\ UpToNow(x) =>
              ((\A f \in setBack' : f <= x.frame) => x.stamp <= lastDecode')
         /\ \A y : InTime(x, y) =>
              ((\A f \in setBack' : ~(x.frame < f /\ f <= y.frame)) => x.stamp <= y.stamp)
<1>1. /\ lastDecode \in Nat /\ lastDecode' \in Nat /\ setBack \subseteq setBack'
      /\ lastDecode' < lastDecode => decFrame \in setBack'
  BY DEF DecoderProcess, TypeOK, Times
<1> QED
  BY <1>1 DEF UpToNow, InTime

(* The batches' stamps and frames are numbers.                             *)
LEMMA BatchType ==
  ASSUME TypeOK
  PROVE  /\ lastDecode \in Nat /\ setBack \subseteq Int
         /\ Len(logQ) \in Nat /\ Len(db) \in Nat
         /\ logBatch.stamp \in Nat /\ logBatch.frame \in Int
         /\ \A i \in 1 .. Len(logQ) : logQ[i].stamp \in Nat /\ logQ[i].frame \in Int
         /\ \A k \in 1 .. Len(db) : db[k].stamp \in Nat /\ db[k].frame \in Int
<1>1. /\ lastDecode \in Nat /\ setBack \subseteq Int
      /\ logQ \in Seq(Batches) /\ db \in Seq(Batches)
      /\ logBatch.stamp \in Nat /\ logBatch.frame \in Int
  BY BoundsAssumption DEF TypeOK, Times, Frames
<1>2. /\ \A i \in 1 .. Len(logQ) : logQ[i] \in Batches
      /\ \A k \in 1 .. Len(db) : db[k] \in Batches
  BY <1>1
<1>3. \A x \in Batches : x.stamp \in Nat /\ x.frame \in Int
  BY DEF Batches, Times, Frames
<1> QED
  BY <1>1, <1>2, <1>3

(* The decoder reads the clock ...                                         *)
LEMMA StampProcess ==
  ASSUME TypeOK, StartOrder, DecodeQueueInOrder, LogQueueInOrder, StampsInOrder,
         [Next]_vars, DecoderProcess
  PROVE  StampsInOrder'
<1>a. /\ UNCHANGED <<logger, logQ, logBatch, db, heard>>
      /\ Decoding /\ decFrame \in Int /\ decFrame = Popped /\ Decoded = decFrame - 1
      /\ Popped <= Popped' /\ Popped' \in Int
  BY PoppedGrows DEF DecoderProcess, DecoderGoto, queues, others, store, Decoding
<1>b. \A f \in Tried \union InHand \union Queued : f < decFrame
  BY <1>a, DecodedType DEF LogQueueInOrder
<1>c. /\ \A i \in 1 .. Len(logQ) : logQ[i].frame < decFrame
      /\ logger = "insert" => logBatch.frame < decFrame
      /\ \A k \in 1 .. Len(db) : db[k].frame < decFrame
  BY <1>b DEF Tried, InHand, Queued
<1>1. (\A f \in setBack : f <= Popped)'
  BY <1>a, BatchType DEF StampsInOrder, DecoderProcess
<1>2. (\A i \in 1 .. Len(logQ) : UpToNow(logQ[i]))'
  <2> SUFFICES ASSUME NEW i \in 1 .. Len(logQ) PROVE UpToNow(logQ[i])'
    BY <1>a
  <2> QED
    BY <1>a, <1>c, BatchType, ReadingInTime DEF StampsInOrder, UpToNow
<1>3. (\A i, j \in 1 .. Len(logQ) : i < j => InTime(logQ[i], logQ[j]))'
  <2> SUFFICES ASSUME NEW i \in 1 .. Len(logQ), NEW j \in 1 .. Len(logQ), i < j
               PROVE  InTime(logQ[i], logQ[j])'
    BY <1>a
  <2>1. InTime(logQ[i], logQ[j])
    BY DEF StampsInOrder
  <2> QED
    BY <1>a, <2>1, BatchType, ReadingInTime DEF InTime
<1>4. (logger = "insert" => /\ UpToNow(logBatch)
                            /\ \A i \in 1 .. Len(logQ) : InTime(logBatch, logQ[i]))'
  <2> SUFFICES ASSUME logger = "insert", NEW i \in 1 .. Len(logQ) \union {0}
               PROVE  UpToNow(logBatch)' /\ (i # 0 => InTime(logBatch, logQ[i])')
    BY <1>a
  <2>1. UpToNow(logBatch) /\ (i # 0 => InTime(logBatch, logQ[i]))
    BY DEF StampsInOrder
  <2> QED
    BY <1>a, <1>c, <2>1, BatchType, ReadingInTime DEF UpToNow, InTime
<1>5. (\A k \in 1 .. Len(db) :
         /\ UpToNow(db[k])
         /\ logger = "insert" => InTime(db[k], logBatch)
         /\ \A i \in 1 .. Len(logQ) : InTime(db[k], logQ[i]))'
  <2> SUFFICES ASSUME NEW k \in 1 .. Len(db)
               PROVE  /\ UpToNow(db[k])'
                      /\ logger = "insert" => InTime(db[k], logBatch)'
                      /\ \A i \in 1 .. Len(logQ) : InTime(db[k], logQ[i])'
    BY <1>a
  <2>1. UpToNow(db[k])'
    BY <1>a, <1>c, BatchType, ReadingInTime DEF StampsInOrder, UpToNow
  <2>2. ASSUME logger = "insert" PROVE InTime(db[k], logBatch)'
    <3>1. InTime(db[k], logBatch)
      BY <2>2 DEF StampsInOrder
    <3> QED
      BY <1>a, <3>1, BatchType, ReadingInTime DEF InTime
  <2>3. ASSUME NEW i \in 1 .. Len(logQ) PROVE InTime(db[k], logQ[i])'
    <3>1. InTime(db[k], logQ[i])
      BY DEF StampsInOrder
    <3> QED
      BY <1>a, <3>1, BatchType, ReadingInTime DEF InTime
  <2> QED
    BY <2>1, <2>2, <2>3
<1> QED
  BY <1>1, <1>2, <1>3, <1>4, <1>5 DEF StampsInOrder

(* ... and stamps a batch with it when the batch is queued.                *)
LEMMA StampPush ==
  ASSUME TypeOK, StartOrder, DecodeQueueInOrder, LogQueueInOrder, StampsInOrder,
         [Next]_vars, DecoderPush, heard[decFrame] # << >>
  PROVE  StampsInOrder'
<1> DEFINE new == [frame |-> decFrame, stamp |-> lastDecode]
<1>a. /\ UNCHANGED <<logger, logBatch, db, lastDecode, setBack>>
      /\ logQ' = Append(logQ, new) /\ logQ \in Seq(Batches)
      /\ Decoding /\ decFrame \in Int /\ decFrame = Popped
      /\ Popped <= Popped' /\ Popped' \in Int
  BY PoppedGrows DEF DecoderPush, DecoderGoto, decodeTime, others, store, Decoding, TypeOK
<1>b. /\ Len(logQ') = Len(logQ) + 1 /\ Len(logQ) \in Nat
      /\ \A i \in 1 .. Len(logQ) : logQ'[i] = logQ[i]
      /\ logQ'[Len(logQ) + 1] = new
  BY <1>a
<1>c. new.stamp = lastDecode /\ new.frame \in Int /\ \A f \in setBack : f <= new.frame
  BY <1>a DEF StampsInOrder
<1> HIDE DEF new
<1>d. UpToNow(new)
  BY <1>c, BatchType DEF UpToNow
<1>e. /\ \A i \in 1 .. Len(logQ) : InTime(logQ[i], new)
      /\ logger = "insert" => InTime(logBatch, new)
      /\ \A k \in 1 .. Len(db) : InTime(db[k], new)
  BY <1>c, BatchType, NowInTime DEF StampsInOrder
<1>f. \A i \in 1 .. Len(logQ') :
        \/ i \in 1 .. Len(logQ) /\ logQ'[i] = logQ[i]
        \/ i = Len(logQ) + 1 /\ logQ'[i] = new
  BY <1>b
<1>1. (\A f \in setBack : f <= Popped)'
  BY <1>a, BatchType DEF StampsInOrder
<1>2. (\A i \in 1 .. Len(logQ) : UpToNow(logQ[i]))'
  <2> SUFFICES ASSUME NEW i \in 1 .. Len(logQ') PROVE UpToNow(logQ[i])'
    OBVIOUS
  <2> QED
    BY <1>a, <1>d, <1>f DEF StampsInOrder, UpToNow
<1>3. (\A i, j \in 1 .. Len(logQ) : i < j => InTime(logQ[i], logQ[j]))'
  <2> SUFFICES ASSUME NEW i \in 1 .. Len(logQ'), NEW j \in 1 .. Len(logQ'), i < j
               PROVE  InTime(logQ[i], logQ[j])'
    OBVIOUS
  <2>1. i \in 1 .. Len(logQ) /\ logQ'[i] = logQ[i]
    BY <1>b
  <2>2. InTime(logQ[i], logQ'[j])
    BY <1>e, <1>f, <2>1 DEF StampsInOrder
  <2> QED
    BY <1>a, <2>1, <2>2 DEF InTime
<1>4. (logger = "insert" => /\ UpToNow(logBatch)
                            /\ \A i \in 1 .. Len(logQ) : InTime(logBatch, logQ[i]))'
  <2>1. ASSUME logger = "insert"
        PROVE  UpToNow(logBatch)'
    BY <1>a, <2>1 DEF StampsInOrder, UpToNow
  <2>2. ASSUME logger = "insert", NEW i \in 1 .. Len(logQ')
        PROVE  InTime(logBatch, logQ[i])'
    <3>1. InTime(logBatch, logQ'[i])
      BY <1>e, <1>f, <2>2 DEF StampsInOrder
    <3> QED
      BY <1>a, <3>1 DEF InTime
  <2> QED
    BY <1>a, <2>1, <2>2
<1>5. (\A k \in 1 .. Len(db) :
         /\ UpToNow(db[k])
         /\ logger = "insert" => InTime(db[k], logBatch)
         /\ \A i \in 1 .. Len(logQ) : InTime(db[k], logQ[i]))'
  <2> SUFFICES ASSUME NEW k \in 1 .. Len(db)
               PROVE  /\ UpToNow(db[k])'
                      /\ logger = "insert" => InTime(db[k], logBatch)'
                      /\ \A i \in 1 .. Len(logQ') : InTime(db[k], logQ[i])'
    BY <1>a
  <2>1. UpToNow(db[k])'
    BY <1>a DEF StampsInOrder, UpToNow
  <2>2. ASSUME logger = "insert" PROVE InTime(db[k], logBatch)'
    BY <1>a, <2>2 DEF StampsInOrder, InTime
  <2>3. ASSUME NEW i \in 1 .. Len(logQ') PROVE InTime(db[k], logQ[i])'
    <3>1. InTime(db[k], logQ'[i])
      BY <1>e, <1>f DEF StampsInOrder
    <3> QED
      BY <1>a, <3>1 DEF InTime
  <2> QED
    BY <2>1, <2>2, <2>3
<1> QED
  BY <1>1, <1>2, <1>3, <1>4, <1>5 DEF StampsInOrder

(* The logger passes the batches on in their order.                        *)
LEMMA StampLogger ==
  ASSUME TypeOK, StartOrder, DecodeQueueInOrder, LogQueueInOrder, StampsInOrder,
         [Next]_vars, LoggerStep
  PROVE  StampsInOrder'
<1>a. UNCHANGED <<lastDecode, setBack>> /\ logQ \in Seq(Batches) /\ db \in Seq(Batches)
  BY DEF LoggerStep, LoggerPop, LoggerEnd, LoggerInsert, LoggerGoto, status, decodeTime,
         TypeOK
<1>1. (\A f \in setBack : f <= Popped)'
  BY <1>a, PoppedGrows, BatchType DEF StampsInOrder
<1>2. CASE LoggerPop
  <2>1. /\ logger = "pop" /\ logger' = "insert" /\ logQ # << >>
        /\ logBatch' = Head(logQ) /\ logQ' = Tail(logQ) /\ db' = db
    BY <1>2 DEF LoggerPop, LoggerGoto
  <2>2. /\ Len(logQ') = Len(logQ) - 1 /\ Len(logQ) > 0 /\ Len(logQ) \in Nat
        /\ \A i \in 1 .. Len(logQ') : logQ'[i] = logQ[i + 1]
        /\ logBatch' = logQ[1]
    BY <1>a, <2>1
  <2>3. /\ \A i \in 1 .. Len(logQ') : i + 1 \in 1 .. Len(logQ) /\ 1 < i + 1
        /\ 1 \in 1 .. Len(logQ)
    BY <2>2
  <2>4. (\A i \in 1 .. Len(logQ) : UpToNow(logQ[i]))' /\ UpToNow(logBatch)'
    BY <1>a, <2>2, <2>3 DEF StampsInOrder, UpToNow
  <2>5. (\A i, j \in 1 .. Len(logQ) : i < j => InTime(logQ[i], logQ[j]))'
    <3> SUFFICES ASSUME NEW i \in 1 .. Len(logQ'), NEW j \in 1 .. Len(logQ'), i < j
                 PROVE  InTime(logQ[i], logQ[j])'
      OBVIOUS
    <3>1. i + 1 < j + 1
      OBVIOUS
    <3>2. InTime(logQ[i + 1], logQ[j + 1])
      BY <2>3, <3>1 DEF StampsInOrder
    <3> QED
      BY <1>a, <2>2, <3>2 DEF InTime
  <2>6. (\A i \in 1 .. Len(logQ) : InTime(logBatch, logQ[i]))'
    <3> SUFFICES ASSUME NEW i \in 1 .. Len(logQ') PROVE InTime(logBatch, logQ[i])'
      OBVIOUS
    <3>1. InTime(logQ[1], logQ[i + 1])
      BY <2>3 DEF StampsInOrder
    <3> QED
      BY <1>a, <2>2, <3>1 DEF InTime
  <2>7. (\A k \in 1 .. Len(db) :
           /\ UpToNow(db[k])
           /\ logger = "insert" => InTime(db[k], logBatch)
           /\ \A i \in 1 .. Len(logQ) : InTime(db[k], logQ[i]))'
    <3> SUFFICES ASSUME NEW k \in 1 .. Len(db)
                 PROVE  /\ UpToNow(db[k])' /\ InTime(db[k], logBatch)'
                        /\ \A i \in 1 .. Len(logQ') : InTime(db[k], logQ[i])'
      BY <2>1
    <3>1. UpToNow(db[k])'
      BY <1>a, <2>1 DEF StampsInOrder, UpToNow
    <3>2. InTime(db[k], logBatch)'
      BY <1>a, <2>1, <2>2, <2>3 DEF StampsInOrder, InTime
    <3>3. ASSUME NEW i \in 1 .. Len(logQ') PROVE InTime(db[k], logQ[i])'
      <4>1. InTime(db[k], logQ[i + 1])
        BY <2>3 DEF StampsInOrder
      <4> QED
        BY <1>a, <2>1, <2>2, <4>1 DEF InTime
    <3> QED
      BY <3>1, <3>2, <3>3
  <2> QED
    BY <1>1, <2>4, <2>5, <2>6, <2>7 DEF StampsInOrder
<1>3. CASE LoggerEnd \/ (LoggerInsert /\ db' = db)
  <2>1. UNCHANGED <<logQ, logBatch, db>> /\ logger' # "insert"
    BY <1>3 DEF LoggerEnd, LoggerInsert, LoggerGoto
  <2> QED
    BY <1>a, <1>1, <2>1 DEF StampsInOrder, UpToNow, InTime
<1>4. CASE LoggerInsert /\ db' = Append(db, logBatch)
  <2>1. logger = "insert" /\ logger' = "pop" /\ UNCHANGED <<logQ, logBatch>>
    BY <1>4 DEF LoggerInsert, LoggerGoto
  <2>2. /\ Len(db') = Len(db) + 1 /\ Len(db) \in Nat
        /\ \A k \in 1 .. Len(db) : db'[k] = db[k]
        /\ db'[Len(db) + 1] = logBatch
    BY <1>a, <1>4
  <2>3. \A k \in 1 .. Len(db') :
          (k \in 1 .. Len(db) /\ db'[k] = db[k]) \/ db'[k] = logBatch
    BY <2>2
  <2>4. ASSUME NEW k \in 1 .. Len(db')
        PROVE  UpToNow(db[k])' /\ \A i \in 1 .. Len(logQ) : InTime(db[k], logQ[i])'
    <3>1. UpToNow(db'[k]) /\ \A i \in 1 .. Len(logQ) : InTime(db'[k], logQ[i])
      BY <2>1, <2>3 DEF StampsInOrder
    <3> QED
      BY <1>a, <2>1, <3>1 DEF UpToNow, InTime
  <2>5. (\A i \in 1 .. Len(logQ) : UpToNow(logQ[i]))'
    BY <1>a, <2>1 DEF StampsInOrder, UpToNow
  <2>6. (\A i, j \in 1 .. Len(logQ) : i < j => InTime(logQ[i], logQ[j]))'
    BY <1>a, <2>1 DEF StampsInOrder, InTime
  <2> QED
    BY <1>1, <2>1, <2>4, <2>5, <2>6 DEF StampsInOrder
<1> QED
  BY <1>2, <1>3, <1>4 DEF LoggerStep, LoggerInsert

(* Nobody else touches the batches or the decoder's time.                  *)
LEMMA StampOther ==
  ASSUME TypeOK, StartOrder, DecodeQueueInOrder, LogQueueInOrder, StampsInOrder,
         [Next]_vars, UNCHANGED <<lastDecode, setBack, logQ, logBatch, db>>,
         logger' = "insert" => logger = "insert"
  PROVE  StampsInOrder'
<1>1. (\A f \in setBack : f <= Popped)'
  BY PoppedGrows, BatchType DEF StampsInOrder
<1> QED
  BY <1>1 DEF StampsInOrder, UpToNow, InTime

(* Every step keeps the stamps in order.                                   *)
LEMMA StampStep ==
  ASSUME TypeOK, StartOrder, DecodeQueueInOrder, LogQueueInOrder, StampsInOrder,
         [Next]_vars
  PROVE  StampsInOrder'
<1>1. CASE CaptureStep
  <2>1. UNCHANGED <<logger, logQ, logBatch, db, lastDecode, setBack>>
    BY <1>1 DEF CaptureStep, CaptureCheck, CaptureSnapshot, CaptureStamp, CapturePush,
                CaptureWake, CaptureGoto, queues, hands, store, status, decodeTime
  <2> QED
    BY <2>1, StampOther
<1>2. CASE DecoderStep
  <2>1. \/ DecoderProcess \/ (DecoderPush /\ heard[decFrame] # << >>)
        \/ UNCHANGED <<logger, logQ, logBatch, db, lastDecode, setBack>>
    BY <1>2 DEF DecoderStep, DecoderPop, DecoderEnd, DecoderCount, DecoderPush,
                DecoderGoto, queues, others, store, decodeTime
  <2> QED
    BY <2>1, StampProcess, StampPush, StampOther
<1>3. CASE LoggerStep
  BY <1>3, StampLogger
<1>4. CASE MainStep
  <2>1. /\ UNCHANGED <<lastDecode, setBack, logQ, logBatch, db>>
        /\ logger' = logger \/ logger' = "pop"
    BY <1>4 DEF MainStep, OpenDb, StartLogger, StartServer, OpenRf, StartCapture,
         StartDecoder, LeaveWait, JoinCapture, StopDecode, JoinDecoder, StopLog, JoinLogger,
         JoinServer, StopRf, CloseDb, MainGoto, SameThreads, others, status, decodeTime,
         hands
  <2> QED
    BY <2>1, StampOther
<1>5. CASE \/ ServerStep \/ ClientStep \/ ReadMessagesEnds \/ Sigint
           \/ DecoderThrows \/ UNCHANGED vars
  <2>1. UNCHANGED <<lastDecode, setBack, logQ, logBatch, db, logger>>
    BY <1>5 DEF ServerStep, ServerConstruct, ServerThrows, ServerLeaveLoop,
              RemoveMessages, RemoveEvents, ServerGoto, ClientStep, ReadMessages,
              OpenStream, StreamEnds, ReadMessagesEnds, RequestGoto, Sigint,
              DecoderThrows, vars, others, queues, hands, status, decodeTime, store
  <2> QED
    BY <2>1, StampOther
<1> QED
  BY <1>1, <1>2, <1>3, <1>4, <1>5 DEF Next

(* The batch in the logger's hands is later than all that are in the log,  *)
(* by its frame and, as far as the clock ran on, by its stamp.             *)
LEMMA LogStep ==
  ASSUME TypeOK, LogQueueInOrder, StampsInOrder, LogInTimeOrder, [Next]_vars
  PROVE  LogInTimeOrder'
<1>a. db \in Seq(Batches) /\ Len(db) \in Nat
  BY DEF TypeOK
<1>1. CASE LoggerInsert /\ db' = Append(db, logBatch)
  <2>1. /\ Len(db') = Len(db) + 1
        /\ \A i \in 1 .. Len(db) : db'[i] = db[i]
        /\ db'[Len(db) + 1] = logBatch
    BY <1>a, <1>1
  <2>2. logger = "insert" /\ setBack' = setBack
    BY <1>1 DEF LoggerInsert, LoggerGoto, status, decodeTime
  <2>3. ASSUME NEW i \in 1 .. Len(db'), NEW j \in 1 .. Len(db'), i < j
        PROVE  db'[i].frame < db'[j].frame /\ InTime(db'[i], db'[j])
    <3>1. i \in 1 .. Len(db) /\ db'[i] = db[i]
      BY <1>a, <2>1, <2>3
    <3>2. CASE j \in 1 .. Len(db)
      BY <2>1, <2>3, <3>1, <3>2 DEF LogInTimeOrder
    <3>3. CASE j = Len(db) + 1
      <4>1. db[i].frame < logBatch.frame
        BY <2>2, <3>1 DEF LogQueueInOrder, Tried, InHand
      <4>2. InTime(db[i], logBatch)
        BY <2>2, <3>1 DEF StampsInOrder
      <4> QED
        BY <2>1, <3>1, <3>3, <4>1, <4>2
    <3> QED
      BY <1>a, <2>1, <3>2, <3>3
  <2> QED
    BY <2>2, <2>3 DEF LogInTimeOrder, InTime
<1>2. CASE UNCHANGED <<db, setBack>>
  BY <1>2 DEF LogInTimeOrder, InTime
<1>3. CASE DecoderProcess
  <2>1. db' = db /\ setBack \subseteq setBack'
    BY <1>3 DEF DecoderProcess, DecoderGoto, store
  <2> QED
    BY <2>1 DEF LogInTimeOrder, InTime
<1>4. \/ UNCHANGED <<db, setBack>> \/ DecoderProcess
      \/ LoggerInsert /\ db' = Append(db, logBatch)
  BY DEF Next, CaptureStep, CaptureCheck, CaptureSnapshot, CaptureStamp, CapturePush,
         CaptureWake, CaptureGoto, DecoderStep, DecoderPop, DecoderEnd, DecoderCount,
         DecoderPush, DecoderGoto, LoggerStep, LoggerPop, LoggerEnd, LoggerInsert,
         LoggerGoto, ServerStep, ServerConstruct, ServerThrows, ServerLeaveLoop,
         RemoveMessages, RemoveEvents, ServerGoto, MainStep, OpenDb,
         StartLogger, StartServer, OpenRf, StartCapture, StartDecoder, LeaveWait,
         JoinCapture, StopDecode, JoinDecoder, StopLog, JoinLogger, JoinServer, StopRf,
         CloseDb, MainGoto, ClientStep, ReadMessages, OpenStream, StreamEnds, ReadMessagesEnds, RequestGoto, Sigint, DecoderThrows, vars, store,
         status, decodeTime
<1> QED
  BY <1>1, <1>2, <1>3, <1>4

-----------------------------------------------------------------------------
(* The theorems.                                                           *)

(* The inductive invariant holds at the start ...                          *)
LEMMA InitInd == Init => IndInv
<1> SUFFICES ASSUME Init PROVE IndInv
  OBVIOUS
<1> USE BoundsAssumption DEF Init
<1>1. TypeOK
  <2>1. << >> \in Seq(Results) /\ << >> \in Seq(Frames) /\ << >> \in Seq(Batches)
    OBVIOUS
  <2>2. logBatch \in [frame : 0 .. MaxFrames, stamp : Times]
    BY DEF Times
  <2>3. /\ main \in MainLocs /\ capture \in CaptureLocs /\ decoder \in DecoderLocs
        /\ logger \in LoggerLocs /\ server \in ServerLocs
    BY DEF MainLocs, CaptureLocs, DecoderLocs, LoggerLocs, ServerLocs
  <2>4. /\ 0 \in 0 .. MaxFrames /\ 0 \in Times /\ 0 \in 0 .. MaxStreams /\ 0 \in Nat
        /\ Len(heard) <= MaxFrames
    BY DEF Times
  <2> QED
    BY <2>1, <2>2, <2>3, <2>4 DEF TypeOK
<1>2. StartOrder /\ ShutdownOrder
  BY DEF StartOrder, ShutdownOrder, AfterJoinServer, AfterJoinLogger, AfterStopLog,
         AfterJoinDecoder, AfterStopDecode, AfterJoinCapture
<1>3. DecodeQueueInOrder /\ Decoded = 0
  BY DEF DecodeQueueInOrder, Decoded, Decoding, Popped, Pushed
<1>4. LogQueueInOrder
  BY <1>3 DEF LogQueueInOrder, Tried, InHand, Queued
<1>5. StampsInOrder /\ LogInTimeOrder
  BY DEF StampsInOrder, LogInTimeOrder
<1> QED
  BY <1>1, <1>2, <1>3, <1>4, <1>5 DEF IndInv

(* ... and every step preserves it.                                        *)
LEMMA NextInd == IndInv /\ [Next]_vars => IndInv'
<1> SUFFICES ASSUME IndInv, [Next]_vars PROVE IndInv'
  OBVIOUS
<1>a. /\ TypeOK /\ StartOrder /\ ShutdownOrder /\ DecodeQueueInOrder /\ LogQueueInOrder
      /\ StampsInOrder /\ LogInTimeOrder
  BY DEF IndInv
<1>b. \/ CaptureStep \/ DecoderStep \/ LoggerStep \/ ServerStep \/ MainStep
      \/ ClientStep \/ ReadMessagesEnds \/ Sigint \/ DecoderThrows \/ UNCHANGED vars
  BY DEF Next
<1>1. TypeOK' /\ StartOrder' /\ ShutdownOrder'
  BY <1>a, TypeStep, StartStep, ShutdownStep
<1>2. DecodeQueueInOrder'
  BY <1>a, <1>b, CaptureQueue, DecoderQueue, OtherQueue
<1>3. LogQueueInOrder'
  BY <1>a, <1>b, CaptureLog, DecoderLog, LoggerLog, OtherLog
<1>4. StampsInOrder' /\ LogInTimeOrder'
  BY <1>a, StampStep, LogStep
<1> QED
  BY <1>1, <1>2, <1>3, <1>4 DEF IndInv

(* IndInv is an invariant of the application.                              *)
THEOREM Inductive == Spec => []IndInv
BY InitInd, NextInd, PTL DEF Spec

(* Type correctness.                                                       *)
THEOREM TypeCorrect == Spec => []TypeOK
<1>1. IndInv => TypeOK
  BY DEF IndInv
<1> QED
  BY <1>1, Inductive, PTL

(* The database is never used before open() or after close().              *)
THEOREM DatabaseOpen == Spec => []DbOpenWhileUsed
<1>1. IndInv => DbOpenWhileUsed
  BY DEF IndInv, TypeOK, MainLocs, DbOpenWhileUsed, StartOrder, ShutdownOrder,
         BeforeLogger, BeforeServer, AfterJoinServer, AfterJoinLogger
<1> QED
  BY <1>1, Inductive, PTL

(* The log is ordered by frame, and by time where the clock was not set    *)
(* back in between.                                                        *)
THEOREM LogOrdered == Spec => []LogInTimeOrder
<1>1. IndInv => LogInTimeOrder
  BY DEF IndInv
<1> QED
  BY <1>1, Inductive, PTL

(* Nothing is pushed into a stopped queue: its producers were joined       *)
(* before.                                                                 *)
THEOREM StoppedQueues == Spec => NoPushAfterStop
<1>1. ASSUME IndInv, [Next]_vars
      PROVE  /\ decodeStopped => Len(decodeQ') <= Len(decodeQ)
             /\ logStopped => Len(logQ') <= Len(logQ)
  <2>a. /\ decodeStopped => capture = "done"
        /\ logStopped => decoder = "done"
    BY <1>1 DEF IndInv, ShutdownOrder, AfterJoinServer, AfterJoinLogger, AfterStopLog,
                AfterJoinDecoder, AfterStopDecode, AfterJoinCapture
  <2>b. decodeQ \in Seq(Frames) /\ logQ \in Seq(Batches)
    BY <1>1 DEF IndInv, TypeOK
  <2>1. CASE UNCHANGED <<decodeQ, logQ>>
    BY <2>1, <2>b
  <2>2. CASE CapturePush
    BY <2>2, <2>a, <2>b DEF CapturePush, CaptureGoto
  <2>3. CASE DecoderPop
    BY <2>3, <2>b DEF DecoderPop
  <2>4. CASE DecoderPush
    BY <2>4, <2>a, <2>b DEF DecoderPush, DecoderGoto
  <2>5. CASE LoggerPop
    BY <2>5, <2>b DEF LoggerPop, LoggerGoto
  <2>6. UNCHANGED <<decodeQ, logQ>> \/ CapturePush \/ DecoderPop \/ DecoderPush \/ LoggerPop
    BY <1>1 DEF Next, CaptureStep, CaptureCheck, CaptureSnapshot, CaptureStamp,
         CaptureWake, DecoderStep, DecoderEnd, DecoderProcess, DecoderCount, LoggerStep,
         LoggerEnd, LoggerInsert, LoggerGoto, ServerStep, ServerConstruct, ServerThrows,
         ServerLeaveLoop, RemoveMessages, RemoveEvents, ServerGoto, MainStep, OpenDb,
         StartLogger, StartServer, OpenRf, StartCapture, StartDecoder, LeaveWait,
         JoinCapture, StopDecode, JoinDecoder, StopLog, JoinLogger, JoinServer, StopRf,
         CloseDb, MainGoto, ClientStep, ReadMessages, OpenStream, StreamEnds,
         ReadMessagesEnds, RequestGoto, Sigint, DecoderThrows, vars, queues
  <2> QED
    BY <2>1, <2>2, <2>3, <2>4, <2>5, <2>6
<1>2. IndInv /\ [Next]_vars =>
        [ /\ decodeStopped => Len(decodeQ') <= Len(decodeQ)
          /\ logStopped => Len(logQ') <= Len(logQ) ]_vars
  BY <1>1
<1> QED
  BY <1>2, Inductive, PTL DEF Spec, NoPushAfterStop

(* The decode queue holds what was pushed and not popped; the six places   *)
(* share out the captured frames by their numbers, and the first three of  *)
(* them follow one another (LogQueueInOrder).                              *)
LEMMA PlacesApart ==
  ASSUME TypeOK, DecodeQueueInOrder, LogQueueInOrder, NEW f \in 1 .. Len(heard)
  PROVE  /\ heard[f] # << >> =>
              (f \in Tried \union InHand \union Queued <=> f <= Decoded)
         /\ f \in WithDecoder <=> Decoded < f /\ f <= Popped
         /\ f \in ToDecode <=> Popped < f /\ f <= Pushed
         /\ f \in WithCapture <=> Pushed < f
         /\ Decoded \in Nat /\ Popped \in Nat /\ Pushed \in Nat
         /\ Decoded <= Popped /\ Popped <= Pushed
         /\ ~(f \in Tried /\ f \in InHand) /\ ~(f \in Tried /\ f \in Queued)
         /\ ~(f \in InHand /\ f \in Queued)
<1>1. Len(heard) \in Nat /\ Len(decodeQ) \in Nat /\ f \in Nat
  BY DEF TypeOK
<1>2. /\ Decoded \in Nat /\ Popped \in Nat /\ Pushed \in Nat
      /\ Decoded <= Popped /\ Popped <= Pushed
  BY <1>1 DEF DecodeQueueInOrder, Decoded, Popped, Pushed
<1>3. heard[f] # << >> =>
        (f \in Tried \union InHand \union Queued <=> f <= Decoded)
  BY <1>1, <1>2 DEF LogQueueInOrder
<1>4. f \in WithDecoder <=> Decoded < f /\ f <= Popped
  BY <1>1, <1>2 DEF DecodeQueueInOrder, WithDecoder, Decoded
<1>5. f \in ToDecode <=> Popped < f /\ f <= Pushed
  <2>1. \A i \in 1 .. Len(decodeQ) : decodeQ[i] = Popped + i
    BY DEF DecodeQueueInOrder
  <2>2. Pushed = Popped + Len(decodeQ)
    BY <1>1, <1>2 DEF Popped
  <2>3. CASE Popped < f /\ f <= Pushed
    <3>1. f - Popped \in 1 .. Len(decodeQ) /\ f = Popped + (f - Popped)
      BY <1>1, <1>2, <2>2, <2>3
    <3> QED
      BY <2>1, <2>3, <3>1 DEF ToDecode
  <2>4. ASSUME f \in ToDecode PROVE Popped < f /\ f <= Pushed
    <3>1. PICK i \in 1 .. Len(decodeQ) : f = decodeQ[i]
      BY <2>4 DEF ToDecode
    <3> QED
      BY <1>1, <1>2, <2>1, <2>2, <3>1
  <2> QED
    BY <2>3, <2>4
<1>6. f \in WithCapture <=> Pushed < f
  BY <1>1 DEF WithCapture, Pushed
<1>7. /\ ~(f \in Tried /\ f \in InHand) /\ ~(f \in Tried /\ f \in Queued)
      /\ ~(f \in InHand /\ f \in Queued)
  <2>1. ~(f < f)
    BY <1>1
  <2> QED
    BY <2>1 DEF LogQueueInOrder
<1> QED
  BY <1>2, <1>3, <1>4, <1>5, <1>6, <1>7

(* Between two threads no frame with messages gets lost and none is handed *)
(* on twice: it is in one place, and in one only, at every moment of every *)
(* start and shutdown.                                                     *)
THEOREM FrameInOnePlace == Spec => []InOnePlace
<1>1. IndInv => InOnePlace
  <2> SUFFICES ASSUME IndInv, NEW f \in 1 .. Len(heard), heard[f] # << >>
               PROVE  \E k \in 1 .. 6 : \A j \in 1 .. 6 : f \in Places[j] <=> j = k
    BY DEF InOnePlace
  <2>1. /\ Places[1] = Tried /\ Places[2] = InHand /\ Places[3] = Queued
        /\ Places[4] = WithDecoder /\ Places[5] = ToDecode /\ Places[6] = WithCapture
    BY DEF Places
  <2>2. /\ (f \in Tried \/ f \in InHand \/ f \in Queued) <=> f <= Decoded
        /\ f \in WithDecoder <=> Decoded < f /\ f <= Popped
        /\ f \in ToDecode <=> Popped < f /\ f <= Pushed
        /\ f \in WithCapture <=> Pushed < f
        /\ Decoded \in Nat /\ Popped \in Nat /\ Pushed \in Nat /\ f \in Nat
        /\ Decoded <= Popped /\ Popped <= Pushed
        /\ ~(f \in Tried /\ f \in InHand) /\ ~(f \in Tried /\ f \in Queued)
        /\ ~(f \in InHand /\ f \in Queued)
    BY PlacesApart DEF IndInv
  <2>3. \A j \in 1 .. 6 : j = 1 \/ j = 2 \/ j = 3 \/ j = 4 \/ j = 5 \/ j = 6
    OBVIOUS
  <2>4. CASE f <= Decoded
    <3>1. ~(f \in WithDecoder) /\ ~(f \in ToDecode) /\ ~(f \in WithCapture)
      BY <2>2, <2>4
    <3>2. CASE f \in Tried
      BY <2>1, <2>2, <2>3, <3>1, <3>2
    <3>3. CASE f \in InHand
      BY <2>1, <2>2, <2>3, <3>1, <3>3
    <3>4. CASE f \in Queued
      BY <2>1, <2>2, <2>3, <3>1, <3>4
    <3> QED
      BY <2>2, <2>4, <3>2, <3>3, <3>4
  <2>5. CASE Decoded < f /\ f <= Popped
    <3>1. ~(f <= Decoded) /\ ~(Popped < f) /\ ~(Pushed < f)
      BY <2>2, <2>5
    <3> QED
      BY <2>1, <2>2, <2>3, <2>5, <3>1
  <2>6. CASE Popped < f /\ f <= Pushed
    <3>1. ~(f <= Decoded) /\ ~(f <= Popped) /\ ~(Pushed < f)
      BY <2>2, <2>6
    <3> QED
      BY <2>1, <2>2, <2>3, <2>6, <3>1
  <2>7. CASE Pushed < f
    <3>1. ~(f <= Decoded) /\ ~(f <= Popped) /\ ~(f <= Pushed)
      BY <2>2, <2>7
    <3> QED
      BY <2>1, <2>2, <2>3, <2>7, <3>1
  <2> QED
    BY <2>2, <2>4, <2>5, <2>6, <2>7
<1> QED
  BY <1>1, Inductive, PTL

-----------------------------------------------------------------------------
(* Refinement of DecodeLog.                                                *)

(* The settled frames of the abstract log are those that were tried.       *)
LEMMA SettledIsTried ==
  ASSUME TypeOK
  PROVE  Promise!Settled = Tried
<1>1. Len(db) \in Nat
  BY DEF TypeOK
<1>2. Len(LoggedFrames) = Len(db)
  BY <1>1 DEF LoggedFrames
<1> QED
  BY <1>1, <1>2 DEF Promise!Settled, Tried, LoggedFrames

(* What the logger is about to insert is the oldest frame not yet settled. *)
LEMMA HandIsOldest ==
  ASSUME IndInv, logger = "insert"
  PROVE  Promise!Oldest(logBatch.frame) /\ logBatch.frame \in 1 .. Len(heard)
<1>a. /\ TypeOK /\ LogQueueInOrder
      /\ Decoded \in Nat /\ Decoded <= Len(heard) /\ Len(heard) \in Nat
  BY DecodedType DEF IndInv, TypeOK
<1>b. InHand = {logBatch.frame}
  BY DEF InHand
<1>1. /\ logBatch.frame \in 1 .. Decoded /\ heard[logBatch.frame] # << >>
  BY <1>a, <1>b DEF LogQueueInOrder
<1>2. ASSUME logBatch.frame \in Tried
      PROVE  FALSE
  <2>1. logBatch.frame < logBatch.frame
    BY <1>a, <1>b, <1>2 DEF LogQueueInOrder
  <2> QED
    BY <1>1, <2>1
<1>3. ASSUME NEW g \in 1 .. Len(heard), heard[g] # << >>, g < logBatch.frame
      PROVE  g \in Tried
  <2>1. g \in 1 .. Decoded
    BY <1>a, <1>1, <1>3
  <2>2. g \in Tried \union InHand \union Queued
    BY <1>a, <1>3, <2>1 DEF LogQueueInOrder
  <2>3. g \notin InHand \union Queued
    BY <1>a, <1>b, <1>1, <1>3 DEF LogQueueInOrder
  <2> QED
    BY <2>2, <2>3
<1> QED
  BY <1>a, <1>1, <1>2, <1>3, SettledIsTried DEF Promise!Oldest, Promise!Loud

(* When main closes the database nothing is left over.                     *)
LEMMA NothingLeft ==
  ASSUME IndInv, main = "closeDb"
  PROVE  Promise!Loud \subseteq Promise!Settled
<1>a. TypeOK /\ LogQueueInOrder /\ DecodeQueueInOrder
  BY DEF IndInv
<1>1. capture = "done" /\ decoder = "done" /\ logger = "done" /\ decodeQ = << >> /\ logQ = << >>
  BY DEF IndInv, ShutdownOrder, AfterJoinServer, AfterJoinLogger, AfterStopLog,
         AfterJoinDecoder, AfterStopDecode, AfterJoinCapture
<1>2. Decoded = Len(heard)
  BY <1>a, <1>1 DEF TypeOK, Decoded, Decoding, Popped, Pushed
<1>3. InHand = {} /\ Queued = {}
  BY <1>1 DEF InHand, Queued
<1> QED
  BY <1>a, <1>2, <1>3, SettledIsTried DEF LogQueueInOrder, Promise!Loud

(* Every step of the application is a step of the abstract log or none.    *)
LEMMA StepRefines ==
  ASSUME IndInv, [Next]_vars
  PROVE  [Promise!Next]_(Promise!logVars)
<1>a. TypeOK /\ db \in Seq(Batches) /\ Len(db) \in Nat
  BY DEF IndInv, TypeOK
<1>b. CASE UNCHANGED vars
  BY <1>b DEF vars, others, store, Promise!logVars, LoggedFrames, Phase
<1>c. ASSUME Next PROVE Phase = "running"
  BY <1>c DEF Next, Alive, Phase
<1>1. ASSUME Next, CaptureSnapshot
      PROVE  Promise!Capture
  <2>1. UNCHANGED <<db, refused, Phase>>
    BY <1>1 DEF CaptureSnapshot, CaptureGoto, store, Phase
  <2> QED
    BY <1>1, <1>c, <2>1 DEF CaptureSnapshot, Promise!Capture, LoggedFrames
<1>2. ASSUME Next, LoggerInsert
      PROVE  Promise!Log \/ Promise!Refuse
  <2>1. UNCHANGED <<heard, Phase>> /\ logger = "insert"
    BY <1>2 DEF LoggerInsert, LoggerGoto, others, Phase
  <2>2. Promise!Oldest(logBatch.frame) /\ logBatch.frame \in 1 .. Len(heard)
    BY <2>1, HandIsOldest
  <2>3. CASE db' = Append(db, logBatch) /\ UNCHANGED refused
    <3>1. /\ Len(db') = Len(db) + 1
          /\ \A i \in 1 .. Len(db) : db'[i] = db[i]
          /\ db'[Len(db) + 1] = logBatch
      BY <1>a, <2>3
    <3>2. LoggedFrames' = Append(LoggedFrames, logBatch.frame)
      BY <1>a, <3>1 DEF LoggedFrames
    <3> QED
      BY <1>c, <1>2, <2>1, <2>2, <2>3, <3>2 DEF Promise!Log
  <2>4. CASE refused' = refused \union {logBatch.frame} /\ UNCHANGED db
    BY <1>c, <1>2, <2>1, <2>2, <2>4 DEF Promise!Refuse, LoggedFrames
  <2> QED
    BY <1>2, <2>3, <2>4 DEF LoggerInsert
<1>3. ASSUME Next, CloseDb
      PROVE  Promise!Finish
  <2>1. /\ UNCHANGED <<heard, db, refused, crashed>>
        /\ main = "closeDb" /\ main' = "exited"
    BY <1>3 DEF CloseDb, MainGoto, others
  <2>2. Phase' = "finished"
    BY <1>3, <2>1 DEF Next, Alive, Phase
  <2> QED
    BY <1>c, <1>3, <2>1, <2>2, NothingLeft DEF Promise!Finish, LoggedFrames
<1>4. ASSUME Next, ServerThrows \/ DecoderThrows
      PROVE  Promise!Abort
  <2>1. UNCHANGED <<heard, db, refused>> /\ crashed' = TRUE
    BY <1>4 DEF ServerThrows, ServerGoto, DecoderThrows, store
  <2> QED
    BY <1>c, <1>4, <2>1 DEF Promise!Abort, LoggedFrames, Phase
<1>5. ASSUME Next, main' = "failed", OpenDb
      PROVE  Promise!Abort
  <2>1. UNCHANGED <<heard, db, refused>>
    BY <1>5 DEF OpenDb, MainGoto, others
  <2> QED
    BY <1>c, <1>5, <2>1 DEF Promise!Abort, LoggedFrames, Phase
<1>6. CASE /\ UNCHANGED <<heard, db, refused, crashed>>
           /\ \/ main' = main
              \/ {main, main'} \intersect {"exited", "failed"} = {}
  BY <1>6 DEF Promise!logVars, LoggedFrames, Phase
<1>7. ASSUME Next, ~CaptureSnapshot, ~LoggerInsert, ~CloseDb, ~ServerThrows,
             ~DecoderThrows, ~(main' = "failed" /\ OpenDb)
      PROVE  <1>6!1
  <2>1. CASE MainStep
    BY <1>7, <2>1 DEF MainStep, OpenDb, StartLogger, StartServer, OpenRf, StartCapture,
              StartDecoder, LeaveWait, JoinCapture, StopDecode, JoinDecoder, StopLog,
              JoinLogger, JoinServer, StopRf, MainGoto, others
  <2>2. CASE CaptureStep \/ DecoderStep \/ LoggerStep
    BY <1>7, <2>2 DEF CaptureStep, CaptureCheck, CaptureStamp, CapturePush, CaptureWake,
              CaptureGoto, DecoderStep, DecoderPop, DecoderEnd, DecoderProcess,
              DecoderCount, DecoderPush, DecoderGoto, LoggerStep, LoggerPop, LoggerEnd,
              LoggerGoto, others, store
  <2>3. CASE ServerStep \/ ClientStep \/ ReadMessagesEnds \/ Sigint \/ DecoderThrows
    BY <1>7, <2>3 DEF ServerStep, ServerConstruct, ServerLeaveLoop, RemoveMessages,
              RemoveEvents, ServerGoto, ClientStep, ReadMessages, OpenStream, StreamEnds,
              ReadMessagesEnds, RequestGoto, Sigint, DecoderThrows, others, store
  <2> QED
    BY <1>7, <2>1, <2>2, <2>3 DEF Next
<1> QED
  BY <1>b, <1>1, <1>2, <1>3, <1>4, <1>5, <1>6, <1>7 DEF Promise!Next

(* The application keeps the promise of DecodeLog: each captured frame     *)
(* with messages is settled once, in order, and none is left over when the *)
(* program ends.                                                           *)
THEOREM KeepsPromise == Spec => PromiseSpec
<1>1. Init => Promise!Init
  BY DEF Init, Promise!Init, LoggedFrames, Phase
<1>2. IndInv /\ [Next]_vars => [Promise!Next]_(Promise!logVars)
  BY StepRefines
<1> QED
  BY <1>1, <1>2, Inductive, PTL DEF Spec, PromiseSpec, Promise!Spec

-----------------------------------------------------------------------------
(* The end of the shutdown.                                                *)

(* The steps left are natural numbers, thread by thread and together.      *)
LEMMA LeftType ==
  TypeOK => /\ MainLeft \in Nat /\ CaptureLeft \in Nat /\ DecoderLeft \in Nat
            /\ LoggerLeft \in Nat /\ ServerLeft \in Nat /\ ThrowLeft \in Nat
            /\ Len(decodeQ) \in Nat /\ Len(logQ) \in Nat
BY DEF TypeOK, MainLocs, CaptureLocs, DecoderLocs, LoggerLocs, ServerLocs, MainLeft,
       CaptureLeft, DecoderLeft, LoggerLeft, ServerLeft, ThrowLeft

LEMMA StepsLeftType == TypeOK => StepsLeft \in Nat
BY LeftType, SMTT(30) DEF StepsLeft

(* A thread that does not move has as many steps left as before.           *)
LEMMA SameLeft ==
  /\ main' = main => MainLeft' = MainLeft
  /\ capture' = capture => CaptureLeft' = CaptureLeft
  /\ decoder' = decoder => DecoderLeft' = DecoderLeft
  /\ logger' = logger => LoggerLeft' = LoggerLeft
  /\ server' = server => ServerLeft' = ServerLeft
  /\ crashed' = crashed => ThrowLeft' = ThrowLeft
BY DEF MainLeft, CaptureLeft, DecoderLeft, LoggerLeft, ServerLeft, ThrowLeft

(* The capture thread: a frame that it pushes is worth less than the       *)
(* pushing was.                                                            *)
LEMMA CaptureShrinks ==
  ASSUME TypeOK, ~running, CaptureStep
  PROVE  StepsLeft' < StepsLeft
<1>1. UNCHANGED <<main, decoder, logger, server, crashed, logQ>>
  BY DEF CaptureStep, CaptureCheck, CaptureSnapshot, CaptureStamp, CapturePush,
         CaptureWake, CaptureGoto, queues
<1>a. /\ MainLeft \in Nat /\ CaptureLeft \in Nat /\ DecoderLeft \in Nat
      /\ LoggerLeft \in Nat /\ ServerLeft \in Nat /\ ThrowLeft \in Nat
      /\ Len(decodeQ) \in Nat /\ Len(logQ) \in Nat
  BY LeftType
<1>b. MainLeft' = MainLeft /\ DecoderLeft' = DecoderLeft /\ LoggerLeft' = LoggerLeft
      /\ ServerLeft' = ServerLeft /\ ThrowLeft' = ThrowLeft
  BY <1>1, SameLeft
<1>2. CASE CapturePush
  <2>1. Len(decodeQ') = Len(decodeQ) + 1 /\ CaptureLeft = 9
        /\ CaptureLeft' = 2
    BY <1>2 DEF CapturePush, CaptureGoto, CaptureLeft, TypeOK
  <2> QED
    BY <1>1, <1>a, <1>b, <2>1 DEF StepsLeft
<1>3. CASE ~CapturePush
  <2>1. /\ UNCHANGED decodeQ /\ Len(decodeQ') = Len(decodeQ)
        /\ \E c \in Nat : CaptureLeft' = c /\ c < CaptureLeft
    BY <1>3 DEF CaptureStep, CaptureCheck, CaptureSnapshot, CaptureStamp, CaptureWake,
                CaptureGoto, CaptureLeft, queues
  <2>2. PICK c \in Nat : CaptureLeft' = c /\ c < CaptureLeft
    BY <2>1
  <2> QED
    BY <1>1, <1>a, <1>b, <2>1, <2>2 DEF StepsLeft
<1> QED
  BY <1>2, <1>3

(* The decoder: a queued frame is worth its decoding and its batch.        *)
LEMMA DecoderShrinks ==
  ASSUME TypeOK, DecoderStep
  PROVE  StepsLeft' < StepsLeft
<1>1. UNCHANGED <<main, capture, logger, server, crashed>>
  BY DEF DecoderStep, DecoderPop, DecoderEnd, DecoderProcess, DecoderCount, DecoderPush,
         DecoderGoto, others
<1>a. /\ MainLeft \in Nat /\ CaptureLeft \in Nat /\ DecoderLeft \in Nat
      /\ LoggerLeft \in Nat /\ ServerLeft \in Nat /\ ThrowLeft \in Nat
      /\ Len(decodeQ) \in Nat /\ Len(logQ) \in Nat
  BY LeftType
<1>b. MainLeft' = MainLeft /\ CaptureLeft' = CaptureLeft /\ LoggerLeft' = LoggerLeft
      /\ ServerLeft' = ServerLeft /\ ThrowLeft' = ThrowLeft
  BY <1>1, SameLeft
<1>2. CASE DecoderPop
  <2>1. /\ Len(decodeQ') = Len(decodeQ) - 1 /\ Len(decodeQ) > 0 /\ UNCHANGED logQ
        /\ DecoderLeft = 1 /\ DecoderLeft' = 6
    BY <1>2 DEF DecoderPop, DecoderGoto, DecoderLeft, TypeOK
  <2> QED
    BY <1>1, <1>a, <1>b, <2>1 DEF StepsLeft
<1>3. CASE DecoderPush
  <2>1. /\ Len(logQ') <= Len(logQ) + 1 /\ Len(logQ') \in Nat /\ UNCHANGED decodeQ
        /\ DecoderLeft = 4 /\ DecoderLeft' = 1
    BY <1>3 DEF DecoderPush, DecoderGoto, DecoderLeft, TypeOK
  <2> QED
    BY <1>1, <1>a, <1>b, <2>1 DEF StepsLeft
<1>4. CASE DecoderEnd \/ DecoderProcess \/ DecoderCount
  <2>1. /\ \E d \in Nat : DecoderLeft' = d /\ d < DecoderLeft
        /\ UNCHANGED <<decodeQ, logQ>>
    BY <1>4 DEF DecoderEnd, DecoderProcess, DecoderCount, DecoderGoto, DecoderLeft, queues
  <2>2. PICK d \in Nat : DecoderLeft' = d /\ d < DecoderLeft
    BY <2>1
  <2> QED
    BY <1>1, <1>a, <1>b, <2>1, <2>2 DEF StepsLeft
<1> QED
  BY <1>2, <1>3, <1>4 DEF DecoderStep

(* The logger.                                                             *)
LEMMA LoggerShrinks ==
  ASSUME TypeOK, LoggerStep
  PROVE  StepsLeft' < StepsLeft
<1>1. UNCHANGED <<main, capture, decoder, server, crashed, decodeQ>>
  BY DEF LoggerStep, LoggerPop, LoggerEnd, LoggerInsert, LoggerGoto, others
<1>a. /\ MainLeft \in Nat /\ CaptureLeft \in Nat /\ DecoderLeft \in Nat
      /\ LoggerLeft \in Nat /\ ServerLeft \in Nat /\ ThrowLeft \in Nat
      /\ Len(decodeQ) \in Nat /\ Len(logQ) \in Nat
  BY LeftType
<1>b. MainLeft' = MainLeft /\ CaptureLeft' = CaptureLeft /\ DecoderLeft' = DecoderLeft
      /\ ServerLeft' = ServerLeft /\ ThrowLeft' = ThrowLeft
  BY <1>1, SameLeft
<1>2. CASE LoggerPop
  <2>1. /\ Len(logQ') = Len(logQ) - 1 /\ Len(logQ) > 0
        /\ LoggerLeft = 1 /\ LoggerLeft' = 2
    BY <1>2 DEF LoggerPop, LoggerGoto, LoggerLeft, TypeOK
  <2> QED
    BY <1>1, <1>a, <1>b, <2>1 DEF StepsLeft
<1>3. CASE LoggerEnd \/ LoggerInsert
  <2>1. /\ \E n \in Nat : LoggerLeft' = n /\ n < LoggerLeft
        /\ UNCHANGED logQ
    BY <1>3 DEF LoggerEnd, LoggerInsert, LoggerGoto, LoggerLeft
  <2>2. PICK n \in Nat : LoggerLeft' = n /\ n < LoggerLeft
    BY <2>1
  <2> QED
    BY <1>1, <1>a, <1>b, <2>1, <2>2 DEF StepsLeft
<1> QED
  BY <1>2, <1>3 DEF LoggerStep

(* The server thread and an exception: its own, or the decoder's.          *)
LEMMA ServerShrinks ==
  ASSUME TypeOK, ~crashed, ServerStep \/ DecoderThrows
  PROVE  StepsLeft' < StepsLeft
<1>1. UNCHANGED <<main, capture, decoder, logger, decodeQ, logQ>>
  BY DEF ServerStep, ServerConstruct, ServerThrows, ServerLeaveLoop, RemoveMessages,
         RemoveEvents, ServerGoto, DecoderThrows, queues
<1>a. /\ MainLeft \in Nat /\ CaptureLeft \in Nat /\ DecoderLeft \in Nat
      /\ LoggerLeft \in Nat /\ ServerLeft \in Nat /\ ThrowLeft \in Nat
      /\ Len(decodeQ) \in Nat /\ Len(logQ) \in Nat
  BY LeftType
<1>b. MainLeft' = MainLeft /\ CaptureLeft' = CaptureLeft /\ DecoderLeft' = DecoderLeft
      /\ LoggerLeft' = LoggerLeft
  BY <1>1, SameLeft
<1>2. \/ UNCHANGED server /\ crashed'
      \/ /\ \E n \in Nat : ServerLeft' = n /\ n < ServerLeft
         /\ UNCHANGED crashed
  BY DEF ServerStep, ServerConstruct, ServerThrows, ServerLeaveLoop, RemoveMessages,
         RemoveEvents, ServerGoto, DecoderThrows, ServerLeft
<1>3. Len(decodeQ') = Len(decodeQ) /\ Len(logQ') = Len(logQ)
  BY <1>1
<1>4. CASE UNCHANGED server /\ crashed'
  <2>1. ServerLeft' = ServerLeft /\ ThrowLeft = 1 /\ ThrowLeft' = 0
    BY <1>4, SameLeft DEF ThrowLeft
  <2> QED
    BY <1>3, <1>4, <1>a, <1>b, <2>1 DEF StepsLeft
<1>5. CASE (\E n \in Nat : ServerLeft' = n /\ n < ServerLeft) /\ UNCHANGED crashed
  <2>1. ThrowLeft' = ThrowLeft
    BY <1>5, SameLeft
  <2>2. PICK n \in Nat : ServerLeft' = n /\ n < ServerLeft
    BY <1>5
  <2> QED
    BY <1>3, <1>a, <1>b, <2>1, <2>2 DEF StepsLeft
<1> QED
  BY <1>2, <1>4, <1>5

(* Main: the start of a thread is a step of main, too.                     *)
LEMMA MainMoves ==
  ASSUME TypeOK, StartOrder, MainStep
  PROVE  /\ \E m \in Nat : MainLeft' = m /\ m < MainLeft
         /\ CaptureLeft' = CaptureLeft /\ DecoderLeft' = DecoderLeft
         /\ LoggerLeft' = LoggerLeft /\ ServerLeft' = ServerLeft /\ ThrowLeft' = ThrowLeft
         /\ Len(decodeQ') = Len(decodeQ) /\ Len(logQ') = Len(logQ)
<1> USE DEF MainStep, OpenDb, StartLogger, StartServer, OpenRf, StartCapture,
            StartDecoder, LeaveWait, JoinCapture, StopDecode, JoinDecoder, StopLog,
            JoinLogger, JoinServer, StopRf, CloseDb, MainGoto, SameThreads
<1>1. UNCHANGED <<crashed, decodeQ, logQ>>
  BY DEF others
<1>2. \E m \in Nat : MainLeft' = m /\ m < MainLeft
  BY DEF MainLeft
<1>3. CaptureLeft' = CaptureLeft
  BY DEF CaptureLeft, StartOrder, BeforeCapture
<1>4. DecoderLeft' = DecoderLeft
  BY DEF DecoderLeft, StartOrder, BeforeDecoder
<1>5. LoggerLeft' = LoggerLeft
  BY DEF LoggerLeft, StartOrder, BeforeLogger
<1>6. ServerLeft' = ServerLeft
  BY DEF ServerLeft, StartOrder, BeforeServer
<1>7. ThrowLeft' = ThrowLeft
  BY <1>1, SameLeft
<1> QED
  BY <1>1, <1>2, <1>3, <1>4, <1>5, <1>6, <1>7

LEMMA MainShrinks ==
  ASSUME TypeOK, StartOrder, MainStep
  PROVE  StepsLeft' < StepsLeft
<1>a. /\ MainLeft \in Nat /\ CaptureLeft \in Nat /\ DecoderLeft \in Nat
      /\ LoggerLeft \in Nat /\ ServerLeft \in Nat /\ ThrowLeft \in Nat
      /\ Len(decodeQ) \in Nat /\ Len(logQ) \in Nat
  BY LeftType
<1>1. /\ \E m \in Nat : MainLeft' = m /\ m < MainLeft
      /\ CaptureLeft' = CaptureLeft /\ DecoderLeft' = DecoderLeft
      /\ LoggerLeft' = LoggerLeft /\ ServerLeft' = ServerLeft /\ ThrowLeft' = ThrowLeft
      /\ Len(decodeQ') = Len(decodeQ) /\ Len(logQ') = Len(logQ)
  BY MainMoves
<1>2. PICK m \in Nat : MainLeft' = m /\ m < MainLeft
  BY <1>1
<1> QED
  BY <1>1, <1>2, <1>a DEF StepsLeft

(* A shutdown makes progress with every step, and has no more steps left   *)
(* than StepsLeft, a natural number, for any number of frames in flight.   *)
THEOREM ShutdownMakesProgress == Spec => ShutdownShrinks /\ [](StepsLeft \in Nat)
<1>1. ASSUME IndInv, Next, ~running
      PROVE  IF ClientStep \/ ReadMessagesEnds THEN StepsLeft' = StepsLeft
             ELSE StepsLeft' < StepsLeft
  <2>1. CASE ClientStep \/ ReadMessagesEnds
    <3>1. UNCHANGED <<main, capture, decoder, logger, server, crashed, decodeQ, logQ>>
      BY <2>1 DEF ClientStep, ReadMessages, OpenStream, StreamEnds, ReadMessagesEnds,
                  RequestGoto, others, queues
    <3>2. /\ MainLeft' = MainLeft /\ CaptureLeft' = CaptureLeft
          /\ DecoderLeft' = DecoderLeft /\ LoggerLeft' = LoggerLeft
          /\ ServerLeft' = ServerLeft /\ ThrowLeft' = ThrowLeft
      BY <3>1, SameLeft
    <3>3. StepsLeft' = StepsLeft
      BY <3>1, <3>2 DEF StepsLeft
    <3> QED
      BY <2>1, <3>3
  <2>2. CASE ~(ClientStep \/ ReadMessagesEnds)
    <3>1. ~Sigint
      BY <1>1 DEF Sigint
    <3>2. TypeOK /\ StartOrder /\ ~crashed
      BY <1>1 DEF IndInv, Next, Alive
    <3>3. CaptureStep \/ DecoderStep \/ LoggerStep \/ ServerStep \/ MainStep \/ DecoderThrows
      BY <1>1, <2>2, <3>1 DEF Next
    <3>4. StepsLeft' < StepsLeft
      BY <1>1, <3>2, <3>3, CaptureShrinks, DecoderShrinks, LoggerShrinks, ServerShrinks,
         MainShrinks
    <3> QED
      BY <2>2, <3>4
  <2> QED
    BY <2>1, <2>2
<1>2. IndInv /\ [Next]_vars =>
        [ ~running => IF ClientStep \/ ReadMessagesEnds THEN StepsLeft' = StepsLeft
                      ELSE StepsLeft' < StepsLeft ]_vars
  BY <1>1
<1> QED
  BY <1>2, TypeCorrect, Inductive, StepsLeftType, PTL DEF Spec, ShutdownShrinks

(* The threads that main has started are never unborn again.               *)
LEMMA StartedAlways == Spec => []Started
<1> USE DEF Started, BeforeLogger, BeforeServer, BeforeCapture, BeforeDecoder
<1>1. Init => Started
  BY DEF Init
<1>2. ASSUME Started, [Next]_vars
      PROVE  Started'
  <2>1. CASE CaptureStep
    BY <1>2, <2>1 DEF CaptureStep, CaptureCheck, CaptureSnapshot, CaptureStamp,
                      CapturePush, CaptureWake, CaptureGoto
  <2>2. CASE DecoderStep
    BY <1>2, <2>2 DEF DecoderStep, DecoderPop, DecoderEnd, DecoderProcess, DecoderCount,
                      DecoderPush, DecoderGoto
  <2>3. CASE LoggerStep
    BY <1>2, <2>3 DEF LoggerStep, LoggerPop, LoggerEnd, LoggerInsert, LoggerGoto
  <2>4. CASE ServerStep
    BY <1>2, <2>4 DEF ServerStep, ServerConstruct, ServerThrows, ServerLeaveLoop,
                      RemoveMessages, RemoveEvents, ServerGoto
  <2>5. CASE MainStep
    BY <1>2, <2>5 DEF MainStep, OpenDb, StartLogger, StartServer, OpenRf, StartCapture,
              StartDecoder, LeaveWait, JoinCapture, StopDecode, JoinDecoder, StopLog,
              JoinLogger, JoinServer, StopRf, CloseDb, MainGoto, SameThreads
  <2>6. CASE ClientStep \/ ReadMessagesEnds \/ Sigint \/ DecoderThrows \/ UNCHANGED vars
    BY <1>2, <2>6 DEF ClientStep, ReadMessages, OpenStream, StreamEnds, ReadMessagesEnds,
              RequestGoto, Sigint, DecoderThrows, vars
  <2> QED
    BY <1>2, <2>1, <2>2, <2>3, <2>4, <2>5, <2>6 DEF Next
<1> QED
  BY <1>1, <1>2, PTL DEF Spec

(* No deadlock in the shutdown: main joins the threads in the order of the *)
(* pipeline, so what it waits for is never waiting for main; only a client *)
(* can hold up the last join.                                              *)
THEOREM NoShutdownDeadlock == Spec => []ShutdownNotStuck
<1>1. ASSUME IndInv, Started, Alive, ~running
      PROVE  \/ CaptureCanGo \/ DecoderCanGo \/ LoggerCanGo \/ ServerCanGo \/ MainCanGo
             \/ /\ main = "joinServer"
                /\ \/ server = "removeMessages" /\ reading
                   \/ server = "removeEvents" /\ streams > 0
  <2> USE <1>1 DEF IndInv, Started, Alive, BeforeLogger, BeforeServer, BeforeCapture,
          BeforeDecoder
  <2>a. /\ main \in AfterStopDecode => decodeStopped
        /\ main \in AfterStopLog => logStopped
    BY DEF ShutdownOrder
  <2>1. CASE main = "joinCapture"
    <3>1. capture \in CaptureLocs /\ capture # "unborn"
      BY <2>1 DEF TypeOK
    <3> QED
      BY <2>1, <3>1 DEF CaptureLocs, CaptureCanGo, MainCanGo
  <2>2. CASE main = "joinDecoder"
    <3>1. decoder \in DecoderLocs /\ decoder # "unborn" /\ decodeStopped
      BY <2>2, <2>a DEF TypeOK, AfterStopDecode
    <3> QED
      BY <2>2, <3>1 DEF DecoderLocs, DecoderCanGo, MainCanGo
  <2>3. CASE main = "joinLogger"
    <3>1. logger \in LoggerLocs /\ logger # "unborn" /\ logStopped
      BY <2>3, <2>a DEF TypeOK, AfterStopLog
    <3> QED
      BY <2>3, <3>1 DEF LoggerLocs, LoggerCanGo, MainCanGo
  <2>4. CASE main = "joinServer"
    <3>1. server \in ServerLocs /\ server # "unborn" /\ streams \in 0 .. MaxStreams
      BY <2>4 DEF TypeOK
    <3> QED
      BY <2>4, <3>1, BoundsAssumption DEF ServerLocs, ServerCanGo, MainCanGo
  <2> QED
    BY <2>1, <2>2, <2>3, <2>4 DEF MainCanGo
<1>2. IndInv /\ Started => ShutdownNotStuck
  BY <1>1 DEF ShutdownNotStuck
<1> QED
  BY <1>2, Inductive, StartedAlways, PTL
=============================================================================
