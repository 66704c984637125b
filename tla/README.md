# hf-decoder in TLA+

TLA+ models of hf-decoder, an FT8/JS8 receiver for the Raspberry Pi, with TLC
configurations that check them on small instances and TLAPS proofs for every
value of the constants. Every definition is read off the C++ sources under
`src/`; `PROJECT.json` ("map") gives the lines each one stands for.

## 1. The system and its parts

```
 RTL-SDR -> librtlsdr worker -> ring buffer --snapshot()--> capture thread
                                                              | decode_queue
   database <- logger thread <- log_queue <- decoder thread <-+
       |                                        |  one std::async task
       v                                        v  per candidate
 recent() <- CivetWeb threads <- dashboard     FFTW, LDPC, CRC
```

`main.cpp` owns five threads. Logger and server start before the receiver is
opened, capture and decoder after it; SIGINT clears `running`, and main joins
and stops the rest in a fixed order (main.cpp:122-130).

| Component | State | Operations | Meets | What is hard | What makes it correct |
|---|---|---|---|---|---|
| ThreadSafeQueue (`thread_safe_queue.hpp`) | mutex, condition variable, deque, stopped flag | push, pop, stop | capture/decoder and decoder/logger, stopped by main | notification after unlock, stop while values are queued, spurious wakeups | FIFO, nothing lost; no lost wakeup; after stop every consumer ends, the rest delivered first |
| Application threads (`main.cpp`) | running, two queues, what each thread holds, status atomics, database handle | loops of five threads, SIGINT, shutdown | all others | order of joins and stops, refused inserts, requests in progress, exceptions in threads | frames settled once and in order, none left at exit; no use after close; the program ends |
| DataStore (`data_store.cpp`) | one SQLite connection: table, open transaction | open, init, insert, recent, close | logger and CivetWeb threads, unsynchronised; other processes on the file | interleaving between sqlite3_ calls, busy locks, disk failures, kill and restart | a batch is stored whole or not at all, `true` means durable, recent is newest first and complete |
| RfInput, device and band (`rf_input.cpp`) | dev_, running_, worker_, current_preset_, the tuner | open (five slots), set_sample_rate, start, stop, close, set_band | main, worker, CivetWeb threads; nothing locks dev_ or current_preset_ | cancel before read_async, overlapping set_band, device lost | no closed device is used, stop returns, band shown = band tuned |
| RfInput, sample ring (`rf_input.cpp:95-136`) | ring_buffer_, ring_pos_, buffer_mutex_ | handle_samples, snapshot | worker, capture thread, /api/audio | placement by wall clock, left-over samples, stale ring | a sample is at its place in the 15 s, a frame is in the order of time |
| DecodeEngine (`engine.cpp`) | candidates, futures, results, js8_enabled_ | process, set_js8_enabled | decoder thread, its tasks, CivetWeb threads | tasks in any order, std::async failing, JS8 flag read per task, FFTW's planner | results match candidates in order, the frame outlives the tasks, process ends |
| Sync detector (`sync.cpp`), demodulator (`demod.cpp`) | none (const) | detect, demodulate | called by process | edges of the frame, truncation, FFTW | indices stay within the frame, no data tone is cut |
| LLR, LDPC, CRC (`decode.cpp`, `ft8/`) | none | decode | called by each task | sign conventions, bit order, which guess the error count is of, the size of LLRs | an undamaged code word decodes to its payload, only words that pass all checks are accepted, damage is corrected or noticed |
| WebServer (`web_server.cpp`) | CivetServer and handlers | constructor, destructor; GET messages, events, band, mode, status, audio; POST band, mode | all others | endless event streams, a bounded pool of threads, requests before addHandler and at shutdown, three atomics read one by one | handlers outlive the requests inside; requests are served; the destructor returns; a status answer is of neighbouring frames |
| LDPC tables (`ft8/constants.c`) | constants | - | LDPC decoder | one relation in three tables | they agree |
| Configuration, logging, dashboard page, tests | - | - | - | - | not modelled, section 7 |

The hazards, each at its line, with the properties that would catch it, are
`PROJECT.json` "hazards".

## 2. The modules

| Module | Models | Implements |
|---|---|---|
| `FifoChannel` | abstract: what users of a queue rely on | |
| `ThreadSafeQueue` | the class, at mutex / wait / notify granularity | `FifoChannel` (ChannelSpec) |
| `DecodeLog` | abstract: every frame with messages settled once, in order, before the program finishes | |
| `Pipeline` | main.cpp: five threads, two queues, start-up, shutdown, requests | `DecodeLog` (PromiseSpec) |
| `AtomicStore` | abstract: insert as the logger takes it | |
| `DataStore` | open, init, insert, recent, close, call by call into SQLite | `AtomicStore` (PromiseUntilLost), until a COMMIT fails |
| `RfInput` | open, start, stop, close, worker, set_band | |
| `SampleRing` | handle_samples, snapshot, the clock of the callbacks | |
| `DecodeEngine` | process and its tasks: where detect looks, demodulate, the JS8 flag, the use of FFTW | |
| `LdpcTables` | the tables of constants.c | |
| `Payload` | the CRC, the unpackers of FT8 and JS8 texts | |
| `MessageDecode` | LDPCDecoder::decode, bp_decode, ldpc_check | |
| `WebServer` | the server, its pool of workers, every request | |
| `MC...` | instances for TLC | |
| `...Proofs` | theorems, one module per component | |

The composition is in layers. `ThreadSafeQueue` is proved to be a FIFO channel,
and `Pipeline` uses its queues as such. `DataStore` is proved to be an atomic
store until a COMMIT fails, and `Pipeline` has one step for an insert that
stores or refuses a batch. `DecodeEngine` shows that process returns or throws,
and `Pipeline` has one step for each (DecoderProcess, DecoderThrows); it takes
from `MessageDecode` that a code word needs its 58 data tones. `WebServer` shows
that the destructor waits for all six handlers, of which `Pipeline` keeps the two
that touch its state.

**ThreadSafeQueue.** A location per thread; push is PushLock, PushBack (value,
release), NotifyOne; pop is PopLock, PopTest, PopWait or PopFront/PopFalse, and
Relock after a wakeup; stop is StopLock, SetStopped, NotifyAll. std::mutex and
std::condition_variable are external: an atomic release-and-wait, spurious
wakeups, notifications that are lost when nobody waits. `accepted` and
`delivered` are history variables, the state that the abstract channel sees.

**Pipeline.** A location per thread, named after the statement it is at. A frame
is its capture number, `heard[f]` what the engine finds in it, one crc_ok flag
per message. last_decode is a reading of the wall clock, any member of `Times`,
and so may be smaller than the one before; `setBack`, a history variable, has
the frames at whose decoding it was. last_capture is not kept: its only reader
is in `WebServer`. /api/messages is one reader inside recent, /events a counter
of streams; the four other endpoints do not touch the state of this module.
RemoveMessages and RemoveEvents stand for `removeHandler`, which waits until no
request is in the handler.

**DataStore.** The connection is closed, open, or ready after init; the two
callers are two automata over it. `pending` is the open transaction: its rows
are visible to recent, which runs on the same connection (`Visible`). SQLite is
external and modelled from how it is called: BEGIN is deferred and fails only
inside a transaction, the first INSERT takes the write lock, COMMIT needs every
other process out of the file, a lock met by any call is SQLITE_BUSY at once
since the code sets no timeout. Killed is a kill at any point; the next start
opens the file as it was last committed. `lost` and `undone` are history: a
COMMIT has failed; a rollback took rows back while recent was under way.

**RfInput.** main, worker, and per thread the place in set_band: Assign is
line 65, CheckDevice line 51, Retune line 53. open tries five slots and goes on
whatever set_sample_rate and set_band return. librtlsdr is external:
cancel_async has an effect only while read_async runs. `solo` and `settled`
are history variables.

**SampleRing.** A callback is two steps, ReadClock (decimation and place) and
Write (the copy under the mutex), so that snapshot and later callbacks fall
between them. Time is counted in samples; the value of a sample is the time at
which it was complete, so where it lies can be compared with where it belongs.
The clock is late by up to MaxLate or early by up to MaxBack and rounded down
to a millisecond. `at`, `lastEnd` and `steady` are history: the place of each
sample and the end of the last buffer before they were reduced to the ring, and
whether the clock has run back. Lose is the end of rtlsdr_read_async when the device is gone.

**DecodeEngine.** process is Detect, Launch, Launched, Get, Return; a task is
Demodulate, Planned, Executed, Destroyed, Decode. A candidate is a place of the
grid of half symbols and bins that detect searches (`Grid`), and what its tones
give, "ft8", "js8" or "noise". Its sample number passes through a float of
seconds and comes back one short at nine places of the grid (`OneShort`); the
two refinements may end at any bin and any start that they look at; the tones
read are those that lie within the frame. Spectra, and with them which place
wins, are not modelled. When std::async throws, nothing catches it; the runtime
may unwind (the futures then wait for their tasks) or terminate at once.

**LdpcTables, Payload, MessageDecode.** A word is the set of the places of its
ones, a register the set of its powers of two. The sender is external: it
encodes a payload with the generator and the CRC (WithParity) and maps it to
tones with kFT8_Gray_map; one tone may be misheard, the end cut, or the complement heard.
DemapTones is the loop over the tones; Guess, Better/NotBetter and PassMessages
are a turn of bp_decode; Reject and Verify the rest of decode. The real numbers
of belief propagation are abstracted to `reach`, a bound on the size of every
message, which NextReach carries from turn to turn through fast_tanh, the
shortest product of a check and fast_atanh, in thousandths and rounded up. A
place whose LLR three messages of that size cannot outweigh is decided by its
LLR, any other is what some word of `Beliefs` has there. In the program's code
the bound never reaches that size (HeardIsKept).

**WebServer.** The server thread is in its constructor (Construct, AddHandler),
in the loop of main, or in its destructor (RemoveHandler, DestroyHandlers,
StopServer, JoinWorkers), at the handler `at`. CivetWeb is external: requests
queue for one of `Workers` threads; Take finds the handler of the path or, when
there is none, answers from the document root; removeHandler turns new requests
away and waits. /events ticks until a write fails; /api/status reads its three
atomics in any order, one step each; the other four end in one step (Answer).
Capture and decoder thread appear by the atomics they write.

Each module holds, beside an action, mutated forms of it marked "Fault": the
property named in `PROJECT.json` "mutants" fails under it, which shows that
the property depends on that line of the code.

## 3. The runs

| Run | Instance | Shows |
|---|---|---|
| `ThreadSafeQueue` | 2 producers, 2 consumers, 1 stopper, 2 values, 2 pushes | types, no lost wakeup, FIFO channel, delivery, consumers end |
| `Pipeline` | 3 frames, 2 readings of the clock in any order, 1 dashboard, frames empty or not | types, database open while used, log in the order of frames, and of time but where the clock was set back, DecodeLog, every frame settled, SIGINT ends the program when clients leave |
| `DataStore` | 3 batches of 2, 1, 2 rows, limit 4, every failure, kills and restarts | types, batches whole, recent returns the newest rows in order, AtomicStore until a COMMIT fails |
| `RfInput` | 2 web threads, 2 presets, 3 requests, failures | types, no use of a closed device, a band set alone agrees, cancel ends the worker |
| `SampleRing` | ring of 15 samples, 6 callbacks of 4 or 2, clock 2 late or 1 early, 3 samples a millisecond | types, samples at their places, frames in the order of time |
| `DecodeEngine` | the program's frame and symbol length, 2 candidates at 3 places, 1 frame, 1 switch of JS8 | types, frame outlives tasks, no index leaves the frame and no data tone is cut, results right and in order, process ends |
| `MessageDecode` | the program's code: 79 tones, 174 bits, 83 checks, 50 turns; 4 payloads and their complements | types, only valid words accepted, least errors, surviving tones demapped rightly, no heard tone corrected, tables agree, CRC notices two flips |
| `WebServer` | 2 clients, 1 worker, 4 requests for /events, /api/status, /api/audio, 2 frames | types, handlers outlive requests, status of neighbouring frames, requests taken up and destructor returns unless dashboards stay open |
| `DataStore_commit` | another process reads the file | violated: AckDurable |
| `RfInput_stop` | SIGINT just after start | violated: StopReturns |
| `MessageDecode_llr` | 1 turn | violated: CleanFirstGuess |
| `MessageDecode_js8` | 1 turn | violated: Js8IsReported |

Bounds, and why they are enough. `MaxPushes`: with two values and two consumers
there is a push for each sleeper, and one that meets no sleeper. Pipeline's
`MaxFrames` 3: one frame in each of decoder, log_queue and logger, or all three
queued. The thread sleeps when the bound is reached, and SIGINT still wakes it.
`MaxTime` 1: two readings give a clock that stands, goes on and is set back,
before, between and after two frames.
`MaxStreams` 1: a second dashboard adds no step. `Size` <<2, 1, 2>>: batches
that differ in length, with a first, a middle and a last one; `Limit` 4 lies
below their total of 5. `MaxPosts` 3: two overlapping requests and one that
repairs or repeats. `MaxCallbacks` 6 goes more than a lap around the ring, so
that old samples are met; `Lengths` {23, 12} in steps of 5 leave 3 and 2 device
samples over, as 131072 leaves 12 in steps of 20. DecodeEngine's `MaxCandidates`
2 gives every order of two tasks, and a switch of JS8 before, between or after
them; its three places are the first one, the last one with room for a whole
transmission, and one that is truncated and has no room. MessageDecode's
misheard tones are one in each half of the data, and their first and last ones;
it cuts nothing, one tone, half of the tones or all of them. `Workers` 1 stands
for a pool of which all workers but one are taken; with two clients one request
waits while another holds it; three paths give a stream, an answer in steps,
and the handler that is removed last. But for TablesAgree and CrcSeesTwoFlips,
which are about fixed tables, the safety properties of the passing runs are
proved without these bounds.

Deadlock is checked for SampleRing, which can always take a snapshot. It is not
checked for the others, because every instance stops: the program ends, or its
bounded inputs are used up. The liveness properties take that place.

### What the violated properties say

* **DataStore_commit** (data_store.cpp:76). The result of COMMIT is ignored.
  SQLITE_BUSY leaves the transaction open, insert returns true, every later
  BEGIN fails, and the rows are gone at the next start. This is the only way to
  lose an acknowledged batch: the theorem DurableUntilLost.
* **RfInput_stop** (rf_input.cpp:83). A cancel that comes before the worker is
  inside read_async is without effect; the join then never returns.
* **MessageDecode_llr** (decode.cpp:127). decode hands bp_decode -1 for a one
  and 1 for a zero, which is the log P(0)/P(1) of ldpc.c:10; but ldpc.c:150
  decides one where the sum is positive. The first guess at a transmission
  that was heard perfectly is its complement. Every parity check of odd size
  then fails, 24 of the 83. The theorem CleanIsRejected says so of every message
  and every turn. TODO.md:45 reports bad decode data.
* **MessageDecode_js8** (decode.cpp:152). JS8 is tried only when a payload gave
  no FT8 text, and every payload whose type bits are zero gives one, so every
  JS8 text of up to ten characters, filled up with zeros, is reported as two
  call signs in mode FT8. The theorem PaddedIsFt8 says so of every accepted
  payload whose last seven bits, the eleventh character, are zero.

### Observations without a run

* An event stream ends only when a write fails (web_server.cpp:50). The
  destructor of the server waits for it, and main for the destructor, so an
  open dashboard keeps the program alive after SIGINT: the condition of
  SigintEndsWhenClientsLeave and DestructorEnds is needed.
* main.cpp:101 makes a record of every result, whether crc_ok or not;
  ARCHITECTURE.md:59 accepts only valid CRCs. Rows without text, as TODO.md:45
  shows one, come from here.
* decode's LLRs are 1 and -1. Belief propagation multiplies messages of at most
  tanh of about a half, so that they never outweigh an LLR of 1: a bit that was
  misheard is never corrected (HeardIsKept); what a cut left open is filled in.
* The Costas pattern of sync.cpp:11 and demod.cpp:10 is not that of
  constants.c:5, and no Costas array: its steps 1 to 3, 2 to 4 and 4 to 6 are
  the same.
* ldpc.h:15 has "ok == 87 means success"; *ok is 0 for a code word.
* open ignores the result of set_sample_rate (rf_input.cpp:30) and returns true
  with a device that may sample at another rate.
* Two overlapping set_band calls can leave the preset of one and the frequency
  of the other (rf_input.cpp:65): in RfInput, Assign of both, then Retune in
  the other order.
* Two tasks can be in FFTW's planner at once (demod.cpp:35; in DecodeEngine,
  two tasks at "plan" or "destroy"); FFTW documents only execute as
  thread-safe. TODO.md:44 has a heap fault of unknown cause.
* A buffer of 131072 IQ samples gives 6553 samples of the ring, the clock moves
  in steps of 12: where it moves by 6564, 11 slots keep the samples of a lap
  ago (rf_input.cpp:117). FrameInOrder says that nothing else is out of order.
* After the device is lost, snapshot returns the same frame for ever.
* A request that comes while the constructor adds the handlers
  (web_server.cpp:217) is answered from the document root.
* A record carries the time at which decoding ended (main.cpp:100), which is
  15 s or more after its frame when the decoder lags; ARCHITECTURE.md:36 asks
  for the time of the frame. No property is about that distance.
* That time is std::time, a wall clock. recent orders by id, and ids follow the
  frames; after the clock has been set back, ids and timestamps disagree.
  LogInTimeOrder says that they do so nowhere else.
* recent can return rows that are rolled back afterwards, since it runs on the
  connection of insert; ARCHITECTURE.md:95 expects data up to the last commit.
  A row stored next reuses an id below the cursor of a statement in progress,
  which is why NewestFirst excepts it (`undone`).
* rf_input.hpp:46 says that snapshot starts at the most recent sample; it
  starts at the oldest one of the ring.

## 4. Fairness

* ThreadSafeQueue: a thread inside a call goes on (weak), a thread that asks
  for the mutex gets it when it is free again and again (strong: critical
  sections are a few instructions, and the platform's mutex does not starve a
  waiter for ever). Nobody has to push or to stop, and no spurious wakeup has
  to come.
* Pipeline: weak fairness for each of the five threads and for a query of the
  database. None for SIGINT, for clients, or for frames beyond the bound.
  rf.stop() is taken to return; `RfInput_stop` shows the case in which it does
  not. SigintEndsWhenClientsLeave states the departure of the clients as its
  condition.
* RfInput: main, the worker and each request go on; librtlsdr ends a cancelled
  read. A device need not be lost, so the worker may read for ever.
* DecodeEngine: the decoder thread and each task go on. No call of process has
  to come, and std::async need not fail.
* WebServer: weak fairness for the server thread, for CivetWeb taking up what
  waits, and for each worker inside a request. None for SIGINT, and none for
  clients, who may ask nothing and keep a stream open for ever; whether they do
  is the condition of both liveness properties. A write to a closed connection
  may go through once more, but a tick is not for ever without effect.
* SampleRing and MessageDecode have no liveness property: one runs when the
  device calls, the other is a loop with a bound (DecodeEnds).
* DataStore has no liveness property: every call of SQLite returns, and the
  callers of insert and recent are not obliged to call.

## 5. What is proved

For every value of the constants that meets the named assumptions of the
modules: finite disjoint sets of threads; Results a set of sequences of
Booleans; batches with at least one row; at least one preset; a symbol of a
multiple of eight samples; at least one parity check; sync tones among the
tones; a ring of whole milliseconds, and buffers that give at least one sample
and fit into it; a finite set of clients and at least one worker; bounds that
are natural numbers. Some theorems of MessageDecodeProofs name premises of
their own: at least one turn, no check of less than six places, a check with an
odd number of them. TLC evaluates all of these for the program's code
(ChecksAssumption).

| Module | Theorems |
|---|---|
| `ThreadSafeQueueProofs` | Inductive, TypeCorrect, Conserved, NoWakeupLost, Refinement (of FifoChannel), StopMakesProgress, NobodyStuck |
| `PipelineProofs` | Inductive, TypeCorrect, DatabaseOpen, LogOrdered, StoppedQueues, FrameInOnePlace, KeepsPromise (refines DecodeLog), ShutdownMakesProgress, NoShutdownDeadlock |
| `DataStoreProofs` | Inductive, TypeCorrect, Atomic, KeepsPromise (refines AtomicStore until a COMMIT fails), DurableUntilLost, RefusalsHonest, Complete, Ordered, StoredOnce |
| `RfInputProofs` | Inductive, TypeCorrect, DeviceOpen, SoloAgrees |
| `SampleRingProofs` | Inductive, TypeCorrect, SamplesAligned, FramesOrdered |
| `DecodeEngineProofs` | Inductive, TypeCorrect, FrameSafe, SignalsWhole, ResultsRight, CallMakesProgress, CallNeverStuck |
| `MessageDecodeProofs` | Inductive, TypeCorrect, AcceptsOnlyCodeWords, LeastErrors, DemapsSurvivors, HeardIsNeverCorrected, CleanIsRejected, ErrorsOfDamage, EncoderPassesChecks, DamageIsSeenAlike, RightWordsDiffer, UnpackingLosesNothing, TextTellsPayload, PaddedIsFt8, DecodeEnds |
| `WebServerProofs` | Inductive, TypeCorrect, HandlersAlive, StatusNeighbours, DestructorWaitsForFewer |

Each module defines its inductive invariant IndInv, which TLC has checked on the
instance above before it was proved.

* **ThreadSafeQueue.** NoLostWakeup counts: while somebody sleeps, the queue is
  no longer than the notifications to come plus the consumers on their way. It
  needs that a consumer about to sleep saw a predicate that still holds
  (SleepyPredicate), which needs mutual exclusion (MutexHeld). The proof is by
  the effect of each step on three cardinalities.
* **Pipeline.** DecodeQueueInOrder says that the decode queue holds exactly the
  frames between the last popped and the last pushed one; LogQueueInOrder that
  what was tried, what the logger holds and what is queued are together the loud
  frames decoded so far, in order; StampsInOrder that along the log, the
  logger's hand, the queue and last_decode itself no stamp is smaller than one
  before it unless the clock was set back in between; StartOrder and
  ShutdownOrder relate every thread to the place of main. At CloseDb both queues
  are empty and both threads done, so no frame is unsettled: that is
  KeepsPromise. The same two parts share the frames out among the six places of
  InOnePlace (FrameInOnePlace); TLC has checked InOnePlace on the instance of
  `Pipeline`.
* **DataStore.** Transaction relates pending to the loop of insert, PastOnly
  keeps a batch from entering twice, NoneLeftOpen says that until a COMMIT fails
  no transaction outlives its insert. BatchAtomic is WholeFrom: each row lies in
  a run of all the parts of its batch, which an append of a whole batch keeps
  (Atomic). ScanInv and OrderInv add that visible rows are sorted and that
  recent has passed nothing over (Passed): each row committed at its start is
  returned if it is not below the cursor, and older than all that were if it is;
  at the end that gives NothingSkipped. A row that is committed stays
  (TableGrows), which with NoneLeftOpen gives DurableUntilLost; only the batch
  under way is ever committed, and it has no outcome yet, which gives
  RefusalsHonest, and also that no batch is stored twice (StoredOnce). TLC has
  checked all three on the instance of `DataStore`.
* **RfInput.** LifeCycle says which part is alive at which point of main;
  SoloPreset that nobody moved the preset of a call that is still alone.
* **SampleRing.** AboutToWrite says that a buffer between clock and copy is a
  run of consecutive samples whose first one is about to be put within the
  clock's error of its slot. The lemmas are about remainders and floors: a place
  is the clock's time modulo the ring (PlaceIs), rounding to a millisecond and
  to a sample costs less than one of each (FloorSum, DivShift), and a sample k
  slots further is k later. FramesOrdered is about all samples of a frame, which
  come from many callbacks and from more than one lap. Located ties every
  sample to `at`, where it was put on the unreduced line of places; InOrder says
  that with a steady clock what was put further is younger, and that the
  youngest sample lies just before ring_pos_. snapshot reads a lap of places
  that ends there, so a sample that follows a younger one was put a whole lap
  before it, and is older by a lap less the clock's error: LapAgo.
* **DecodeEngine.** Futures says that the collected results are a prefix of
  finished tasks, Signals where a task has got to in its candidate, Finished
  that a finished task was right about its candidate under some value that the
  JS8 flag had during the call. SignalIsWhole rests on one sum: with room for 79
  symbols, a start half a symbol later cuts the last symbol at most, which is
  one of synchronisation.
* **MessageDecode.** Perfect says that in the loop no guess was perfect so far
  and that, when the least number of errors is zero, it is plain's: that ties
  *ok, of the best guess, to plain, of the last. Mapped and the lemma
  PlaceInjective (later data tones have more data tones before them) give
  DemapsSurvivors, with the Gray tables compared over their eight entries. These
  proofs hold for any guesses of belief propagation. HeardIsNeverCorrected bounds
  them: KeepInv says that `reach` stays at 112 thousandths or less, since
  half the sum of an LLR and two messages is then at most 612, fast_tanh of it
  at most 557, the product of five such at most 55, and twice fast_atanh of that
  at most 112 again; three such messages do not outweigh an LLR of 1. CleanIsRejected combines it with DemapsSurvivors: every guess is
  the complement of the code word, and a check of odd size fails on it.
  The CRC, the parity checks and the encoder are linear (CrcLinear,
  OddRowsLinear): what they say of a sum of words is the sum of what they say of
  each. So damage is noticed alike whatever word it is done to, and what TLC
  evaluates for 91 single bits and for one message (TablesAgree,
  CrcSeesTwoFlips) holds for every payload: that is EncoderPassesChecks,
  DamageIsSeenAlike and RightWordsDiffer. These need inductions over numbers and
  finite sets; the library's induction theorems take operators, so the module
  has its own about sets (LeastNumber, SetInduction) and one that a recursive
  function is what its equations say (RecursionExists). GetBits is read bit by
  bit in the same way, which gives TextTellsPayload and PaddedIsFt8.
* **WebServer.** Lifetime says which handlers are still to be removed and that
  those behind `at` are empty; Readings that what an answer has read lies
  between its beginning and now, and that the decoder is at most one frame
  between its two stores.

### What liveness rests on

Liveness itself is out of the prover's reach, but not what it rests on: that
steps run out, and that until then there is one to take. Each of these was
checked by TLC on the instances of section 3 first.

* **Steps run out.** A natural number goes down with every step of the threads
  concerned, and no step of anybody else raises it: Work in a stopped queue
  (StopMakesProgress; only a new call of push adds to it), StepsLeft of the
  application after SIGINT (ShutdownMakesProgress), CallLeft within a call of
  process (CallMakesProgress), DecodeLeft in decode (DecodeEnds, at most
  3 * MaxIters + 5 steps). A queued frame costs six steps in StepsLeft and a
  queued batch two, so that what the decoder pops is worth more than what it
  pushes; a step that wakes all sleepers of a queue is summed over cardinalities
  (WithLeft(k): the threads with at least k steps left).
* **There is one to take.** NobodyStuck, NoShutdownDeadlock and CallNeverStuck
  say so with the guards of the actions written out (CanGo and the like), on
  which TLC has shown that they are exactly when the actions are enabled.
  NobodyStuck follows from NoLostWakeup and the mutual exclusion of IndInv,
  NoShutdownDeadlock from StartOrder and ShutdownOrder: the joins follow the
  queues. The one wait it leaves open is the server's for a client, the condition
  of SigintEndsWhenClientsLeave. CallNeverStuck needs Signals: a candidate with
  room for its symbols has a bin and a start to settle on.
* **DestructorWaitsForFewer** says that the web server's destructor waits for a
  set of requests that only loses members: nobody enters a handler whose removal
  has begun (Lifetime), and nothing is left to be taken up once mg_stop has
  emptied the queue (Dropped).

What is left to TLC is the last step, from a number that goes down under weak
or strong fairness to "eventually".

## 6. What is only model-checked

* The liveness properties EveryValueDelivered, StopEndsEveryConsumer,
  EveryFrameSettled, SigintEndsWhenClientsLeave, CancelEndsWorker, ProcessEnds,
  TakenUpUnlessPoolTaken and DestructorEnds: liveness under fairness and
  ENABLED are out of the prover's reach. For StopEndsEveryConsumer,
  SigintEndsWhenClientsLeave, ProcessEnds and DestructorEnds the safety facts
  they rest on are proved ("What liveness rests on"); EveryFrameSettled asks in
  addition for progress while the application runs, and CancelEndsWorker and
  TakenUpUnlessPoolTaken depend on librtlsdr and on the clients.
* TablesAgree and CrcSeesTwoFlips: they are finite facts about the tables of
  this one code, which TLC evaluates at their real size. EncoderPassesChecks,
  DamageIsSeenAlike and RightWordsDiffer carry them to every payload.
* The violated properties, which are existence claims: TLC shows a behaviour.

## 7. What is not modelled, and why

* Configuration, logging, the dashboard page: text handling and output without
  interaction. The log's mutex is never held across another lock.
* Unit tests and vendored catch.hpp. The FT4 tables and the Costas pattern of
  constants.c, and ldpc_decode: nothing in the program reads or calls them.
* The numbers of the signal processing: spectra, the metric of detect, which
  place wins a refinement, the SNR. Real arithmetic over 180000 samples is out
  of TLC's reach; what the program does with the outcome is modelled for every
  outcome.
* Column values, and the wording of responses.
* The load of the decoder: decode_queue is unbounded in the code, and how fast
  it grows depends on decoding time.
* Memory effects of the unsynchronised fields js8_enabled_, current_preset_ and
  dev_ beyond the order of their reads and writes.

## 8. The plan

Done: ThreadSafeQueue, Pipeline, DataStore, RfInput, SampleRing, DecodeEngine,
LdpcTables, Payload, MessageDecode and WebServer, each with its abstract
specification where it has one, its run and its proofs. Left:

1. `HfDecoder`: Pipeline with RfInput's life cycle, SampleRing's frames and
   DecodeEngine's process in place of their one-step abstractions, so that
   shutdown is checked as a whole, a stop that never returns included.
2. The refinement from Pipeline's LoggerInsert to DataStore's insert through
   AtomicStore as one theorem.
