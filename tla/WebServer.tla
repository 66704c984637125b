----------------------------- MODULE WebServer ------------------------------
(***************************************************************************)
(* src/web_server.cpp: WebServer adds six handlers to a CivetServer that   *)
(* already runs, and takes them away before it is destroyed; meanwhile     *)
(* CivetWeb's worker threads answer the requests of the clients, among     *)
(* them event streams that end only when a write fails.                    *)
(*                                                                         *)
(* CivetWeb is external: requests wait in the order in which they came for *)
(* one of its workers; a request for a path without a handler is answered  *)
(* from the document root; removeHandler turns new requests away and waits *)
(* until nobody is inside the handler; a write to a connection that the    *)
(* client has closed fails, though the first one may not yet.              *)
(*                                                                         *)
(* The capture and the decoder thread of main.cpp appear by the atomics    *)
(* that GET /api/status reads: an atomic is the number of the frame that   *)
(* its value is about.  Pipeline.tla has the threads whole, RfInput.tla    *)
(* POST /api/band, DecodeEngine.tla POST /api/mode.                        *)
(***************************************************************************)
EXTENDS Integers, Sequences, FiniteSets

CONSTANTS
  Clients,      \* each has one request at a time
  Workers,      \* size of CivetWeb's pool
  Paths,        \* what clients ask for
  MaxRequests,  \* bound on the number of requests
  MaxFrames     \* bound on the number of captured frames

(* In the order of the members, of addHandler and of removeHandler.        *)
Handlers == <<"messages", "events", "band", "mode", "status", "audio">>
HandlerNames == {Handlers[i] : i \in 1 .. 6}

ASSUME ClientsAssumption == IsFiniteSet(Clients) /\ Workers \in Nat \ {0}
ASSUME PathsAssumption == Paths \subseteq HandlerNames
ASSUME BoundsAssumption == MaxRequests \in Nat /\ MaxFrames \in Nat

VARIABLES
  server,      \* where the server thread is in constructor and destructor
  at,          \* and at which handler
  added,       \* paths that CivetWeb has a handler for
  alive,       \* handlers that are constructed and not destroyed
  queue,       \* clients that wait for a worker
  request,     \* per client: where its request is
  path,        \* per client: what it asks for
  connected,   \* clients whose connection is open
  seen,        \* per client: what its GET /api/status has read
  since,       \* history: the atomics when it began
  requests,
  lastCapture, lastDecode, lastCount  \* the frames of which GET /api/status tells

life == <<server, at, added, alive>>
web == <<queue, request, path, connected, seen, since, requests>>
atomics == <<lastCapture, lastDecode, lastCount>>
vars == <<life, web, atomics>>

ServerLocs == {"start", "add", "serve", "remove", "destroy", "stop", "join", "done"}
StatusValues == {"capture", "decode", "count"}
Frames == 0 .. MaxFrames

TypeOK ==
  /\ server \in ServerLocs /\ at \in 0 .. 7  \* one past the last
  /\ added \subseteq HandlerNames /\ alive \subseteq HandlerNames
  /\ queue \in Seq(Clients)
  /\ request \in [Clients -> {"none", "queued", "inside", "file"}]
  /\ path \in [Clients -> HandlerNames]
  /\ connected \subseteq Clients
  /\ seen \in [Clients -> UNION {[read -> Frames] : read \in SUBSET StatusValues}]
  /\ since \in [Clients -> [capture : Frames, decode : Frames]]
  /\ requests \in 0 .. MaxRequests
  /\ lastCapture \in Frames /\ lastDecode \in Frames /\ lastCount \in Frames

Unread == [v \in {} |-> 0]
Start == [capture |-> 0, decode |-> 0]

Init ==
  /\ server = "start" /\ at = 0 /\ added = {} /\ alive = {}
  /\ queue = << >> /\ connected = {} /\ requests = 0
  /\ request = [c \in Clients |-> "none"]
  /\ path = [c \in Clients |-> Handlers[1]]
  /\ seen = [c \in Clients |-> Unread] /\ since = [c \in Clients |-> Start]
  /\ lastCapture = 0 /\ lastDecode = 0 /\ lastCount = 0

-----------------------------------------------------------------------------
(* The server thread                                                       *)

Inside(h) == {c \in Clients : request[c] = "inside" /\ path[c] = h}
InWorker == {c \in Clients : request[c] \in {"inside", "file"}}

ServerGoto(from, to) ==
  /\ server = from /\ server' = to
  /\ UNCHANGED <<web, atomics>>

(* CivetServer is running before there is a handler.                       *)
Construct ==
  /\ ServerGoto("start", "add")
  /\ at' = 1 /\ alive' = HandlerNames
  /\ UNCHANGED added

(* Fault: one addHandler more than there are handlers.                     *)
AddHandlerOnceMore ==
  /\ ServerGoto("add", IF at = 7 THEN "serve" ELSE "add")
  /\ added' = added \union {Handlers[IF at = 7 THEN 6 ELSE at]}
  /\ at' = at + 1
  /\ UNCHANGED alive

AddHandler ==
  /\ ServerGoto("add", IF at = 6 THEN "serve" ELSE "add")
  /\ added' = added \union {Handlers[at]}
  /\ at' = at + 1
  /\ UNCHANGED alive

(* main.cpp leaves its loop, and with it the scope of the server.          *)
LeaveLoop ==
  /\ ServerGoto("serve", "remove")
  /\ at' = 1 /\ added' = added \ {Handlers[1]}
  /\ UNCHANGED alive

(* Fault: removeHandler does not wait.                                     *)
RemoveAtOnce ==
  /\ ServerGoto("remove", IF at = 6 THEN "destroy" ELSE "remove")
  /\ at' = at + 1
  /\ added' = IF at = 6 THEN added ELSE added \ {Handlers[at + 1]}
  /\ UNCHANGED alive

(* removeHandler, which has let nobody in since it was called, returns     *)
(* when everybody has left; the next one is called.                        *)
RemoveHandler ==
  /\ ServerGoto("remove", IF at = 6 THEN "destroy" ELSE "remove")
  /\ Inside(Handlers[at]) = {}
  /\ at' = at + 1
  /\ added' = IF at = 6 THEN added ELSE added \ {Handlers[at + 1]}
  /\ UNCHANGED alive

(* The members are destroyed, the handlers before the server.              *)
DestroyHandlers ==
  /\ ServerGoto("destroy", "stop")
  /\ alive' = {}
  /\ UNCHANGED <<at, added>>

(* mg_stop drops what waits ...                                            *)
StopServer ==
  /\ server = "stop" /\ server' = "join"
  /\ queue' = << >>
  /\ LET dropped == {c \in Clients : request[c] = "queued"}
     IN  /\ request' = [c \in Clients |-> IF c \in dropped THEN "none" ELSE request[c]]
         /\ path' = [c \in Clients |-> IF c \in dropped THEN Handlers[1] ELSE path[c]]
         /\ connected' = connected \ dropped
  /\ UNCHANGED <<at, added, alive, seen, since, requests, atomics>>

(* ... and joins the workers.                                              *)
JoinWorkers ==
  /\ InWorker = {}
  /\ ServerGoto("join", "done")
  /\ UNCHANGED <<at, added, alive>>

ServerStep ==
  \/ Construct \/ AddHandler \/ RemoveHandler
  \/ DestroyHandlers \/ StopServer \/ JoinWorkers

-----------------------------------------------------------------------------
(* Clients and workers                                                     *)

WorkerGoto(c, to) ==
  /\ request' = [request EXCEPT ![c] = to]
  /\ UNCHANGED <<life, atomics, path, requests>>

(* A request is over, and what was noted of it.                            *)
WorkerEnds(c) ==
  /\ request' = [request EXCEPT ![c] = "none"] /\ path' = [path EXCEPT ![c] = Handlers[1]]
  /\ seen' = [seen EXCEPT ![c] = Unread] /\ since' = [since EXCEPT ![c] = Start]
  /\ connected' = connected \ {c}
  /\ UNCHANGED <<life, atomics, queue, requests>>

Ask(c) ==
  /\ server \notin {"start", "join", "done"}
  /\ request[c] = "none" /\ requests < MaxRequests /\ requests' = requests + 1
  /\ request' = [request EXCEPT ![c] = "queued"]
  /\ \E p \in Paths : path' = [path EXCEPT ![c] = p]
  /\ queue' = Append(queue, c)
  /\ connected' = connected \union {c}
  /\ UNCHANGED <<life, atomics, seen, since>>

(* The client closes the connection of its stream, or before that.  Where  *)
(* no result of a write is looked at, a connection may as well stay open.  *)
Leave(c) ==
  /\ c \in connected /\ path[c] = "events"
  /\ connected' = connected \ {c}
  /\ UNCHANGED <<life, atomics, queue, request, path, seen, since, requests>>

Take ==
  /\ queue # << >> /\ Cardinality(InWorker) < Workers
  /\ LET c == Head(queue)
     IN  /\ WorkerGoto(c, IF path[c] \in added THEN "inside" ELSE "file")
         /\ since' = IF path[c] # "status" THEN since
                     ELSE [since EXCEPT ![c] = [capture |-> lastCapture, decode |-> lastDecode]]
  /\ queue' = Tail(queue)
  /\ UNCHANGED <<connected, seen>>

(* What a handler that is not shown in steps does ends with its answer; so *)
(* does a request for a file, or for one that does not exist.              *)
Answer(c) ==
  /\ \/ request[c] = "file"
     \/ request[c] = "inside" /\ path[c] \notin {"events", "status"}
  /\ WorkerEnds(c)

(* The arguments of mg_printf are evaluated in any order.                  *)
Current(v) ==
  CASE v = "capture" -> lastCapture [] v = "decode" -> lastDecode [] v = "count" -> lastCount

ReadStatus(c) ==
  /\ c \in Inside("status")
  /\ \E v \in StatusValues \ DOMAIN seen[c] :
       seen' = [seen EXCEPT ![c] =
                  [w \in DOMAIN seen[c] \union {v} |-> IF w = v THEN Current(v) ELSE seen[c][w]]]
  /\ WorkerGoto(c, "inside")
  /\ UNCHANGED <<queue, connected, since>>

AnswerStatus(c) ==
  /\ c \in Inside("status") /\ DOMAIN seen[c] = StatusValues
  /\ WorkerEnds(c)

InStream == UNCHANGED <<queue, connected, seen, since>>

(* Fault: the result of the write is not looked at.                        *)
TickRegardless(c) == c \in Inside("events") /\ WorkerGoto(c, "inside") /\ InStream

(* A tick every 15 s; one that is written changes nothing.                 *)
Tick(c) ==
  /\ c \in Inside("events")
  /\ \/ WorkerGoto(c, "inside") /\ InStream
     \/ c \notin connected /\ WorkerEnds(c)

WorkerStep(c) == Answer(c) \/ ReadStatus(c) \/ AnswerStatus(c) \/ Tick(c)

-----------------------------------------------------------------------------
(* The capture and the decoder thread                                      *)

Elsewhere == UNCHANGED <<life, web>>

(* The frame is pushed to the decoder next.                                *)
CaptureStamp ==
  /\ lastCapture < MaxFrames
  /\ lastCapture' = lastCapture + 1
  /\ UNCHANGED <<lastDecode, lastCount>> /\ Elsewhere

DecoderStamp ==
  /\ lastCount = lastDecode /\ lastDecode < lastCapture
  /\ lastDecode' = lastDecode + 1
  /\ UNCHANGED <<lastCapture, lastCount>> /\ Elsewhere

(* Fault: no count is stored for a frame without messages.                 *)
DecoderCountIfAny ==
  /\ lastCount < lastDecode
  /\ \/ lastCount' = lastDecode /\ UNCHANGED lastDecode
     \/ lastDecode < lastCapture /\ lastDecode' = lastDecode + 1 /\ UNCHANGED lastCount
  /\ UNCHANGED lastCapture /\ Elsewhere

DecoderCount ==
  /\ lastCount < lastDecode
  /\ lastCount' = lastDecode
  /\ UNCHANGED <<lastCapture, lastDecode>> /\ Elsewhere

Next ==
  \/ ServerStep \/ LeaveLoop
  \/ Take \/ \E c \in Clients : Ask(c) \/ Leave(c) \/ WorkerStep(c)
  \/ CaptureStamp \/ DecoderStamp \/ DecoderCount

Spec == Init /\ [][Next]_vars

(***************************************************************************)
(* Threads are scheduled.  SIGINT may never come, clients may ask nothing, *)
(* and leave their streams open for ever.                                  *)
(***************************************************************************)
FairSpec ==
  /\ Spec
  /\ WF_vars(ServerStep) /\ WF_vars(Take)
  /\ \A c \in Clients : WF_vars(WorkerStep(c))

-----------------------------------------------------------------------------
(* Properties                                                              *)

(* No request is in a handler that was destroyed, or can get into one:     *)
(* removing one waits for the requests in it, all are removed before any   *)
(* is destroyed, and they were all constructed before the first was added. *)
HandlerAliveWhileUsed ==
  added \subseteq alive /\ \A c \in Clients : request[c] = "inside" => path[c] \in alive

(* The values of GET /api/status are read one after the other and belong   *)
(* to different frames, but to frames as close to each other as the time   *)
(* that the answer took: the decoding that is reported and the count are   *)
(* at most one frame further apart than the frames decoded meanwhile, and  *)
(* no decoding is reported of a frame captured after the answer was begun  *)
(* but for those captured meanwhile.                                       *)
StatusOfNeighbours ==
  \A c \in Inside("status") :
    DOMAIN seen[c] = StatusValues =>
      LET decoded == lastDecode - since[c].decode
          captured == lastCapture - since[c].capture
      IN  /\ seen[c]["decode"] - seen[c]["count"] \in -decoded .. decoded + 1
          /\ seen[c]["decode"] <= seen[c]["capture"] + captured

(* A request is taken up sooner or later, unless dashboards that stay open *)
(* hold all of CivetWeb's workers for ever: a stream whose client has left *)
(* gives its worker back.                                                  *)
PoolTaken == Cardinality(Inside("events") \intersect connected) = Workers
TakenUpUnlessPoolTaken ==
  \A c \in Clients : <>[]PoolTaken \/ (request[c] = "queued" ~> request[c] # "queued")

(* The destructor returns, unless a dashboard stays open for ever: every   *)
(* request leaves its handler, and nothing that is asked meanwhile holds   *)
(* it up.                                                                  *)
DestructorEnds ==
  []<>(Inside("events") \intersect connected = {}) => (server = "remove" ~> server = "done")

(* The inductive strengthening used in WebServerProofs.                    *)

(* Handlers leave the server in their order, each empty, before they die.  *)
Lifetime ==
  /\ alive = IF server \in {"add", "serve", "remove", "destroy"} THEN HandlerNames ELSE {}
  /\ server \in {"start", "destroy", "stop", "join", "done"} =>
       added = {} /\ \A c \in Clients : request[c] # "inside"
  /\ server \in {"add", "remove"} => at \in 1 .. 6
  /\ server = "remove" =>
       /\ \A i \in 1 .. at : Handlers[i] \notin added
       /\ \A i \in 1 .. at - 1 : Inside(Handlers[i]) = {}

(* A client waits once in the queue.                                       *)
Queued ==
  /\ \A i \in 1 .. Len(queue) : request[queue[i]] = "queued"
  /\ \A i, j \in 1 .. Len(queue) : queue[i] = queue[j] => i = j

(* What an answer has read lies between its begin and now.                 *)
Readings ==
  /\ lastCount <= lastDecode /\ lastDecode <= lastCount + 1 /\ lastDecode <= lastCapture
  /\ \A c \in Clients :
       IF c \in Inside("status")
       THEN /\ since[c].decode <= lastDecode /\ since[c].capture <= lastCapture
            /\ "capture" \in DOMAIN seen[c] => seen[c]["capture"] \in since[c].capture .. lastCapture
            /\ "decode" \in DOMAIN seen[c] => seen[c]["decode"] \in since[c].decode .. lastDecode
            /\ "count" \in DOMAIN seen[c] => seen[c]["count"] \in since[c].decode - 1 .. lastDecode
       ELSE seen[c] = Unread

IndInv == TypeOK /\ Lifetime /\ Queued /\ Readings

-----------------------------------------------------------------------------
(* What the end of the destructor rests on.                                *)

(* Nobody waits for a worker once the server has stopped.                  *)
Dropped == server \in {"join", "done"} => queue = << >>

(* While removeHandler waits, requests only leave its handler and those    *)
(* removed before it, and while mg_stop waits, workers only finish: what   *)
(* clients ask meanwhile never adds to what the destructor waits for.      *)
WaitShrinks ==
  [][/\ server = "remove" =>
          \A i \in 1 .. at : \A c \in Clients :
            request'[c] = "inside" /\ path'[c] = Handlers[i] => c \in Inside(Handlers[i])
     /\ server = "join" =>
          \A c \in Clients : request'[c] \in {"inside", "file"} => c \in InWorker]_vars
=============================================================================
