-------------------------- MODULE WebServerProofs ---------------------------
(***************************************************************************)
(* Proofs about WebServer.tla, for any number of clients, workers,         *)
(* requests and frames.                                                    *)
(***************************************************************************)
EXTENDS WebServer, TLAPS

(* The six paths are different, and there is no other.                     *)
LEMMA SixHandlers ==
  /\ \A i \in 1 .. 6 : Handlers[i] \in HandlerNames
  /\ \A h \in HandlerNames : \E i \in 1 .. 6 : h = Handlers[i]
  /\ \A i, j \in 1 .. 6 : Handlers[i] = Handlers[j] => i = j
  /\ {"events", "status"} \subseteq HandlerNames
<1>1. \A i \in 1 .. 6 : i \in {1, 2, 3, 4, 5, 6}
  OBVIOUS
<1>2. /\ Handlers[1] = "messages" /\ Handlers[2] = "events" /\ Handlers[3] = "band"
      /\ Handlers[4] = "mode" /\ Handlers[5] = "status" /\ Handlers[6] = "audio"
  BY DEF Handlers
<1>3. \A i, j \in 1 .. 6 : Handlers[i] = Handlers[j] => i = j
  <2> HIDE DEF Handlers
  <2> QED
    BY <1>1, <1>2
<1> QED
  BY <1>2, <1>3 DEF HandlerNames

(* What TypeOK says of one client.                                         *)
LEMMA ClientTypes ==
  ASSUME TypeOK, NEW c \in Clients
  PROVE  /\ request[c] \in {"none", "queued", "inside", "file"}
         /\ path[c] \in HandlerNames
         /\ since[c] \in [capture : Frames, decode : Frames]
         /\ \E read \in SUBSET StatusValues : seen[c] \in [read -> Frames]
BY DEF TypeOK

LEMMA UnreadType ==
  /\ Unread \in UNION {[read -> Frames] : read \in SUBSET StatusValues}
  /\ DOMAIN Unread = {}
<1>1. {} \in SUBSET StatusValues /\ Unread \in [{} -> Frames]
  BY DEF Unread
<1> QED
  BY <1>1

LEMMA StartType == Start \in [capture : Frames, decode : Frames]
BY BoundsAssumption DEF Start, Frames

LEMMA InitInv == Init => IndInv
<1> SUFFICES ASSUME Init PROVE IndInv
  OBVIOUS
<1> USE DEF Init
<1>1. TypeOK
  <2>1. seen \in [Clients -> UNION {[read -> Frames] : read \in SUBSET StatusValues}]
    BY UnreadType
  <2>2. path \in [Clients -> HandlerNames]
    BY SixHandlers
  <2>3. since \in [Clients -> [capture : Frames, decode : Frames]]
    BY StartType
  <2>4. << >> \in Seq(Clients)
    OBVIOUS
  <2>5. 0 \in Frames /\ requests \in 0 .. MaxRequests
    BY BoundsAssumption DEF Frames
  <2> QED
    BY <2>1, <2>2, <2>3, <2>4, <2>5 DEF TypeOK, ServerLocs
<1>2. Lifetime /\ Queued
  BY DEF Lifetime, Queued
<1>3. Readings
  BY DEF Readings, Inside
<1> QED
  BY <1>1, <1>2, <1>3 DEF IndInv

-----------------------------------------------------------------------------
(* The server thread                                                       *)

LEMMA ServerTypes ==
  ASSUME IndInv, ServerStep \/ LeaveLoop
  PROVE  TypeOK'
<1> USE DEF IndInv
<1>1. CASE Construct
  BY <1>1 DEF Construct, ServerGoto, TypeOK, ServerLocs, web, atomics
<1>2. CASE AddHandler
  <2>1. at \in 1 .. 6
    BY <1>2 DEF AddHandler, ServerGoto, Lifetime
  <2> QED
    BY <1>2, <2>1, SixHandlers DEF AddHandler, ServerGoto, TypeOK, ServerLocs, web, atomics
<1>3. CASE LeaveLoop
  BY <1>3 DEF LeaveLoop, ServerGoto, TypeOK, ServerLocs, web, atomics
<1>4. CASE RemoveHandler
  <2>1. at \in 1 .. 6
    BY <1>4 DEF RemoveHandler, ServerGoto, Lifetime
  <2> QED
    BY <1>4, <2>1 DEF RemoveHandler, ServerGoto, TypeOK, ServerLocs, web, atomics
<1>5. CASE DestroyHandlers \/ JoinWorkers
  BY <1>5 DEF DestroyHandlers, JoinWorkers, ServerGoto, TypeOK, ServerLocs, web, atomics
<1>6. CASE StopServer
  <2>1. << >> \in Seq(Clients)
    OBVIOUS
  <2> QED
    BY <1>6, <2>1, SixHandlers DEF StopServer, TypeOK, ServerLocs, atomics
<1> QED
  BY <1>1, <1>2, <1>3, <1>4, <1>5, <1>6 DEF ServerStep

(* A handler is taken away only when nobody is in it, and nobody gets in   *)
(* after that.                                                             *)
LEMMA ServerLife ==
  ASSUME IndInv, ServerStep \/ LeaveLoop
  PROVE  Lifetime'
<1> USE DEF IndInv
<1>1. CASE Construct
  BY <1>1 DEF Construct, ServerGoto, Lifetime, web
<1>2. CASE AddHandler
  BY <1>2 DEF AddHandler, ServerGoto, Lifetime, web
<1>3. CASE LeaveLoop
  <2>1. 1 .. at' - 1 = {} /\ 1 .. at' = {1}
    BY <1>3 DEF LeaveLoop
  <2> QED
    BY <1>3, <2>1 DEF LeaveLoop, ServerGoto, Lifetime, web
<1>4. CASE RemoveHandler
  <2>1. /\ server = "remove" /\ at \in 1 .. 6 /\ at' = at + 1
        /\ server' = (IF at = 6 THEN "destroy" ELSE "remove")
        /\ Inside(Handlers[at]) = {} /\ UNCHANGED <<alive, request, path>>
        /\ added' = (IF at = 6 THEN added ELSE added \ {Handlers[at + 1]})
    BY <1>4 DEF RemoveHandler, ServerGoto, Lifetime, web
  <2>2. /\ \A i \in 1 .. at : Handlers[i] \notin added /\ Inside(Handlers[i]) = {}
        /\ alive = HandlerNames
    <3>1. \A i \in 1 .. at : i \in 1 .. at - 1 \/ i = at
      BY <2>1
    <3> QED
      BY <2>1, <3>1 DEF Lifetime
  <2>3. CASE at = 6
    <3>1. added = {}
      BY <2>2, <2>3, SixHandlers DEF TypeOK
    <3>2. \A c \in Clients : request[c] # "inside"
      BY <2>2, <2>3, SixHandlers, ClientTypes DEF Inside
    <3> QED
      BY <2>1, <2>2, <2>3, <3>1, <3>2 DEF Lifetime
  <2>4. CASE at # 6
    <3>1. /\ \A i \in 1 .. at' : i \in 1 .. at \/ i = at + 1
          /\ at' - 1 = at /\ at' \in 1 .. 6
      BY <2>1, <2>4
    <3>2. \A i \in 1 .. at' : Handlers[i] \notin added'
      BY <2>1, <2>2, <2>4, <3>1
    <3>3. \A i \in 1 .. at' - 1 : Inside(Handlers[i])' = {}
      BY <2>1, <2>2, <3>1 DEF Inside
    <3> QED
      BY <2>1, <2>2, <2>4, <3>1, <3>2, <3>3 DEF Lifetime
  <2> QED
    BY <2>3, <2>4
<1>5. CASE DestroyHandlers \/ JoinWorkers
  BY <1>5 DEF DestroyHandlers, JoinWorkers, ServerGoto, Lifetime, web
<1>6. CASE StopServer
  BY <1>6, ClientTypes DEF StopServer, Lifetime
<1> QED
  BY <1>1, <1>2, <1>3, <1>4, <1>5, <1>6 DEF ServerStep

LEMMA ServerInv ==
  ASSUME IndInv, ServerStep \/ LeaveLoop
  PROVE  IndInv'
<1> USE DEF IndInv
<1>1. CASE StopServer
  <2>1. Queued'
    BY <1>1 DEF StopServer, Queued
  <2>2. \A c \in Clients : c \in Inside("status")' <=> c \in Inside("status")
    BY <1>1 DEF StopServer, Inside, TypeOK
  <2>3. Readings'
    BY <1>1, <2>2 DEF StopServer, Readings, atomics
  <2> QED
    BY <2>1, <2>3, ServerTypes, ServerLife
<1>2. CASE ~StopServer
  <2>1. UNCHANGED <<web, atomics>>
    BY <1>2 DEF ServerStep, Construct, AddHandler, LeaveLoop, RemoveHandler, DestroyHandlers,
       JoinWorkers, ServerGoto
  <2>2. Queued' /\ Readings'
    BY <2>1 DEF web, atomics, Queued, Readings, Inside
  <2> QED
    BY <2>2, ServerTypes, ServerLife
<1> QED
  BY <1>1, <1>2

-----------------------------------------------------------------------------
(* Clients and workers                                                     *)

(* Lifetime needs no more of a request than that nobody gets into a        *)
(* handler that is not added.                                              *)
LEMMA LifeKept ==
  ASSUME Lifetime, UNCHANGED life,
         \A c \in Clients : request'[c] = "inside" =>
           \/ request[c] = "inside" /\ path'[c] = path[c]
           \/ path'[c] \in added
  PROVE  Lifetime'
<1>1. UNCHANGED <<server, at, added, alive>>
  BY DEF life
<1>2. \A h : Inside(h) = {} /\ h \notin added => Inside(h)' = {}
  BY DEF Inside
<1>3. server = "remove" =>
        \A i \in 1 .. at - 1 : Handlers[i] \notin added /\ Inside(Handlers[i]) = {}
  <2>1. server = "remove" => \A i \in 1 .. at - 1 : i \in 1 .. at
    BY DEF Lifetime
  <2> QED
    BY <2>1 DEF Lifetime
<1> QED
  BY <1>1, <1>2, <1>3 DEF Lifetime

(* Readings needs no more of the other clients than that they stay.        *)
LEMMA OthersRead ==
  ASSUME IndInv, UNCHANGED atomics, NEW c \in Clients,
         \A d \in Clients \ {c} : /\ seen'[d] = seen[d] /\ since'[d] = since[d]
                                  /\ d \in Inside("status")' <=> d \in Inside("status"),
         c \notin Inside("status")', seen'[c] = Unread
  PROVE  Readings'
<1>1. UNCHANGED <<lastCapture, lastDecode, lastCount>>
  BY DEF atomics
<1>2. ASSUME NEW d \in Clients, d # c
      PROVE  seen'[d] = seen[d] /\ since'[d] = since[d]
             /\ (d \in Inside("status")' <=> d \in Inside("status"))
  BY <1>2
<1> QED
  BY <1>1, <1>2 DEF IndInv, Readings

LEMMA EndInv ==
  ASSUME IndInv, NEW c \in Clients, WorkerEnds(c), request[c] # "queued"
  PROVE  IndInv'
<1> USE DEF IndInv
<1>1. TypeOK'
  <2>1. seen' \in [Clients -> UNION {[read -> Frames] : read \in SUBSET StatusValues}]
    BY UnreadType DEF TypeOK, WorkerEnds
  <2>2. since' \in [Clients -> [capture : Frames, decode : Frames]]
    BY StartType DEF TypeOK, WorkerEnds
  <2>3. /\ path' \in [Clients -> HandlerNames]
        /\ request' \in [Clients -> {"none", "queued", "inside", "file"}]
    BY SixHandlers DEF TypeOK, WorkerEnds
  <2> QED
    BY <2>1, <2>2, <2>3 DEF TypeOK, WorkerEnds, life, atomics
<1>2. Lifetime'
  <2>1. \A d \in Clients : request'[d] = "inside" => request[d] = "inside" /\ path'[d] = path[d]
    BY DEF WorkerEnds, TypeOK
  <2> QED
    BY <2>1, LifeKept DEF WorkerEnds
<1>3. Queued'
  <2>1. \A i \in 1 .. Len(queue) : queue[i] \in Clients /\ queue[i] # c
    BY DEF Queued, TypeOK
  <2> QED
    BY <2>1 DEF Queued, WorkerEnds, TypeOK
<1>4. Readings'
  <2>1. /\ \A d \in Clients \ {c} : /\ seen'[d] = seen[d] /\ since'[d] = since[d]
                                    /\ d \in Inside("status")' <=> d \in Inside("status")
        /\ c \notin Inside("status")' /\ seen'[c] = Unread
    BY DEF WorkerEnds, TypeOK, Inside
  <2> QED
    BY <2>1, OthersRead DEF WorkerEnds
<1> QED
  BY <1>1, <1>2, <1>3, <1>4

LEMMA AskInv ==
  ASSUME IndInv, NEW c \in Clients, Ask(c)
  PROVE  IndInv'
<1> USE DEF IndInv
<1>1. /\ request[c] = "none" /\ request' = [request EXCEPT ![c] = "queued"]
      /\ queue' = Append(queue, c) /\ queue \in Seq(Clients)
      /\ UNCHANGED <<life, atomics, seen, since>>
  BY DEF Ask, TypeOK
<1>2. PICK p \in HandlerNames : path' = [path EXCEPT ![c] = p]
  BY PathsAssumption DEF Ask
<1>3. TypeOK'
  <2>1. queue' \in Seq(Clients)
    BY <1>1
  <2>2. requests' \in 0 .. MaxRequests
    BY BoundsAssumption DEF Ask, TypeOK
  <2> QED
    BY <1>1, <1>2, <2>1, <2>2 DEF TypeOK, life, atomics, Ask
<1>4. Lifetime'
  <2>1. \A d \in Clients : request'[d] = "inside" => request[d] = "inside" /\ path'[d] = path[d]
    BY <1>1, <1>2 DEF TypeOK
  <2> QED
    BY <1>1, <2>1, LifeKept
<1>5. Queued'
  <2>1. /\ Len(queue') = Len(queue) + 1 /\ Len(queue) \in Nat /\ queue'[Len(queue) + 1] = c
        /\ \A i \in 1 .. Len(queue) : queue'[i] = queue[i] /\ queue[i] \in Clients
    BY <1>1
  <2>2. \A i \in 1 .. Len(queue) : queue[i] # c
    BY <1>1 DEF Queued
  <2>3. \A i \in 1 .. Len(queue') : i \in 1 .. Len(queue) \/ i = Len(queue) + 1
    BY <2>1
  <2>4. \A d \in Clients : request[d] = "queued" => request'[d] = "queued"
    BY <1>1 DEF TypeOK
  <2>5. request'[c] = "queued"
    BY <1>1 DEF TypeOK
  <2>6. ASSUME NEW i \in 1 .. Len(queue') PROVE request'[queue'[i]] = "queued"
    BY <2>1, <2>3, <2>4, <2>5 DEF Queued
  <2>7. ASSUME NEW i \in 1 .. Len(queue'), NEW j \in 1 .. Len(queue'), queue'[i] = queue'[j]
        PROVE  i = j
    BY <2>1, <2>2, <2>3, <2>7 DEF Queued
  <2> QED
    BY <2>6, <2>7 DEF Queued
<1>6. Readings'
  <2>1. c \notin Inside("status") /\ seen[c] = Unread
    BY <1>1 DEF Inside, Readings
  <2>2. c \notin Inside("status")'
        /\ \A d \in Clients \ {c} : d \in Inside("status")' <=> d \in Inside("status")
    BY <1>1, <1>2 DEF Inside, TypeOK
  <2> QED
    BY <1>1, <2>1, <2>2, OthersRead
<1> QED
  BY <1>3, <1>4, <1>5, <1>6

LEMMA LeaveInv ==
  ASSUME IndInv, NEW c \in Clients, Leave(c)
  PROVE  IndInv'
<1>1. UNCHANGED <<life, atomics, queue, request, path, seen, since, requests>>
      /\ connected' \subseteq connected
  BY DEF Leave
<1>2. TypeOK'
  BY <1>1 DEF IndInv, TypeOK, life, atomics
<1>3. Lifetime' /\ Queued' /\ Readings'
  BY <1>1 DEF IndInv, Lifetime, Queued, Readings, Inside, life, atomics
<1> QED
  BY <1>2, <1>3 DEF IndInv

LEMMA TakeInv ==
  ASSUME IndInv, Take
  PROVE  IndInv'
<1> USE DEF IndInv
<1> DEFINE c == Head(queue)
           to == IF path[c] \in added THEN "inside" ELSE "file"
<1>1. queue \in Seq(Clients) /\ queue # << >>
  BY DEF Take, TypeOK
<1>2. /\ c \in Clients /\ c = queue[1] /\ Len(queue) \in Nat \ {0}
      /\ queue' \in Seq(Clients) /\ Len(queue') = Len(queue) - 1
      /\ \A i \in 1 .. Len(queue') : queue'[i] = queue[i + 1] /\ i + 1 \in 1 .. Len(queue)
  BY <1>1 DEF Take
<1>3. request[c] = "queued"
  BY <1>2 DEF Queued
<1>4. /\ request' = [request EXCEPT ![c] = to]
      /\ UNCHANGED <<life, atomics, path, requests, connected, seen>>
      /\ since' = IF path[c] # "status" THEN since
                  ELSE [since EXCEPT ![c] = [capture |-> lastCapture, decode |-> lastDecode]]
  BY DEF Take, WorkerGoto
<1>5. TypeOK'
  <2>1. request' \in [Clients -> {"none", "queued", "inside", "file"}]
    BY <1>2, <1>4 DEF TypeOK
  <2>2. since' \in [Clients -> [capture : Frames, decode : Frames]]
    BY <1>2, <1>4 DEF TypeOK
  <2> QED
    BY <1>2, <1>4, <2>1, <2>2 DEF TypeOK, life, atomics
<1>6. Lifetime'
  <2>1. \A d \in Clients : request'[d] = "inside" =>
          (request[d] = "inside" /\ path'[d] = path[d]) \/ path'[d] \in added
    BY <1>2, <1>4 DEF TypeOK
  <2> QED
    BY <1>4, <2>1, LifeKept
<1>7. Queued'
  <2>1. \A i \in 1 .. Len(queue) : queue[i] \in Clients
    BY <1>1
  <2>2. ASSUME NEW i \in 1 .. Len(queue') PROVE request'[queue'[i]] = "queued"
    <3>1. i + 1 # 1 /\ 1 \in 1 .. Len(queue)
      BY <1>2
    <3>2. queue'[i] # c
      BY <1>2, <3>1 DEF Queued
    <3>3. /\ i + 1 \in 1 .. Len(queue) /\ queue'[i] = queue[i + 1]
          /\ queue'[i] \in Clients
      BY <1>2, <2>1
    <3>4. request[queue'[i]] = "queued"
      BY <3>3, ZenonT(30) DEF Queued
    <3>5. request \in [Clients -> {"none", "queued", "inside", "file"}]
      BY DEF TypeOK
    <3> QED
      BY <1>4, <3>2, <3>3, <3>4, <3>5, SMTT(30)
  <2>3. ASSUME NEW i \in 1 .. Len(queue'), NEW j \in 1 .. Len(queue'), queue'[i] = queue'[j]
        PROVE  i = j
    <3>1. /\ i + 1 \in 1 .. Len(queue) /\ j + 1 \in 1 .. Len(queue)
          /\ queue[i + 1] = queue[j + 1]
      BY <1>2, <2>3
    <3>2. i + 1 = j + 1
      BY <3>1 DEF Queued
    <3> QED
      BY <1>2, <3>2
  <2> QED
    BY <2>2, <2>3 DEF Queued
<1>8. Readings'
  <2>1. c \notin Inside("status") /\ seen[c] = Unread /\ DOMAIN seen[c] = {}
    BY <1>2, <1>3, UnreadType DEF Inside, Readings
  <2>2. \A d \in Clients \ {c} : /\ since'[d] = since[d]
                                 /\ d \in Inside("status")' <=> d \in Inside("status")
    BY <1>2, <1>4 DEF Inside, TypeOK
  <2>3. CASE path[c] = "status"
    <3>1. since'[c].decode = lastDecode /\ since'[c].capture = lastCapture
      BY <1>2, <1>4, <2>3 DEF TypeOK
    <3>2. lastDecode <= lastDecode /\ lastCapture <= lastCapture
      BY BoundsAssumption DEF TypeOK, Frames
    <3>3. UNCHANGED <<lastCapture, lastDecode, lastCount, seen>>
      BY <1>4 DEF atomics
    <3>4. ASSUME NEW d \in Clients, d # c
          PROVE  since'[d] = since[d] /\ (d \in Inside("status")' <=> d \in Inside("status"))
      BY <2>2, <3>4
    <3>5. ASSUME NEW d \in Clients, d # c
          PROVE  IF d \in Inside("status")'
                 THEN /\ since'[d].decode <= lastDecode' /\ since'[d].capture <= lastCapture'
                      /\ "capture" \in DOMAIN seen'[d] =>
                           seen'[d]["capture"] \in since'[d].capture .. lastCapture'
                      /\ "decode" \in DOMAIN seen'[d] =>
                           seen'[d]["decode"] \in since'[d].decode .. lastDecode'
                      /\ "count" \in DOMAIN seen'[d] =>
                           seen'[d]["count"] \in since'[d].decode - 1 .. lastDecode'
                 ELSE seen'[d] = Unread
      BY <3>3, <3>4, <3>5 DEF Readings
    <3>6. lastDecode' <= lastCapture' /\ lastCount' <= lastDecode' /\ lastDecode' <= lastCount' + 1
      BY <3>3 DEF Readings
    <3>7. /\ since'[c].decode <= lastDecode' /\ since'[c].capture <= lastCapture'
          /\ DOMAIN seen'[c] = {} /\ seen'[c] = Unread
      BY <2>1, <3>1, <3>2, <3>3
    <3>8. /\ "capture" \notin DOMAIN seen'[c] /\ "decode" \notin DOMAIN seen'[c]
          /\ "count" \notin DOMAIN seen'[c]
      BY <3>7
    <3> HIDE DEF c, IndInv
    <3> QED
      BY <3>5, <3>6, <3>7, <3>8 DEF Readings
  <2>4. CASE path[c] # "status"
    <3>1. c \notin Inside("status")'
      BY <1>4, <2>4 DEF Inside
    <3> QED
      BY <1>2, <1>4, <2>1, <2>2, <3>1, OthersRead
  <2> QED
    BY <2>3, <2>4
<1> QED
  BY <1>5, <1>6, <1>7, <1>8

LEMMA ReadInv ==
  ASSUME IndInv, NEW c \in Clients, ReadStatus(c)
  PROVE  IndInv'
<1> USE DEF IndInv
<1>1. /\ c \in Inside("status") /\ request[c] = "inside"
      /\ UNCHANGED <<life, atomics, path, requests, queue, connected, since>>
      /\ request' = [request EXCEPT ![c] = "inside"]
  BY DEF ReadStatus, WorkerGoto, Inside
<1>2. UNCHANGED request
  BY <1>1 DEF TypeOK
<1>3. PICK v \in StatusValues \ DOMAIN seen[c] :
        seen' = [seen EXCEPT ![c] =
                   [w \in DOMAIN seen[c] \union {v} |-> IF w = v THEN Current(v) ELSE seen[c][w]]]
  BY DEF ReadStatus
<1> DEFINE now == [w \in DOMAIN seen[c] \union {v} |-> IF w = v THEN Current(v) ELSE seen[c][w]]
<1>4. seen'[c] = now /\ \A d \in Clients \ {c} : seen'[d] = seen[d]
  BY <1>3 DEF TypeOK
<1>5. Current(v) \in Frames
  BY <1>3 DEF Current, StatusValues, TypeOK
<1>6. TypeOK'
  <2>1. PICK read \in SUBSET StatusValues : seen[c] \in [read -> Frames]
    BY ClientTypes
  <2>2. read \union {v} \in SUBSET StatusValues /\ now \in [read \union {v} -> Frames]
    BY <1>3, <1>5, <2>1
  <2>3. seen' \in [Clients -> UNION {[r -> Frames] : r \in SUBSET StatusValues}]
    <3>1. now \in UNION {[r -> Frames] : r \in SUBSET StatusValues}
      BY <2>2
    <3> HIDE DEF now
    <3> QED
      BY <1>3, <3>1 DEF TypeOK, now
  <2> QED
    BY <1>1, <1>2, <2>3 DEF TypeOK, life, atomics
<1>7. Lifetime' /\ Queued'
  BY <1>1, <1>2 DEF Lifetime, Queued, Inside, life
<1>8. Readings'
  <2>1. /\ lastCapture \in Nat /\ lastDecode \in Nat /\ lastCount \in Nat
        /\ since[c].capture \in Nat /\ since[c].decode \in Nat
    BY BoundsAssumption, ClientTypes DEF TypeOK, Frames
  <2>2. /\ since[c].decode <= lastDecode /\ since[c].capture <= lastCapture
        /\ lastCount <= lastDecode /\ lastDecode <= lastCount + 1
        /\ "capture" \in DOMAIN seen[c] => seen[c]["capture"] \in since[c].capture .. lastCapture
        /\ "decode" \in DOMAIN seen[c] => seen[c]["decode"] \in since[c].decode .. lastDecode
        /\ "count" \in DOMAIN seen[c] => seen[c]["count"] \in since[c].decode - 1 .. lastDecode
    BY <1>1 DEF Readings
  <2>3. /\ lastCapture \in since[c].capture .. lastCapture
        /\ lastDecode \in since[c].decode .. lastDecode
        /\ lastCount \in since[c].decode - 1 .. lastDecode
    BY <2>1, <2>2
  <2>4. \A w \in DOMAIN now : now[w] = IF w = v THEN Current(v) ELSE seen[c][w]
    OBVIOUS
  <2>5. DOMAIN now = DOMAIN seen[c] \union {v}
    OBVIOUS
  <2> HIDE DEF now
  <2>6. /\ "capture" \in DOMAIN now => now["capture"] \in since[c].capture .. lastCapture
        /\ "decode" \in DOMAIN now => now["decode"] \in since[c].decode .. lastDecode
        /\ "count" \in DOMAIN now => now["count"] \in since[c].decode - 1 .. lastDecode
    BY <2>2, <2>3, <2>4, <2>5 DEF Current
  <2>7. Inside("status")' = Inside("status")
    BY <1>1, <1>2 DEF Inside
  <2> QED
    BY <1>1, <1>4, <2>2, <2>6, <2>7 DEF Readings, atomics
<1> QED
  BY <1>6, <1>7, <1>8

LEMMA WorkerInv ==
  ASSUME IndInv, NEW c \in Clients, WorkerStep(c)
  PROVE  IndInv'
<1>1. CASE Answer(c) \/ AnswerStatus(c)
  <2>1. WorkerEnds(c) /\ request[c] # "queued"
    BY <1>1 DEF Answer, AnswerStatus, Inside
  <2> QED
    BY <2>1, EndInv
<1>2. CASE ReadStatus(c)
  BY <1>2, ReadInv
<1>3. CASE Tick(c)
  <2>1. request[c] = "inside"
    BY <1>3 DEF Tick, Inside
  <2>2. CASE WorkerEnds(c)
    BY <2>1, <2>2, EndInv
  <2>3. CASE WorkerGoto(c, "inside") /\ InStream
    <3>1. UNCHANGED vars
      BY <2>1, <2>3 DEF IndInv, TypeOK, WorkerGoto, InStream, vars, web
    <3> QED
      BY <3>1 DEF vars, life, web, atomics, IndInv, TypeOK, Lifetime, Queued, Readings, Inside
  <2> QED
    BY <1>3, <2>2, <2>3 DEF Tick
<1> QED
  BY <1>1, <1>2, <1>3 DEF WorkerStep

-----------------------------------------------------------------------------
(* The capture and the decoder thread                                      *)

LEMMA AtomicsInv ==
  ASSUME IndInv, CaptureStamp \/ DecoderStamp \/ DecoderCount
  PROVE  IndInv'
<1> USE DEF IndInv
<1>1. /\ lastCapture \in Nat /\ lastDecode \in Nat /\ lastCount \in Nat
      /\ lastDecode <= lastCapture /\ lastCount <= lastDecode /\ lastDecode <= lastCount + 1
      /\ lastCapture <= MaxFrames /\ MaxFrames \in Nat
  BY BoundsAssumption DEF TypeOK, Frames, Readings
<1>2. /\ lastCapture' \in Nat /\ lastDecode' \in Nat /\ lastCount' \in Nat
      /\ lastDecode' <= lastCapture' /\ lastCount' <= lastDecode' /\ lastDecode' <= lastCount' + 1
      /\ lastCapture' <= MaxFrames
      /\ lastCapture <= lastCapture' /\ lastDecode <= lastDecode'
  BY <1>1 DEF CaptureStamp, DecoderStamp, DecoderCount
<1>3. UNCHANGED <<life, web>>
  BY DEF CaptureStamp, DecoderStamp, DecoderCount, Elsewhere
<1>4. TypeOK'
  <2>1. lastCapture' \in Frames /\ lastDecode' \in Frames /\ lastCount' \in Frames
    BY <1>1, <1>2 DEF Frames
  <2> QED
    BY <1>3, <2>1 DEF TypeOK, life, web
<1>5. Lifetime' /\ Queued'
  BY <1>3 DEF Lifetime, Queued, Inside, life, web
<1>6. Readings'
  <2> SUFFICES ASSUME NEW c \in Clients, c \in Inside("status")
               PROVE  /\ since[c].decode <= lastDecode' /\ since[c].capture <= lastCapture'
                      /\ "capture" \in DOMAIN seen[c] =>
                           seen[c]["capture"] \in since[c].capture .. lastCapture'
                      /\ "decode" \in DOMAIN seen[c] =>
                           seen[c]["decode"] \in since[c].decode .. lastDecode'
                      /\ "count" \in DOMAIN seen[c] =>
                           seen[c]["count"] \in since[c].decode - 1 .. lastDecode'
    BY <1>2, <1>3 DEF Readings, Inside, web
  <2>1. since[c].capture \in Nat /\ since[c].decode \in Nat
    BY BoundsAssumption, ClientTypes DEF Frames
  <2>2. /\ since[c].decode <= lastDecode /\ since[c].capture <= lastCapture
        /\ "capture" \in DOMAIN seen[c] => seen[c]["capture"] \in since[c].capture .. lastCapture
        /\ "decode" \in DOMAIN seen[c] => seen[c]["decode"] \in since[c].decode .. lastDecode
        /\ "count" \in DOMAIN seen[c] => seen[c]["count"] \in since[c].decode - 1 .. lastDecode
    BY DEF Readings
  <2> QED
    BY <1>1, <1>2, <2>1, <2>2
<1> QED
  BY <1>4, <1>5, <1>6

-----------------------------------------------------------------------------
(* The theorems                                                            *)

(* The invariant of WebServer.tla is inductive.                            *)
THEOREM Inductive == Spec => []IndInv
<1>1. IndInv /\ [Next]_vars => IndInv'
  <2> SUFFICES ASSUME IndInv, [Next]_vars PROVE IndInv'
    OBVIOUS
  <2>1. CASE ServerStep \/ LeaveLoop
    BY <2>1, ServerInv
  <2>2. CASE Take
    BY <2>2, TakeInv
  <2>3. ASSUME NEW c \in Clients, Ask(c) \/ Leave(c) \/ WorkerStep(c) PROVE IndInv'
    BY <2>3, AskInv, LeaveInv, WorkerInv
  <2>4. CASE CaptureStamp \/ DecoderStamp \/ DecoderCount
    BY <2>4, AtomicsInv
  <2>5. CASE UNCHANGED vars
    BY <2>5 DEF vars, life, web, atomics, IndInv, TypeOK, Lifetime, Queued, Readings, Inside
  <2> QED
    BY <2>1, <2>2, <2>3, <2>4, <2>5 DEF Next
<1> QED
  BY <1>1, InitInv, PTL DEF Spec

(* The fields of WebServer and of its requests keep their types.           *)
THEOREM TypeCorrect == Spec => []TypeOK
<1>1. IndInv => TypeOK
  BY DEF IndInv
<1> QED
  BY <1>1, Inductive, PTL

(* No request is inside a destroyed handler or can get into one, for any   *)
(* number of clients and workers: the destructor of WebServer.             *)
THEOREM HandlersAlive == Spec => []HandlerAliveWhileUsed
<1>1. IndInv => HandlerAliveWhileUsed
  <2> SUFFICES ASSUME IndInv PROVE HandlerAliveWhileUsed
    OBVIOUS
  <2>1. CASE server \in {"add", "remove", "destroy", "serve"}
    BY <2>1, ClientTypes DEF IndInv, Lifetime, HandlerAliveWhileUsed, TypeOK
  <2>2. CASE server \notin {"add", "remove", "destroy", "serve"}
    BY <2>2 DEF IndInv, Lifetime, HandlerAliveWhileUsed, TypeOK, ServerLocs
  <2> QED
    BY <2>1, <2>2
<1> QED
  BY <1>1, Inductive, PTL

(* An answer of GET /api/status mixes frames no further apart than what    *)
(* was captured and decoded while it was made.                             *)
THEOREM StatusNeighbours == Spec => []StatusOfNeighbours
<1>1. IndInv => StatusOfNeighbours
  <2> SUFFICES ASSUME IndInv, NEW c \in Clients, c \in Inside("status"),
                      DOMAIN seen[c] = StatusValues
               PROVE  /\ seen[c]["decode"] - seen[c]["count"] \in
                           -(lastDecode - since[c].decode) .. (lastDecode - since[c].decode) + 1
                      /\ seen[c]["decode"] <=
                           seen[c]["capture"] + (lastCapture - since[c].capture)
    BY DEF StatusOfNeighbours, Inside
  <2>1. /\ lastCapture \in Nat /\ lastDecode \in Nat /\ lastDecode <= lastCapture
        /\ since[c].capture \in Nat /\ since[c].decode \in Nat
    BY BoundsAssumption, ClientTypes DEF IndInv, TypeOK, Frames, Readings
  <2>2. /\ seen[c]["capture"] \in since[c].capture .. lastCapture
        /\ seen[c]["decode"] \in since[c].decode .. lastDecode
        /\ seen[c]["count"] \in since[c].decode - 1 .. lastDecode
    BY DEF IndInv, Readings, StatusValues
  <2> QED
    BY <2>1, <2>2
<1> QED
  BY <1>1, Inductive, PTL

(* Once the server has stopped, no request is left to be taken up.         *)
LEMMA DroppedAlways == Spec => []Dropped
<1>1. Init => Dropped
  BY DEF Init, Dropped
<1>2. Dropped /\ [Next]_vars => Dropped'
  <2> SUFFICES ASSUME Dropped, [Next]_vars PROVE Dropped'
    OBVIOUS
  <2>1. CASE StopServer
    BY <2>1 DEF StopServer, Dropped
  <2>2. CASE Construct \/ AddHandler \/ RemoveHandler \/ DestroyHandlers \/ LeaveLoop
    BY <2>2 DEF Construct, AddHandler, RemoveHandler, DestroyHandlers, LeaveLoop, ServerGoto, Dropped
  <2>3. CASE JoinWorkers
    BY <2>3 DEF JoinWorkers, ServerGoto, web, Dropped
  <2>4. CASE Take
    BY <2>4 DEF Take, WorkerGoto, life, Dropped
  <2>5. ASSUME NEW c \in Clients, Ask(c) \/ Leave(c) PROVE Dropped'
    BY <2>5 DEF Ask, Leave, life, Dropped
  <2>6. ASSUME NEW c \in Clients, WorkerStep(c) PROVE Dropped'
    BY <2>6 DEF WorkerStep, Answer, ReadStatus, AnswerStatus, Tick, WorkerEnds, WorkerGoto,
       InStream, life, Dropped
  <2>7. CASE CaptureStamp \/ DecoderStamp \/ DecoderCount \/ UNCHANGED vars
    BY <2>7 DEF CaptureStamp, DecoderStamp, DecoderCount, Elsewhere, vars, life, web, Dropped
  <2> QED
    BY <2>1, <2>2, <2>3, <2>4, <2>5, <2>6, <2>7 DEF Next, ServerStep
<1> QED
  BY <1>1, <1>2, PTL DEF Spec

(* Who is in a worker after a step was in it before, or was taken up.      *)
LEMMA WhoIsServed ==
  ASSUME IndInv, [Next]_vars, NEW c \in Clients, request'[c] \in {"inside", "file"}
  PROVE  \/ request'[c] = request[c] /\ path'[c] = path[c]
         \/ /\ Take /\ path'[c] = path[c]
            /\ request'[c] = "inside" => path[c] \in added
<1> USE DEF IndInv
<1>1. CASE ServerStep \/ LeaveLoop
  BY <1>1 DEF ServerStep, Construct, AddHandler, RemoveHandler, DestroyHandlers, StopServer,
     JoinWorkers, LeaveLoop, ServerGoto, web, TypeOK
<1>2. CASE Take
  <2> DEFINE d == Head(queue)
             to == IF path[d] \in added THEN "inside" ELSE "file"
  <2>1. d \in Clients
    BY <1>2 DEF Take, TypeOK
  <2>2. request' = [request EXCEPT ![d] = to] /\ path' = path
    BY <1>2 DEF Take, WorkerGoto
  <2>3. c = d => request'[c] = to
    BY <2>1, <2>2 DEF TypeOK
  <2>4. c # d => request'[c] = request[c]
    BY <2>2 DEF TypeOK
  <2> QED
    BY <1>2, <2>2, <2>3, <2>4
<1>3. ASSUME NEW d \in Clients, Ask(d)
      PROVE  request'[c] = request[c] /\ path'[c] = path[c]
  BY <1>3 DEF Ask, TypeOK
<1>4. ASSUME NEW d \in Clients, Leave(d)
      PROVE  request'[c] = request[c] /\ path'[c] = path[c]
  BY <1>4 DEF Leave
<1>5. ASSUME NEW d \in Clients, WorkerStep(d)
      PROVE  request'[c] = request[c] /\ path'[c] = path[c]
  <2>1. WorkerEnds(d) \/ (WorkerGoto(d, "inside") /\ request[d] = "inside")
    BY <1>5 DEF WorkerStep, Answer, ReadStatus, AnswerStatus, Tick, Inside
  <2>2. CASE WorkerEnds(d)
    BY <2>2 DEF WorkerEnds, TypeOK
  <2>3. CASE WorkerGoto(d, "inside") /\ request[d] = "inside"
    BY <2>3 DEF WorkerGoto, TypeOK
  <2> QED
    BY <2>1, <2>2, <2>3
<1>6. CASE CaptureStamp \/ DecoderStamp \/ DecoderCount \/ UNCHANGED vars
  BY <1>6 DEF CaptureStamp, DecoderStamp, DecoderCount, Elsewhere, vars, web
<1> QED
  BY <1>1, <1>2, <1>3, <1>4, <1>5, <1>6 DEF Next

(* What the destructor waits for only gets less while it waits, however    *)
(* many clients there are and whatever they ask meanwhile: nobody enters a *)
(* handler whose removal has begun, and no worker takes up a request once  *)
(* mg_stop joins them.                                                     *)
THEOREM DestructorWaitsForFewer == Spec => WaitShrinks
<1>1. IndInv /\ Dropped /\ [Next]_vars =>
        [/\ server = "remove" =>
              \A i \in 1 .. at : \A c \in Clients :
                request'[c] = "inside" /\ path'[c] = Handlers[i] => c \in Inside(Handlers[i])
         /\ server = "join" =>
              \A c \in Clients : request'[c] \in {"inside", "file"} => c \in InWorker]_vars
  <2> SUFFICES ASSUME IndInv, Dropped, [Next]_vars
               PROVE  /\ server = "remove" =>
                           \A i \in 1 .. at : \A c \in Clients :
                             request'[c] = "inside" /\ path'[c] = Handlers[i] =>
                               c \in Inside(Handlers[i])
                      /\ server = "join" =>
                           \A c \in Clients :
                             request'[c] \in {"inside", "file"} => c \in InWorker
    OBVIOUS
  <2>1. ASSUME server = "remove", NEW i \in 1 .. at, NEW c \in Clients,
               request'[c] = "inside", path'[c] = Handlers[i]
        PROVE  c \in Inside(Handlers[i])
    <3>1. Handlers[i] \notin added
      BY <2>1 DEF IndInv, Lifetime
    <3> QED
      BY <2>1, <3>1, WhoIsServed DEF Inside
  <2>2. ASSUME server = "join", NEW c \in Clients, request'[c] \in {"inside", "file"}
        PROVE  c \in InWorker
    <3>1. ~Take
      BY <2>2 DEF Take, Dropped
    <3> QED
      BY <2>2, <3>1, WhoIsServed DEF InWorker
  <2> QED
    BY <2>1, <2>2
<1> QED
  BY <1>1, Inductive, DroppedAlways, PTL DEF Spec, WaitShrinks
=============================================================================
