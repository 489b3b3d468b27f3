---------------------------- MODULE WsRequestGate ----------------------------
(***************************************************************************)
(* How SigmaWsServer hands an HTTP request to its worker task.             *)
(*                                                                         *)
(* onWsEvent runs on an httpd task; the request it is given lives only     *)
(* until it returns.  It takes the binary semaphore, sends the request to  *)
(* the worker's queue, takes the semaphore again, which the worker gives   *)
(* when it has finished, and gives it back.  The queue and the semaphore   *)
(* are static: the httpd tasks and the workers of all servers share them,  *)
(* and the constructor of a further server makes them anew.                *)
(***************************************************************************)
EXTENDS Integers, Sequences, FiniteSets

CONSTANTS
    Servers,    \* SigmaWsServer objects, each with its httpd task and its worker
    QueueCap,   \* length of xQueue (10)
    NoRequest

ASSUME GateAssumption ==
    /\ QueueCap \in Nat /\ QueueCap > 0
    /\ NoRequest \notin Servers
    /\ IsFiniteSet(Servers)

VARIABLES
    requestSemaphore,  \* the binary semaphore
    xQueue,            \* requests sent and not received, each named by its server
    hpc,               \* per httpd task, its place in onWsEvent
    wpc,               \* per worker, its place in processData
    req                \* per worker, the request it processes, or NoRequest

vars == <<requestSemaphore, xQueue, hpc, wpc, req>>

HandlerPlaces == {"away", "take1", "send", "take2", "give"}
\* A worker that is about to call xQueueReceive reads xQueue; one that waits does
\* so at the queue it read, and is lost when xQueue is another one by now.
WorkerPlaces  == {"none", "calling", "waiting", "busy", "lost"}

TypeOK ==
    /\ requestSemaphore \in {0, 1}
    /\ xQueue \in Seq(Servers)
    /\ hpc \in [Servers -> HandlerPlaces]
    /\ wpc \in [Servers -> WorkerPlaces]
    /\ req \in [Servers -> Servers \cup {NoRequest}]

Init ==
    /\ requestSemaphore = 0
    /\ xQueue = <<>>
    /\ hpc = [s \in Servers |-> "away"]
    /\ wpc = [s \in Servers |-> "none"]
    /\ req = [s \in Servers |-> NoRequest]

\* The constructor makes the queue and the semaphore, gives that once and starts
\* the worker. The application constructs while no request is on its way: what
\* becomes of a task that waits at a semaphore that is made again is undefined.
NewServer(s) ==
    /\ wpc[s] = "none"
    /\ \A h \in Servers : hpc[h] = "away"
    /\ requestSemaphore' = 1
    /\ xQueue' = <<>>
    /\ wpc' = [v \in Servers |-> IF v = s THEN "calling"
                               ELSE IF wpc[v] = "waiting" THEN "lost" ELSE wpc[v]]
    /\ UNCHANGED <<hpc, req>>

\* httpd, started after the constructor, calls the handler with a request.
Arrive(h) ==
    /\ hpc[h] = "away" /\ wpc[h] # "none"
    /\ hpc' = [hpc EXCEPT ![h] = "take1"]
    /\ UNCHANGED <<requestSemaphore, xQueue, wpc, req>>

\* Mutant: the first take lets everyone in.
MutTake1Open(h) ==
    /\ hpc[h] = "take1" /\ requestSemaphore = 1
    /\ hpc' = [hpc EXCEPT ![h] = "send"]
    /\ UNCHANGED <<requestSemaphore, xQueue, wpc, req>>

\* xSemaphoreTake(requestSemaphore, portMAX_DELAY), the first time
Take1(h) ==
    /\ hpc[h] = "take1" /\ requestSemaphore = 1
    /\ requestSemaphore' = 0
    /\ hpc' = [hpc EXCEPT ![h] = "send"]
    /\ UNCHANGED <<xQueue, wpc, req>>

\* xQueueSend(xQueue, &req, portMAX_DELAY)
SendRequest(h) ==
    /\ hpc[h] = "send" /\ Len(xQueue) < QueueCap
    /\ xQueue' = Append(xQueue, h)
    /\ hpc' = [hpc EXCEPT ![h] = "take2"]
    /\ UNCHANGED <<requestSemaphore, wpc, req>>

\* Mutant: the second take times out instead of waiting for the worker.
MutTake2TimesOut(h) ==
    /\ hpc[h] = "take2"
    /\ hpc' = [hpc EXCEPT ![h] = "give"]
    /\ UNCHANGED <<requestSemaphore, xQueue, wpc, req>>

\* the second take
Take2(h) ==
    /\ hpc[h] = "take2" /\ requestSemaphore = 1
    /\ requestSemaphore' = 0
    /\ hpc' = [hpc EXCEPT ![h] = "give"]
    /\ UNCHANGED <<xQueue, wpc, req>>

\* Mutant: the handler returns without giving the semaphore back.
MutNoGiveBack(h) ==
    /\ hpc[h] = "give"
    /\ hpc' = [hpc EXCEPT ![h] = "away"]
    /\ UNCHANGED <<requestSemaphore, xQueue, wpc, req>>

\* xSemaphoreGive and return: from here on the request is gone.
GiveBack(h) ==
    /\ hpc[h] = "give"
    /\ requestSemaphore' = 1
    /\ hpc' = [hpc EXCEPT ![h] = "away"]
    /\ UNCHANGED <<xQueue, wpc, req>>

\* processData: the worker evaluates xQueue ...
Listen(w) ==
    /\ wpc[w] = "calling"
    /\ wpc' = [wpc EXCEPT ![w] = "waiting"]
    /\ UNCHANGED <<requestSemaphore, xQueue, hpc, req>>

\* ... and waits for a request there: xQueueReceive(xQueue, &req, portMAX_DELAY)
Receive(w) ==
    /\ wpc[w] = "waiting" /\ xQueue # <<>>
    /\ wpc' = [wpc EXCEPT ![w] = "busy"]
    /\ req' = [req EXCEPT ![w] = Head(xQueue)]
    /\ xQueue' = Tail(xQueue)
    /\ UNCHANGED <<requestSemaphore, hpc>>

\* processData: the request is processed, xSemaphoreGive(requestSemaphore)
Finish(w) ==
    /\ wpc[w] = "busy"
    /\ wpc' = [wpc EXCEPT ![w] = "calling"]
    /\ req' = [req EXCEPT ![w] = NoRequest]
    /\ requestSemaphore' = 1
    /\ UNCHANGED <<xQueue, hpc>>

HandlerStep(h) == Take1(h) \/ SendRequest(h) \/ Take2(h) \/ GiveBack(h)
WorkerStep(w)  == Listen(w) \/ Receive(w) \/ Finish(w)

Next == \/ \E s \in Servers : NewServer(s) \/ Arrive(s)
        \/ \E h \in Servers : HandlerStep(h)
        \/ \E w \in Servers : WorkerStep(w)

Spec == Init /\ [][Next]_vars

\* Every task runs when it can; a task that waits for the semaphore gets it in
\* the end, since FreeRTOS wakes the one that has waited longest.
Fairness ==
    /\ \A h \in Servers : /\ WF_vars(SendRequest(h)) /\ WF_vars(GiveBack(h))
                           /\ SF_vars(Take1(h)) /\ SF_vars(Take2(h))
    /\ \A w \in Servers : WF_vars(Listen(w)) /\ WF_vars(Finish(w))
    /\ WF_vars(\E w \in Servers : Receive(w))
FairSpec == Spec /\ Fairness

-----------------------------------------------------------------------------
\* A worker uses a request only while the handler it was given to still waits,
\* so that the httpd_req_t it reads exists, and no two workers run at once: the
\* second take cannot succeed on the semaphore another handler left behind.
RequestHeld ==
    \A w \in Servers :
        req[w] # NoRequest => /\ hpc[req[w]] = "take2"
                              /\ \A v \in Servers : req[v] # NoRequest => v = w

\* A request in the queue is held too, and nothing is sent past a full queue.
QueuedHeld == Len(xQueue) <= 1 /\ \A i \in DOMAIN xQueue : hpc[xQueue[i]] = "take2"

\* Why: there is one token. It is in the semaphore, with a handler that has taken
\* it and not yet passed it on, in the queue, or with the worker that processes.
Holders == {h \in Servers : hpc[h] \in {"send", "give"}}
Busy    == {w \in Servers : req[w] # NoRequest}
OnlyBusyHold == \A w \in Servers : wpc[w] = "busy" <=> req[w] # NoRequest
OneToken ==
    /\ requestSemaphore = 1 => Holders = {} /\ xQueue = <<>> /\ Busy = {}
    /\ \A h \in Holders : Holders = {h} /\ xQueue = <<>> /\ Busy = {}
    /\ xQueue # <<>> => Len(xQueue) = 1 /\ Busy = {}
    /\ \A w \in Busy : Busy = {w}
\* There is a token once there is a server, and a worker to pass it on: the server made
\* last has one that was not lost.
Made      == {s \in Servers : wpc[s] # "none"}
Listening == {w \in Servers : wpc[w] \in {"calling", "waiting"}}
TokenThere ==
    /\ \A h \in Servers : hpc[h] # "away" => Made # {}
    /\ Made # {} => /\ requestSemaphore = 1 \/ Holders # {} \/ xQueue # <<>> \/ Busy # {}
                    /\ Listening \cup Busy # {}
IInv == TypeOK /\ OnlyBusyHold /\ OneToken /\ RequestHeld /\ QueuedHeld /\ TokenThere

\* Where a request is: a handler in its second take has one that waits in the queue,
\* is with a worker or, with neither, is done.
Queued(h) == \E i \in DOMAIN xQueue : xQueue[i] = h
InWork(h) == \E w \in Servers : req[w] = h
Request(h) ==
    IF hpc[h] = "away" THEN "none"
    ELSE IF hpc[h] \in {"take1", "send"} \/ Queued(h) THEN "waiting"
    ELSE IF InWork(h) THEN "inWork" ELSE "done"

\* The handlers and the workers implement RequestService: whoever gets the
\* semaphore on its second take, its own request has been processed by then.
Service == INSTANCE RequestService WITH request <- [h \in Servers |-> Request(h)]
ImplementsService == Service!Spec

\* While a handler waits somebody can go on: the semaphore is there to be taken, a
\* handler that has it is inside, a worker processes, or one will come to the queue.
\* No constructor leaves the queue without a worker.
ServiceGoesOn ==
    (\E h \in Servers : hpc[h] # "away") =>
        \/ requestSemaphore = 1
        \/ \E h \in Holders : hpc[h] = "send" => Len(xQueue) < QueueCap
        \/ Busy # {}
        \/ xQueue # <<>> /\ Listening # {}

\* Every request that arrives is processed and its handler returns to httpd, also
\* where the constructor of another server has left the worker at a queue of its own.
RequestAnswered == \A h \in Servers : hpc[h] = "take1" ~> hpc[h] = "away"
=============================================================================
