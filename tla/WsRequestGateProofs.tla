------------------------- MODULE WsRequestGateProofs -------------------------
(***************************************************************************)
(* The request a worker processes is alive, somebody can always go on, and *)
(* the hand-over implements RequestService, for any number of servers and  *)
(* whenever they are constructed.                                          *)
(***************************************************************************)
EXTENDS WsRequestGate, TLAPS, SequenceTheorems

\* One token.
Held == TypeOK /\ OnlyBusyHold /\ OneToken /\ RequestHeld /\ QueuedHeld

LEMMA HeldInit == Init => Held
BY GateAssumption
DEF Init, Held, TypeOK, OnlyBusyHold, OneToken, RequestHeld, QueuedHeld, Holders, Busy,
    HandlerPlaces, WorkerPlaces

LEMMA HeldStep == Held /\ [Next]_vars => Held'
<1> SUFFICES ASSUME Held, [Next]_vars PROVE Held'
  OBVIOUS
<1> USE GateAssumption DEF Held, TypeOK, HandlerPlaces, WorkerPlaces, OnlyBusyHold, OneToken,
      RequestHeld, QueuedHeld, Holders, Busy
<1>1. ASSUME NEW h \in Servers, Arrive(h) PROVE Held'
  BY <1>1 DEF Arrive
<1>2. ASSUME NEW h \in Servers, Take1(h) PROVE Held'
  BY <1>2 DEF Take1
<1>3. ASSUME NEW h \in Servers, SendRequest(h) PROVE Held'
  <2>1. xQueue = <<>> /\ Busy = {} /\ Holders = {h} /\ requestSemaphore = 0
    BY <1>3 DEF SendRequest
  <2>2. xQueue' = <<h>> /\ hpc' = [hpc EXCEPT ![h] = "take2"]
        /\ UNCHANGED <<requestSemaphore, wpc, req>>
    BY <1>3, <2>1 DEF SendRequest
  <2>3. Holders' = {} /\ Busy' = {}
    BY <2>1, <2>2
  <2>4. OneToken'
    BY <2>1, <2>2, <2>3
  <2>5. TypeOK' /\ OnlyBusyHold'
    BY <2>1, <2>2
  <2>6. RequestHeld' /\ QueuedHeld'
    BY <2>1, <2>2
  <2> QED BY <2>4, <2>5, <2>6
<1>4. ASSUME NEW h \in Servers, Take2(h) PROVE Held'
  BY <1>4 DEF Take2
<1>5. ASSUME NEW h \in Servers, GiveBack(h) PROVE Held'
  BY <1>5 DEF GiveBack
<1>6. ASSUME NEW w \in Servers, Receive(w) PROVE Held'
  <2>1. /\ xQueue # <<>> /\ Len(xQueue) = 1 /\ Busy = {} /\ Holders = {}
        /\ requestSemaphore = 0 /\ Head(xQueue) \in Servers /\ hpc[Head(xQueue)] = "take2"
    BY <1>6 DEF Receive
  <2>2. /\ xQueue' = <<>> /\ req' = [req EXCEPT ![w] = Head(xQueue)]
        /\ wpc' = [wpc EXCEPT ![w] = "busy"]
        /\ UNCHANGED <<requestSemaphore, hpc>>
    BY <1>6, <2>1 DEF Receive
  <2>3. Holders' = {} /\ Busy' = {w}
    BY <2>1, <2>2
  <2>4. OneToken'
    BY <2>1, <2>2, <2>3
  <2>5. TypeOK' /\ OnlyBusyHold'
    BY <2>1, <2>2
  <2>6. RequestHeld' /\ QueuedHeld'
    BY <2>1, <2>2
  <2> QED BY <2>4, <2>5, <2>6
<1>7. ASSUME NEW w \in Servers, Finish(w) PROVE Held'
  BY <1>7 DEF Finish
<1>8. ASSUME NEW w \in Servers, Listen(w) PROVE Held'
  BY <1>8 DEF Listen
<1>9. ASSUME NEW s \in Servers, NewServer(s) PROVE Held'
  <2>1. xQueue = <<>> /\ Busy = {} /\ Holders = {}
    BY <1>9 DEF NewServer
  <2>2. /\ requestSemaphore' = 1 /\ xQueue' = <<>> /\ UNCHANGED <<hpc, req>>
        /\ wpc' = [v \in Servers |-> IF v = s THEN "calling"
                                   ELSE IF wpc[v] = "waiting" THEN "lost" ELSE wpc[v]]
        /\ wpc[s] = "none"
    BY <1>9 DEF NewServer
  <2>3. Holders' = {} /\ Busy' = {}
    BY <2>1, <2>2
  <2>4. OneToken' /\ RequestHeld' /\ QueuedHeld'
    BY <2>2, <2>3
  <2>5. TypeOK' /\ OnlyBusyHold'
    BY <2>1, <2>2
  <2> QED BY <2>4, <2>5
<1>10. CASE UNCHANGED vars
  BY <1>10 DEF vars
<1> QED
  BY <1>1, <1>2, <1>3, <1>4, <1>5, <1>6, <1>7, <1>8, <1>9, <1>10
  DEF Next, HandlerStep, WorkerStep

\* The token does not get lost.
LEMMA TokenStep == Held /\ TokenThere /\ [Next]_vars => TokenThere'
<1> SUFFICES ASSUME Held, TokenThere, [Next]_vars PROVE TokenThere'
  OBVIOUS
<1> USE GateAssumption DEF TokenThere, Made, Listening, Holders, Busy
<1>t. TypeOK /\ OnlyBusyHold /\ QueuedHeld
  BY DEF Held
<1> USE DEF TypeOK, OnlyBusyHold, HandlerPlaces, WorkerPlaces
<1>1. ASSUME NEW h \in Servers, Arrive(h) PROVE TokenThere'
  BY <1>t, <1>1 DEF Arrive
<1>2. ASSUME NEW h \in Servers, Take1(h) \/ Take2(h) PROVE TokenThere'
  <2>1. h \in Holders'
    BY <1>t, <1>2 DEF Take1, Take2
  <2>2. UNCHANGED <<xQueue, wpc, req>> /\ \A g \in Servers : hpc'[g] # "away" => hpc[g] # "away"
    BY <1>t, <1>2 DEF Take1, Take2
  <2> QED BY <2>1, <2>2
<1>3. ASSUME NEW h \in Servers, SendRequest(h) PROVE TokenThere'
  <2>1. xQueue' # <<>>
    BY <1>t, <1>3 DEF SendRequest
  <2>2. UNCHANGED <<wpc, req>> /\ \A g \in Servers : hpc'[g] # "away" => hpc[g] # "away"
    BY <1>t, <1>3 DEF SendRequest
  <2> QED BY <2>1, <2>2
<1>4. ASSUME NEW h \in Servers, GiveBack(h) PROVE TokenThere'
  BY <1>t, <1>4 DEF GiveBack
<1>5. ASSUME NEW w \in Servers, Receive(w) PROVE TokenThere'
  <2>1. Head(xQueue) \in Servers
    BY <1>t, <1>5 DEF Receive
  <2>2. w \in Busy' /\ w \in Made'
    BY <1>t, <1>5, <2>1 DEF Receive
  <2> QED BY <2>2
<1>6. ASSUME NEW w \in Servers, Finish(w) PROVE TokenThere'
  BY <1>t, <1>6 DEF Finish
<1>7. ASSUME NEW w \in Servers, Listen(w) PROVE TokenThere'
  BY <1>t, <1>7 DEF Listen
<1>8. ASSUME NEW s \in Servers, NewServer(s) PROVE TokenThere'
  <2>1. s \in Listening' /\ s \in Made' /\ requestSemaphore' = 1 /\ UNCHANGED hpc
    BY <1>t, <1>8 DEF NewServer
  <2> QED BY <2>1
<1>9. CASE UNCHANGED vars
  BY <1>9 DEF vars
<1> QED
  BY <1>1, <1>2, <1>3, <1>4, <1>5, <1>6, <1>7, <1>8, <1>9 DEF Next, HandlerStep, WorkerStep

LEMMA GateInit == Init => IInv
<1>1. Init => TokenThere
  BY DEF Init, TokenThere, Made
<1> QED BY <1>1, HeldInit DEF IInv, Held

LEMMA GateStep == IInv /\ [Next]_vars => IInv'
BY HeldStep, TokenStep DEF IInv, Held

\* There is one token: the semaphore, a handler, the queue and the workers never
\* hold two between them, also when a further server makes queue and semaphore anew.
THEOREM GateInvariant == Spec => []IInv
BY GateInit, GateStep, PTL DEF Spec

\* While a worker processes a request, the handler that brought it waits in its
\* second take, whatever other handlers and workers do: httpd has not freed it.
THEOREM RequestAlive == Spec => []RequestHeld
<1>1. IInv => RequestHeld
  BY DEF IInv
<1> QED BY <1>1, GateInvariant, PTL

\* Whenever a handler waits some task can go on, however the constructors of further
\* servers and the tasks interleave: no wait of one for the other closes a circle.
THEOREM GateGoesOn == Spec => []ServiceGoesOn
<1>1. IInv => ServiceGoesOn
  <2> SUFFICES ASSUME IInv, NEW h \in Servers, hpc[h] # "away" PROVE ServiceGoesOn
    BY DEF ServiceGoesOn
  <2>1. /\ requestSemaphore = 1 \/ Holders # {} \/ xQueue # <<>> \/ Busy # {}
        /\ Listening \cup Busy # {}
    BY DEF IInv, TokenThere
  <2>2. Holders # {} => xQueue = <<>>
    BY DEF IInv, OneToken
  <2>3. xQueue = <<>> => Len(xQueue) < QueueCap
    BY GateAssumption
  <2>4. xQueue # <<>> => Busy = {}
    BY DEF IInv, OneToken
  <2> QED BY <2>1, <2>2, <2>3, <2>4 DEF ServiceGoesOn
<1> QED BY <1>1, GateInvariant, PTL

\* A step leaves the requests of all handlers where they were ...
LEMMA SameRequests ==
  ASSUME hpc' = hpc, xQueue' = xQueue, req' = req
  PROVE  UNCHANGED [h \in Servers |-> Request(h)]
BY DEF Request, Queued, InWork

\* ... or moves that of one handler.
LEMMA OneRequestMoves ==
  ASSUME NEW h \in Servers, NEW from, NEW to, Request(h) = from, Request(h)' = to,
         \A g \in Servers \ {h} : Request(g)' = Request(g)
  PROVE  Service!Moves(h, from, to)
BY DEF Service!Moves

\* The handlers and the workers implement RequestService: a handler whose second take
\* succeeds, and who therefore returns, has had its own request processed, once, and
\* while no other was.
THEOREM GateImplementsService == Spec => ImplementsService
<1>1. Init => Service!Init
  BY DEF Init, Service!Init, Request
<1>2. IInv /\ [Next]_vars => [Service!Next]_[h \in Servers |-> Request(h)]
  <2> SUFFICES ASSUME IInv, [Next]_vars
               PROVE  Service!Next \/ UNCHANGED [h \in Servers |-> Request(h)]
    OBVIOUS
  <2> USE GateAssumption
  <2>i. TypeOK /\ OnlyBusyHold /\ OneToken /\ RequestHeld /\ QueuedHeld
    BY DEF IInv
  <2>n. NoRequest \notin Servers
    BY DEF GateAssumption
  <2>1. ASSUME NEW h \in Servers, Arrive(h) PROVE Service!Next
    <3>1. Request(h) = "none" /\ Request(h)' = "waiting"
      BY <2>i, <2>1 DEF Arrive, Request, TypeOK
    <3>2. \A g \in Servers \ {h} : Request(g)' = Request(g)
      BY <2>i, <2>1 DEF Arrive, Request, Queued, InWork, TypeOK
    <3> QED BY <3>1, <3>2, OneRequestMoves DEF Service!Next, Service!Arrive
  <2>2. ASSUME NEW h \in Servers, Take1(h) PROVE UNCHANGED [g \in Servers |-> Request(g)]
    BY <2>i, <2>2 DEF Take1, Request, Queued, InWork, TypeOK
  <2>3. ASSUME NEW h \in Servers, SendRequest(h)
        PROVE  UNCHANGED [g \in Servers |-> Request(g)]
    <3>1. xQueue = <<>>
      BY <2>i, <2>3 DEF SendRequest, OneToken, Holders
    <3>2. xQueue' = <<h>> /\ hpc' = [hpc EXCEPT ![h] = "take2"] /\ UNCHANGED req
      BY <2>3, <3>1 DEF SendRequest
    <3>3. \A g \in Servers : Queued(g)' <=> g = h
      BY <3>2 DEF Queued
    <3>4. \A g \in Servers : ~Queued(g)
      BY <3>1 DEF Queued
    <3>5. Request(h) = "waiting" /\ Request(h)' = "waiting"
      BY <2>i, <2>3, <3>2, <3>3 DEF SendRequest, Request, TypeOK
    <3>6. \A g \in Servers \ {h} : Request(g)' = Request(g)
      BY <2>i, <3>2, <3>3, <3>4 DEF Request, InWork, TypeOK
    <3> QED BY <3>5, <3>6
  <2>4. ASSUME NEW h \in Servers, Take2(h) PROVE UNCHANGED [g \in Servers |-> Request(g)]
    BY <2>i, <2>4 DEF Take2, Request, Queued, InWork, TypeOK
  <2>5. ASSUME NEW h \in Servers, GiveBack(h) PROVE Service!Next
    <3>1. h \in Holders
      BY <2>5 DEF GiveBack, Holders
    <3>2. xQueue = <<>> /\ Busy = {}
      BY <2>i, <3>1 DEF OneToken
    <3>3. ~Queued(h) /\ ~InWork(h)
      BY <2>n, <3>2 DEF Queued, InWork, Busy
    <3>4. Request(h) = "done" /\ Request(h)' = "none"
      BY <2>i, <2>5, <3>3 DEF GiveBack, Request, TypeOK
    <3>5. \A g \in Servers \ {h} : Request(g)' = Request(g)
      BY <2>i, <2>5 DEF GiveBack, Request, Queued, InWork, TypeOK
    <3> QED BY <3>4, <3>5, OneRequestMoves DEF Service!Next, Service!Return
  <2>6. ASSUME NEW w \in Servers, Receive(w) PROVE Service!Next
    <3>0. Len(xQueue) = 1 /\ Busy = {} /\ Head(xQueue) \in Servers
      BY <2>i, <2>6 DEF Receive, OneToken, TypeOK
    <3> PICK h \in Servers : h = Head(xQueue)
      BY <3>0
    <3>1. xQueue = <<h>> /\ Busy = {} /\ h = Head(xQueue)
      BY <2>i, <3>0 DEF TypeOK
    <3>2. hpc[h] = "take2"
      BY <2>i, <3>1 DEF QueuedHeld
    <3>3. xQueue' = <<>> /\ req' = [req EXCEPT ![w] = h] /\ UNCHANGED hpc
      BY <2>6, <3>1 DEF Receive
    <3>4. \A g \in Servers : (Queued(g) <=> g = h) /\ ~Queued(g)'
      BY <3>1, <3>3 DEF Queued
    <3>5. \A g \in Servers : ~InWork(g) /\ (InWork(g)' <=> g = h)
      BY <2>i, <2>n, <3>1, <3>3 DEF InWork, Busy, TypeOK
    <3>6. Request(h) = "waiting" /\ Request(h)' = "inWork"
      BY <3>1, <3>2, <3>3, <3>4, <3>5 DEF Request
    <3>7. \A g \in Servers \ {h} : Request(g)' = Request(g)
      BY <3>3, <3>4, <3>5 DEF Request
    <3>8. \A g \in Servers : [f \in Servers |-> Request(f)][g] # "inWork"
      BY <3>5 DEF Request
    <3> QED BY <3>1, <3>6, <3>7, <3>8, OneRequestMoves DEF Service!Next, Service!Begin
  <2>7. ASSUME NEW w \in Servers, Finish(w) PROVE Service!Next
    <3>1. w \in Busy /\ req[w] \in Servers
      BY <2>i, <2>7 DEF Finish, OnlyBusyHold, Busy, TypeOK
    <3> PICK h \in Servers : h = req[w]
      BY <3>1
    <3>2. Busy = {w} /\ xQueue = <<>> /\ h = req[w] /\ hpc[h] = "take2"
      BY <2>i, <3>1 DEF OneToken, RequestHeld, Busy, TypeOK
    <3>3. xQueue' = xQueue /\ req' = [req EXCEPT ![w] = NoRequest] /\ UNCHANGED hpc
      BY <2>7 DEF Finish
    <3>4. \A g \in Servers : ~Queued(g) /\ ~Queued(g)'
      BY <3>2, <3>3 DEF Queued
    <3>5. \A g \in Servers : (InWork(g) <=> g = h) /\ ~InWork(g)'
      BY <2>i, <2>n, <3>2, <3>3 DEF InWork, Busy, TypeOK
    <3>6. Request(h) = "inWork" /\ Request(h)' = "done"
      BY <3>2, <3>3, <3>4, <3>5 DEF Request
    <3>7. \A g \in Servers \ {h} : Request(g)' = Request(g)
      BY <3>3, <3>4, <3>5 DEF Request
    <3> QED BY <3>2, <3>6, <3>7, OneRequestMoves DEF Service!Next, Service!Finish
  <2>8. ASSUME NEW w \in Servers, Listen(w) PROVE UNCHANGED [g \in Servers |-> Request(g)]
    BY <2>8, SameRequests DEF Listen
  <2>9. ASSUME NEW s \in Servers, NewServer(s)
        PROVE  UNCHANGED [g \in Servers |-> Request(g)]
    BY <2>i, <2>9 DEF NewServer, Request
  <2>10. CASE UNCHANGED vars
    BY <2>10, SameRequests DEF vars
  <2> QED
    BY <2>1, <2>2, <2>3, <2>4, <2>5, <2>6, <2>7, <2>8, <2>9, <2>10
    DEF Next, HandlerStep, WorkerStep
<1> QED BY <1>1, <1>2, GateInvariant, PTL DEF Spec, ImplementsService, Service!Spec
=============================================================================
