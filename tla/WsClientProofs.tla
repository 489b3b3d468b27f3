--------------------------- MODULE WsClientProofs ---------------------------
(***************************************************************************)
(* Type correctness of WsClientConnection for every configuration, and,    *)
(* for an object that was there before its network and follows it, that    *)
(* no order of the four tasks' steps leaves an ended client forsaken.      *)
(***************************************************************************)
EXTENDS WsClientConnection, TLAPS, SequenceTheorems

Announcement == [kind : {"wan", "lan"}, up : BOOLEAN]

-----------------------------------------------------------------------------
\* Type correctness. The counter that the timer task writes back less one is typed
\* only with where that task is.

LEMMA NewsTyped == ASSUME NEW b \in BOOLEAN PROVE Net!News(b) \in Seq(Announcement)
BY DEF Net!News, Announcement

LEMMA NetTyped ==
    ASSUME queue \in Seq(Announcement), Net!Next
    PROVE  queue' \in Seq(Announcement)
<1>1. CASE Net!GoUp
  BY <1>1 DEF Net!GoUp, Net!News, Announcement
<1>2. CASE Net!GoDown
  BY <1>2 DEF Net!GoDown, Net!News, Announcement
<1>3. CASE Net!Deliver
  BY <1>3 DEF Net!Deliver
<1> QED BY <1>1, <1>2, <1>3 DEF Net!Next

\* The flags apart from the rest: the provers do better with each alone.
FlagsTyped ==
    /\ up \in BOOLEAN /\ named \in BOOLEAN /\ dropped \in BOOLEAN /\ reachable \in BOOLEAN
    /\ closeSent \in BOOLEAN /\ isReady \in BOOLEAN /\ shouldConnect \in BOOLEAN
    /\ timer \in BOOLEAN /\ pingTimer \in BOOLEAN
DataTyped ==
    /\ scene \in Scenes
    /\ queue \in Seq(Announcement)
    /\ born \in {"no", "registered", "made"}
    /\ client \in {"stopped", "trying", "online", "ending", "ended"}
    /\ first \in {"none", "auth", "other"}
    /\ retries \in Int /\ retries <= RetryCount
    /\ pingRetryCount \in 0 .. PingRetryCount
    /\ task \in [Tasks -> {"idle", "start", "delay", "close", "closing", "stop", "decide",
                           "retry", "ping", "auth"}]
    /\ read \in Int /\ sent \in 0 .. PingRetryCount
    /\ ReadInRange

LEMMA TypeParts == TypeOK /\ ReadInRange <=> FlagsTyped /\ DataTyped
BY DEF TypeOK, FlagsTyped, DataTyped, Announcement

LEMMA InitTyped == Init => FlagsTyped /\ DataTyped
<1> SUFFICES ASSUME Init PROVE FlagsTyped /\ DataTyped
  OBVIOUS
<1> USE WsClientAssumption DEF Init, Net!Init, Tasks
<1>1. FlagsTyped
  BY DEF FlagsTyped
<1>2. DataTyped
  BY DEF DataTyped, ReadInRange
<1> QED BY <1>1, <1>2

LEMMA FlagsStep == FlagsTyped /\ [Next]_vars => FlagsTyped'
<1> SUFFICES ASSUME FlagsTyped, [Next]_vars PROVE FlagsTyped'
  OBVIOUS
<1> USE DEF FlagsTyped, netVars, clientVars, timerVars, pingVars, flags
<1>1. ASSUME NEW t \in Tasks, Step(t) PROVE FlagsTyped'
  BY <1>1 DEF Step, StartClient, ConnectDelayEnds, SendCloseFrame, CloseReturns, StopClient,
              DecideRetry, Drop, SetReconnectTimer
<1>2. CASE Timers
  BY <1>2 DEF Timers, ReconnectTask, RetryConnect, PingTask, SendPing, EnterConnect,
              ClearReconnectTimer
<1>3. CASE ConnectionHandler
  BY <1>3 DEF ConnectionHandler, Net!Deliver, EnterConnect, ClearReconnectTimer
<1>4. CASE SendMessage \/ SendReconnect \/ Close
  BY <1>4 DEF SendMessage, SendReconnect, Close
<1>5. CASE ClientTask
  BY <1>5 DEF ClientTask, OnConnect, SendAuthMessage, OnData, OnDisconnect, OnCloseFrame,
              OnCloseText, OnClosed, ClientEnds, Drop, ClearReconnectTimer
<1>6. CASE NetworkChanges
  BY <1>6 DEF NetworkChanges, Net!GoUp, Net!GoDown
<1>7. CASE Register \/ MakeClient \/ NameChanges \/ ServerChanges
  BY <1>7 DEF Register, MakeClient, NameChanges, ServerChanges
<1>8. CASE UNCHANGED vars
  BY <1>8 DEF vars
<1> QED BY <1>1, <1>2, <1>3, <1>4, <1>5, <1>6, <1>7, <1>8 DEF Next

LEMMA DataStep == DataTyped /\ [Next]_vars => DataTyped'
<1> SUFFICES ASSUME DataTyped, [Next]_vars PROVE DataTyped'
  OBVIOUS
<1> USE WsClientAssumption
    DEF DataTyped, ReadInRange, Tasks, Idle, Go, netVars, clientVars, timerVars, pingVars, flags
<1>1. ASSUME NEW t \in Tasks, Step(t) PROVE DataTyped'
  <2>1. CASE StartClient(t) \/ ConnectDelayEnds(t) \/ SendCloseFrame(t)
    BY <2>1 DEF StartClient, ConnectDelayEnds, SendCloseFrame
  <2>2. CASE CloseReturns(t) \/ StopClient(t) \/ DecideRetry(t)
    BY <2>2 DEF CloseReturns, StopClient, DecideRetry, Drop
  <2> QED BY <1>1, <2>1, <2>2 DEF Step
<1>2. CASE Timers
  <2>1. CASE ReconnectTask
    BY <2>1 DEF ReconnectTask
  <2>2. CASE RetryConnect
    BY <2>2 DEF RetryConnect, EnterConnect
  <2>3. CASE PingTask
    BY <2>3 DEF PingTask
  <2>4. CASE SendPing
    BY <2>4 DEF SendPing, Carry
  <2> QED BY <1>2, <2>1, <2>2, <2>3, <2>4 DEF Timers
<1>3. CASE ConnectionHandler
  <2>1. queue' \in Seq(Announcement)
    BY <1>3, NetTyped DEF ConnectionHandler, Net!Next
  <2> QED BY <1>3, <2>1 DEF ConnectionHandler, EnterConnect
<1>4. CASE SendMessage \/ SendReconnect \/ Close
  BY <1>4 DEF SendMessage, SendReconnect, Close, Carry
<1>5. CASE ClientTask
  <2>1. CASE OnConnect \/ SendAuthMessage \/ OnData
    BY <2>1 DEF OnConnect, SendAuthMessage, OnData, Heard, Carry
  <2>2. CASE OnDisconnect \/ OnCloseFrame \/ OnCloseText
    BY <2>2 DEF OnDisconnect, OnCloseFrame, OnCloseText, Heard, Drop
  <2>3. CASE OnClosed \/ ClientEnds
    BY <2>3 DEF OnClosed, ClientEnds, Drop
  <2> QED BY <1>5, <2>1, <2>2, <2>3 DEF ClientTask
<1>6. CASE NetworkChanges
  <2>1. queue' \in Seq(Announcement)
    BY <1>6, NetTyped DEF NetworkChanges, Net!Next
  <2> QED BY <1>6, <2>1 DEF NetworkChanges
<1>7. CASE Register \/ MakeClient \/ NameChanges \/ ServerChanges
  BY <1>7 DEF Register, MakeClient, NameChanges, ServerChanges
<1>8. CASE UNCHANGED vars
  BY <1>8 DEF vars
<1> QED BY <1>1, <1>2, <1>3, <1>4, <1>5, <1>6, <1>7, <1>8 DEF Next

LEMMA TypeStep == TypeOK /\ ReadInRange /\ [Next]_vars => TypeOK' /\ ReadInRange'
<1> SUFFICES ASSUME TypeOK, ReadInRange, [Next]_vars PROVE TypeOK' /\ ReadInRange'
  OBVIOUS
<1>1. FlagsTyped' /\ DataTyped'
  BY TypeParts, FlagsStep, DataStep
<1> QED BY <1>1 DEF TypeOK, FlagsTyped, DataTyped, Announcement

\* The client's variables keep their types for every configuration: no interleaving
\* of the tasks that read, decrement and reset them takes the count of pings out of
\* its range, or the retries above theirs. (Below zero they may go.)
THEOREM ClientTypeCorrect == Spec => []TypeOK
<1>1. Init => TypeOK /\ ReadInRange
  BY InitTyped, TypeParts
<1> QED BY <1>1, TypeStep, PTL DEF Spec

-----------------------------------------------------------------------------
\* What becomes of an announcement that the network is up.

LEMMA UpIsAnnounced ==
    ASSUME queue \in Seq(Announcement), NetworkMode \in {"WAN", "LAN"}, Net!GoUp
    PROVE  Announced'
<1>1. PICK w \in Announcement, l \in Announcement :
          /\ w.up /\ w.kind = "wan" /\ l.up /\ l.kind = "lan"
          /\ queue' = queue \o <<w, l>>
  BY DEF Net!GoUp, Net!News, Announcement
<1>2. /\ Len(queue) + 1 \in DOMAIN queue' /\ queue'[Len(queue) + 1] = w
      /\ Len(queue) + 2 \in DOMAIN queue' /\ queue'[Len(queue) + 2] = l
  BY <1>1
<1>3. CASE NetworkMode = "WAN"
  BY <1>1, <1>2, <1>3 DEF Announced, Concerns
<1>4. CASE NetworkMode = "LAN"
  BY <1>1, <1>2, <1>4 DEF Announced, Concerns
<1> QED BY <1>3, <1>4

LEMMA AnnouncementDelivered ==
    ASSUME queue \in Seq(Announcement), Announced, Net!Deliver
    PROVE  Announced' \/ (Head(queue).up /\ Concerns(Head(queue).kind))
<1>1. PICK i \in DOMAIN queue : queue[i].up /\ Concerns(queue[i].kind)
  BY DEF Announced
<1>2. queue' = Tail(queue) /\ Head(queue) = queue[1]
  BY DEF Net!Deliver
<1>3. CASE i = 1
  BY <1>1, <1>2, <1>3
<1>4. CASE i > 1
  <2>1. i - 1 \in DOMAIN queue' /\ queue'[i - 1] = queue[i]
    BY <1>1, <1>2, <1>4
  <2> QED BY <1>1, <2>1 DEF Announced, Concerns
<1> QED BY <1>1, <1>3, <1>4

-----------------------------------------------------------------------------
\* A client that has ended is started again.

\* A configuration under which the object follows its network: retries are allowed,
\* a network mode is set, and the object was made before the network connected.
Follows ==
    RetryCount > 0 /\ CreatedFirst /\ NetworkMode \in {"WAN", "LAN"}

LEMMA OwedInit == Follows /\ Init => MissedNothing /\ RetriesComeBack /\ StartOwed
BY DEF Follows, Init, Net!Init, Present, Alone, MissedNothing, RetriesComeBack, StartOwed

LEMMA OwedStep ==
    Follows /\ IInv /\ [Next]_vars => MissedNothing' /\ RetriesComeBack' /\ StartOwed'
<1> DEFINE Owed == MissedNothing /\ RetriesComeBack /\ StartOwed
<1> SUFFICES ASSUME Follows, IInv, [Next]_vars PROVE Owed'
  OBVIOUS
<1> USE DEF Tasks, Idle, Go, At, netVars, clientVars, timerVars, pingVars, flags,
            Follows, Alone, Present, MissedNothing, RetriesComeBack, StartOwed
<1>0. /\ FlagsTyped /\ DataTyped /\ Owed
      /\ UNCHANGED queue => Announced' = Announced
  BY TypeParts DEF IInv, Announced, Concerns
<1> USE <1>0 DEF FlagsTyped, DataTyped, ReadInRange
<1>1. ASSUME NEW t \in Tasks, Step(t) PROVE Owed'
  <2>1. CASE StartClient(t)
    BY <2>1 DEF StartClient
  <2>2. CASE ConnectDelayEnds(t)
    BY <2>2, WsClientAssumption DEF ConnectDelayEnds, SetReconnectTimer
  <2>3. CASE SendCloseFrame(t)
    BY <2>3 DEF SendCloseFrame
  <2>4. CASE CloseReturns(t)
    BY <2>4 DEF CloseReturns
  <2>5. CASE StopClient(t)
    BY <2>5 DEF StopClient, Drop
  <2>6. CASE DecideRetry(t)
    BY <2>6 DEF DecideRetry, SetReconnectTimer
  <2> QED BY <1>1, <2>1, <2>2, <2>3, <2>4, <2>5, <2>6 DEF Step
<1>2. CASE Timers
  <2>1. CASE ReconnectTask
    BY <2>1 DEF ReconnectTask
  <2>2. CASE RetryConnect
    BY <2>2 DEF RetryConnect, EnterConnect, ClearReconnectTimer
  <2>3. CASE PingTask
    BY <2>3 DEF PingTask
  <2>4. CASE SendPing
    BY <2>4 DEF SendPing
  <2> QED BY <1>2, <2>1, <2>2, <2>3, <2>4 DEF Timers
<1>3. CASE ConnectionHandler
  <2>1. Announced => Announced' \/ (Head(queue).up /\ Concerns(Head(queue).kind))
    BY <1>3, AnnouncementDelivered DEF ConnectionHandler
  <2>2. born # "no" /\ UNCHANGED up
    BY <1>3 DEF ConnectionHandler, Net!Deliver
  <2>3. CASE Head(queue).up /\ Concerns(Head(queue).kind)
    BY <1>3, <2>2, <2>3 DEF ConnectionHandler, EnterConnect
  <2>4. CASE ~(Head(queue).up /\ Concerns(Head(queue).kind))
    <3>1. /\ UNCHANGED <<scene, named, dropped, client, shouldConnect, timer, retries, born>>
          /\ task' = task \/ task' = [task EXCEPT !["mgr"] = "close"]
          /\ task["mgr"] = "idle"
      BY <1>3, <2>2, <2>4 DEF ConnectionHandler
    <3> QED BY <2>1, <2>2, <2>4, <3>1
  <2> QED BY <2>3, <2>4
<1>4. CASE SendMessage \/ SendReconnect \/ Close
  BY <1>4 DEF SendMessage, SendReconnect, Close
<1>5. CASE ClientTask
  <2>1. CASE OnConnect
    BY <2>1, WsClientAssumption DEF OnConnect
  <2>2. CASE SendAuthMessage
    BY <2>2 DEF SendAuthMessage
  <2>3. CASE OnDisconnect
    BY <2>3 DEF OnDisconnect, Drop
  <2>4. CASE OnData \/ OnCloseFrame \/ OnCloseText
    BY <2>4 DEF OnData, OnCloseFrame, OnCloseText
  <2>5. CASE OnClosed \/ ClientEnds
    BY <2>5 DEF OnClosed, ClientEnds, Drop
  <2> QED BY <1>5, <2>1, <2>2, <2>3, <2>4, <2>5 DEF ClientTask
<1>6. CASE NetworkChanges
  <2>1. UNCHANGED <<scene, named, dropped, born, client, shouldConnect, timer, retries, task>>
       /\ born # "no"
    BY <1>6 DEF NetworkChanges
  <2>2. CASE Net!GoUp
    BY <2>1, <2>2, UpIsAnnounced
  <2>3. CASE Net!GoDown
    BY <2>1, <2>3 DEF Net!GoDown
  <2> QED BY <1>6, <2>2, <2>3 DEF NetworkChanges
<1>7. CASE Register \/ MakeClient \/ NameChanges \/ ServerChanges
  BY <1>7 DEF Register, MakeClient, NameChanges, ServerChanges
<1>8. CASE UNCHANGED vars
  BY <1>8 DEF vars
<1> QED BY <1>1, <1>2, <1>3, <1>4, <1>5, <1>6, <1>7, <1>8 DEF Next

\* The inductive invariant holds under every configuration in which the object follows.
THEOREM ClientInvariant == Follows => (Spec => []IInv)
<1> SUFFICES ASSUME Follows PROVE Spec => []IInv
  OBVIOUS
<1>1. Init => IInv
  BY InitTyped, OwedInit, TypeParts DEF IInv
<1>2. IInv /\ [Next]_vars => IInv'
  BY TypeStep, OwedStep DEF IInv
<1> QED BY <1>1, <1>2, PTL DEF Spec

\* An object that was there before its network and follows it: a client that has
\* ended while the network is there, and was not closed, has somebody to start it
\* again, in whatever order the four tasks ran and however often each reset a counter.
THEOREM ClientNeverForsaken == Follows => (Spec => []NeverForsaken)
<1> SUFFICES ASSUME Follows PROVE Spec => []NeverForsaken
  OBVIOUS
<1>1. Spec => []IInv
  BY ClientInvariant
<1>2. IInv => NeverForsaken
  BY DEF IInv, StartOwed, NeverForsaken, StartPending, Announced, At, Idle
<1> QED BY <1>1, <1>2, PTL
=============================================================================
