------------------------- MODULE WsClientConnection -------------------------
(***************************************************************************)
(* SigmaWsClient and the part of SigmaConnection it uses: the reconnect    *)
(* timer, the ping timer and connectionHandler.                            *)
(*                                                                         *)
(* Four tasks call its methods, with no lock between them:                 *)
(*   - "mgr", the manager's event loop, in networkEventHandler;            *)
(*   - "timer", the timer task, in reconnectTask and pingTask;             *)
(*   - "conn", the connection's event loop, in protocolEventHandler;       *)
(*   - "ws", the task of the esp_websocket client, in wsEventHandler.      *)
(* Each goes from place to place (task[t]) through Connect(), Disconnect() *)
(* and the decrement of a counter.  The server and the esp_websocket       *)
(* client are external: a started client connects again by itself, and     *)
(* closing it waits, with portMAX_DELAY, until its task has ended, which   *)
(* the client's own task may not do.  The network is what NetworkStatus    *)
(* promises; Connect() asks for the flag of the network named "", which    *)
(* another network that is counted too may leave behind.                   *)
(***************************************************************************)
EXTENDS Integers, Sequences

CONSTANTS
    Scenes,          \* the surroundings looked at, records:
                     \*   others  other networks are registered beside the one named ""
                     \*   server  the server can be reached at times
    NetworkMode,     \* config.networkMode: "NONE", "WAN", "LAN"
    DefaultName,     \* whether a network is registered under the default name ""
    RetryCount,      \* config.retryConnectingCount (3); its delay is not zero
    PingRetryCount,  \* config.pingRetryCount (3)
    PingType,        \* config.pingType: "PING_NO", "PING_TEXT", "PING_BINARY"
    FirstMessage,    \* whether config.authType has AUTH_TYPE_FIRST_MESSAGE
    CreatedFirst,    \* the object is created before the network connects (as the example does)
    NetCap,          \* bound: announcements waiting when the network changes
    Overdraft        \* bound: how far below zero the retries may fall

ASSUME WsClientAssumption ==
    /\ Scenes \subseteq [others : BOOLEAN, server : BOOLEAN]
    /\ NetworkMode \in {"NONE", "WAN", "LAN"}
    /\ PingType \in {"PING_NO", "PING_TEXT", "PING_BINARY"}
    /\ {FirstMessage, DefaultName, CreatedFirst} \subseteq BOOLEAN
    /\ RetryCount \in Nat /\ PingRetryCount \in Nat /\ NetCap \in Nat /\ Overdraft \in Nat

VARIABLES
    up, queue,       \* SigmaNetworkMgr
    named,           \* isConnected of the network with the name ""
    scene,           \* one of Scenes, for good
    reachable,       \* the server can be reached over a network that is up
    born,            \* how far the constructor is: "no", "registered", "made"
    client,          \* wsClient: stopped, trying, online, or on its way out
    closeSent,       \* this connection has carried our CLOSE frame
    first,           \* what this connection has carried first: "none", "auth", "other"
    isReady, shouldConnect,
    timer, retries,  \* reconnectTimer is running; retryConnectingCount
    pingTimer, pingRetryCount,
    task,            \* where each task is
    read,            \* the counter as the timer task has read it, to write it back less one
    sent,            \* history: pings sent since the server was heard, or connected to
    dropped          \* history: one of several networks was there at the last Connect(),
                     \* but not the one named ""

netVars    == <<scene, up, queue, named>>
clientVars == <<client, closeSent, first>>
timerVars  == <<timer, retries>>
pingVars   == <<pingTimer, pingRetryCount, sent>>
flags      == <<isReady, shouldConnect, dropped>>
vars == <<netVars, reachable, born, clientVars, flags, timerVars, pingVars, task, read>>

Net == INSTANCE NetworkStatus

Tasks == {"mgr", "timer", "conn", "ws"}
Idle(t) == task[t] = "idle"
Go(t, place) == task' = [task EXCEPT ![t] = place]

TypeOK ==
    /\ scene \in Scenes
    /\ up \in BOOLEAN /\ named \in BOOLEAN /\ dropped \in BOOLEAN
    /\ queue \in Seq([kind : {"wan", "lan"}, up : BOOLEAN])
    /\ reachable \in BOOLEAN /\ born \in {"no", "registered", "made"}
    /\ client \in {"stopped", "trying", "online", "ending", "ended"}
    /\ closeSent \in BOOLEAN /\ isReady \in BOOLEAN /\ shouldConnect \in BOOLEAN
    /\ timer \in BOOLEAN /\ pingTimer \in BOOLEAN
    /\ first \in {"none", "auth", "other"}
    /\ retries \in Int /\ retries <= RetryCount
    /\ pingRetryCount \in 0 .. PingRetryCount
    /\ task \in [Tasks -> {"idle", "start", "delay", "close", "closing", "stop", "decide",
                           "retry", "ping", "auth"}]
    /\ read \in Int /\ sent \in 0 .. PingRetryCount

Init ==
    /\ scene \in Scenes
    /\ Net!Init /\ named = FALSE /\ reachable = FALSE /\ born = "no" /\ dropped = FALSE
    /\ client = "stopped" /\ closeSent = FALSE /\ first = "none"
    /\ isReady = FALSE /\ shouldConnect = TRUE
    /\ timer = FALSE /\ retries = RetryCount
    /\ pingTimer = FALSE /\ pingRetryCount = PingRetryCount
    /\ task = [t \in Tasks |-> "idle"] /\ read = 0 /\ sent = 0

\* The network named "" is the only one there is: then it is connected first and
\* announced next. (Wi-Fi announces its loss before it is disconnected, Ethernet after.)
Alone == DefaultName /\ ~scene.others

-----------------------------------------------------------------------------
\* SigmaConnection's one-shot reconnect timer

ClearReconnectTimer == timer' = FALSE

\* setReconnectTimer: it is set if a retry is left. (How the look and the setting fall
\* apart, and what two tasks make of no timer, is in MqttConnection.)
SetReconnectTimer(left) == timer' = (timer \/ left > 0)

-----------------------------------------------------------------------------
\* The constructor registers for the network's events, then makes the client and
\* sets the ping timer. It does not look at the network. If the client cannot be
\* made, no more comes of the object than has been done.

Register ==
    /\ born = "no" /\ born' = "registered"
    /\ UNCHANGED <<netVars, reachable, clientVars, flags, timerVars, pingVars, task, read>>

MakeClient ==
    /\ born = "registered" /\ born' = "made"
    /\ pingTimer' = TRUE
    /\ UNCHANGED <<netVars, reachable, clientVars, flags, timerVars, pingRetryCount, sent, task,
                   read>>

-----------------------------------------------------------------------------
\* Connect(): nothing, not even the timer, unless the network named "" is connected ...
EnterConnect(t) ==
    /\ dropped' = (~named /\ ~Alone)
    /\ IF named THEN ClearReconnectTimer /\ Go(t, "start")
                ELSE UNCHANGED timer /\ Go(t, "idle")

\* ... the client is started, if there is one and it is stopped ...
StartClient(t) ==
    /\ task[t] = "start"
    /\ client' = IF born = "made" /\ client = "stopped" THEN "trying" ELSE client
    /\ Go(t, "delay")
    /\ UNCHANGED <<netVars, reachable, born, closeSent, first, flags, timerVars, pingVars, read>>

\* Mutant: the timer is not set, since the client has just been started.
MutNoRearm(t) ==
    /\ task[t] = "delay"
    /\ retries' = RetryCount
    /\ pingRetryCount' = PingRetryCount
    /\ Go(t, "idle")
    /\ UNCHANGED <<netVars, reachable, born, clientVars, flags, timer, pingTimer, sent, read>>

\* ... and 5 s later the counters are reset and the timer is set, whatever has
\* become of the start.
ConnectDelayEnds(t) ==
    /\ task[t] = "delay"
    /\ retries' = RetryCount
    /\ pingRetryCount' = PingRetryCount
    /\ SetReconnectTimer(RetryCount)
    /\ Go(t, "idle")
    /\ UNCHANGED <<netVars, reachable, born, clientVars, flags, pingTimer, sent, read>>

-----------------------------------------------------------------------------
\* Disconnect(): a CLOSE frame, which gets through only if there is a connection,
\* and a wait until the client's task has ended. On that task both calls are refused.
SendCloseFrame(t) ==
    /\ task[t] = "close"
    /\ closeSent' = (closeSent \/ client = "online")
    /\ Go(t, IF t = "ws" THEN "decide" ELSE IF client = "stopped" THEN "stop" ELSE "closing")
    /\ UNCHANGED <<netVars, reachable, born, client, first, flags, timerVars, pingVars, read>>

CloseReturns(t) ==
    /\ task[t] = "closing" /\ client = "stopped"
    /\ Go(t, "stop")
    /\ UNCHANGED <<netVars, reachable, born, clientVars, flags, timerVars, pingVars, read>>

\* The connection is gone, if there was one.
Drop(state) == client' = state /\ closeSent' = FALSE /\ first' = "none"

\* A client that somebody has started since is stopped; nothing is posted.
StopClient(t) ==
    /\ task[t] = "stop"
    /\ client = "stopped" \/ Idle("ws")
    /\ Drop("stopped")
    /\ Go(t, "decide")
    /\ UNCHANGED <<netVars, reachable, born, flags, timerVars, pingVars, read>>

\* What is left of Disconnect(), with a retry left: the timer is set, or a closed
\* client's pings end. The reconnect timer of a closed client goes on.
DecideRetry(t) ==
    /\ task[t] = "decide"
    /\ pingTimer' = (pingTimer /\ (shouldConnect \/ retries <= 0))
    /\ IF shouldConnect THEN SetReconnectTimer(retries) ELSE UNCHANGED timer
    /\ Go(t, "idle")
    /\ UNCHANGED <<netVars, reachable, born, clientVars, flags, retries, pingRetryCount, sent,
                   read>>

-----------------------------------------------------------------------------
\* A text frame goes out, if there is a connection.
Carry(what) == first' = IF client = "online" /\ first = "none" THEN what ELSE first

\* The timer task. A counter is read and written back in two steps: what another
\* task writes in between is lost. The retries may fall below zero.

ReconnectTask ==
    /\ timer /\ Idle("timer") /\ retries > -Overdraft
    /\ timer' = FALSE /\ read' = retries
    /\ Go("timer", "retry")
    /\ UNCHANGED <<netVars, reachable, born, clientVars, flags, retries, pingVars>>

RetryConnect ==
    /\ task["timer"] = "retry"
    /\ retries' = read - 1 /\ read' = 0
    /\ EnterConnect("timer")
    /\ UNCHANGED <<netVars, reachable, born, clientVars, isReady, shouldConnect, pingVars>>

\* Mutant: off by one at the last ping.
MutPingTask ==
    /\ pingTimer /\ isReady /\ Idle("timer")
    /\ IF pingRetryCount < 0 THEN Go("timer", "close") /\ UNCHANGED read
                             ELSE Go("timer", "ping") /\ read' = pingRetryCount
    /\ UNCHANGED <<netVars, reachable, born, clientVars, flags, timerVars, pingVars>>

PingTask ==
    /\ pingTimer /\ isReady /\ Idle("timer")
    /\ IF pingRetryCount <= 0 THEN Go("timer", "close") /\ UNCHANGED read
                              ELSE Go("timer", "ping") /\ read' = pingRetryCount
    /\ UNCHANGED <<netVars, reachable, born, clientVars, flags, timerVars, pingVars>>

\* Only PING_TEXT has something sent.
SendPing ==
    /\ task["timer"] = "ping"
    /\ pingRetryCount' = read - 1 /\ read' = 0
    /\ sent' = IF PingType = "PING_TEXT" /\ sent < PingRetryCount THEN sent + 1 ELSE sent
    /\ IF PingType = "PING_TEXT" THEN Carry("other") ELSE UNCHANGED first
    /\ Go("timer", "idle")
    /\ UNCHANGED <<netVars, reachable, born, client, closeSent, flags, timerVars, pingTimer>>

-----------------------------------------------------------------------------
\* connectionHandler, on the manager's event loop.

Concerns(kind) == <<NetworkMode, kind>> \in {<<"WAN", "wan">>, <<"LAN", "lan">>}

ConnectionHandler ==
    /\ Idle("mgr")
    /\ Net!Deliver
    /\ IF born = "no" \/ (Head(queue).up /\ ~Concerns(Head(queue).kind))
       THEN UNCHANGED <<task, timer, dropped>>
       ELSE IF Head(queue).up THEN EnterConnect("mgr")
                              ELSE Go("mgr", "close") /\ UNCHANGED <<timer, dropped>>
    /\ UNCHANGED <<scene, named, reachable, born, clientVars, isReady, shouldConnect, retries,
                   pingVars, read>>

\* protocolEventHandler: a message of an application that waits to be told that the
\* connection is ready; PROTOCOL_SEND_RECONNECT and PROTOCOL_SEND_CLOSE.
SendMessage ==
    /\ isReady /\ Idle("conn")
    /\ Carry("other")
    /\ UNCHANGED <<netVars, reachable, born, client, closeSent, flags, timerVars, pingVars,
                   task, read>>

SendReconnect ==
    /\ born = "made" /\ Idle("conn")
    /\ Go("conn", "close")
    /\ UNCHANGED <<netVars, reachable, born, clientVars, flags, timerVars, pingVars, read>>

Close ==
    /\ born = "made" /\ Idle("conn")
    /\ shouldConnect' = FALSE
    /\ Go("conn", "close")
    /\ UNCHANGED <<netVars, reachable, born, clientVars, isReady, dropped, timerVars, pingVars,
                   read>>

-----------------------------------------------------------------------------
\* wsEventHandler, on the client's task, which does nothing else meanwhile.

Heard == pingRetryCount' = PingRetryCount /\ sent' = 0

\* onConnect: setReady(true), which tells the application, and then the
\* credentials, if they are due with the first message.
OnConnect ==
    /\ client = "trying" /\ up /\ reachable /\ Idle("ws")
    /\ client' = "online"
    /\ isReady' = TRUE /\ dropped' = FALSE /\ retries' = RetryCount
    /\ ClearReconnectTimer /\ Heard
    /\ IF FirstMessage THEN Go("ws", "auth") ELSE UNCHANGED task
    /\ UNCHANGED <<netVars, reachable, born, closeSent, first, shouldConnect, pingTimer, read>>

SendAuthMessage ==
    /\ task["ws"] = "auth"
    /\ Carry("auth")
    /\ Go("ws", "idle")
    /\ UNCHANGED <<netVars, reachable, born, client, closeSent, flags, timerVars, pingVars, read>>

\* The connection breaks, or an attempt fails. Whether a client that is being
\* closed then tries again is its own affair. setReady(false) and Disconnect().
OnDisconnect ==
    /\ client \in {"trying", "online"} /\ Idle("ws")
    /\ client = "online" \/ ~(up /\ reachable)
    /\ Drop("trying") \/ (closeSent /\ Drop("ended"))
    /\ isReady' = FALSE /\ ClearReconnectTimer
    /\ IF shouldConnect THEN Go("ws", "close") ELSE UNCHANGED task
    /\ UNCHANGED <<netVars, reachable, born, shouldConnect, dropped, retries, pingVars, read>>

\* onData, but for CLOSE: text, binary data, PING and PONG are news of the server.
OnData ==
    /\ client = "online" /\ up /\ reachable /\ Idle("ws")
    /\ ClearReconnectTimer /\ Heard
    /\ UNCHANGED <<netVars, reachable, born, clientVars, flags, retries, pingTimer, task, read>>

\* A CLOSE frame, the server's own or its answer to ours, ends the connection ...
\* "CLOSE" as a text does not.
OnCloseFrame ==
    /\ client = "online" /\ up /\ reachable /\ Idle("ws")
    /\ client' = "ending"
    /\ ClearReconnectTimer /\ Heard
    /\ Go("ws", "close")
    /\ UNCHANGED <<netVars, reachable, born, closeSent, first, flags, retries, pingTimer, read>>

OnCloseText ==
    /\ client = "online" /\ up /\ reachable /\ Idle("ws")
    /\ ClearReconnectTimer /\ Heard
    /\ Go("ws", "close")
    /\ UNCHANGED <<netVars, reachable, born, clientVars, flags, retries, pingTimer, read>>

\* Mutant: a closed connection is left to the client, which tries again by itself
\* only when a connection breaks.
MutOnClosed ==
    /\ client = "ending" /\ Idle("ws")
    /\ client' = "ended"
    /\ isReady' = FALSE /\ ClearReconnectTimer
    /\ UNCHANGED <<netVars, reachable, born, closeSent, first, shouldConnect, dropped, retries,
                   pingVars, task, read>>

\* ... WEBSOCKET_EVENT_CLOSED is handled ...
OnClosed ==
    /\ client = "ending" /\ Idle("ws")
    /\ client' = "ended"
    /\ isReady' = FALSE /\ ClearReconnectTimer
    /\ Go("ws", "close")
    /\ UNCHANGED <<netVars, reachable, born, closeSent, first, shouldConnect, dropped, retries,
                   pingVars, read>>

\* ... and the client's task ends.
ClientEnds ==
    /\ client = "ended" /\ Idle("ws")
    /\ Drop("stopped")
    /\ UNCHANGED <<netVars, reachable, born, flags, timerVars, pingVars, task, read>>

-----------------------------------------------------------------------------
\* The network (NetworkStatus) and the server (external).

NameChanges ==
    /\ CreatedFirst => born # "no"
    /\ \/ DefaultName /\ ~named /\ (Alone => ~up) /\ named' = TRUE
       \/ named /\ named' = FALSE
    /\ UNCHANGED <<scene, up, queue, reachable, born, clientVars, flags, timerVars, pingVars,
                   task, read>>

NetworkChanges ==
    /\ CreatedFirst => born # "no"
    /\ Len(queue) <= NetCap
    /\ \/ (Alone => named) /\ Net!GoUp
       \/ Net!GoDown
    /\ UNCHANGED <<scene, named, reachable, born, clientVars, flags, timerVars, pingVars, task,
                   read>>

ServerChanges ==
    /\ scene.server /\ reachable' = ~reachable
    /\ UNCHANGED <<netVars, born, clientVars, flags, timerVars, pingVars, task, read>>

-----------------------------------------------------------------------------
Step(t) == StartClient(t) \/ ConnectDelayEnds(t) \/ SendCloseFrame(t) \/ CloseReturns(t)
           \/ StopClient(t) \/ DecideRetry(t)
Timers  == ReconnectTask \/ RetryConnect \/ PingTask \/ SendPing
ClientTask == \/ OnConnect \/ SendAuthMessage \/ OnDisconnect \/ OnData
              \/ OnCloseFrame \/ OnCloseText \/ OnClosed \/ ClientEnds

Next == \/ Register \/ MakeClient
        \/ \E t \in Tasks : Step(t)
        \/ Timers \/ ConnectionHandler \/ SendMessage \/ SendReconnect \/ Close \/ ClientTask
        \/ NameChanges \/ NetworkChanges \/ ServerChanges

Spec == Init /\ [][Next]_vars

\* The tasks run; a client that can reach its server connects in the end, and a
\* server that is reached answers a CLOSE frame.
Fairness == /\ \A t \in Tasks : WF_vars(Step(t))
            /\ SF_vars(ReconnectTask) /\ WF_vars(RetryConnect) /\ WF_vars(SendPing)
            /\ WF_vars(ConnectionHandler) /\ WF_vars(MakeClient)
            /\ WF_vars(OnConnect) /\ WF_vars(SendAuthMessage)
            /\ WF_vars(OnClosed) /\ WF_vars(ClientEnds)
            /\ WF_vars(closeSent /\ OnCloseFrame)
FairSpec == Spec /\ Fairness

-----------------------------------------------------------------------------
\* A client that has ended while its network is there, and was not closed, has
\* somebody to start it again: the timer, a task on its way, or an announcement.
\* The server's CLOSE, a stop that meets a retry, retries that have run out while
\* the network was away: none leaves it without. Only where other networks count as
\* well may Connect() have come when they were up and the network "" was not yet.
Announced == \E i \in DOMAIN queue : queue[i].up /\ Concerns(queue[i].kind)
Present   == up /\ (Alone => named)
StartPending == timer \/ Announced \/ \E t \in Tasks : ~Idle(t)
NeverForsaken ==
    (born = "made" /\ client = "stopped" /\ Present /\ shouldConnect) => StartPending \/ dropped

\* Why: whoever takes the timer away, or uses the retries up, is on its way to a
\* place that sets the timer; this is so with a retry allowed, for an object that was
\* there before its network and follows it.
At(places) == \E t \in Tasks : task[t] \in places
ReadInRange ==
    /\ task["timer"] = "retry" => read <= RetryCount
    /\ task["timer"] = "ping"  => read \in 1 .. PingRetryCount
MissedNothing == born = "no" => ~up /\ ~named /\ queue = <<>>
RetriesComeBack == (Present /\ retries <= 0) => Announced \/ At({"start", "delay"}) \/ dropped
StartOwed ==
    (Present /\ shouldConnect /\ client \in {"stopped", "ended"}) =>
        \/ timer \/ Announced \/ dropped
        \/ At({"start", "delay", "close", "closing", "stop", "decide", "retry"})
IInv == TypeOK /\ ReadInRange /\ MissedNothing /\ RetriesComeBack /\ StartOwed

\* The example that waits "for protocol to be ready": with its one network and the
\* server there to stay, a client that is neither closed nor told to reconnect for
\* ever gets ready, and again after every loss.
LeftAlone == task["conn"] \in {"idle", "closing"}
ReadyAgain ==
    (Alone /\ <>[](up /\ named /\ reachable /\ born = "made" /\ LeftAlone) /\ []shouldConnect)
        => []<>(isReady /\ client = "online")

-----------------------------------------------------------------------------
\* Statements of the repository that the code does not keep.

\* "First Message: {"type":"auth",...": what a connection carries first is the credentials.
AuthComesFirst == FirstMessage => first # "other"

\* "int pingRetryCount = 3; // reconnect after 3 pings": a connection is given up
\* for want of an answer only if that many pings have been sent.
GivesUp == Idle("timer") /\ task'["timer"] = "close"
AfterPings == [][GivesUp => sent >= PingRetryCount]_vars
=============================================================================
