--------------------------- MODULE MqttConnection ---------------------------
(***************************************************************************)
(* SigmaMQTT and the part of SigmaConnection it uses: connectionHandler    *)
(* and the reconnect timer.                                                *)
(*                                                                         *)
(* Connect() runs on three tasks, with no lock between them:               *)
(*   - "app", from the constructor or because the application calls it;    *)
(*   - "mgr", the manager's event loop, in networkEventHandler;            *)
(*   - "timer", the timer task, in reconnectTask.                          *)
(* Each call goes from step to step (task[t]), as it reads and writes      *)
(* members the others use, and those three and onMqttEvent, on "loop", the *)
(* connection's own event loop, set the reconnect timer in such steps.     *)
(* The broker and the esp-mqtt client, which connects again by itself once *)
(* it is started, are external.  The network is what NetworkStatus         *)
(* promises; the flag of the one network named "" goes its own way, as the *)
(* other networks count for NetworkStatus too.                             *)
(***************************************************************************)
EXTENDS Integers, Sequences, FiniteSets, Functions

CONSTANTS
    Scenes,        \* the configurations and uses of the object looked at, records:
                   \*   networkMode   config.networkMode
                   \*   defaultName   a network is registered under the default name ""
                   \*   rootSlash     config.rootTopic ends in "/"
                   \*   getLastState  config.getLastState
                   \*   createdFirst  the object is made before the network connects
                   \*   appConnects   the application calls Connect() as well
                   \*   subscribes    it subscribes and unsubscribes
                   \*   messages      what the broker sends for its subscriptions
                   \*   retryCount    retryConnectingCount at first (3)
    Topics,        \* topics the application subscribes to
    Resubscribed,  \* those with isReSubscribe
    StopFails,     \* whether stopping a connected client may fail
    NetCap,        \* bound: announcements waiting when the network changes
    EventCap       \* bound: MQTT events waiting when another comes

\* A message is "LIVE", or one the broker retained before the subscription.
Messages == {"LIVE", "RETAINED"}

ASSUME MqttAssumption ==
    /\ Scenes \subseteq [networkMode : {"NONE", "WAN", "LAN"}, defaultName : BOOLEAN,
                         rootSlash : BOOLEAN, getLastState : BOOLEAN, createdFirst : BOOLEAN,
                         appConnects : BOOLEAN, subscribes : BOOLEAN,
                         messages : SUBSET Messages, retryCount : Nat]
    /\ Resubscribed \subseteq Topics
    /\ StopFails \in BOOLEAN
    /\ NetCap \in Nat /\ EventCap \in Nat

VARIABLES
    scene,          \* one of Scenes, for good
    up, queue,      \* SigmaNetworkMgr
    named,          \* isConnected of the network with the name ""
    reachable,      \* the broker can be reached over a network that is up
    born,           \* the constructor has registered the handlers
    clients,        \* the esp-mqtt clients created: stopped, trying or online
    mqttClient,     \* SigmaMQTT::mqttClient, an index of clients, 0 for NULL
    asked,          \* per client, the topics its present session has at the broker
    isReady,
    made,           \* reconnectTimer is not nullptr
    timer,          \* the timer it points to is running
    strays,         \* running timers it no longer points to
    retries,        \* retryConnectingCount, a signed number
    task,           \* per task, where it is in Connect() or the timer's functions
    events,         \* MQTT events waiting on the connection's event loop
    heard,          \* the messages that have been handed to the application
    subscriptions,  \* keys of the map
    request         \* what the application's Subscribe or Unsubscribe has left to do

netVars == <<up, queue, named>>
clientVars == <<clients, mqttClient, asked>>
timerVars == <<made, timer, strays, retries>>
subVars == <<subscriptions, request>>
world == <<scene, netVars, reachable>>
inbox == <<events, heard>>
vars == <<world, born, clientVars, isReady, timerVars, task, inbox, subVars>>

Net == INSTANCE NetworkStatus

Tasks == {"app", "mgr", "timer", "loop"}
OnTheWay == {"init", "create", "check", "start"}
Rearming == {"arm", "make"}
\* The timers underway, or about to be, are never more: see Overdrawn.
Overdraft == 7
Bit(b) == IF b THEN 1 ELSE 0
NoRequest == [op |-> "none"]

TypeOK ==
    /\ scene \in Scenes
    /\ up \in BOOLEAN /\ named \in BOOLEAN /\ reachable \in BOOLEAN /\ born \in BOOLEAN
    /\ queue \in Seq([kind : {"wan", "lan"}, up : BOOLEAN])
    /\ clients \in Seq({"stopped", "trying", "online"})
    /\ mqttClient \in 0 .. Len(clients)
    /\ DOMAIN asked = DOMAIN clients /\ \A c \in DOMAIN asked : asked[c] \subseteq Topics
    /\ isReady \in BOOLEAN /\ made \in BOOLEAN /\ timer \in BOOLEAN
    /\ strays \in 0 .. 3
    /\ retries \in -Overdraft .. scene.retryCount
    /\ task \in [Tasks -> {"idle", "born", "expired"} \cup OnTheWay \cup Rearming]
    /\ events \in Seq({"CONNECTED", "DISCONNECTED", "ERROR"} \cup Messages)
    /\ heard \subseteq Messages
    /\ subscriptions \subseteq Topics
    /\ request \in {NoRequest} \cup [op : {"subscribe", "forget"}, topic : Topics]

Init ==
    /\ scene \in Scenes
    /\ Net!Init /\ named = FALSE /\ reachable = FALSE /\ born = FALSE
    /\ clients = <<>> /\ mqttClient = 0 /\ asked = <<>>
    /\ isReady = FALSE
    /\ made = FALSE /\ timer = FALSE /\ strays = 0 /\ retries = scene.retryCount
    /\ task = [t \in Tasks |-> "idle"] /\ events = <<>> /\ heard = {}
    /\ subscriptions = {} /\ request = NoRequest

-----------------------------------------------------------------------------
\* SigmaConnection's reconnect timer, one-shot. (Its delay is never zero, and its
\* commands find room in the timer task's queue.)

\* setReconnectTimer: a retry must be left, at this moment, ...
Retry(t) == task' = [task EXCEPT ![t] = IF retries > 0 THEN "arm" ELSE "idle"]

\* ... the timer there is starts afresh, ...
ArmTimer(t) ==
    /\ task[t] = "arm"
    /\ timer' = (timer \/ made)
    /\ task' = [task EXCEPT ![t] = IF made THEN "idle" ELSE "make"]
    /\ UNCHANGED <<world, born, clientVars, isReady, made, strays, retries, inbox, subVars>>

\* Mutant: the timer made is started, and not kept.
MutTimerNotKept(t) ==
    /\ task[t] = "make"
    /\ strays' = strays + 1
    /\ task' = [task EXCEPT ![t] = "idle"]
    /\ UNCHANGED <<world, born, clientVars, isReady, made, timer, retries, inbox, subVars>>

\* ... or it is made first. A task that has made one meanwhile loses sight of it.
MakeTimer(t) ==
    /\ task[t] = "make"
    /\ made' = TRUE /\ timer' = FALSE
    /\ strays' = strays + Bit(timer)
    /\ task' = [task EXCEPT ![t] = "arm"]
    /\ UNCHANGED <<world, born, clientVars, isReady, retries, inbox, subVars>>

TimerExpires ==
    /\ task["timer"] = "idle"
    /\ \/ timer /\ timer' = FALSE /\ UNCHANGED strays
       \/ strays > 0 /\ strays' = strays - 1 /\ UNCHANGED timer
    /\ task' = [task EXCEPT !["timer"] = "expired"]
    /\ UNCHANGED <<world, born, clientVars, isReady, made, retries, inbox, subVars>>

\* reconnectTask, which counts and calls Connect().
ReconnectTask ==
    /\ task["timer"] = "expired"
    /\ retries' = retries - 1
    /\ task' = [task EXCEPT !["timer"] = "init"]
    /\ UNCHANGED <<world, born, clientVars, isReady, made, timer, strays, inbox, subVars>>

-----------------------------------------------------------------------------
\* The constructor registers for the network's events, then looks at the network.

Construct ==
    /\ ~born /\ task["app"] = "idle"
    /\ born' = TRUE
    /\ task' = [task EXCEPT !["app"] = "born"]
    /\ UNCHANGED <<world, clientVars, isReady, timerVars, inbox, subVars>>

\* Mutant: the constructor leaves it to the announcements.
MutConstructorWaits ==
    /\ task["app"] = "born"
    /\ task' = [task EXCEPT !["app"] = "idle"]
    /\ UNCHANGED <<world, born, clientVars, isReady, timerVars, inbox, subVars>>

ConstructorConnects ==
    /\ task["app"] = "born"
    /\ task' = [task EXCEPT !["app"] = IF scene.networkMode # "NONE" /\ up THEN "init" ELSE "idle"]
    /\ UNCHANGED <<world, born, clientVars, isReady, timerVars, inbox, subVars>>

AppConnect ==
    /\ scene.appConnects /\ born /\ task["app"] = "idle" /\ request = NoRequest
    /\ task' = [task EXCEPT !["app"] = "init"]
    /\ UNCHANGED <<world, born, clientVars, isReady, timerVars, inbox, subVars>>

\* Mutant: a client is created unless there is one that is ready.
MutInitUnlessReady(t) ==
    /\ task[t] = "init"
    /\ task' = [task EXCEPT ![t] = IF isReady THEN "check" ELSE "create"]
    /\ UNCHANGED <<world, born, clientVars, isReady, timerVars, inbox, subVars>>

\* Connect(): a client is created if there is none ...
ReadClient(t) ==
    /\ task[t] = "init"
    /\ task' = [task EXCEPT ![t] = IF mqttClient = 0 THEN "create" ELSE "check"]
    /\ UNCHANGED <<world, born, clientVars, isReady, timerVars, inbox, subVars>>

InitClient(t) ==
    /\ task[t] = "create"
    /\ clients' = Append(clients, "stopped")
    /\ asked' = Append(asked, {})
    /\ mqttClient' = Len(clients) + 1
    /\ task' = [task EXCEPT ![t] = "check"]
    /\ UNCHANGED <<world, born, isReady, timerVars, inbox, subVars>>

\* ... the network is looked at. Without a mode it is IsConnected(), which asks
\* the network of the default name, if there is one ...
CanConnect == IF scene.networkMode = "NONE" THEN named ELSE up

CheckNetwork(t) ==
    /\ task[t] = "check"
    /\ IF CanConnect THEN task' = [task EXCEPT ![t] = "start"] ELSE Retry(t)
    /\ UNCHANGED <<world, born, clientVars, isReady, timerVars, inbox, subVars>>

\* ... and the client is started. One that is started already refuses.
StartClient(t) ==
    /\ task[t] = "start"
    /\ isReady' = (clients[mqttClient] = "stopped")
    /\ clients' = [clients EXCEPT ![mqttClient] = IF @ = "stopped" THEN "trying" ELSE @]
    /\ task' = [task EXCEPT ![t] = "idle"]
    /\ UNCHANGED <<world, born, mqttClient, asked, timerVars, inbox, subVars>>

-----------------------------------------------------------------------------
\* connectionHandler, on the manager's event loop. Disconnect() stops the client;
\* esp-mqtt refuses if it is online and its farewell cannot be sent.

Online == mqttClient # 0 /\ clients[mqttClient] = "online"

Disconnect ==
    \/ mqttClient = 0 /\ UNCHANGED <<clients, asked>>
    \/ StopFails /\ Online /\ UNCHANGED <<clients, asked>>
    \/ /\ mqttClient # 0
       /\ clients' = [clients EXCEPT ![mqttClient] = "stopped"]
       /\ asked' = [asked EXCEPT ![mqttClient] = {}]

Concerns(kind) == <<scene.networkMode, kind>> \in {<<"WAN", "wan">>, <<"LAN", "lan">>}

ConnectionHandler ==
    /\ task["mgr"] = "idle"
    /\ Net!Deliver
    /\ IF born /\ ~Head(queue).up THEN Disconnect ELSE UNCHANGED <<clients, asked>>
    /\ task' = IF born /\ Head(queue).up /\ Concerns(Head(queue).kind)
               THEN [task EXCEPT !["mgr"] = "init"] ELSE task
    /\ UNCHANGED <<scene, named, reachable, born, mqttClient, isReady, timerVars, inbox, subVars>>

\* The network (NetworkStatus) and the broker (external).
Anytime == scene.createdFirst => born /\ task["app"] # "born"

NetworkChanges ==
    /\ Anytime
    /\ Len(queue) <= NetCap
    /\ Net!GoUp \/ Net!GoDown
    /\ UNCHANGED <<scene, named, reachable, born, clientVars, isReady, timerVars, task, inbox,
                   subVars>>

\* The flag of the network named "", where it matters.
NameChanges ==
    /\ Anytime
    /\ scene.networkMode = "NONE" /\ scene.defaultName /\ named' = ~named
    /\ UNCHANGED <<scene, up, queue, reachable, born, clientVars, isReady, timerVars, task,
                   inbox, subVars>>

BrokerChanges ==
    /\ reachable' = ~reachable
    /\ UNCHANGED <<scene, netVars, born, clientVars, isReady, timerVars, task, inbox, subVars>>

-----------------------------------------------------------------------------
\* A started client (external).

PostMqtt(evs) == Len(events) <= EventCap /\ events' = events \o evs

ClientConnects(c) ==
    /\ clients[c] = "trying" /\ up /\ reachable
    /\ PostMqtt(<<"CONNECTED">>)
    /\ clients' = [clients EXCEPT ![c] = "online"]
    /\ UNCHANGED <<world, born, mqttClient, asked, isReady, timerVars, task, heard, subVars>>

\* Its session ends, and with it what the broker knew of it; or an attempt fails.
ClientFails(c) ==
    /\ clients[c] # "stopped" /\ ~(up /\ reachable)
    /\ PostMqtt(IF clients[c] = "online" THEN <<"DISCONNECTED">> ELSE <<"ERROR", "DISCONNECTED">>)
    /\ clients' = [clients EXCEPT ![c] = "trying"]
    /\ asked' = [asked EXCEPT ![c] = {}]
    /\ UNCHANGED <<world, born, mqttClient, isReady, timerVars, task, heard, subVars>>

\* The broker has a message for a topic of the session.
BrokerSends(c) ==
    /\ clients[c] = "online" /\ asked[c] # {}
    /\ \E message \in scene.messages : PostMqtt(<<message>>)
    /\ UNCHANGED <<world, born, clientVars, isReady, timerVars, task, heard, subVars>>

\* What a subscription asked for now makes of "asked": nothing without a session.
Ask(topics) == asked' = IF Online THEN [asked EXCEPT ![mqttClient] = @ \cup topics] ELSE asked

-----------------------------------------------------------------------------
\* onMqttEvent, on the connection's event loop.

\* Mutant: nothing is subscribed to again.
MutNoResubscription == Ask({})

\* MQTT_EVENT_CONNECTED asks for what is in the map.
Resubscribe == Ask(subscriptions \cap Resubscribed)

OnConnected ==
    /\ Head(events) = "CONNECTED"
    /\ isReady' = TRUE /\ Resubscribe
    /\ UNCHANGED <<task, heard>>

OnLoss ==
    /\ Head(events) \in {"DISCONNECTED", "ERROR"}
    /\ isReady' = (isReady /\ Head(events) = "ERROR")
    /\ Retry("loop")
    /\ UNCHANGED <<asked, heard>>

\* MQTT_EVENT_DATA hands over what getLastState lets through.
LetThrough(message) == scene.getLastState \/ message = "RETAINED"

OnData ==
    /\ Head(events) \in Messages
    /\ heard' = heard \cup {m \in {Head(events)} : LetThrough(m)}
    /\ UNCHANGED <<asked, isReady, task>>

OnMqttEvent ==
    /\ events # <<>> /\ task["loop"] = "idle"
    /\ events' = Tail(events)
    /\ OnConnected \/ OnLoss \/ OnData
    /\ UNCHANGED <<world, born, clients, mqttClient, timerVars, subVars>>

-----------------------------------------------------------------------------
\* The application. Subscribe() enters the topic into the map ...
Subscribe(topic) ==
    /\ scene.subscribes /\ born /\ task["app"] = "idle" /\ request = NoRequest
    /\ subscriptions' = subscriptions \cup {topic}
    /\ request' = [op |-> "subscribe", topic |-> topic]
    /\ UNCHANGED <<world, born, clientVars, isReady, timerVars, task, inbox>>

\* ... and asks the broker, if there is a client.
SubscribeAsks ==
    /\ request.op = "subscribe"
    /\ Ask({request.topic})
    /\ request' = NoRequest
    /\ UNCHANGED <<world, born, clients, mqttClient, isReady, timerVars, task, inbox,
                   subscriptions>>

\* Unsubscribe() goes the other way, under a name that lacks the "/" Subscribe()
\* adds to a root topic without one.
Unsubscribe(topic) ==
    /\ scene.subscribes /\ born /\ task["app"] = "idle" /\ request = NoRequest
    /\ asked' = IF Online /\ scene.rootSlash
                THEN [asked EXCEPT ![mqttClient] = @ \ {topic}] ELSE asked
    /\ request' = [op |-> "forget", topic |-> topic]
    /\ UNCHANGED <<world, born, clients, mqttClient, isReady, timerVars, task, inbox,
                   subscriptions>>

UnsubscribeForgets ==
    /\ request.op = "forget"
    /\ subscriptions' = IF scene.rootSlash THEN subscriptions \ {request.topic} ELSE subscriptions
    /\ request' = NoRequest
    /\ UNCHANGED <<world, born, clientVars, isReady, timerVars, task, inbox>>

-----------------------------------------------------------------------------
App == \/ Construct \/ ConstructorConnects \/ AppConnect
       \/ \E topic \in Topics : Subscribe(topic) \/ Unsubscribe(topic)
       \/ SubscribeAsks \/ UnsubscribeForgets
Connect(t) == \/ ReadClient(t) \/ InitClient(t) \/ CheckNetwork(t) \/ StartClient(t)
              \/ ArmTimer(t) \/ MakeTimer(t)
Environment == \/ NetworkChanges \/ NameChanges \/ BrokerChanges
               \/ \E c \in DOMAIN clients : ClientFails(c) \/ BrokerSends(c)

Next == \/ App \/ Environment \/ TimerExpires \/ ReconnectTask
        \/ ConnectionHandler \/ OnMqttEvent
        \/ \E t \in Tasks : Connect(t)
        \/ \E c \in DOMAIN clients : ClientConnects(c)

Spec == Init /\ [][Next]_vars

\* The tasks run, and a client that can reach its broker does so in the end.
Fairness == /\ \A t \in Tasks : WF_vars(Connect(t))
            /\ WF_vars(TimerExpires) /\ WF_vars(ReconnectTask)
            /\ WF_vars(ConnectionHandler) /\ WF_vars(OnMqttEvent)
            /\ WF_vars(ConstructorConnects)
            /\ WF_vars(\E c \in DOMAIN clients : ClientConnects(c))
FairSpec == Spec /\ Fairness

-----------------------------------------------------------------------------
\* The object has one client running at a time, as long as nobody but the event
\* loop and the timer calls Connect(): neither a retry nor an announcement makes
\* a second one while the first is still with the broker.
OneClientRuns ==
    scene.createdFirst /\ ~scene.appConnects =>
        Cardinality({c \in DOMAIN clients : clients[c] # "stopped"}) <= 1

\* In a session whose events have been handled, the broker has every topic that
\* was subscribed to before the session or in it: whichever of the map and the
\* broker the two tasks reach first, a topic in the map is asked for.
SubscriptionsHeld ==
    (Online /\ events = <<>> /\ request = NoRequest /\ Len(clients) = 1) =>
        subscriptions \cap Resubscribed \subseteq asked[mqttClient]

\* An object that is to follow a network that is up has a client that is started, or
\* somebody will see to it: an announcement it has not handled yet, or a task that is
\* on its way. None of the announcements still waiting stops the client for good.
Started   == mqttClient # 0 /\ clients[mqttClient] # "stopped"
Awaits(i) == queue[i].up /\ Concerns(queue[i].kind)
NetworkNotMissed ==
    (up /\ born /\ scene.networkMode # "NONE") =>
        \/ Started
        \/ \E i \in DOMAIN queue : Awaits(i)
        \/ \E t \in Tasks : task[t] \in {"born"} \cup OnTheWay

\* Why. A retry is looked for once and taken later: when none is left, at most the
\* timers that run and the tasks that are setting one can still count, below zero.
\* Two tasks that both find no timer make one each.
TasksAt(places) == Bit(task["app"] \in places) + Bit(task["mgr"] \in places)
                   + Bit(task["timer"] \in places) + Bit(task["loop"] \in places)
Underway == TasksAt(Rearming \cup {"expired"}) + Bit(timer) + strays
TimersMade == IF made THEN strays + TasksAt({"make"}) <= 3 ELSE ~timer /\ strays = 0
Overdrawn == retries <= 0 => Underway <= retries + Overdraft

\* The retry timer is only set once there is a client: then the timer task never
\* creates one, and the event loop creates one only when there is none. A session
\* lacks a topic of the map only while its CONNECTED waits or a request of the
\* application is half done.
AloneAtFirst == (~born \/ task["app"] = "born") => ~up /\ queue = <<>>
OneClientMade ==
    scene.createdFirst /\ ~scene.appConnects =>
        /\ AloneAtFirst
        /\ task["app"] \in {"idle", "born"} /\ task["timer"] # "create"
        /\ task["loop"] \in {"idle"} \cup Rearming
        /\ task["mgr"] = "create" => mqttClient = 0
        /\ mqttClient = 0 => /\ clients = <<>> /\ events = <<>> /\ ~timer /\ strays = 0
                            /\ task["timer"] = "idle" /\ task["loop"] = "idle"
                            /\ task["mgr"] \in {"idle", "init", "create"}
        /\ Len(clients) <= 1
HalfDone(topic) ==
    \/ request = [op |-> "subscribe", topic |-> topic]
    \/ request = [op |-> "forget", topic |-> topic] /\ scene.rootSlash
TopicsFollow ==
    (Online /\ Len(clients) = 1) =>
        \/ \E i \in DOMAIN events : events[i] = "CONNECTED"
        \/ \A topic \in subscriptions \cap Resubscribed :
              topic \in asked[mqttClient] \/ HalfDone(topic)
\* While the network is up, what stops the client is followed by what starts it again;
\* and whoever gets to starting it finds that there is one.
DownIsFollowed ==
    (up /\ scene.networkMode # "NONE") =>
        \A i \in DOMAIN queue : ~queue[i].up => \E j \in DOMAIN queue : i < j /\ Awaits(j)
ClientToStart == \A t \in Tasks : task[t] \in {"check", "start"} => mqttClient # 0
IInv == /\ TypeOK /\ TimersMade /\ Overdrawn
        /\ OneClientMade /\ TopicsFollow /\ DownIsFollowed /\ ClientToStart /\ NetworkNotMissed

\* A network that is there to stay gets the client started and keeps it so. No
\* announcement falls between the constructor's registering and its looking, and
\* none that is still waiting stops the client for good. (Without a network mode
\* no announcement calls Connect().)
NetworkFollowed == <>[](up /\ born /\ scene.networkMode # "NONE") => <>[]Started

-----------------------------------------------------------------------------
\* Statements of the repository that the code does not keep.

\* "Try to reconnect later", and the tests that wait "for protocol to be ready":
\* with network and broker there to stay, the connection gets ready again.
ReadyAgain == <>[](up /\ reachable /\ born) => []<>isReady

\* "Last state is retained. Ignore": it is the retained state that is ignored, a
\* message that comes live is handed to the application.
LiveHeard == ("LIVE" \in Range(events)) ~> ("LIVE" \in heard)
=============================================================================
