------------------------ MODULE MqttConnectionProofs ------------------------
(***************************************************************************)
(* Type correctness of MqttConnection, that its object runs one client at  *)
(* a time, and that the broker has the topics of the map, for every        *)
(* configuration, set of topics and number of retries.                     *)
(***************************************************************************)
EXTENDS MqttConnection, TLAPS, SequenceTheorems, FiniteSetTheorems

Announcement == [kind : {"wan", "lan"}, up : BOOLEAN]
MqttEvent    == {"CONNECTED", "DISCONNECTED", "ERROR"} \cup Messages
Places       == {"idle", "born", "expired"} \cup OnTheWay \cup Rearming

-----------------------------------------------------------------------------
\* Type correctness.

LEMMA NetTyped ==
    ASSUME queue \in Seq(Announcement), Net!Next
    PROVE  queue' \in Seq(Announcement)
<1>1. CASE Net!GoUp
  BY <1>1 DEF Net!GoUp, Net!News, Announcement
<1>2. CASE Net!GoDown
  BY <1>2 DEF Net!GoDown, Net!News, Announcement
<1>3. CASE Net!Deliver
  BY <1>3 DEF Net!Deliver
<1> QED BY <1>1, <1>2, <1>3 DEF Net!Next

\* The flags, the clients and the rest apart: the provers do better with each alone.
FlagsTyped ==
    /\ up \in BOOLEAN /\ named \in BOOLEAN /\ reachable \in BOOLEAN /\ born \in BOOLEAN
    /\ isReady \in BOOLEAN /\ made \in BOOLEAN /\ timer \in BOOLEAN
ClientsTyped ==
    /\ clients \in Seq({"stopped", "trying", "online"})
    /\ mqttClient \in 0 .. Len(clients)
    /\ DOMAIN asked = DOMAIN clients /\ \A c \in DOMAIN asked : asked[c] \subseteq Topics
    /\ subscriptions \subseteq Topics
    /\ request \in {NoRequest} \cup [op : {"subscribe", "forget"}, topic : Topics]
QueuesTyped ==
    /\ scene \in Scenes
    /\ queue \in Seq(Announcement)
    /\ events \in Seq(MqttEvent) /\ heard \subseteq Messages
RestTyped ==
    /\ strays \in Nat
    /\ retries \in Int /\ retries <= scene.retryCount
    /\ task \in [Tasks -> Places]
    /\ TimersMade /\ Overdrawn

LEMMA Counted ==
    ASSUME NEW CONSTANT places
    PROVE  TasksAt(places) \in 0 .. 4 /\ TasksAt(places)' \in 0 .. 4
BY DEF TasksAt, Bit

LEMMA TypeParts ==
    TypeOK /\ TimersMade /\ Overdrawn => FlagsTyped /\ ClientsTyped /\ QueuesTyped /\ RestTyped
<1>1. TypeOK /\ TimersMade /\ Overdrawn => RestTyped
  BY MqttAssumption DEF TypeOK, RestTyped, Places, Overdraft
<1> QED
  BY <1>1 DEF TypeOK, FlagsTyped, ClientsTyped, QueuesTyped, Announcement, MqttEvent

\* The timers that were made and the tasks setting one bound the two counts.
LEMMA PartsTyped ==
    ASSUME FlagsTyped', ClientsTyped', QueuesTyped', RestTyped'
    PROVE  TypeOK' /\ TimersMade' /\ Overdrawn'
<1>1. PICK m \in Nat : m = TasksAt({"make"})'
  BY Counted
<1>2. PICK u \in Nat : u = TasksAt(Rearming \cup {"expired"})'
  BY Counted DEF Rearming
<1>3. strays' \in 0 .. 3
  BY <1>1 DEF RestTyped, TimersMade
<1>4. Underway' \in Nat
  BY <1>2, <1>3 DEF Underway, Bit
<1>5. retries' \in -Overdraft .. scene'.retryCount
  <2>1. PICK c \in Nat : c = scene'.retryCount
    BY MqttAssumption DEF QueuesTyped
  <2>2. PICK n \in Nat : n = Underway'
    BY <1>4
  <2>3. PICK r \in Int : r = retries'
    BY DEF RestTyped
  <2>4. r <= c /\ (r <= 0 => n <= r + 7)
    BY <2>1, <2>2, <2>3 DEF RestTyped, Overdrawn, Overdraft
  <2>5. r \in -7 .. c
    BY <2>4
  <2> QED BY <2>1, <2>3, <2>5 DEF Overdraft
<1> QED
  BY <1>3, <1>5
  DEF TypeOK, FlagsTyped, ClientsTyped, QueuesTyped, RestTyped, Announcement, MqttEvent, Places

LEMMA FlagsStep == FlagsTyped /\ [Next]_vars => FlagsTyped'
<1> SUFFICES ASSUME FlagsTyped, [Next]_vars PROVE FlagsTyped'
  OBVIOUS
<1> USE DEF FlagsTyped, world, netVars, timerVars
<1>1. CASE App
  BY <1>1 DEF App, Construct, ConstructorConnects, AppConnect, Subscribe, Unsubscribe,
              SubscribeAsks, UnsubscribeForgets
<1>2. CASE Environment
  BY <1>2 DEF Environment, NetworkChanges, NameChanges, BrokerChanges, ClientFails,
              BrokerSends, Net!GoUp, Net!GoDown
<1>3. CASE TimerExpires \/ ReconnectTask \/ ConnectionHandler
  BY <1>3 DEF TimerExpires, ReconnectTask, ConnectionHandler, Net!Deliver
<1>4. CASE OnMqttEvent
  BY <1>4 DEF OnMqttEvent, OnConnected, OnLoss, OnData
<1>5. ASSUME NEW t \in Tasks, Connect(t) PROVE FlagsTyped'
  BY <1>5 DEF Connect, ReadClient, InitClient, CheckNetwork, StartClient, ArmTimer,
              MakeTimer
<1>6. ASSUME NEW c \in DOMAIN clients, ClientConnects(c) PROVE FlagsTyped'
  BY <1>6 DEF ClientConnects
<1>7. CASE UNCHANGED vars
  BY <1>7 DEF vars
<1> QED BY <1>1, <1>2, <1>3, <1>4, <1>5, <1>6, <1>7 DEF Next

LEMMA AskTyped ==
    ASSUME ClientsTyped, NEW topics \in SUBSET Topics, Ask(topics)
    PROVE  DOMAIN asked' = DOMAIN asked /\ \A c \in DOMAIN asked' : asked'[c] \subseteq Topics
BY DEF ClientsTyped, Ask, Online

LEMMA ClientsStep == ClientsTyped /\ [Next]_vars => ClientsTyped'
<1> SUFFICES ASSUME ClientsTyped, [Next]_vars PROVE ClientsTyped'
  OBVIOUS
<1> USE DEF ClientsTyped, NoRequest, clientVars, subVars
<1>1. CASE App
  <2>1. CASE Construct \/ ConstructorConnects \/ AppConnect
    BY <2>1 DEF Construct, ConstructorConnects, AppConnect
  <2>2. ASSUME NEW topic \in Topics, Subscribe(topic) PROVE ClientsTyped'
    BY <2>2 DEF Subscribe
  <2>3. ASSUME NEW topic \in Topics, Unsubscribe(topic) PROVE ClientsTyped'
    BY <2>3 DEF Unsubscribe, Online
  <2>4. CASE SubscribeAsks
    BY <2>4, AskTyped DEF SubscribeAsks
  <2>5. CASE UnsubscribeForgets
    BY <2>5 DEF UnsubscribeForgets
  <2> QED BY <1>1, <2>1, <2>2, <2>3, <2>4, <2>5 DEF App
<1>2. CASE Environment
  <2>1. CASE NetworkChanges \/ NameChanges \/ BrokerChanges
    BY <2>1 DEF NetworkChanges, NameChanges, BrokerChanges
  <2>2. ASSUME NEW c \in DOMAIN clients, ClientFails(c) PROVE ClientsTyped'
    <3>1. /\ clients' = [clients EXCEPT ![c] = "trying"] /\ asked' = [asked EXCEPT ![c] = {}]
          /\ UNCHANGED <<mqttClient, subVars>>
      BY <2>2 DEF ClientFails
    <3> QED BY <3>1
  <2>3. ASSUME NEW c \in DOMAIN clients, BrokerSends(c) PROVE ClientsTyped'
    BY <2>3 DEF BrokerSends
  <2> QED BY <1>2, <2>1, <2>2, <2>3 DEF Environment
<1>3. CASE TimerExpires \/ ReconnectTask
  BY <1>3 DEF TimerExpires, ReconnectTask
<1>c. CASE ConnectionHandler
  BY <1>c DEF ConnectionHandler, Disconnect, Online
<1>4. CASE OnMqttEvent
  BY <1>4, AskTyped DEF OnMqttEvent, OnConnected, OnLoss, OnData, Resubscribe
<1>5. ASSUME NEW t \in Tasks, Connect(t) PROVE ClientsTyped'
  <2>1. CASE ReadClient(t) \/ CheckNetwork(t) \/ ArmTimer(t) \/ MakeTimer(t)
    BY <2>1 DEF ReadClient, CheckNetwork, ArmTimer, MakeTimer
  <2>2. CASE InitClient(t)
    BY <2>2 DEF InitClient
  <2>3. CASE StartClient(t)
    <3> DEFINE state == IF clients[mqttClient] = "stopped" THEN "trying" ELSE clients[mqttClient]
    <3>1. clients' = [clients EXCEPT ![mqttClient] = state]
      BY <2>3 DEF StartClient
    <3>2. UNCHANGED <<mqttClient, asked, subVars>>
      BY <2>3 DEF StartClient
    <3>3. CASE mqttClient \in DOMAIN clients
      <4>1. state \in {"stopped", "trying", "online"}
        BY <3>3
      <4> QED BY <3>1, <3>2, <3>3, <4>1
    <3>4. CASE mqttClient \notin DOMAIN clients
      <4>1. clients \in [1 .. Len(clients) -> {"stopped", "trying", "online"}]
            /\ DOMAIN clients = 1 .. Len(clients)
        BY LenProperties
      <4>2. clients' = clients
        BY <3>1, <3>4, <4>1
      <4> QED BY <3>2, <4>2
    <3> QED BY <3>3, <3>4
  <2> QED BY <1>5, <2>1, <2>2, <2>3 DEF Connect
<1>6. ASSUME NEW c \in DOMAIN clients, ClientConnects(c) PROVE ClientsTyped'
  BY <1>6 DEF ClientConnects
<1>7. CASE UNCHANGED vars
  BY <1>7 DEF vars
<1> QED BY <1>1, <1>2, <1>3, <1>c, <1>4, <1>5, <1>6, <1>7 DEF Next

LEMMA PostTyped ==
    ASSUME QueuesTyped, NEW evs \in Seq(MqttEvent), PostMqtt(evs)
    PROVE  events' \in Seq(MqttEvent)
BY DEF QueuesTyped, PostMqtt

LEMMA QueuesStep == QueuesTyped /\ [Next]_vars => QueuesTyped'
<1> SUFFICES ASSUME QueuesTyped, [Next]_vars PROVE QueuesTyped'
  OBVIOUS
<1>0. \A m \in MqttEvent : <<m>> \in Seq(MqttEvent) /\ <<"ERROR", m>> \in Seq(MqttEvent)
  BY DEF MqttEvent
<1> USE MqttAssumption DEF QueuesTyped, world, netVars, inbox
<1>1. CASE App
  BY <1>1 DEF App, Construct, ConstructorConnects, AppConnect, Subscribe, Unsubscribe,
              SubscribeAsks, UnsubscribeForgets
<1>2. CASE Environment
  <2>1. CASE NetworkChanges
    <3>1. queue' \in Seq(Announcement)
      BY <2>1, NetTyped DEF NetworkChanges, Net!Next
    <3> QED BY <2>1, <3>1 DEF NetworkChanges
  <2>2. CASE NameChanges \/ BrokerChanges
    BY <2>2 DEF NameChanges, BrokerChanges
  <2>3. ASSUME NEW c \in DOMAIN clients, ClientFails(c) PROVE QueuesTyped'
    <3>1. PICK evs \in Seq(MqttEvent) : PostMqtt(evs)
      BY <1>0, <2>3 DEF ClientFails, MqttEvent
    <3> QED BY <2>3, <3>1, PostTyped DEF ClientFails
  <2>4. ASSUME NEW c \in DOMAIN clients, BrokerSends(c) PROVE QueuesTyped'
    <3>1. PICK evs \in Seq(MqttEvent) : PostMqtt(evs)
      BY <1>0, <2>4 DEF BrokerSends, MqttEvent
    <3> QED BY <2>4, <3>1, PostTyped DEF BrokerSends
  <2> QED BY <1>2, <2>1, <2>2, <2>3, <2>4 DEF Environment
<1>3. CASE TimerExpires \/ ReconnectTask
  BY <1>3 DEF TimerExpires, ReconnectTask
<1>4. CASE ConnectionHandler
  <2>1. queue' \in Seq(Announcement)
    BY <1>4, NetTyped DEF ConnectionHandler, Net!Next
  <2> QED BY <1>4, <2>1 DEF ConnectionHandler
<1>5. CASE OnMqttEvent
  BY <1>5 DEF OnMqttEvent, OnConnected, OnLoss, OnData
<1>6. ASSUME NEW t \in Tasks, Connect(t) PROVE QueuesTyped'
  BY <1>6 DEF Connect, ReadClient, InitClient, CheckNetwork, StartClient, ArmTimer,
              MakeTimer
<1>7. ASSUME NEW c \in DOMAIN clients, ClientConnects(c) PROVE QueuesTyped'
  <2>1. events' \in Seq(MqttEvent)
    BY <1>0, <1>7, PostTyped DEF ClientConnects, MqttEvent
  <2> QED BY <1>7, <2>1 DEF ClientConnects
<1>8. CASE UNCHANGED vars
  BY <1>8 DEF vars
<1> QED BY <1>1, <1>2, <1>3, <1>4, <1>5, <1>6, <1>7, <1>8 DEF Next

LEMMA SceneStays == [Next]_vars => scene' = scene
<1> SUFFICES ASSUME [Next]_vars PROVE scene' = scene
  OBVIOUS
<1> USE DEF world
<1>1. CASE App
  BY <1>1 DEF App, Construct, ConstructorConnects, AppConnect, Subscribe, Unsubscribe,
              SubscribeAsks, UnsubscribeForgets
<1>2. CASE Environment
  BY <1>2 DEF Environment, NetworkChanges, NameChanges, BrokerChanges, ClientFails, BrokerSends
<1>3. CASE TimerExpires \/ ReconnectTask \/ ConnectionHandler \/ OnMqttEvent
  BY <1>3 DEF TimerExpires, ReconnectTask, ConnectionHandler, OnMqttEvent
<1>4. ASSUME NEW t \in Tasks, Connect(t) PROVE scene' = scene
  BY <1>4 DEF Connect, ReadClient, InitClient, CheckNetwork, StartClient, ArmTimer,
              MakeTimer
<1>5. ASSUME NEW c \in DOMAIN clients, ClientConnects(c) PROVE scene' = scene
  BY <1>5 DEF ClientConnects
<1>6. CASE UNCHANGED vars
  BY <1>6 DEF vars
<1> QED BY <1>1, <1>2, <1>3, <1>4, <1>5, <1>6 DEF Next

\* A task that moves counts where it stands.
LEMMA TaskMoves ==
    ASSUME NEW CONSTANT places, task \in [Tasks -> Places],
           NEW CONSTANT t \in Tasks, NEW CONSTANT p, task' = [task EXCEPT ![t] = p]
    PROVE  /\ task[t] \in places /\ p \notin places => TasksAt(places)' = TasksAt(places) - 1
           /\ task[t] \notin places /\ p \in places => TasksAt(places)' = TasksAt(places) + 1
           /\ (task[t] \in places <=> p \in places) => TasksAt(places)' = TasksAt(places)
<1> USE DEF TasksAt, Bit, Tasks
<1>1. CASE t = "app"
  BY <1>1
<1>2. CASE t = "mgr"
  BY <1>2
<1>3. CASE t = "timer"
  BY <1>3
<1>4. CASE t = "loop"
  BY <1>4
<1> QED BY <1>1, <1>2, <1>3, <1>4

Making   == {"make"}
Counting == Rearming \cup {"expired"}

LEMMA Stands ==
    /\ "make" \in Making /\ "arm" \notin Making /\ "expired" \notin Making
    /\ "make" \in Counting /\ "arm" \in Counting /\ "expired" \in Counting
    /\ \A p \in {"idle", "born"} \cup OnTheWay : p \notin Making /\ p \notin Counting
    /\ "idle" \notin Making /\ "idle" \notin Counting
    /\ "check" \notin Making /\ "init" \notin Making /\ "init" \notin Counting
BY DEF Making, Counting, Rearming, OnTheWay

\* What neither sets a timer nor lets one expire.
LEMMA TimersKept ==
    ASSUME FlagsTyped, RestTyped, scene' = scene, UNCHANGED timerVars,
           task' \in [Tasks -> Places],
           TasksAt(Making)' = TasksAt(Making), TasksAt(Counting)' = TasksAt(Counting)
    PROVE  RestTyped'
BY DEF RestTyped, TimersMade, Overdrawn, Underway, timerVars, Making, Counting, Bit, Rearming

LEMMA QuietStep ==
    ASSUME FlagsTyped, RestTyped, scene' = scene, UNCHANGED timerVars,
           NEW t \in Tasks, NEW p \in {"idle", "born"} \cup OnTheWay,
           task[t] \in {"idle", "born"} \cup OnTheWay,
           task' = [task EXCEPT ![t] = p]
    PROVE  RestTyped'
<1>1. task \in [Tasks -> Places] /\ p \in Places
  BY DEF RestTyped, Places
<1>2. /\ task[t] \notin Making /\ p \notin Making
      /\ task[t] \notin Counting /\ p \notin Counting
  BY Stands
<1>3. TasksAt(Making)' = TasksAt(Making) /\ TasksAt(Counting)' = TasksAt(Counting)
  BY <1>1, <1>2, TaskMoves
<1> QED BY <1>1, <1>3, TimersKept

\* A retry is begun only while one is left.
LEMMA RetryStep ==
    ASSUME FlagsTyped, RestTyped, scene' = scene, UNCHANGED timerVars,
           NEW t \in Tasks, task[t] \in {"idle", "check"}, Retry(t)
    PROVE  RestTyped'
<1>1. task \in [Tasks -> Places]
  BY DEF RestTyped
<1>2. CASE retries > 0
  <2>1. task' = [task EXCEPT ![t] = "arm"]
    BY <1>2 DEF Retry
  <2>2. TasksAt(Making)' = TasksAt(Making)
    BY <1>1, <2>1, TaskMoves, Stands
  <2>3. task' \in [Tasks -> Places]
    BY <1>1, <2>1 DEF Places, Rearming
  <2> QED
    BY <1>2, <2>2, <2>3 DEF RestTyped, TimersMade, Overdrawn, timerVars, Making
<1>3. CASE ~(retries > 0)
  <2>1. task' = [task EXCEPT ![t] = "idle"]
    BY <1>3 DEF Retry
  <2> QED BY <2>1, QuietStep DEF OnTheWay
<1> QED BY <1>2, <1>3

LEMMA ArmStep ==
    ASSUME FlagsTyped, RestTyped, NEW t \in Tasks, ArmTimer(t)
    PROVE  RestTyped'
<1>1. /\ task \in [Tasks -> Places] /\ task[t] = "arm"
      /\ UNCHANGED <<made, strays, retries>> /\ scene' = scene
  BY DEF ArmTimer, RestTyped, world
<1>0. TasksAt(Making) \in Int /\ TasksAt(Counting) \in Int
  BY Counted
<1>2. CASE made
  <2>1. task' = [task EXCEPT ![t] = "idle"] /\ timer' = TRUE
    BY <1>2 DEF ArmTimer
  <2>2. /\ TasksAt(Making)' = TasksAt(Making)
        /\ TasksAt(Counting)' = TasksAt(Counting) - 1
    BY <1>1, <2>1, TaskMoves, Stands
  <2>3. task' \in [Tasks -> Places]
    BY <1>1, <2>1 DEF Places
  <2>4. Overdrawn'
    BY <1>0, <1>1, <2>1, <2>2
    DEF RestTyped, Overdrawn, Underway, Bit, Overdraft, Counting
  <2> QED
    BY <1>1, <1>2, <2>2, <2>3, <2>4 DEF RestTyped, TimersMade, Making
<1>3. CASE ~made
  <2>1. task' = [task EXCEPT ![t] = "make"] /\ timer' = timer
    BY <1>3 DEF ArmTimer, FlagsTyped
  <2>2. TasksAt(Counting)' = TasksAt(Counting)
    BY <1>1, <2>1, TaskMoves, Stands
  <2>3. task' \in [Tasks -> Places]
    BY <1>1, <2>1 DEF Places, Rearming
  <2> QED
    BY <1>1, <1>3, <2>1, <2>2, <2>3
    DEF RestTyped, TimersMade, Overdrawn, Underway, Counting
<1> QED BY <1>2, <1>3

LEMMA MakeStep ==
    ASSUME FlagsTyped, RestTyped, NEW t \in Tasks, MakeTimer(t)
    PROVE  RestTyped'
<1>1. /\ task \in [Tasks -> Places] /\ task[t] = "make"
      /\ task' = [task EXCEPT ![t] = "arm"]
      /\ made' = TRUE /\ timer' = FALSE /\ strays' = strays + Bit(timer)
      /\ retries' = retries /\ scene' = scene
  BY DEF MakeTimer, RestTyped, world
<1>2. TasksAt(Making) \in 0 .. 4 /\ TasksAt(Counting) \in Int
  BY Counted
<1>3. /\ TasksAt(Making)' = TasksAt(Making) - 1
      /\ TasksAt(Counting)' = TasksAt(Counting)
  BY <1>1, TaskMoves, Stands
<1>4. task' \in [Tasks -> Places]
  BY <1>1 DEF Places, Rearming
<1>5. strays' \in Nat
  BY <1>1 DEF RestTyped, Bit
<1>6. strays' + TasksAt(Making)' <= 3
  BY <1>1, <1>2, <1>3 DEF RestTyped, TimersMade, Making, Bit
<1>7. Underway' = Underway
  BY <1>1, <1>2, <1>3 DEF Underway, Counting, Bit, RestTyped
<1> QED
  BY <1>1, <1>4, <1>5, <1>6, <1>7 DEF RestTyped, TimersMade, Overdrawn, Making

LEMMA ExpiryStep ==
    ASSUME FlagsTyped, RestTyped, TimerExpires
    PROVE  RestTyped'
<1>1. /\ task \in [Tasks -> Places] /\ task["timer"] = "idle" /\ "timer" \in Tasks
      /\ task' = [task EXCEPT !["timer"] = "expired"]
      /\ UNCHANGED <<made, retries>> /\ scene' = scene
  BY DEF TimerExpires, RestTyped, Tasks, world
<1>2. TasksAt(Making) \in Int /\ TasksAt(Counting) \in Int
  BY Counted
<1>3. /\ TasksAt(Making)' = TasksAt(Making)
      /\ TasksAt(Counting)' = TasksAt(Counting) + 1
  BY <1>1, TaskMoves, Stands
<1>4. /\ task' \in [Tasks -> Places]
      /\ strays' \in Nat /\ strays' <= strays /\ (timer' => timer)
      /\ Bit(timer)' + strays' = Bit(timer) + strays - 1
  BY <1>1 DEF TimerExpires, RestTyped, Places, Bit
<1>5. Underway' = Underway
  <2>1. Bit(timer) \in Int /\ Bit(timer)' \in Int /\ strays \in Int
    BY DEF Bit, RestTyped
  <2>2. /\ Underway = TasksAt(Counting) + Bit(timer) + strays
        /\ Underway' = TasksAt(Counting)' + Bit(timer)' + strays'
    BY DEF Underway, Counting
  <2> QED BY <1>2, <1>3, <1>4, <2>1, <2>2
<1>6. TimersMade'
  BY <1>1, <1>2, <1>3, <1>4 DEF TimersMade, RestTyped, Making
<1> QED
  BY <1>1, <1>4, <1>5, <1>6 DEF RestTyped, Overdrawn

LEMMA ReconnectStep ==
    ASSUME FlagsTyped, RestTyped, scene.retryCount \in Nat, ReconnectTask
    PROVE  RestTyped'
<1>1. /\ task \in [Tasks -> Places] /\ task["timer"] = "expired" /\ "timer" \in Tasks
      /\ task' = [task EXCEPT !["timer"] = "init"]
      /\ UNCHANGED <<made, timer, strays>> /\ scene' = scene /\ retries' = retries - 1
  BY DEF ReconnectTask, RestTyped, Tasks, world
<1>2. TasksAt(Making) \in 0 .. 4 /\ TasksAt(Counting) \in 0 .. 4
  BY Counted
<1>3. /\ TasksAt(Making)' = TasksAt(Making)
      /\ TasksAt(Counting)' = TasksAt(Counting) - 1
  BY <1>1, TaskMoves, Stands
<1>4. /\ task' \in [Tasks -> Places]
      /\ retries' \in Int /\ retries' <= scene'.retryCount
  BY <1>1 DEF RestTyped, Places, OnTheWay
<1>5. strays \in 0 .. 3
  BY <1>2 DEF RestTyped, TimersMade, Making
<1>6. Underway' = Underway - 1 /\ Underway' <= 7 /\ Underway \in Int
  BY <1>1, <1>2, <1>3, <1>5 DEF Underway, Counting, Bit
<1>7. Overdrawn'
  BY <1>1, <1>6 DEF RestTyped, Overdrawn, Overdraft
<1> QED
  BY <1>1, <1>3, <1>4, <1>5, <1>7 DEF RestTyped, TimersMade, Making

LEMMA RestStep == FlagsTyped /\ QueuesTyped /\ RestTyped /\ [Next]_vars => RestTyped'
<1> SUFFICES ASSUME FlagsTyped, QueuesTyped, RestTyped, [Next]_vars PROVE RestTyped'
  OBVIOUS
<1>0. /\ scene' = scene /\ scene.retryCount \in Nat
      /\ task \in [Tasks -> Places] /\ "app" \in Tasks /\ "mgr" \in Tasks /\ "loop" \in Tasks
  BY SceneStays, MqttAssumption DEF QueuesTyped, RestTyped, Tasks
<1>s. UNCHANGED <<task, timerVars>> => RestTyped'
  <2>1. task' = task => /\ TasksAt(Making)' = TasksAt(Making)
                        /\ TasksAt(Counting)' = TasksAt(Counting)
    BY DEF TasksAt, Making, Counting, Rearming
  <2> QED BY <1>0, <2>1, TimersKept
<1>1. CASE App
  <2>1. CASE Construct
    <3>1. task["app"] = "idle" /\ UNCHANGED timerVars /\ task' = [task EXCEPT !["app"] = "born"]
      BY <2>1 DEF Construct
    <3> QED BY <1>0, <3>1, QuietStep
  <2>2. CASE ConstructorConnects \/ AppConnect
    <3>1. /\ UNCHANGED timerVars /\ task["app"] \in {"idle", "born"}
          /\ \E p \in {"init", "idle"} : task' = [task EXCEPT !["app"] = p]
      BY <2>2 DEF ConstructorConnects, AppConnect
    <3> QED BY <1>0, <3>1, QuietStep DEF OnTheWay
  <2>3. CASE \/ \E topic \in Topics : Subscribe(topic) \/ Unsubscribe(topic)
             \/ SubscribeAsks \/ UnsubscribeForgets
    BY <2>3, <1>s DEF Subscribe, Unsubscribe, SubscribeAsks, UnsubscribeForgets
  <2> QED BY <1>1, <2>1, <2>2, <2>3 DEF App
<1>2. CASE Environment
  BY <1>2, <1>s
  DEF Environment, NetworkChanges, NameChanges, BrokerChanges, ClientFails, BrokerSends
<1>3. CASE TimerExpires \/ ReconnectTask
  BY <1>0, <1>3, ExpiryStep, ReconnectStep
<1>4. CASE ConnectionHandler
  <2>1. /\ UNCHANGED timerVars
        /\ (task' = task) \/ (task["mgr"] = "idle" /\ task' = [task EXCEPT !["mgr"] = "init"])
    BY <1>4 DEF ConnectionHandler
  <2> QED BY <1>0, <1>s, <2>1, QuietStep DEF OnTheWay
<1>5. CASE OnMqttEvent
  <2>1. /\ UNCHANGED timerVars
        /\ (task' = task) \/ (task["loop"] = "idle" /\ Retry("loop"))
    BY <1>5 DEF OnMqttEvent, OnConnected, OnLoss, OnData
  <2> QED BY <1>0, <1>s, <2>1, RetryStep
<1>6. ASSUME NEW t \in Tasks, Connect(t) PROVE RestTyped'
  <2>1. CASE ArmTimer(t) \/ MakeTimer(t)
    BY <2>1, ArmStep, MakeStep
  <2>2. CASE CheckNetwork(t) /\ ~CanConnect
    BY <1>0, <2>2, RetryStep DEF CheckNetwork
  <2>3. CASE \/ ReadClient(t) \/ InitClient(t) \/ StartClient(t)
             \/ CheckNetwork(t) /\ CanConnect
    <3>1. /\ UNCHANGED timerVars /\ task[t] \in OnTheWay
          /\ \E p \in {"idle", "create", "check", "start"} : task' = [task EXCEPT ![t] = p]
      BY <2>3 DEF ReadClient, InitClient, StartClient, CheckNetwork, OnTheWay
    <3> QED BY <1>0, <3>1, QuietStep DEF OnTheWay
  <2> QED BY <1>6, <2>1, <2>2, <2>3 DEF Connect
<1>7. ASSUME NEW c \in DOMAIN clients, ClientConnects(c) PROVE RestTyped'
  BY <1>7, <1>s DEF ClientConnects
<1>8. CASE UNCHANGED vars
  BY <1>8, <1>s DEF vars
<1> QED BY <1>1, <1>2, <1>3, <1>4, <1>5, <1>6, <1>7, <1>8 DEF Next

LEMMA InitTyped == Init => TypeOK /\ TimersMade /\ Overdrawn
<1> SUFFICES ASSUME Init PROVE TypeOK /\ TimersMade /\ Overdrawn
  OBVIOUS
<1> USE MqttAssumption DEF Init, Net!Init
<1>1. FlagsTyped
  BY DEF FlagsTyped
<1>2. ClientsTyped
  BY DEF ClientsTyped, NoRequest
<1>3. QueuesTyped
  BY DEF QueuesTyped
<1>4. TimersMade /\ Overdrawn
  BY DEF TimersMade, Overdrawn, Underway, TasksAt, Bit, Tasks, Rearming, Overdraft
<1>5. /\ strays \in 0 .. 3 /\ retries \in -Overdraft .. scene.retryCount
      /\ task \in [Tasks -> Places]
  BY DEF Places, Overdraft
<1> QED
  BY <1>1, <1>2, <1>3, <1>4, <1>5
  DEF TypeOK, FlagsTyped, ClientsTyped, QueuesTyped, Announcement, MqttEvent, Places

LEMMA TypeStep ==
    /\ TypeOK /\ TimersMade /\ Overdrawn
    /\ [Next]_vars
    => TypeOK' /\ TimersMade' /\ Overdrawn'
<1> SUFFICES ASSUME TypeOK, TimersMade, Overdrawn, [Next]_vars
             PROVE  TypeOK' /\ TimersMade' /\ Overdrawn'
  OBVIOUS
<1>1. FlagsTyped' /\ ClientsTyped' /\ QueuesTyped' /\ RestTyped'
  BY TypeParts, FlagsStep, ClientsStep, QueuesStep, RestStep
<1> QED BY <1>1, PartsTyped

\* The object's variables keep their types in every configuration. The retries can
\* be overdrawn, but by no more than the timers that were set while one was left.
THEOREM MqttTypeCorrect == Spec => []TypeOK
BY InitTyped, TypeStep, PTL DEF Spec

-----------------------------------------------------------------------------
\* One client at a time.

LEMMA RetryMoves ==
    ASSUME NEW t, Retry(t)
    PROVE  \E x \in {"arm", "idle"} : task' = [task EXCEPT ![t] = x]
BY DEF Retry

LEMMA LoopMoves ==
    OnMqttEvent =>
        \/ task' = task
        \/ /\ task["loop"] = "idle"
           /\ \E x \in {"arm", "idle"} : task' = [task EXCEPT !["loop"] = x]
BY RetryMoves DEF OnMqttEvent, OnConnected, OnLoss, OnData

LEMMA OneClientStep == TypeOK /\ OneClientMade /\ [Next]_vars => OneClientMade'
<1> SUFFICES ASSUME TypeOK, OneClientMade, [Next]_vars,
                    scene.createdFirst, ~scene.appConnects, scene' = scene
             PROVE  OneClientMade'
  BY SceneStays DEF OneClientMade
<1>0. ClientsTyped /\ QueuesTyped
  BY DEF TypeOK, ClientsTyped, QueuesTyped, Announcement, MqttEvent
<1>a. task \in [Tasks -> Places]
  BY DEF TypeOK, Places
<1> USE <1>0, <1>a DEF ClientsTyped, QueuesTyped, OneClientMade, AloneAtFirst, Tasks, world,
        Rearming, OnTheWay, netVars, clientVars, timerVars, inbox
<1>1. CASE App
  <2>1. CASE Construct
    BY <2>1 DEF Construct
  <2>2. CASE ConstructorConnects
    BY <2>2 DEF ConstructorConnects
  <2>3. CASE AppConnect
    BY <2>3 DEF AppConnect
  <2>4. CASE \E topic \in Topics : Subscribe(topic) \/ Unsubscribe(topic)
    BY <2>4 DEF Subscribe, Unsubscribe
  <2>5. CASE SubscribeAsks \/ UnsubscribeForgets
    BY <2>5 DEF SubscribeAsks, UnsubscribeForgets
  <2> QED BY <1>1, <2>1, <2>2, <2>3, <2>4, <2>5 DEF App
<1>2. CASE Environment
  <2>1. CASE NetworkChanges
    BY <2>1 DEF NetworkChanges, Anytime
  <2>2. CASE NameChanges \/ BrokerChanges
    BY <2>2 DEF NameChanges, BrokerChanges
  <2>3. ASSUME NEW c \in DOMAIN clients, ClientFails(c) \/ BrokerSends(c) PROVE OneClientMade'
    <3>1. mqttClient # 0 /\ Len(clients') = Len(clients)
      BY <2>3 DEF ClientFails, BrokerSends
    <3> QED BY <2>3, <3>1 DEF ClientFails, BrokerSends
  <2> QED BY <1>2, <2>1, <2>2, <2>3 DEF Environment
<1>3. CASE TimerExpires \/ ReconnectTask
  BY <1>3 DEF TimerExpires, ReconnectTask
<1>4. CASE ConnectionHandler
  <2>1. Len(clients') = Len(clients) /\ (mqttClient = 0 => clients' = clients)
    BY <1>4 DEF ConnectionHandler, Disconnect
  <2>2. queue # <<>> /\ UNCHANGED up
    BY <1>4 DEF ConnectionHandler, Net!Deliver
  <2>3. task' = task \/ (task["mgr"] = "idle" /\ task' = [task EXCEPT !["mgr"] = "init"])
    BY <1>4 DEF ConnectionHandler
  <2> QED BY <1>4, <2>1, <2>2, <2>3 DEF ConnectionHandler
<1>5. CASE OnMqttEvent
  <2>1. mqttClient # 0
    BY <1>5 DEF OnMqttEvent
  <2>2. Len(clients') = Len(clients) /\ UNCHANGED <<world, born, mqttClient, task["app"],
                                                    task["mgr"], task["timer"]>>
    BY <1>5, LoopMoves DEF OnMqttEvent
  <2>3. task'["loop"] \in {"idle"} \cup Rearming
    BY <1>5, LoopMoves
  <2> QED BY <2>1, <2>2, <2>3
<1>6. ASSUME NEW t \in Tasks, Connect(t) PROVE OneClientMade'
  <2>1. CASE ReadClient(t)
    BY <2>1 DEF ReadClient
  <2>2. CASE InitClient(t)
    <3>1. t = "mgr" /\ mqttClient = 0 /\ clients = <<>>
      BY <2>2 DEF InitClient
    <3>2. Len(clients') = 1 /\ mqttClient' = 1
      BY <2>2, <3>1 DEF InitClient
    <3> QED BY <2>2, <3>1, <3>2 DEF InitClient
  <2>3. CASE CheckNetwork(t)
    <3>1. mqttClient # 0
      BY <2>3 DEF CheckNetwork
    <3>2. \E x \in {"start", "arm", "idle"} : task' = [task EXCEPT ![t] = x]
      BY <2>3, RetryMoves DEF CheckNetwork
    <3>3. task[t] = "check" /\ UNCHANGED <<world, born, clients, mqttClient>>
      BY <2>3 DEF CheckNetwork
    <3> QED BY <3>1, <3>2, <3>3
  <2>4. CASE StartClient(t)
    <3>1. mqttClient # 0 /\ Len(clients') = Len(clients)
      BY <2>4 DEF StartClient
    <3> QED BY <2>4, <3>1 DEF StartClient
  <2>5. CASE ArmTimer(t) \/ MakeTimer(t)
    <3>1. mqttClient # 0
      BY <2>5 DEF ArmTimer, MakeTimer
    <3> QED BY <2>5, <3>1 DEF ArmTimer, MakeTimer
  <2> QED BY <1>6, <2>1, <2>2, <2>3, <2>4, <2>5 DEF Connect
<1>7. ASSUME NEW c \in DOMAIN clients, ClientConnects(c) PROVE OneClientMade'
  <2>1. mqttClient # 0 /\ Len(clients') = Len(clients)
    BY <1>7 DEF ClientConnects
  <2> QED BY <1>7, <2>1 DEF ClientConnects
<1>8. CASE UNCHANGED vars
  BY <1>8 DEF vars
<1> QED BY <1>1, <1>2, <1>3, <1>4, <1>5, <1>6, <1>7, <1>8 DEF Next

-----------------------------------------------------------------------------
\* What the broker has of the map.

LEMMA TopicsStep == TypeOK /\ TopicsFollow /\ [Next]_vars => TopicsFollow'
<1> SUFFICES ASSUME TypeOK, TopicsFollow, [Next]_vars, scene' = scene,
                    Online', Len(clients') = 1
             PROVE  TopicsFollow'
  BY SceneStays DEF TopicsFollow
<1>0. ClientsTyped /\ QueuesTyped
  BY DEF TypeOK, ClientsTyped, QueuesTyped, Announcement, MqttEvent
<1> USE <1>0 DEF ClientsTyped, QueuesTyped, TopicsFollow, HalfDone, Online, NoRequest,
        clientVars, inbox, subVars
<1>1. CASE App
  <2>1. CASE Construct \/ ConstructorConnects \/ AppConnect
    BY <2>1 DEF Construct, ConstructorConnects, AppConnect
  <2>2. ASSUME NEW topic \in Topics, Subscribe(topic) PROVE TopicsFollow'
    BY <2>2 DEF Subscribe
  <2>3. ASSUME NEW topic \in Topics, Unsubscribe(topic) PROVE TopicsFollow'
    BY <2>3 DEF Unsubscribe
  <2>4. CASE SubscribeAsks
    BY <2>4 DEF SubscribeAsks, Ask
  <2>5. CASE UnsubscribeForgets
    BY <2>5 DEF UnsubscribeForgets
  <2> QED BY <1>1, <2>1, <2>2, <2>3, <2>4, <2>5 DEF App
<1>2. CASE Environment
  <2>1. CASE NetworkChanges \/ NameChanges \/ BrokerChanges
    BY <2>1 DEF NetworkChanges, NameChanges, BrokerChanges
  <2>2. ASSUME NEW c \in DOMAIN clients, ClientFails(c) PROVE TopicsFollow'
    <3>1. clients' = [clients EXCEPT ![c] = "trying"] /\ mqttClient' = mqttClient
      BY <2>2 DEF ClientFails
    <3>2. Len(clients') = Len(clients) /\ clients'[c] = "trying"
      BY <3>1
    <3>3. c = 1 /\ mqttClient = 1
      BY <3>1, <3>2
    <3> QED BY <3>1, <3>2, <3>3
  <2>3. ASSUME NEW c \in DOMAIN clients, BrokerSends(c) PROVE TopicsFollow'
    <3>1. PICK message : events' = events \o <<message>>
      BY <2>3 DEF BrokerSends, PostMqtt
    <3>2. \A i \in DOMAIN events : i \in DOMAIN events' /\ events'[i] = events[i]
      BY <3>1
    <3> QED BY <2>3, <3>2 DEF BrokerSends
  <2> QED BY <1>2, <2>1, <2>2, <2>3 DEF Environment
<1>3. CASE TimerExpires \/ ReconnectTask
  BY <1>3 DEF TimerExpires, ReconnectTask
<1>4. CASE ConnectionHandler
  BY <1>4 DEF ConnectionHandler, Disconnect
<1>5. CASE OnMqttEvent
  <2>1. CASE OnConnected
    BY <1>5, <2>1 DEF OnMqttEvent, OnConnected, Resubscribe, Ask
  <2>2. CASE OnLoss \/ OnData
    <3>1. Head(events) # "CONNECTED" /\ asked' = asked
      BY <2>2 DEF OnLoss, OnData, Messages
    <3>2. \A i \in DOMAIN events : events[i] = "CONNECTED" =>
             i - 1 \in DOMAIN events' /\ events'[i - 1] = "CONNECTED"
      BY <1>5, <3>1 DEF OnMqttEvent
    <3> QED BY <1>5, <3>1, <3>2 DEF OnMqttEvent
  <2> QED BY <1>5, <2>1, <2>2 DEF OnMqttEvent
<1>6. ASSUME NEW t \in Tasks, Connect(t) PROVE TopicsFollow'
  <2>1. CASE ReadClient(t) \/ CheckNetwork(t) \/ ArmTimer(t) \/ MakeTimer(t)
    BY <2>1 DEF ReadClient, CheckNetwork, ArmTimer, MakeTimer
  <2>2. CASE InitClient(t)
    BY <2>2 DEF InitClient
  <2>3. CASE StartClient(t)
    BY <2>3 DEF StartClient
  <2> QED BY <1>6, <2>1, <2>2, <2>3 DEF Connect
<1>7. ASSUME NEW c \in DOMAIN clients, ClientConnects(c) PROVE TopicsFollow'
  <2>1. events' = Append(events, "CONNECTED")
    BY <1>7 DEF ClientConnects, PostMqtt
  <2> QED BY <2>1 DEF MqttEvent
<1>8. CASE UNCHANGED vars
  BY <1>8 DEF vars
<1> QED BY <1>1, <1>2, <1>3, <1>4, <1>5, <1>6, <1>7, <1>8 DEF Next

-----------------------------------------------------------------------------
\* No announcement is missed.

\* Going up is announced last ...
LEMMA UpIsLast ==
    ASSUME queue \in Seq(Announcement), scene.networkMode \in {"WAN", "LAN"}, scene' = scene,
           Net!GoUp
    PROVE  \E j \in DOMAIN queue' : /\ Awaits(j)'
                                    /\ \A i \in DOMAIN queue' : ~queue'[i].up => i < j
<1>1. PICK w \in Announcement, l \in Announcement :
          /\ w.up /\ w.kind = "wan" /\ l.up /\ l.kind = "lan"
          /\ queue' = queue \o <<w, l>>
  BY DEF Net!GoUp, Net!News, Announcement
<1> PICK k \in Nat : k = Len(queue) + 1
  OBVIOUS
<1>2. DOMAIN queue' = 1 .. k + 1 /\ queue'[k] = w /\ queue'[k + 1] = l
  BY <1>1
<1>3. \A i \in DOMAIN queue' : ~queue'[i].up => i < k
  BY <1>1, <1>2
<1>4. CASE scene.networkMode = "WAN"
  <2>1. Awaits(k)'
    BY <1>1, <1>2, <1>4 DEF Awaits, Concerns
  <2>2. k \in DOMAIN queue'
    BY <1>2
  <2> QED BY <1>3, <2>1, <2>2
<1>5. CASE scene.networkMode = "LAN"
  <2>1. Awaits(k + 1)'
    BY <1>1, <1>2, <1>5 DEF Awaits, Concerns
  <2>2. \A i \in DOMAIN queue' : ~queue'[i].up => i < k + 1
    BY <1>2, <1>3
  <2>3. k + 1 \in DOMAIN queue'
    BY <1>2
  <2> QED BY <2>1, <2>2, <2>3
<1> QED BY <1>4, <1>5

\* ... and what is delivered first takes every other announcement one place forward.
LEMMA DeliverShifts ==
    ASSUME queue \in Seq(Announcement), scene' = scene, Net!Deliver
    PROVE  /\ \A j \in DOMAIN queue : j > 1 =>
                  j - 1 \in DOMAIN queue' /\ queue'[j - 1] = queue[j]
                  /\ (Awaits(j) => Awaits(j - 1)')
           /\ \A i \in DOMAIN queue' : i + 1 \in DOMAIN queue /\ queue[i + 1] = queue'[i]
<1>1. queue # <<>> /\ queue' = Tail(queue)
  BY DEF Net!Deliver
<1>2. \A j \in DOMAIN queue : j > 1 => j - 1 \in DOMAIN queue' /\ queue'[j - 1] = queue[j]
  BY <1>1
<1>3. \A i \in DOMAIN queue' : i + 1 \in DOMAIN queue /\ queue[i + 1] = queue'[i]
  BY <1>1
<1> QED BY <1>2, <1>3 DEF Awaits, Concerns

LEMMA SameAnnouncements ==
    ASSUME scene' = scene, queue' = queue
    PROVE  \A i : Awaits(i)' <=> Awaits(i)
BY DEF Awaits, Concerns

LEMMA DownStep == TypeOK /\ DownIsFollowed /\ [Next]_vars => DownIsFollowed'
<1> SUFFICES ASSUME TypeOK, DownIsFollowed, [Next]_vars, scene' = scene,
                    up', scene.networkMode # "NONE"
             PROVE  DownIsFollowed'
  BY SceneStays DEF DownIsFollowed
<1>0. queue \in Seq(Announcement) /\ scene.networkMode \in {"WAN", "LAN"}
  BY MqttAssumption DEF TypeOK, Announcement
<1>1. CASE Net!GoUp
  BY <1>0, <1>1, UpIsLast DEF DownIsFollowed
<1>2. CASE Net!Deliver
  <2>1. up
    BY <1>2 DEF Net!Deliver
  <2> SUFFICES ASSUME NEW i \in DOMAIN queue', ~queue'[i].up
               PROVE  \E j \in DOMAIN queue' : i < j /\ Awaits(j)'
    BY DEF DownIsFollowed
  <2>2. i \in Nat /\ i + 1 \in DOMAIN queue /\ ~queue[i + 1].up
    BY <1>0, <1>2, DeliverShifts DEF Net!Deliver
  <2>3. PICK j \in DOMAIN queue : i + 1 < j /\ Awaits(j)
    BY <2>1, <2>2 DEF DownIsFollowed
  <2>4. j \in Nat /\ j > 1 /\ i < j - 1
    BY <1>0, <2>2, <2>3
  <2> QED BY <1>0, <1>2, <2>3, <2>4, DeliverShifts
<1>3. CASE UNCHANGED <<up, queue>>
  BY <1>3, SameAnnouncements DEF DownIsFollowed
<1>4. Net!GoUp \/ Net!Deliver \/ UNCHANGED <<up, queue>>
  <2> USE DEF world, netVars
  <2>1. CASE App
    BY <2>1 DEF App, Construct, ConstructorConnects, AppConnect, Subscribe, Unsubscribe,
                SubscribeAsks, UnsubscribeForgets
  <2>2. CASE Environment
    BY <2>2 DEF Environment, NetworkChanges, NameChanges, BrokerChanges, ClientFails,
                BrokerSends, Net!GoDown
  <2>3. CASE TimerExpires \/ ReconnectTask \/ ConnectionHandler \/ OnMqttEvent
    BY <2>3 DEF TimerExpires, ReconnectTask, ConnectionHandler, OnMqttEvent
  <2>4. ASSUME NEW t \in Tasks, Connect(t) PROVE UNCHANGED <<up, queue>>
    BY <2>4 DEF Connect, ReadClient, InitClient, CheckNetwork, StartClient, ArmTimer,
              MakeTimer
  <2>5. ASSUME NEW c \in DOMAIN clients, ClientConnects(c) PROVE UNCHANGED <<up, queue>>
    BY <2>5 DEF ClientConnects
  <2>6. CASE UNCHANGED vars
    BY <2>6 DEF vars
  <2> QED BY <2>1, <2>2, <2>3, <2>4, <2>5, <2>6 DEF Next
<1> QED BY <1>1, <1>2, <1>3, <1>4

LEMMA ClientToStartStep == TypeOK /\ ClientToStart /\ [Next]_vars => ClientToStart'
<1> SUFFICES ASSUME TypeOK, ClientToStart, [Next]_vars PROVE ClientToStart'
  OBVIOUS
<1>0. /\ task \in [Tasks -> Places]
      /\ clients \in Seq({"stopped", "trying", "online"})
  BY DEF TypeOK, Places
<1> USE <1>0 DEF ClientToStart, Tasks, clientVars
<1>1. CASE App
  BY <1>1 DEF App, Construct, ConstructorConnects, AppConnect, Subscribe, Unsubscribe,
              SubscribeAsks, UnsubscribeForgets
<1>2. CASE Environment
  BY <1>2 DEF Environment, NetworkChanges, NameChanges, BrokerChanges, ClientFails, BrokerSends
<1>3. CASE TimerExpires \/ ReconnectTask \/ ConnectionHandler
  BY <1>3 DEF TimerExpires, ReconnectTask, ConnectionHandler
<1>o. CASE OnMqttEvent
  BY <1>o, LoopMoves DEF OnMqttEvent
<1>4. ASSUME NEW t \in Tasks, Connect(t) PROVE ClientToStart'
  BY <1>4 DEF Connect, ReadClient, InitClient, CheckNetwork, Retry, StartClient, ArmTimer,
              MakeTimer
<1>5. ASSUME NEW c \in DOMAIN clients, ClientConnects(c) PROVE ClientToStart'
  BY <1>5 DEF ClientConnects
<1>6. CASE UNCHANGED vars
  BY <1>6 DEF vars
<1> QED BY <1>1, <1>2, <1>3, <1>o, <1>4, <1>5, <1>6 DEF Next

LEMMA NotMissedStep ==
    /\ TypeOK /\ DownIsFollowed /\ ClientToStart /\ NetworkNotMissed
    /\ [Next]_vars
    => NetworkNotMissed'
<1> SUFFICES ASSUME TypeOK, DownIsFollowed, ClientToStart, NetworkNotMissed, [Next]_vars,
                    scene' = scene, up', born', scene.networkMode # "NONE"
             PROVE  NetworkNotMissed'
  BY SceneStays DEF NetworkNotMissed
<1>0. /\ queue \in Seq(Announcement) /\ scene.networkMode \in {"WAN", "LAN"}
      /\ clients \in Seq({"stopped", "trying", "online"}) /\ mqttClient \in 0 .. Len(clients)
      /\ task \in [Tasks -> Places]
  BY MqttAssumption DEF TypeOK, Announcement, Places
<1> DEFINE Announced == \E i \in DOMAIN queue : Awaits(i)
<1>s. queue' = queue => (Announced' <=> Announced)
  BY SameAnnouncements
<1> DEFINE Coming == {"born"} \cup OnTheWay
<1>n. up /\ born => Started \/ Announced \/ \E t \in Tasks : task[t] \in Coming
  BY DEF NetworkNotMissed
<1>g. SUFFICES Started' \/ Announced' \/ \E t \in Tasks : task'[t] \in Coming
  BY DEF NetworkNotMissed
<1>c. /\ \A p \in {"born", "init", "create", "check", "start"} : p \in Coming
      /\ \A p \in {"idle", "expired", "arm", "make"} : p \notin Coming
  BY DEF OnTheWay
<1> HIDE DEF Announced, Coming
<1> USE <1>0, <1>c DEF Started, Tasks, world, netVars, clientVars
<1>1. CASE App
  BY <1>1, <1>n, <1>s
  DEF App, Construct, ConstructorConnects, AppConnect, Subscribe, Unsubscribe, SubscribeAsks,
      UnsubscribeForgets
<1>2. CASE Environment
  <2>1. CASE NetworkChanges
    <3>1. CASE Net!GoUp
      BY <1>0, <3>1, UpIsLast DEF Announced
    <3>2. CASE Net!GoDown
      BY <3>2 DEF Net!GoDown
    <3> QED BY <2>1, <3>1, <3>2 DEF NetworkChanges
  <2>2. CASE NameChanges \/ BrokerChanges
    BY <2>2, <1>n, <1>s DEF NameChanges, BrokerChanges
  <2>3. ASSUME NEW c \in DOMAIN clients, ClientFails(c)
        PROVE  Started' \/ Announced' \/ \E t \in Tasks : task'[t] \in Coming
    BY <2>3, <1>n, <1>s DEF ClientFails
  <2>4. ASSUME NEW c \in DOMAIN clients, BrokerSends(c)
        PROVE  Started' \/ Announced' \/ \E t \in Tasks : task'[t] \in Coming
    BY <2>4, <1>n, <1>s DEF BrokerSends
  <2> QED BY <1>2, <2>1, <2>2, <2>3, <2>4 DEF Environment
<1>3. CASE TimerExpires \/ ReconnectTask
  BY <1>3, <1>n, <1>s DEF TimerExpires, ReconnectTask
<1>4. CASE ConnectionHandler
  <2>0. Net!Deliver /\ queue # <<>> /\ up' = up /\ born' = born
    BY <1>4 DEF ConnectionHandler, Net!Deliver
  <2>1. up /\ born /\ Head(queue) = queue[1] /\ 1 \in DOMAIN queue
    BY <2>0
  <2>2. CASE Awaits(1)
    <3>1. task' = [task EXCEPT !["mgr"] = "init"]
      BY <1>4, <2>0, <2>1, <2>2 DEF ConnectionHandler, Awaits
    <3> QED BY <3>1
  <2>3. CASE ~Awaits(1) /\ queue[1].up
    <3>1. UNCHANGED <<clients, mqttClient, task>>
      BY <1>4, <2>1, <2>3 DEF ConnectionHandler, Awaits
    <3>2. Announced => Announced'
      <4> SUFFICES ASSUME NEW j \in DOMAIN queue, Awaits(j) PROVE Announced'
        BY DEF Announced
      <4>1. j > 1
        BY <2>3
      <4> QED BY <2>0, <4>1, DeliverShifts DEF Announced
    <3> QED BY <1>n, <2>1, <3>1, <3>2
  <2>4. CASE ~queue[1].up
    <3>1. PICK j \in DOMAIN queue : 1 < j /\ Awaits(j)
      BY <2>1, <2>4 DEF DownIsFollowed
    <3> QED BY <2>0, <3>1, DeliverShifts DEF Announced
  <2> QED BY <2>2, <2>3, <2>4
<1>5. CASE OnMqttEvent
  BY <1>5, <1>n, <1>s, LoopMoves DEF OnMqttEvent
<1>6. ASSUME NEW t \in Tasks, Connect(t)
      PROVE  Started' \/ Announced' \/ \E u \in Tasks : task'[u] \in Coming
  <2>1. CASE ReadClient(t)
    BY <2>1 DEF ReadClient
  <2>2. CASE InitClient(t)
    BY <2>2 DEF InitClient
  <2>3. CASE CheckNetwork(t)
    BY <2>3 DEF CheckNetwork, CanConnect
  <2>4. CASE StartClient(t)
    <3>1. mqttClient \in DOMAIN clients
      BY <2>4 DEF StartClient, ClientToStart
    <3> QED BY <2>4, <3>1 DEF StartClient
  <2>5. CASE ArmTimer(t) \/ MakeTimer(t)
    <3>1. /\ task[t] \in {"arm", "make"}
          /\ \E x \in {"idle", "arm", "make"} : task' = [task EXCEPT ![t] = x]
          /\ UNCHANGED <<world, born, clientVars>>
      BY <2>5 DEF ArmTimer, MakeTimer
    <3> QED BY <3>1, <1>n, <1>s
  <2> QED BY <1>6, <2>1, <2>2, <2>3, <2>4, <2>5 DEF Connect
<1>7. ASSUME NEW c \in DOMAIN clients, ClientConnects(c)
      PROVE  Started' \/ Announced' \/ \E t \in Tasks : task'[t] \in Coming
  BY <1>7, <1>n, <1>s DEF ClientConnects
<1>8. CASE UNCHANGED vars
  BY <1>8, <1>n, <1>s DEF vars
<1> QED BY <1>1, <1>2, <1>3, <1>4, <1>5, <1>6, <1>7, <1>8 DEF Next

-----------------------------------------------------------------------------
\* The inductive invariant holds in every configuration.
THEOREM MqttInvariant == Spec => []IInv
<1>1. Init => OneClientMade /\ TopicsFollow
  BY DEF Init, Net!Init, OneClientMade, AloneAtFirst, TopicsFollow, Online, Tasks
<1>a. Init => DownIsFollowed /\ ClientToStart /\ NetworkNotMissed
  BY DEF Init, Net!Init, DownIsFollowed, ClientToStart, NetworkNotMissed
<1>2. Init => IInv
  BY <1>1, <1>a, InitTyped DEF IInv
<1>3. IInv /\ [Next]_vars => IInv'
  BY TypeStep, OneClientStep, TopicsStep, DownStep, ClientToStartStep, NotMissedStep DEF IInv
<1> QED BY <1>2, <1>3, PTL DEF Spec

\* An object made before its network, left to the event loop and the timer, runs one
\* client at a time, however retries and announcements fall together.
THEOREM OneClientAtATime == Spec => []OneClientRuns
<1>1. IInv => OneClientRuns
  <2> SUFFICES ASSUME IInv, scene.createdFirst, ~scene.appConnects
               PROVE  Cardinality({c \in DOMAIN clients : clients[c] # "stopped"}) <= 1
    BY DEF OneClientRuns
  <2>1. clients \in Seq({"stopped", "trying", "online"}) /\ Len(clients) <= 1
    BY DEF IInv, TypeOK, OneClientMade
  <2>2. {c \in DOMAIN clients : clients[c] # "stopped"} \subseteq {1}
    BY <2>1
  <2>3. IsFiniteSet({1}) /\ Cardinality({1}) = 1
    BY FS_Singleton
  <2> QED BY <2>2, <2>3, FS_Subset
<1> QED BY <1>1, MqttInvariant, PTL

\* In a session whose events have been handled the broker has every topic of the
\* map that is to be subscribed to again, whichever of the two the tasks reached first.
THEOREM BrokerHasTopics == Spec => []SubscriptionsHeld
<1>1. IInv => SubscriptionsHeld
  <2> SUFFICES ASSUME IInv, Online, events = <<>>, request = NoRequest, Len(clients) = 1
               PROVE  subscriptions \cap Resubscribed \subseteq asked[mqttClient]
    BY DEF SubscriptionsHeld
  <2>1. \A topic : ~HalfDone(topic)
    BY DEF HalfDone, NoRequest
  <2>2. ~ \E i \in DOMAIN events : events[i] = "CONNECTED"
    OBVIOUS
  <2> QED BY <2>1, <2>2 DEF IInv, TopicsFollow
<1> QED BY <1>1, MqttInvariant, PTL

\* In every configuration, wherever the constructor, the application, the timer and
\* the announcements meet: while the network the object is to follow is up, the client
\* is started or somebody is about to see to it.
THEOREM NetworkIsNotMissed == Spec => []NetworkNotMissed
<1>1. IInv => NetworkNotMissed
  BY DEF IInv
<1> QED BY <1>1, MqttInvariant, PTL
=============================================================================
