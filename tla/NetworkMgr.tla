----------------------------- MODULE NetworkMgr -----------------------------
(***************************************************************************)
(* SigmaNetworkMgr with its two networks, SigmaWiFi and SigmaEthernet.     *)
(*                                                                         *)
(* Tasks of the program and the actions they own:                          *)
(*   - the application task calls AddNetwork, RemoveNetwork, Connect and   *)
(*     Disconnect;                                                         *)
(*   - the ESP-IDF drivers (external) post events on the default event     *)
(*     loop, the queue "drv";                                              *)
(*   - the default event loop runs handleWiFiEvent and handleEthEvent one  *)
(*     event at a time; they call PostEvent, which counts the connections  *)
(*     and blocks (portMAX_DELAY) while the manager's queue is full;       *)
(*   - the manager's own event loop delivers WAN/LAN events from "mq";     *)
(*   - the timer task runs reconnectWiFiSta.                               *)
(***************************************************************************)
EXTENDS Integers, Sequences, FiniteSets

CONSTANTS
    WifiMode,        \* wifiConfig.wifiMode: "STA", "AP" or "APSTA"
    Enabled,         \* the networks whose configuration is given and enabled
    ShouldReconnect, \* wifiConfig.shouldReconnect
    ByteMod,         \* 2^w of the counters (byte: 256)
    MgrCap,          \* queue_size of the manager's event loop (50)
    DrvCap,          \* bound: driver events waiting on the default loop
    MaxRenewals,     \* bound: GOT_IP events posted for a link that is up
    LateIp           \* whether a GOT_IP may be posted behind the loss of its link

Nets  == {"wifi", "eth"}
Names == Nets \cup {"unknown"}   \* "unknown": the name of a null object
Kinds == {"wan", "lan"}

ASSUME ConfigAssumption ==
    /\ WifiMode \in {"STA", "AP", "APSTA"}
    /\ Enabled \subseteq Names
    /\ ShouldReconnect \in BOOLEAN
    /\ LateIp \in BOOLEAN
ASSUME BoundAssumption ==
    /\ ByteMod \in Nat /\ ByteMod > 3
    /\ MgrCap \in Nat /\ MgrCap > 0
    /\ DrvCap \in Nat /\ MaxRenewals \in Nat

VARIABLES
    networks,     \* names in SigmaNetworkMgr::networks
    begun,        \* networks whose Begin() got its driver and its handlers
    app,          \* where the application task is in SigmaNetworkMgr::Connect()
    link,         \* per network, its driver: off, idle, trying (no address), up
    drv,          \* events waiting on the default event loop
    isConnected,  \* per network, SigmaNetwork::isConnected
    isLinkUp,     \* SigmaEthernet's isLinkUp
    timer,        \* wifiStaReconnectTimer is running
    refused,      \* history: esp_wifi_connect() refused the station's last attempt
    count,        \* numberOfWanConnections and numberOfLanConnections
    posts,        \* what PostEvent has still to post for the handler that runs
    handler,      \* what that handler does next: idle, return, staDown
    mq,           \* the manager's event queue
    view,         \* what the subscribers were last told, per kind
    renewals,     \* GOT_IP events posted beyond one per link up (bounded)
    repeats       \* GOT_IP events handled for a network already connected

driverVars == <<link, drv, renewals, refused>>
mgrVars    == <<count, posts, mq, view>>
netVars    == <<isConnected, isLinkUp, timer, handler, repeats>>
appVars    == <<networks, begun, app>>
vars       == <<driverVars, mgrVars, netVars, appVars>>

Sta == WifiMode \in {"STA", "APSTA"}

EventType  == [net : Nets, ev : {"linkUp", "gotIp", "down", "stop"}]
StatusType == [kind : Kinds, up : BOOLEAN]

\* What the drivers and the application can do to the default loop's queue.
Post(evs) == /\ Len(drv) + Len(evs) <= DrvCap
             /\ drv' = drv \o evs
Event(n, e) == [net |-> n, ev |-> e]

TypeOK ==
    /\ networks \subseteq Names /\ begun \subseteq Nets
    /\ app \in {"setup", "began", "running"}
    /\ link \in [Nets -> {"off", "idle", "trying", "up"}]
    /\ drv \in Seq(EventType)
    /\ isConnected \in [Nets -> BOOLEAN]
    /\ isLinkUp \in BOOLEAN /\ timer \in BOOLEAN /\ refused \in BOOLEAN
    /\ count \in [Kinds -> 0 .. ByteMod - 1]
    /\ posts \in Seq(StatusType) /\ mq \in Seq(StatusType)
    /\ Len(mq) <= MgrCap
    /\ handler \in {"idle", "return", "staDown"}
    /\ view \in [Kinds -> BOOLEAN]
    /\ renewals \in Nat /\ repeats \in Nat

Init ==
    /\ networks = {} /\ begun = {} /\ app = "setup"
    /\ link = [n \in Nets |-> "off"] /\ drv = <<>>
    /\ isConnected = [n \in Nets |-> FALSE]
    /\ isLinkUp = FALSE /\ timer = FALSE /\ refused = FALSE
    /\ count = [k \in Kinds |-> 0]
    /\ posts = <<>> /\ mq = <<>> /\ handler = "idle"
    /\ view = [k \in Kinds |-> FALSE]
    /\ renewals = 0 /\ repeats = 0

-----------------------------------------------------------------------------
\* The application task.

\* A disabled network is refused (nullptr) and nothing changes; a name that is
\* there already keeps its object. A network may be added late. (One that has been
\* begun and removed is not added again: it would be a second object on one driver.)
AddNetwork(n) ==
    /\ app \in {"setup", "running"}
    /\ n \in (Enabled \cap Nets) \ begun
    /\ networks' = networks \cup {n}
    /\ UNCHANGED <<begun, app, driverVars, mgrVars, netVars>>

\* A configuration whose type is neither (NetworkConfig's default) leaves a null
\* object in the map. Whoever visits all networks then ends the program, as does
\* RemoveNetwork() of that name; the event loops go on until somebody does.
AddUnknown ==
    /\ app \in {"setup", "running"} /\ "unknown" \in Enabled
    /\ networks' = networks \cup {"unknown"}
    /\ UNCHANGED <<begun, app, driverVars, mgrVars, netVars>>

\* esp_wifi_connect() (external) starts an attempt of an idle station or refuses
\* it (not ok); of a driver that is stopped or busy it changes nothing. A refusal
\* is logged and returned, and that is all: no timer is set.
EspWifiConnect(l, ok) == IF l = "idle" /\ ok THEN "trying" ELSE l
Refusal(l, ok)        == IF l = "idle" THEN ~ok ELSE refused

\* SigmaWiFi::Begin() starts the driver and ends with Connect().
WifiBegun(ok) == IF Sta THEN EspWifiConnect("idle", ok) ELSE "idle"

\* SigmaEthernet::Begin() installs the driver and leaves it stopped.
EthBegun == "off"

\* The first loop of Connect(): Begin() on every network. One that fails before it
\* has its driver and its handlers leaves a network that is never heard of; what
\* it returns decides nothing. The caller sleeps 500 ms before the second loop.
\* When Connect() is called again, Begin() of an Ethernet that is begun resets the
\* board, which may cost the link (LinkLost), and fails at esp_netif_new(): it has
\* overwritten netifHandle with nullptr, which only its logs read from then on.
\* For a WiFi that is begun esp_netif_create_default_wifi_sta() aborts the program.
BeginAll ==
    /\ "unknown" \notin networks
    /\ \/ app = "setup"
       \/ app = "running" /\ "wifi" \notin networks \cap begun
    /\ \E done \in SUBSET (networks \ begun), ok \in BOOLEAN :
         /\ begun' = begun \cup done
         /\ link' = [n \in Nets |-> IF n \notin done THEN link[n]
                                   ELSE IF n = "wifi" THEN WifiBegun(ok) ELSE EthBegun]
         /\ refused' = IF "wifi" \in done /\ Sta THEN ~ok ELSE refused
    /\ app' = "began"
    /\ UNCHANGED <<networks, drv, renewals, mgrVars, netVars>>

\* SigmaWiFi::Connect() connects once more, SigmaEthernet::Connect() starts the
\* driver, which refuses when it is started.
WifiConnect(ok) == IF Sta THEN EspWifiConnect(link["wifi"], ok) ELSE link["wifi"]
EthConnect(ok)  == IF link["eth"] = "off" /\ ok THEN "idle" ELSE link["eth"]

\* The second loop of Connect().
ConnectAll ==
    /\ app = "began"
    /\ \E ok \in BOOLEAN :
         /\ link' = [n \in Nets |-> IF n \notin networks \cap begun THEN link[n]
                                   ELSE IF n = "wifi" THEN WifiConnect(ok) ELSE EthConnect(ok)]
         /\ refused' = IF "wifi" \in networks \cap begun /\ Sta
                       THEN Refusal(link["wifi"], ok) ELSE refused
    /\ app' = "running"
    /\ UNCHANGED <<networks, begun, drv, renewals, mgrVars, netVars>>

\* What stopping network n makes its driver post: WiFi one STA_DISCONNECTED if
\* it was associated or trying, Ethernet a STOP, after a DISCONNECTED if the
\* driver reports the loss of the link as well.
StopEvents(n) ==
    IF n = "wifi"
    THEN {IF Sta /\ link[n] \in {"trying", "up"} THEN <<Event(n, "down")>> ELSE <<>>}
    ELSE {<<Event(n, "stop")>>} \cup
         (IF link[n] \in {"trying", "up"}
          THEN {<<Event(n, "down"), Event(n, "stop")>>} ELSE {})

\* Disconnect() of one network that is started.
Stop(n) ==
    /\ link[n] # "off"
    /\ \E evs \in StopEvents(n) : Post(evs)
    /\ link' = [link EXCEPT ![n] = "off"]

\* SigmaNetworkMgr::Disconnect() visits the networks in turn; each visit is a
\* step, since the event loops run between them.
DisconnectNetwork(n) ==
    /\ app = "running" /\ n \in networks
    /\ Stop(n)
    /\ UNCHANGED <<appVars, renewals, refused, mgrVars, netVars>>

\* RemoveNetwork() disconnects and erases the name, also when the WiFi driver
\* refuses to disconnect; the object, its handlers and its timer stay.
RemoveNetwork(n) ==
    /\ app = "running" /\ n \in networks
    /\ \/ Stop(n)
       \/ (n = "wifi" \/ link[n] = "off") /\ UNCHANGED <<link, drv>>
    /\ networks' = networks \ {n}
    /\ UNCHANGED <<begun, app, renewals, refused, mgrVars, netVars>>

-----------------------------------------------------------------------------
\* The drivers (external): a cable or an access point comes and goes, DHCP
\* answers, and a lease is renewed with another address.

CableIn ==
    /\ link["eth"] = "idle"
    /\ link' = [link EXCEPT !["eth"] = "trying"]
    /\ Post(<<Event("eth", "linkUp")>>)
    /\ UNCHANGED <<renewals, refused, appVars, mgrVars, netVars>>

AddressObtained(n) ==
    /\ link[n] = "trying"
    /\ link' = [link EXCEPT ![n] = "up"]
    /\ Post(<<Event(n, "gotIp")>>)
    /\ UNCHANGED <<renewals, refused, appVars, mgrVars, netVars>>

LinkLost(n) ==
    /\ link[n] \in {"trying", "up"}
    /\ link' = [link EXCEPT ![n] = "idle"]
    /\ Post(<<Event(n, "down")>>)
    /\ UNCHANGED <<renewals, refused, appVars, mgrVars, netVars>>

\* A GOT_IP for a link that is up already, or one that the TCP/IP task posts
\* while the loss of its link still waits in the queue.
AddressRenewed(n) ==
    /\ renewals < MaxRenewals
    /\ \/ link[n] = "up"
       \/ LateIp /\ \E i \in DOMAIN drv : drv[i] = Event(n, "down")
    /\ Post(<<Event(n, "gotIp")>>)
    /\ renewals' = renewals + 1
    /\ UNCHANGED <<link, refused, appVars, mgrVars, netVars>>

-----------------------------------------------------------------------------
\* SigmaNetworkMgr::PostEvent

\* The counters an event concerns; the AP events count in the LAN only.
Counted(id) == IF id \in {"AP_CONNECTED", "AP_DISCONNECTED"} THEN {"lan"} ELSE Kinds
Ups == {"STA_CONNECTED", "ETHERNET_CONNECTED", "AP_CONNECTED"}

\* Mutant: the guard against counting below zero is missing.
MutUnguardedCount(id) ==
    [k \in Kinds |-> IF k \notin Counted(id) THEN count[k]
                     ELSE (count[k] + (IF id \in Ups THEN 1 ELSE -1)) % ByteMod]

NewCount(id) ==
    [k \in Kinds |->
        IF k \notin Counted(id) THEN count[k]
        ELSE IF id \in Ups THEN (count[k] + 1) % ByteMod
        ELSE IF count[k] > 0 THEN count[k] - 1 ELSE 0]

\* Mutant: every disconnection is published, also that of one network of two.
MutEveryLoss(id, k) ==
    IF k \in Counted(id) /\ (id \in Ups => NewCount(id)[k] = 1)
    THEN <<[kind |-> k, up |-> id \in Ups]>> ELSE <<>>

\* A connection is published when it is the first of its kind, a disconnection
\* when none is left, again if none was left before.
Published(id, k) ==
    IF k \in Counted(id) /\ NewCount(id)[k] = (IF id \in Ups THEN 1 ELSE 0)
    THEN <<[kind |-> k, up |-> id \in Ups]>> ELSE <<>>

\* Mutant: the LAN's event is posted before the WAN's.
MutLanFirst(id) ==
    /\ count' = NewCount(id)
    /\ posts' = Published(id, "lan") \o Published(id, "wan")
    /\ UNCHANGED <<mq, view>>

PostEvent(id) ==
    /\ count' = NewCount(id)
    /\ posts' = Published(id, "wan") \o Published(id, "lan")
    /\ UNCHANGED <<mq, view>>

\* Mutant: a post does not wait, and is lost when the queue is full.
MutPostNoWait ==
    /\ posts # <<>>
    /\ mq' = IF Len(mq) < MgrCap THEN Append(mq, Head(posts)) ELSE mq
    /\ posts' = Tail(posts)
    /\ UNCHANGED <<count, view, appVars, driverVars, netVars>>

\* esp_event_post_to(..., portMAX_DELAY): waits for room in the queue.
PostTo ==
    /\ posts # <<>> /\ Len(mq) < MgrCap
    /\ mq' = Append(mq, Head(posts))
    /\ posts' = Tail(posts)
    /\ UNCHANGED <<count, view, appVars, driverVars, netVars>>

-----------------------------------------------------------------------------
\* The handlers, on the default event loop.

Take(n, e) ==
    /\ handler = "idle" /\ drv # <<>> /\ Head(drv) = Event(n, e)
    /\ drv' = Tail(drv)
    /\ UNCHANGED <<link, renewals, refused, appVars>>

\* handleWiFiEvent, IP_EVENT_STA_GOT_IP
WifiGotIp ==
    /\ Take("wifi", "gotIp")
    /\ timer' = FALSE
    /\ isConnected' = [isConnected EXCEPT !["wifi"] = TRUE]
    /\ repeats' = IF isConnected["wifi"] THEN repeats + 1 ELSE repeats
    /\ PostEvent("STA_CONNECTED")
    /\ handler' = "return"
    /\ UNCHANGED isLinkUp

\* Mutant: isConnected is cleared before it is asked, so the loss is never posted.
MutWifiDownSilent ==
    /\ Take("wifi", "down")
    /\ handler' = "staDown"
    /\ UNCHANGED <<isConnected, isLinkUp, timer, repeats, mgrVars>>

\* handleWiFiEvent, WIFI_EVENT_STA_DISCONNECTED up to the return of PostEvent
WifiDown ==
    /\ Take("wifi", "down")
    /\ IF isConnected["wifi"] THEN PostEvent("STA_DISCONNECTED") ELSE UNCHANGED mgrVars
    /\ handler' = "staDown"
    /\ UNCHANGED <<isConnected, isLinkUp, timer, repeats>>

\* Mutant: isConnected is not reset.
MutWifiStaysConnected ==
    /\ handler = "staDown" /\ posts = <<>>
    /\ timer' = (timer \/ ShouldReconnect)
    /\ handler' = "idle"
    /\ UNCHANGED <<isConnected, isLinkUp, repeats, mgrVars, appVars, driverVars>>

\* Mutant: only a station that was connected tries again.
MutRetryIfConnected ==
    /\ handler = "staDown" /\ posts = <<>>
    /\ isConnected' = [isConnected EXCEPT !["wifi"] = FALSE]
    /\ timer' = (timer \/ (ShouldReconnect /\ isConnected["wifi"]))
    /\ handler' = "idle"
    /\ UNCHANGED <<isLinkUp, repeats, mgrVars, appVars, driverVars>>

\* ... and from there on
WifiDownReturns ==
    /\ handler = "staDown" /\ posts = <<>>
    /\ isConnected' = [isConnected EXCEPT !["wifi"] = FALSE]
    /\ timer' = (timer \/ ShouldReconnect)
    /\ handler' = "idle"
    /\ UNCHANGED <<isLinkUp, repeats, mgrVars, appVars, driverVars>>

\* handleEthEvent, ETHERNET_EVENT_CONNECTED
EthLinkUp ==
    /\ Take("eth", "linkUp")
    /\ isLinkUp' = TRUE
    /\ UNCHANGED <<isConnected, timer, handler, repeats, mgrVars>>

\* handleIpGot
EthGotIp ==
    /\ Take("eth", "gotIp")
    /\ isConnected' = [isConnected EXCEPT !["eth"] = TRUE]
    /\ repeats' = IF isConnected["eth"] THEN repeats + 1 ELSE repeats
    /\ PostEvent("ETHERNET_CONNECTED")
    /\ handler' = "return"
    /\ UNCHANGED <<isLinkUp, timer>>

\* Mutant: isConnected is not reset.
MutEthStaysConnected ==
    /\ \E e \in {"down", "stop"} : Take("eth", e)
    /\ isLinkUp' = FALSE
    /\ PostEvent("ETHERNET_DISCONNECTED")
    /\ handler' = "return"
    /\ UNCHANGED <<isConnected, timer, repeats>>

\* handleEthEvent, ETHERNET_EVENT_DISCONNECTED and ETHERNET_EVENT_STOP
EthDown ==
    /\ \E e \in {"down", "stop"} : Take("eth", e)
    /\ isLinkUp' = FALSE
    /\ isConnected' = [isConnected EXCEPT !["eth"] = FALSE]
    /\ PostEvent("ETHERNET_DISCONNECTED")
    /\ handler' = "return"
    /\ UNCHANGED <<timer, repeats>>

Return ==
    /\ handler = "return" /\ posts = <<>>
    /\ handler' = "idle"
    /\ UNCHANGED <<isConnected, isLinkUp, timer, repeats, mgrVars, appVars, driverVars>>

\* Mutant: the timer expires without an attempt.
MutNoAttempt ==
    /\ timer /\ timer' = FALSE
    /\ UNCHANGED <<driverVars, isConnected, isLinkUp, handler, repeats, mgrVars, appVars>>

\* reconnectWiFiSta, on the timer task. The timer is one-shot, and a refusal does
\* not set it again.
ReconnectWifiSta ==
    /\ timer
    /\ timer' = FALSE
    /\ \E ok \in BOOLEAN :
         /\ link' = [link EXCEPT !["wifi"] = EspWifiConnect(@, ok)]
         /\ refused' = Refusal(link["wifi"], ok)
    /\ UNCHANGED <<drv, renewals, isConnected, isLinkUp, handler, repeats, mgrVars, appVars>>

\* The manager's event loop hands one event to the subscribers.
Deliver ==
    /\ mq # <<>>
    /\ view' = [view EXCEPT ![Head(mq).kind] = Head(mq).up]
    /\ mq' = Tail(mq)
    /\ UNCHANGED <<count, posts, appVars, driverVars, netVars>>

-----------------------------------------------------------------------------
App        == \/ \E n \in Nets : AddNetwork(n) \/ DisconnectNetwork(n) \/ RemoveNetwork(n)
              \/ AddUnknown \/ BeginAll \/ ConnectAll
Driver     == CableIn \/ \E n \in Nets : AddressObtained(n) \/ LinkLost(n) \/ AddressRenewed(n)
HandleWifi == WifiGotIp \/ WifiDown \/ WifiDownReturns
HandleEth  == EthLinkUp \/ EthGotIp \/ EthDown
DefaultLoop == HandleWifi \/ HandleEth \/ PostTo \/ Return

Next == App \/ Driver \/ DefaultLoop \/ ReconnectWifiSta \/ Deliver

Spec == Init /\ [][Next]_vars

\* FreeRTOS runs every task that is ready: both event loops, the timer task and
\* the second loop of a Connect() that began. Drivers and application owe nothing.
Fairness == WF_vars(DefaultLoop) /\ WF_vars(ReconnectWifiSta) /\ WF_vars(Deliver)
FairSpec == Spec /\ Fairness /\ WF_vars(ConnectAll)

-----------------------------------------------------------------------------
\* IsConnected(name): false for a name that is not in the map.
IsConnected(n) == n \in networks /\ isConnected[n]
IsWanConnected == count["wan"] > 0
IsLanConnected == count["lan"] > 0

\* What a subscriber that now knows v believes of kind k once it has received q:
\* the last event of that kind decides, without one its present knowledge stays.
Tells(q, v, k, b) ==
    \/ \E i \in DOMAIN q : /\ q[i] = [kind |-> k, up |-> b]
                           /\ \A j \in DOMAIN q : j > i => q[j].kind # k
    \/ v[k] = b /\ \A i \in DOMAIN q : q[i].kind # k

\* A subscriber that has received everything knows what IsWanConnected() and
\* IsLanConnected() answer: PostEvent never changes a counter between "none"
\* and "some" without an event that says so, whatever the two networks do and
\* however the blocked posts interleave. It is not true for good: every GOT_IP
\* for a network already counted raises the counter, and the byte wraps.
StatusAnnounced ==
    repeats + 3 <= ByteMod =>
        \A k \in Kinds : Tells(mq \o posts, view, k, count[k] > 0)

\* Why: both counters move together, nothing is left to post between handlers,
\* and a counter exceeds the connected networks by the repeated GOT_IPs at most.
Connections(n) == IF isConnected[n] /\ ~(n = "wifi" /\ handler = "staDown") THEN 1 ELSE 0
CountersAgree == count["wan"] = count["lan"]
IdlePostsNothing == handler = "idle" => posts = <<>>
CountBounded ==
    repeats + 3 <= ByteMod =>
        count["wan"] <= Connections("wifi") + Connections("eth") + repeats
IInv == TypeOK /\ CountersAgree /\ IdlePostsNothing /\ CountBounded /\ StatusAnnounced

\* To its subscribers the manager is what NetworkStatus says, as long as the
\* counters do not wrap: one status for both kinds, told in order and in full.
Status == INSTANCE NetworkStatus WITH up <- IsWanConnected, queue <- mq \o posts
ImplementsStatus ==
    /\ Status!Init
    /\ [][repeats' + 3 <= ByteMod => [Status!Next]_(Status!netVars)]_vars

\* A handler finds its network connected on GOT_IP only if the driver posted
\* more than one address for one link up: the queue keeps the loss in between.
RepeatsAreRenewals == repeats <= renewals

\* Whether the Ethernet object claims an address without a link.
EthernetNeedsLink == ~LateIp /\ isConnected["eth"] => isLinkUp

\* A station that lost its access point, or failed to find one, has a way back: an
\* attempt runs, the timer runs, or the event that will start it is waiting. It is
\* forgotten in two ways only: esp_wifi_connect() refused the attempt and nothing
\* sets the one-shot timer again, or a late address has stopped the timer and the
\* object takes itself for connected.
Owed == \/ timer \/ handler = "staDown"
        \/ \E i \in DOMAIN drv : drv[i] = Event("wifi", "down")
Forgotten == refused \/ (LateIp /\ isConnected["wifi"])
NoLostRetry ==
    (Sta /\ ShouldReconnect /\ "wifi" \in begun /\ link["wifi"] = "idle") => Owed \/ Forgotten

\* With one network begun and no renewed lease, a quiet system reports the WAN
\* and the LAN exactly as the link is.
Quiet == drv = <<>> /\ handler = "idle" /\ mq = <<>>
HonestStatus ==
    (Quiet /\ Cardinality(begun) = 1 /\ renewals = 0) =>
        \A k \in Kinds : view[k] <=> \E n \in Nets : link[n] = "up"

\* What IsConnected(name) answers of any number of networks. Once the default loop
\* has worked off what it has, it is the link, but for a late address. For a network
\* that is alone it differs from what IsWanConnected() answers only while the
\* handler of the station's loss runs: it has counted and announced the loss, or is
\* blocked on that, and clears isConnected when it has.
HonestClaims ==
    \A n \in networks \cap Nets :
        /\ drv = <<>> /\ handler = "idle" =>
               /\ link[n] = "up" => IsConnected(n)
               /\ IsConnected(n) => link[n] = "up" \/ LateIp
        /\ begun = {n} /\ renewals = 0 /\ IsConnected(n) # IsWanConnected =>
               n = "wifi" /\ handler = "staDown" /\ ~IsWanConnected

-----------------------------------------------------------------------------
\* Why the links are followed: what the first k events that wait still mean.

Losses(n) == IF n = "wifi" THEN {Event(n, "down")} ELSE {Event(n, "down"), Event(n, "stop")}

\* Whether n has what its event "gain" brings once the first k of the queue q are
\* handled, when it has it now or not.
HasAfter(n, gain, now, q, k) ==
    \/ \E i \in 1 .. k : /\ q[i] = Event(n, gain)
                         /\ \A j \in (i + 1) .. k : q[j] \notin Losses(n)
    \/ now /\ \A j \in 1 .. k : q[j] \notin Losses(n)

ConnectedAfter(n, k) == HasAfter(n, "gotIp", Connections(n) = 1, drv, k)
LinkUpAfter(k)       == HasAfter("eth", "linkUp", isLinkUp, drv, k)

\* The addresses in the queue that will find n connected, and one that will stay
\* without a link: every one of them was posted as a renewal.
Surplus(n) == {i \in DOMAIN drv : drv[i] = Event(n, "gotIp") /\ ConnectedAfter(n, i - 1)}
Stray(n)   == IF link[n] # "up" /\ ConnectedAfter(n, Len(drv)) THEN 1 ELSE 0
RenewalsCounted ==
    repeats + Cardinality(Surplus("wifi")) + Cardinality(Surplus("eth"))
            + Stray("wifi") + Stray("eth") <= renewals

\* A handler that works the queue off ends where the link is.
LinkFollowed ==
    \A n \in Nets : /\ link[n] = "up" => ConnectedAfter(n, Len(drv))
                    /\ ~LateIp => Stray(n) = 0

\* The Ethernet's address comes after its link, and goes with it.
AddressAfterLink ==
    ~LateIp => /\ link["eth"] \in {"trying", "up"} => LinkUpAfter(Len(drv))
               /\ \A i \in DOMAIN drv : drv[i] = Event("eth", "gotIp") => LinkUpAfter(i - 1)
               /\ isConnected["eth"] => isLinkUp

\* Nothing is heard of a network that was not begun, nor of a WiFi that is no station.
Silent(n) == \A i \in DOMAIN drv : drv[i].net # n
Unheard ==
    /\ \A n \in Nets \ begun : link[n] = "off" /\ ~isConnected[n] /\ Silent(n)
    /\ ~Sta => link["wifi"] \in {"off", "idle"} /\ Silent("wifi")
    /\ "wifi" \notin begun \/ ~Sta => ~timer /\ handler # "staDown"

\* Alone, a network is counted exactly while it is connected.
CountedAlone ==
    renewals = 0 /\ begun # Nets => count["wan"] = Connections("wifi") + Connections("eth")

LinkInv ==
    /\ IInv /\ LinkFollowed /\ AddressAfterLink /\ RenewalsCounted
    /\ Unheard /\ CountedAlone /\ NoLostRetry

\* If the counters stop changing between "none" and "some", the subscribers come
\* to know it: no event of the blocked PostEvent is lost, none overtakes another.
StatusSettles ==
    \A k \in Kinds : /\ <>[](count[k] > 0) => <>[](view[k])
                     /\ <>[](count[k] = 0) => <>[](~view[k])

\* A station that is down, not stopped by the application, tries again, unless
\* esp_wifi_connect() refuses the attempt.
StationRetries ==
    (Sta /\ ShouldReconnect /\ "wifi" \in begun /\ link["wifi"] = "idle")
        ~> link["wifi"] # "idle" \/ refused

-----------------------------------------------------------------------------
\* A statement of the repository that the code does not keep.

\* "Please use NETWORK_WAN_CONNECTED instead" of NETWORK_STA_CONNECTED: while the
\* station is up the subscribers know of a WAN.
StationReported ==
    (Quiet /\ renewals = 0 /\ link["wifi"] = "up") => view["wan"]
=============================================================================
