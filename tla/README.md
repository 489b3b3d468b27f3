# SigmaTransfer in TLA+

SigmaTransfer is an ESP32 library: it brings up Wi-Fi and Ethernet, announces whether a WAN
and a LAN are there, and runs connections (MQTT client, websocket client, websocket server)
that follow these announcements. What is hard in it is that its state is shared, without
locks, by many FreeRTOS tasks. These modules model that: one action is what a task does
between two points at which another task can be noticed.

Source paths below are relative to the repository: `src/*.cpp`, `include/*.h`.

## Inventory

Tasks, and what each of them runs:

| task | runs |
|---|---|
| application | `SigmaNetworkMgr::AddNetwork/RemoveNetwork/Connect/Disconnect`, constructors, `Subscribe/Unsubscribe` |
| default event loop (ESP-IDF) | `SigmaWiFi::handleWiFiEvent`, `SigmaEthernet::handleEthEvent/handleIpGot`, hence `PostEvent` |
| manager's event loop | `networkEventHandler` of every connection: `Connect()`, `Disconnect()` |
| each connection's event loop | `protocolEventHandler`, `onMqttEvent`, the application's handlers |
| timer task | `reconnectWiFiSta`, `reconnectTask`, `pingTask` |
| httpd task, one per server | `onWsEvent`, `sendWSFrame` |
| worker, one per server | `SigmaWsServer::processData` |
| esp-mqtt client task | the protocol; it posts events |
| websocket client task | the protocol, and `SigmaWsClient::wsEventHandler` itself |

Components:

| component | state | operations | correct when |
|---|---|---|---|
| SigmaNetworkMgr | map of networks, two byte counters, an event loop | Add/Remove/Connect/Disconnect, PostEvent | subscribers hear of every change between none and some, in order |
| SigmaWiFi | isConnected, one-shot retry timer | Begin, Connect, Disconnect, event handler, timer callback | a station that is down retries; what it claims is its link |
| SigmaEthernet | isConnected, isLinkUp | Begin, Connect, Disconnect, event handlers | an address only with a link; counts only its own connections |
| SigmaWsServer, gate | static queue and binary semaphore | onWsEvent, processData | a request is read only while its handler waits; each is answered |
| SigmaWsServer, registry | map socket -> ClientAuth, httpd handle | GET, frames, ping pass, removals, messages, restart | nobody speaks as somebody else; dead entries go, live ones stay |
| SigmaConnection | reconnect and ping timers, retries, subscriptions | connectionHandler, timer callbacks | follows the network it was told to follow |
| SigmaMQTT | client handle, isReady | constructor, Connect on three tasks, Disconnect, Subscribe, Unsubscribe, MQTT events | one client, started with its network, subscribed to what was asked |
| SigmaWsClient | client handle, isReady, shouldConnect, ping and retry counts | constructor, Connect, Disconnect and Close on four tasks, ping, events of the connection | a client that should connect has somebody to start it; it gets ready again after every loss; credentials first |
| SigmaInternalPkg, SigmaSPI, SigmaNetwork, parsers, factory | none that changes | formatting, hardware initialisation | not modelled |

Interaction: a driver posts to the default loop; its handler calls `PostEvent`, which changes
the counters and *blocks* while the manager's queue is full; the manager's loop hands the
announcement to each connection, which starts or stops its protocol; the protocol posts to the
connection's own loop, which sets `isReady` and the reconnect timer; the timer task calls
`Connect()` again. The websocket server additionally hands each request from the httpd task to
its worker through a queue and a semaphore that are *static*, that is, shared by all servers.

The hard parts, with their lines, are the hazards listed in `PROJECT.json`.

## Modules

| module | what it is |
|---|---|
| `NetworkStatus` | abstract: what the manager promises to its subscribers |
| `NetworkMgr` | SigmaNetworkMgr with SigmaWiFi and SigmaEthernet; implements `NetworkStatus` |
| `NetworkMgrProofs` | its type correctness, announced status, refinement |
| `NetworkLinksProofs` | the links: retries, repeated addresses, the Ethernet's link, honest status and claims |
| `WsRequestGate` | the hand-over of requests by queue and semaphore, shared by all servers |
| `RequestService` | abstract: what the hand-over promises to the httpd tasks |
| `WsRequestGateProofs` | there is one token, and somebody can go on; a request is alive while a worker reads it; refinement |
| `WsServer` | the registry of clients, the four tasks that use it, stop and start |
| `WsServerMC` | the scenes `WsServer` is checked in |
| `Membership` | abstract: what the registry promises to its clients |
| `WsServerProofs` | its type correctness and its safety properties |
| `WsMembershipProofs` | the registry implements `Membership` |
| `MqttConnection` | SigmaMQTT and SigmaConnection on top of `NetworkStatus` |
| `MqttConnectionMC` | the scenes `MqttConnection` is checked in |
| `MqttConnectionProofs` | its type correctness, one client, subscriptions held, no network missed |
| `WsClientConnection` | SigmaWsClient and SigmaConnection on top of `NetworkStatus` |
| `WsClientMC` | the scenes `WsClientConnection` is checked in |
| `WsClientProofs` | its type correctness, no client forsaken |

A *scene* is a configuration of the object together with a use of it: a record of constants. The
constant `Scenes` is a set of them and the variable `scene` is one of it for good, so that one run
answers the same question for several configurations.

Operators whose name begins with `Mut` are deliberate mistakes, one for each checked property,
placed before the definition they would replace. No specification uses them.

### NetworkStatus and NetworkMgr

`NetworkMgr` has the two networks' objects, the default loop's queue `drv`, the manager's queue
`mq`, and `posts`, what a `PostEvent` that blocks has still to post. A handler of the code is
one action up to its `PostEvent`, one `PostTo` per post, and one action for the rest
(`WifiDownReturns`: `isConnected = false` comes *after* the post). `view` is what a subscriber
has been told. Drivers are external: a link goes off, idle, trying, up, and posts what the code
registers for. `AddressRenewed` is a GOT_IP for a link that is up already; with `LateIp` also
one behind the loss of its link. `esp_eth_stop` posts STOP, with or without a DISCONNECTED
before it. An access point posts nothing that the code handles; the AP branches of `PostEvent`
are in `NewCount` and `Published`, and nothing calls them.

`esp_wifi_connect` starts an attempt or refuses it (`EspWifiConnect`, `Refusal`). The code logs a
refusal, returns FALSE to those who ask, and sets no timer: a station whose retry is refused is
forgotten until the next event. `refused`, a history variable, marks that state, and the properties about
retries name it. Neither is a driver bound to start: `Begin()` may fail (`BeginAll` leaves such a
network out) and so may `esp_eth_start`.

The application may add networks late and call `Connect()` again. `Begin()` on an Ethernet that is
begun resets the board, which may cost the link (`LinkLost`), overwrites `netifHandle`, which from then on
only logs read, and fails at `esp_netif_new`; on a WiFi that is begun
`esp_netif_create_default_wifi_sta` aborts the program, so `BeginAll` is not enabled then. A configuration
of unknown type (the default) leaves a null object in the map (`AddUnknown`); whoever visits the networks then
ends the program, so `BeginAll` is not enabled then either, while the event loops go on. A network
that was begun and removed is not added again: that would be a second object on the same driver.

`NetworkStatus` says: one status `up`, changed together with its two announcements; `GoDown` may
repeat itself (a loss that nobody counted is announced again, `PostEvent` with a counter at
zero), `GoUp` may not. `NetworkMgr!ImplementsStatus` maps `up` to `IsWanConnected` and the queue to
`mq \o posts`. Counters are bytes: after `ByteMod - 3` repeated GOT_IPs a counter might wrap and
the promise ends; `repeats` counts them, and the properties say `repeats + 3 <= ByteMod`.

### WsRequestGate

Per server its httpd task's place in `onWsEvent` and its worker's in `processData`, with the request
the worker has. The queue and the semaphore are one of each for all servers, as in the code, and
`NewServer`, the constructor, makes both anew: a worker that waits at the former queue is `lost`, its
server's requests are from then on processed by the workers that read the present queue. The
constructor is called while no request is on its way. (A semaphore that is initialised under a task
that waits at it is undefined behaviour, and two tokens would break everything below.)

`RequestService` says what this is for: a request that arrives is processed once, before its handler
returns, and one at a time. In `ImplementsService` a request is `waiting` until a worker has it, `inWork`
while it does, and `done` when its handler is at or behind the second take with the request neither in
the queue nor with a worker.

### WsServer

`clients` is the map with its key, the socket number, apart from the entry's `socketNumber`
field: `operator[]` on an erased key makes an entry whose field is 0. `sess` says which session
has a socket; the code has no such thing, it is what the properties are about. A step is one visit to
the map, and `req.op` is the worker's place between two of them. A GET registers its entry
(`RegisterClient`), looks at the limit (`CheckLimit`), removes the client's former entry
(`RemoveFormer`), looks at the key and writes the name (`CheckKey`), and writes `isAuth`
(`MarkAuthenticated`): if the timer erases the entry between the last two, what is left is an
authenticated entry of no client, with socket number 0. A frame is found (`ReceiveFrame`), goes the way of
its entry (`SortFrame`), and is then a member's (`MemberFrame`, `Command`), a first message
(`FirstMessage`, and the log of line 429, which reads the name with `operator[]`, `LogClient`) or a stranger's
(`StrangerFrame`). A binary frame is only logged, with the same `operator[]`. Visits are merged
where nobody can tell: the finds at 262 and 356, since an entry that goes between them might have gone before.

Between two visits of the worker, the timer may run `SendPing` and `RemoveDoomed` (one removal each), the
event loop `SendMessage`, and the manager's loop `Disconnect` and, as its last call, `Connect`. `Disconnect` needs
an idle worker, because `httpd_stop` waits for the handler that is running; between the two
`httpd_queue_work` is refused, so a removal by the timer leaves the entry. What the httpd task does
for the program is in `work`: text to be sent, sessions to be closed, both by number. Control frames (lines
309-337 of `SigmaWsServer.cpp`) never reach the handler, since `ws_uri` does not ask for them. The model
stops `pingRetryCount` at -1: lower values are all "less than 0" and the next removal takes the
entry. `SendPing` is one pass, the sockets without retries go to `doomed`: that a reset of
`pingRetryCount` by the worker, between the pass's read and write of one entry, is lost, is not modelled.
`req.op = "stuck"` is `sendPongToClient` calling itself for a PING_BINARY client; no
more of the worker follows it.

`Membership` says what the registry is for, with sessions instead of socket numbers: a session joins by
showing the key of the client it says it is, for itself only, and puts out that client's former sessions and
no others. In `ImplementsMembership` a member is a session with an entry that is authenticated; one whose
entry has lost its name as above is `nameless`, a member by its own key whom a later session of its client
does not find, and so does not put out; an entry left under the number of a session whose handshake the worker has not served yet is nobody's. How
a session ceases to be a member is left open (`Leave`): by URL a wrong key puts out the client it names.

### MqttConnection

`Connect()` goes through `init`, `create`, `check`, `start` on each of the tasks application, manager's
loop and timer, with everything else in between. `clients` is the list of esp-mqtt clients ever
created; `asked` is what the broker has in the client's present session. esp-mqtt is external:
starting a started client fails, stopping posts no event (and may fail while online, `StopFails`),
a started client connects again by itself, and a failed attempt posts ERROR and DISCONNECTED.
The network is `NetworkStatus`, by `INSTANCE`: what is shown here rests on the refinement above. Without
a mode `Connect()` asks for `isConnected` of the network named "" (`named`), which goes its own way.
`BrokerSends` and `OnData` are the messages for a subscription, retained or live, and which of them
`onMqttEvent` hands to the application (`heard`).

`setReconnectTimer` is three steps on any of four tasks (the connection's loop, `loop`, calls it for
lost sessions): `Retry` looks at the count, `ArmTimer` sets the timer there is, `MakeTimer` makes
one where there is none. A timer expires (`TimerExpires`) and counts (`ReconnectTask`) in two steps. So the
last retry may be taken between the look and the arming, and the count goes below zero; and two tasks that
both find no timer make one each, the first of which runs on though the object has lost sight of it
(`strays`). The reconnect delay is never zero, and the timer commands find room in the timer task's queue.

### WsClientConnection

Four tasks call `Connect()` and `Disconnect()`: the manager's loop, the timer task, the connection's own
loop and, unlike esp-mqtt, the client's own task. `task[t]` is the place of each: `start` and `delay`
are `Connect()` around its `delay(5000)`, `close`, `closing`, `stop` and `decide` are `Disconnect()`. A timer
callback that decrements a counter reads it in one step and writes it in the next (`read`), so that
a reset in between is lost, as it may be in the code; the retries may so fall below zero, too.
(`setReconnectTimer` is one step here: how it falls apart is the subject of `MqttConnection`.)

`Connect()` asks for `isConnected` of the network named "", not for the WAN or LAN it is told of:
`named` is the one and `up` the other. If that network is the only one (`Alone`), it is connected before it
is announced, and an address it renews is not counted twice. With others beside it (scene field `others`) the
two are independent: an announcement that another network brings about is dropped at line 207, without a timer,
and when the network named "" then connects too, nothing is announced. `dropped`, a history variable,
marks that the last `Connect()` went that way. A client that `esp_websocket_client_init` does not give ends
the construction: `MakeClient` is then never taken. A failing `esp_websocket_register_events` (78-82) is left
out.

The esp_websocket client is external, from how the code uses it: starting one that runs is refused;
close sends a CLOSE frame and waits, with `portMAX_DELAY`, until the client's task has ended; close
and stop on the client's own task are refused; a started client connects again by itself after a
break, not after a CLOSE. A server that is reachable answers a CLOSE in the end. `first` is what the
connection has carried first, `sent` counts the pings sent since the server was heard: histories for
the properties.

## Runs

| run | question | states |
|---|---|---|
| `nm_both` | Both networks and one of unknown type, refused attempts, renewals, late addresses, queue of one, counters of two bits, late networks and repeated `Connect()`: `StatusAnnounced`, `RepeatsAreRenewals`, `LinkInv`, refinement | 1076 k |
| `nm_links` | No renewals, fairness: `LinkInv`, `HonestStatus`, `HonestClaims`, `EthernetNeedsLink`, `NoLostRetry`, `StationRetries`, `StatusSettles` | 661 k |
| `nm_steal` | violated: `StationReported` | |
| `gate` | Up to three servers, queue of two: `IInv`, `RequestHeld`, `ServiceGoesOn`, `RequestAnswered`, refinement; no deadlock | 4 k |
| `ws` | Seven scenes, fairness: types, members are genuine, one entry per client, the limit, good credentials accepted, refusals and requests private, messages addressed to their client, dead entries removed; `IInv`, refinement | 812 k |
| `ws_pings` | violated: `NotBeforePings` | |
| `mq` | Five scenes, fairness: types, subscriptions held, one client runs, no network missed, `IInv`, the client follows the network | 470 k |
| `mq_ready` | violated: `ReadyAgain` | |
| `mq_live` | violated: `LiveHeard` | |
| `wc_ready` | Two scenes, fairness: types, no client forsaken, `IInv`, ready again after every loss | 1138 k |
| `wc_auth` | violated: `AuthComesFirst` | |
| `wc_quiet` | violated: `AfterPings` | |

Deadlock is checked in `gate` only: the other systems may stop when their bounds are used up (no
more driver events, sessions or restarts), which is not a fault.

Bounds and why they are enough:

- `ByteMod = 4` stands for 256: it is the least that two networks and one renewal do not wrap,
  and the wrap itself is excluded by name. `MgrCap` 1 or 2 (50 in the code) makes the posts block,
  the interesting case; `DrvCap` 3 or 4 lets a loss, a stop and a new address wait behind each other.
  `MaxRenewals = 1` gives one repeated GOT_IP, enough to raise a counter once too often.
- `gate`: three servers are the least with one handler inside, one waiting and one arriving, and with
  two constructions after the first. The proof is for any number.
- `ws`: every scene has two sessions and two socket numbers, and a new session may get either: there
  are a former and a new owner of a number, and two logins of one client. `ByMessage` has two clients,
  `Restarted` one and a restart, `ByUrl` one with `httpd_queue_work` failing; no scene has two clients with a
  restart or with refused work, the theorems cover them. `Forms` has URLs in the form the parser reads, in that
  of the header's comment and in that of `SigmaWsClient`. `Binary` and `Open` have one client and room for
  one, so that a stale entry fills the registry and the limit bites; `UrlAlone` has two clients and
  room for one, the least in which a login by URL goes over the limit. `maxWork` limits the work
  waiting when *more* is offered, not what closings add.
- `mq`: `NetCap` and `EventCap` limit what waits when the environment adds more; announcements come
  in pairs, so a stale pair and a fresh pair fit. `Retrier` has two retries and no subscriptions, since what
  timers can be doing multiplies the states by hundreds; it reaches two timers underway and a count of -3.
  The others have no retries. `LateComer` and `AnyNetwork` are made at any time and have the application call
  `Connect()` as well; the others are made first. `Overdraft = 7` in `MqttConnection` is no bound of the
  runs but the number the theorems give for any configuration.
- `wc_*`: one pair of announcements waits (`NetCap = 0`: the network changes when the former pair is
  delivered; `Connect()`'s wait on the manager's loop does hold up a pair). One retry and one ping make
  both counters run out; `wc_quiet` has the three pings of the code. `Overdraft = 1` lets the count fall one
  below zero and no further, which nothing tells apart. Where other networks are registered beside the one
  named "" the server is never reached: the question there is whether the client is started.

Fairness. FreeRTOS runs every ready task, so the steps of event loops, timer task and worker are
weakly fair; drivers, peers, broker, server and application owe nothing. Strong fairness: the two
takes of the semaphore (`gate`; FreeRTOS wakes the longest waiter); in `ws` the timer and the work
queued for httpd, whose loop looks at its control socket in every turn; in `wc_ready` `ReconnectTask`: the
timer is stopped only by a connection that comes up, breaks or carries data, and set again at once
only by such a break, so with the server there it expires 5 s after the last of them, long before the
next ping (60 s). A started client that can reach its peer
connects in the end (the retry of esp-mqtt and of esp_websocket), and a server that is reached
answers a CLOSE frame; `Disconnect()` of the websocket server ends in `Connect()` (weak fairness).

The six violations are disagreements between the code and its text; `PROJECT.json` "findings"
has the quotes.

- `nm_steal`: an Ethernet link that never had an address, when lost, decrements the counter for the
  Wi-Fi station's connection. The WAN is announced as lost while it is up.
- `ws_pings`: a client that answers, or a new session on the same number, between the ping pass and
  the removals is disconnected with all its retries left.
- `mq_ready`: a retry starts a client that is started; the refusal sets `isReady = false` for a
  connection that works.
- `mq_live`: the test that should drop retained messages drops the live ones.
- `wc_auth`: `setReady(true)` tells the application before the credentials are sent.
- `wc_quiet`: pings are counted down that are never sent, and the connection is given up.

Further disagreements seen while modelling, without a run: nobody posts `NETWORK_AP_CONNECTED`, so a
pure access point is never announced as a LAN; `IsConnected()` without a name asks for a network
named "" (`NetworkMode` NONE in `SigmaMQTT::Connect`, and `SigmaWsClient::Connect`), which the tests'
networks are not; the URL of the header's comment (`authKey=`) and the one `SigmaWsClient` sends
(key first) are both refused by the server's parser, which wants `clientId=` first and `apiKey=`, and the
former costs the client its other session besides (scene `Forms` sends both; what a good URL is to
`GoodCredentialsAccepted` is the form the parser reads);
`AUTH_TYPE_ALL_MESSAGES` authenticates nobody; `Unsubscribe` builds another key than `Subscribe`
for a root topic without a final "/"; a text PING of a PING_BINARY client makes `sendPongToClient` call
itself for ever; `SigmaMQTT::Connect` may start its client after the network it looked for has gone,
and sets `isReady` before it is online; a websocket client that was closed is connected again by its
timer or the next announcement; one that is created after the network is up waits for the next.

## Proofs

TLAPS checks the theorems below for every value of the constants that satisfies the named
assumptions. Every safety invariant and every action property of the passing runs, and the three
refinements, are among them. Each rests on an inductive invariant that TLC checks as well, in the
runs of its module (`IInv`, `LinkInv`).

Assumptions: `ConfigAssumption` and `BoundAssumption` (a byte counts beyond 3, a queue holds one),
`GateAssumption` (a queue holds one, finitely many servers), `ServerAssumption` (the scenes are
configurations, socket numbers are finitely many and positive), and those of the two connections, which
give their constants a type. TLC evaluates them in the runs. Two theorems have a further hypothesis,
named with them.

**NetworkMgrProofs**, the counters and their announcements.

- `TypeCorrect`: `Spec => []TypeOK`.
- `StatusIsAnnounced`: `Spec => []StatusAnnounced`. `StatusAnnounced` is not inductive: that a counter
  at zero says "lost" and one at one says "connected" needs that both counters move together
  (`CountersAgree`), that nothing is left over from one handler to the next (`IdlePostsNothing`), and
  that a counter cannot have wrapped (`CountBounded`: it is at most the connected networks plus the
  repeated GOT_IPs). `IInv` is their conjunction; the proof takes one action at a time. Lemmas say what
  appending to, and taking from, the queue does to `Tells`, the last event of a kind.
- `StatusImplemented`: the refinement; with `IInv`, `PostEvent` is `GoUp`, `GoDown` or a stutter, `PostTo`
  moves an announcement within `mq \o posts`, `Deliver` takes the first.

**NetworkLinksProofs**, the links, from one invariant, `LinkInv`. The drivers run ahead of the
handlers by the length of the default loop's queue, so what holds is said of the state in which a
handler *will* leave a network: `HasAfter(n, gain, now, q, k)` is whether n has its address (or its
link) once the first k events are worked off. With it

- `LinkFollowed`: the whole queue worked off, a network whose link is up is connected, and without late
  addresses one that is not up is not;
- `AddressAfterLink`: the Ethernet's addresses wait behind its link;
- `RenewalsCounted`: the addresses counted twice so far, those in the queue that will find their network
  connected (`Surplus`), and the connections that will stay without a link (`Stray`) are no more than the
  renewals the drivers have posted;
- `Unheard`, `CountedAlone`: nothing waits of a network that was never begun, and one that is alone is
  counted exactly while it is connected.

`HasNow`, `HasPosted` and `HasHandled` say what posting and handling an event do to `HasAfter`;
`SurplusPosted` and `SurplusHandled` count the set `Surplus` over the same two steps, the second by a
bijection with the shifted queue. From `LinkInv` follow

- `StationNeverForgotten`: `Spec => []NoLostRetry`. A station that is down and may retry has somebody who
  will (`Owed`), or is `Forgotten` in one of the two ways the code has: the driver refused its last attempt,
  or a late address stopped its timer. `EthernetNeedsLink`, too, excludes late addresses;
- `RepeatsAreOnlyRenewals`: `Spec => []RepeatsAreRenewals`, so that the bound in `StatusAnnounced` is one
  on renewals: nothing else can bring a counter to wrap;
- `EthernetHasLink`: `Spec => []EthernetNeedsLink`;
- `StatusIsHonest`: `Spec => []HonestStatus`, with `StatusAnnounced` for the subscribers' side;
- `ClaimsAreHonest`: `Spec => []HonestClaims`. What `IsConnected()` answers is the link once the default
  loop has nothing left to do, and differs from `IsWanConnected()` only while the handler of the station's
  loss is between its announcement and the line after it.

**WsRequestGateProofs**. `GateInvariant`: `Spec => []IInv`, and from it `RequestAlive`,
`Spec => []RequestHeld`. The core is `OneToken`: there is one token, which is in the semaphore, with a
handler, in the queue or with a worker; a constructor finds it at rest and replaces it. `OnlyBusyHold`
ties a worker's place to the request it has; `QueuedHeld` is needed for the step that takes a
request from the queue. With `TokenThere`, which says that the token cannot be lost (a handler that is
inside has been made a server, and of the servers made one's worker listens or is busy, since the
constructor that leaves the others' at a former queue starts one at the present queue), it also gives

- `GateGoesOn`: `Spec => []ServiceGoesOn`, the safety half of freedom from deadlock: while a handler waits,
  the semaphore can be taken, or a task that has the token can go on. That it then does is fairness;
- `GateImplementsService`: `Spec => ImplementsService`. The take that could go wrong is the second: where it
  finds the semaphore given, `OneToken` says that nothing is in the queue or with a worker, so the
  handler's own request is `done`.

**WsServerProofs**. `ServerTypeCorrect` and `ServerInvariant` (`Spec => []IInv`), and

- `ServerMembersGenuine`: `MembersAreGenuine`. An entry outlives its session, so it may well name a
  client while another session has its socket; `EntriesGenuine` says that it is then one whose session the
  handler has not seen, and a GET makes a fresh entry before anything looks at it. `SessionsApart`
  (two sockets never have one session; a stopped httpd has none) and `RequestKnown` carry it.
- `ServerOneEntryPerClient`, from `OneEntry`: no two entries have one client. It needs that a login's own
  entry is without a name until it is decided (`RequestKnown`), and that removals are not refused, which is
  why the worker's steps have to be shown to run while httpd does (`SessionsApart`).
- `ServerRegistryBounded`, from `Room`, which says for each place of the worker what the registry may
  hold. By URL the limit can be passed by one (below); the theorem says by no more.
- `ServerAddressesClient`: `AddressedToClient`, an action property, as are the next three. Text is queued
  with the number in the client's entry, so that it needs both that an entry has its own number or 0
  (`OwnNumber`) and that the session with that number is the client's (`EntriesGenuine`). It is about the
  queueing: by the time httpd sends the text another session may have the number.
- `ServerRequestIsPrivate`: `Spec => RequestIsPrivate`. A removal goes by the number in the entry, not by its key,
  and `operator[]` makes entries with the number 0. `OwnNumber` carries it, too: what a worker takes away is its own entry or one of the client its session names.
- `ServerRefusalIsPrivate`: a refused first message takes away its own entry only.
- `ServerAcceptsGoodCredentials`: `Spec => GoodCredentialsAccepted`. Good credentials are, by URL, those in the
  form the parser reads (`GivesKey`); sessions that use the other two forms may be there as well, and
  are turned away.

**WsMembershipProofs**. `ServerImplementsMembership`: `Spec => ImplementsMembership`, from the invariants of
`WsServerProofs`. A worker's step makes at most its own session a member (`WorkerMembers`), and only with its
key shown in this very step (`NewMemberShows`); who loses its place to it had that client's key
(`JoinDisplaces`, from `RequestIsPrivate`'s lemma), and where httpd refuses no work nobody of that client
keeps one, but for the nameless. Every other step makes nobody a member (`OthersLeave`), an arrival on a number that still has an
entry included (`ArrivalSpares`: the entry is not `Seen` until the GET replaces it).

**MqttConnectionProofs**. `MqttTypeCorrect`, `MqttInvariant` (`Spec => []IInv`), and

- `MqttInvariant` says of the timer what the code leaves true: when no retry is left, those that can still
  count are the timers that run, in sight or out of it (`TimersMade`: at most three out of it), and the tasks
  about to set one (`Underway`), and these are never more than seven plus what is left (`Overdrawn`). `MqttTypeCorrect` takes the range of the count from it.
- `OneClientAtATime`: `OneClientRuns`. The check for a client and its creation are two steps, on three
  tasks; it holds since the timer is set only when there is a client (`OneClientMade`), so that the timer
  task never creates one, and the manager's loop is one task. `AloneAtFirst` carries it.
- `BrokerHasTopics`: `SubscriptionsHeld`, from `TopicsFollow`: a session lacks a topic of the map only while
  its CONNECTED waits, or a request of the application has done the one half and not the other.
- `NetworkIsNotMissed`: `Spec => []NetworkNotMissed`, the safety half of `NetworkFollowed`: on a network that is
  up the client is started, or an announcement or a task that will start it is on the way. It needs
  `DownIsFollowed` (while the network is up, each waiting loss has a connection waiting behind it, so that
  none stops the client for good) and `ClientToStart` (who gets to starting it finds a client).

**WsClientProofs**. `ClientTypeCorrect`: a counter read by the timer task and written back one step
later never exceeds its range, and the pings not fall below it, only with where that task is
(`ReadInRange`). `ClientInvariant`, `Follows => (Spec => []IInv)`, and from it `ClientNeverForsaken`,
`Follows => (Spec => []NeverForsaken)`, where `Follows` is a retry allowed (`RetryCount > 0`), a network mode
that is set, and an object made before the network is up; without each of
these the code does leave the client alone. It does so as well where several networks are
registered and `Connect()` last found the one named "" not connected: the property and the invariant name
that state (`dropped`). `StartOwed` says that whoever takes the timer away
is on its way to a place that sets it, `RetriesComeBack` that retries run out only on the way to a start or
with an announcement to come, `MissedNothing` that no announcement came before the object.

Model-checked only, because the prover cannot do it: everything under fairness
(`StatusSettles`, `StationRetries`, `RequestAnswered`, `StaleReaped`, `NetworkFollowed`, `ReadyAgain` of the
websocket client) and freedom from deadlock in `gate`, which is about ENABLED. For all
but `StaleReaped` the safety half is a theorem, that nothing which has to happen is forgotten:
`StatusIsAnnounced`, `StationNeverForgotten`, `GateGoesOn`, `NetworkIsNotMissed` and
`ClientNeverForsaken`. The models
have no recursive definitions. The violated statements are counterexamples of TLC.

What the proofs brought to light in the model and the code: with authentication by URL
the registry may hold one client more than `maxClients`. The limit is looked at with the entry in the
map; the timer may erase that entry right after, and `clients[auth.socketNumber]` (lines 232-233 of
`SigmaWsServer.cpp`) makes it again, so that an entry that another session got in the meantime is
not counted against it. `RegistryBounded` states the bound that holds, scene `UrlAlone` reaches the excess.

## Not modelled

- `SigmaInternalPkg`, `SigmaSPI`, the parsers and the factory (see the inventory): no state that
  changes. The package's binary branch decodes into pointers nobody sets.
- Adding a network again that was begun and removed; a WiFi's second `Begin()`, which aborts.
- `SigmaWsServer::Close()`, which nothing calls; a restart that fails; a server created
  when the network is already up (its constructor, unlike SigmaMQTT's, does not look); clients that
  the application allows or disallows while the server runs; a further server's constructor while a
  request is on its way.
- Publishing, and which event id a message is delivered under; the delivery of packages by the
  websocket server and client.
- Destruction of objects: `eventHInstance` is null, so handlers would never be unregistered, and the
  timers stay.
- Memory errors as such: use of a map entry that another task erases is modelled as the write being
  lost or going to a new entry; use of a stopped httpd's handle as a refusal.

## Plan

Done: the five parts below, each with its type, its safety properties and, where it has one, its abstract
specification proved.

1. `NetworkStatus`, `NetworkMgr`, the status and the links.
2. `WsRequestGate` with the constructor of a further server, `RequestService`.
3. `WsServer`, `Membership`.
4. `MqttConnection`.
5. `WsClientConnection`.

What could come next, should the code come to need it: `Close()` and a failing `httpd_start` of the
websocket server, the delivery of packages to subscribed clients, and one abstract specification
of a connection (started while its network is there) for both `MqttConnection` and
`WsClientConnection`, whose retries differ so much now that it would say little more than
`NetworkNotMissed` and `NeverForsaken` do.
