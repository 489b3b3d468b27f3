-------------------------- MODULE NetworkMgrProofs --------------------------
(***************************************************************************)
(* Type correctness of NetworkMgr, and the promise its PostEvent makes to  *)
(* the subscribers (StatusAnnounced), for every configuration, queue size  *)
(* and counter width.                                                      *)
(***************************************************************************)
EXTENDS NetworkMgr, TLAPS, SequenceTheorems

USE DEF Nets, Names, Kinds

-----------------------------------------------------------------------------
\* Facts about Tells, for the queue operations of the manager's event loop.

\* Publishing one event for each kind settles what both will be told.
LEMMA TellsPublished ==
    ASSUME NEW q \in Seq(StatusType), NEW v, NEW b \in BOOLEAN, NEW k \in Kinds
    PROVE  Tells(q \o (<<[kind |-> "wan", up |-> b]>> \o <<[kind |-> "lan", up |-> b]>>), v, k, b)
<1> DEFINE w == [kind |-> "wan", up |-> b]
           l == [kind |-> "lan", up |-> b]
           r == q \o (<<w>> \o <<l>>)
<1>1. w \in StatusType /\ l \in StatusType
  BY DEF StatusType
<1>2. r \in Seq(StatusType) /\ Len(r) = Len(q) + 2
  BY <1>1
<1>3. r[Len(q) + 1] = w /\ r[Len(q) + 2] = l
  BY <1>1
<1>4. Tells(r, v, k, b)
  <2> HIDE DEF r
  <2>1. CASE k = "wan"
    <3>1. Len(q) + 1 \in DOMAIN r /\ r[Len(q) + 1] = [kind |-> k, up |-> b]
      BY <1>2, <1>3, <2>1
    <3>2. \A j \in DOMAIN r : j > Len(q) + 1 => j = Len(q) + 2
      BY <1>2
    <3>3. r[Len(q) + 2].kind # k
      BY <1>3, <2>1
    <3>4. \A j \in DOMAIN r : j > Len(q) + 1 => r[j].kind # k
      BY <3>2, <3>3
    <3> HIDE DEF w, l
    <3> QED BY <3>1, <3>4 DEF Tells
  <2>2. CASE k = "lan"
    <3>1. Len(q) + 2 \in DOMAIN r /\ r[Len(q) + 2] = [kind |-> k, up |-> b]
      BY <1>2, <1>3, <2>2
    <3>2. \A j \in DOMAIN r : ~(j > Len(q) + 2)
      BY <1>2
    <3> HIDE DEF w, l
    <3> QED BY <3>1, <3>2 DEF Tells
  <2> QED BY <2>1, <2>2
<1> QED BY <1>4

\* Delivering the head of the queue changes no one's final belief.
LEMMA TellsDelivered ==
    ASSUME NEW q \in Seq(StatusType), q # <<>>, NEW v \in [Kinds -> BOOLEAN],
           NEW k \in Kinds, NEW b \in BOOLEAN, Tells(q, v, k, b)
    PROVE  Tells(Tail(q), [v EXCEPT ![Head(q).kind] = Head(q).up], k, b)
<1> DEFINE t == Tail(q)
           w == [v EXCEPT ![Head(q).kind] = Head(q).up]
<1>1. /\ t \in Seq(StatusType) /\ Len(t) = Len(q) - 1 /\ Len(q) > 0
      /\ \A i \in 1 .. Len(t) : t[i] = q[i + 1]
      /\ Head(q) = q[1] /\ q[1] \in StatusType
  OBVIOUS
<1>2. CASE v[k] = b /\ \A i \in DOMAIN q : q[i].kind # k
  BY <1>1, <1>2 DEF Tells, StatusType
<1>3. CASE \E i \in DOMAIN q : /\ q[i] = [kind |-> k, up |-> b]
                               /\ \A j \in DOMAIN q : j > i => q[j].kind # k
  <2>1. PICK i \in DOMAIN q : /\ q[i] = [kind |-> k, up |-> b]
                              /\ \A j \in DOMAIN q : j > i => q[j].kind # k
    BY <1>3
  <2>2. CASE i = 1
    <3>1. w[k] = b
      BY <1>1, <2>1, <2>2
    <3>2. \A j \in DOMAIN t : t[j].kind # k
      BY <1>1, <2>1, <2>2
    <3> QED BY <3>1, <3>2 DEF Tells
  <2>3. CASE i > 1
    <3>1. i - 1 \in DOMAIN t /\ t[i - 1] = [kind |-> k, up |-> b]
      BY <1>1, <2>1, <2>3
    <3>2. \A j \in DOMAIN t : j > i - 1 => t[j].kind # k
      BY <1>1, <2>1, <2>3
    <3> QED BY <3>1, <3>2 DEF Tells
  <2> QED BY <2>1, <2>2, <2>3
<1> QED BY <1>2, <1>3 DEF Tells

\* Moving an event from the handler to the manager's queue keeps the order.
LEMMA PostToKeepsOrder ==
    ASSUME NEW a \in Seq(StatusType), NEW p \in Seq(StatusType), p # <<>>
    PROVE  Append(a, Head(p)) \o Tail(p) = a \o p
<1>1. Append(a, Head(p)) = a \o <<Head(p)>>
  OBVIOUS
<1>2. p = <<Head(p)>> \o Tail(p)
  OBVIOUS
<1> QED BY <1>1, <1>2

\* The same for a delivery, which takes from the manager's queue.
LEMMA DeliverKeepsRest ==
    ASSUME NEW a \in Seq(StatusType), NEW p \in Seq(StatusType), a # <<>>
    PROVE  /\ Tail(a) \o p = Tail(a \o p) /\ Head(a \o p) = Head(a)
           /\ a \o p # <<>> /\ a \o p \in Seq(StatusType)
OBVIOUS

-----------------------------------------------------------------------------
\* Type correctness.

LEMMA PostKeepsType ==
    ASSUME TypeOK, NEW evs \in Seq(EventType), Post(evs)
    PROVE  drv' \in Seq(EventType)
BY DEF TypeOK, Post

LEMMA EventSeqs ==
    ASSUME NEW n \in Nets, NEW e \in {"linkUp", "gotIp", "down", "stop"},
           NEW f \in {"linkUp", "gotIp", "down", "stop"}
    PROVE  /\ <<>> \in Seq(EventType) /\ <<Event(n, e)>> \in Seq(EventType)
           /\ <<Event(n, e), Event(n, f)>> \in Seq(EventType)
<1>1. Event(n, e) \in EventType /\ Event(n, f) \in EventType
  BY DEF Event, EventType
<1> QED BY <1>1

LEMMA StopEventsType ==
    ASSUME NEW n \in Nets, NEW evs \in StopEvents(n)
    PROVE  evs \in Seq(EventType)
<1>1. evs \in {<<>>, <<Event(n, "down")>>, <<Event(n, "stop")>>,
               <<Event(n, "down"), Event(n, "stop")>>}
  BY DEF StopEvents
<1> QED BY <1>1, EventSeqs

LEMMA StopKeepsType ==
    ASSUME TypeOK, NEW n \in Nets, Stop(n)
    PROVE  drv' \in Seq(EventType) /\ link' \in [Nets -> {"off", "idle", "trying", "up"}]
<1>1. PICK evs \in StopEvents(n) : Post(evs)
  BY DEF Stop
<1>2. drv' \in Seq(EventType)
  BY <1>1, StopEventsType, PostKeepsType
<1> QED BY <1>2 DEF TypeOK, Stop

\* What a call of PostEvent does to the counters and to what is left to post.
LEMMA PostEventType ==
    ASSUME TypeOK, NEW id, PostEvent(id)
    PROVE  /\ count' \in [Kinds -> 0 .. ByteMod - 1]
           /\ posts' \in Seq(StatusType) /\ mq' = mq /\ view' = view
<1>0. \A c \in 0 .. ByteMod - 1 : /\ (c + 1) % ByteMod \in 0 .. ByteMod - 1
                                 /\ (IF c > 0 THEN c - 1 ELSE 0) \in 0 .. ByteMod - 1
  BY BoundAssumption
<1>1. \A k \in Kinds : NewCount(id)[k] \in 0 .. ByteMod - 1
  <2>1. count \in [Kinds -> 0 .. ByteMod - 1]
    BY DEF TypeOK
  <2> QED BY <1>0, <2>1 DEF NewCount
<1>2. NewCount(id) \in [Kinds -> 0 .. ByteMod - 1]
  BY <1>1 DEF NewCount
<1>3. \A k \in Kinds : [kind |-> k, up |-> id \in Ups] \in StatusType
  BY DEF StatusType
<1>4. \A k \in Kinds : Published(id, k) \in Seq(StatusType)
  BY <1>3 DEF Published
<1>5. Published(id, "wan") \o Published(id, "lan") \in Seq(StatusType)
  BY <1>4
<1> QED BY <1>2, <1>5 DEF PostEvent

LEMMA TakeKeepsType ==
    ASSUME TypeOK, NEW n, NEW e, Take(n, e)
    PROVE  drv' \in Seq(EventType)
BY DEF TypeOK, Take

LEMMA TypeStep == TypeOK /\ [Next]_vars => TypeOK'
<1> SUFFICES ASSUME TypeOK, [Next]_vars PROVE TypeOK'
  OBVIOUS
<1> USE DEF appVars, driverVars, mgrVars, netVars
<1>1. ASSUME NEW n \in Nets, AddNetwork(n) PROVE TypeOK'
  BY <1>1, ConfigAssumption DEF AddNetwork, TypeOK
<1>2. ASSUME NEW n \in Nets, DisconnectNetwork(n) PROVE TypeOK'
  BY <1>2, StopKeepsType DEF DisconnectNetwork, TypeOK
<1>3. ASSUME NEW n \in Nets, RemoveNetwork(n) PROVE TypeOK'
  <2>1. drv' \in Seq(EventType) /\ link' \in [Nets -> {"off", "idle", "trying", "up"}]
    BY <1>3, StopKeepsType DEF RemoveNetwork, TypeOK
  <2> QED BY <1>3, <2>1 DEF RemoveNetwork, TypeOK
<1>4. CASE BeginAll
  <2>1. PICK done \in SUBSET (networks \ begun), ok \in BOOLEAN :
          /\ begun' = begun \cup done
          /\ link' = [n \in Nets |-> IF n \notin done THEN link[n]
                                    ELSE IF n = "wifi" THEN WifiBegun(ok) ELSE EthBegun]
          /\ refused' = IF "wifi" \in done /\ Sta THEN ~ok ELSE refused
    BY <1>4 DEF BeginAll
  <2>2. WifiBegun(ok) \in {"idle", "trying"} /\ EthBegun = "off"
    BY DEF WifiBegun, EthBegun, EspWifiConnect
  <2>3. link' \in [Nets -> {"off", "idle", "trying", "up"}] /\ begun' \subseteq Nets
    BY <1>4, <2>1, <2>2 DEF BeginAll, TypeOK
  <2>4. refused' \in BOOLEAN
    BY <2>1 DEF TypeOK
  <2> QED BY <1>4, <2>3, <2>4 DEF BeginAll, TypeOK
<1>5. CASE ConnectAll
  <2>1. PICK ok \in BOOLEAN :
          /\ link' = [n \in Nets |-> IF n \notin networks \cap begun THEN link[n]
                                    ELSE IF n = "wifi" THEN WifiConnect(ok) ELSE EthConnect(ok)]
          /\ refused' = IF "wifi" \in networks \cap begun /\ Sta
                        THEN Refusal(link["wifi"], ok) ELSE refused
    BY <1>5 DEF ConnectAll
  <2>2. /\ WifiConnect(ok) \in {"trying", link["wifi"]} /\ EthConnect(ok) \in {"idle", link["eth"]}
        /\ Refusal(link["wifi"], ok) \in BOOLEAN
    BY DEF WifiConnect, EthConnect, EspWifiConnect, Refusal, TypeOK
  <2>3. link' \in [Nets -> {"off", "idle", "trying", "up"}] /\ refused' \in BOOLEAN
    BY <2>1, <2>2 DEF TypeOK
  <2> QED BY <1>5, <2>3 DEF ConnectAll, TypeOK
<1>6. CASE CableIn
  <2>1. drv' \in Seq(EventType)
    BY <1>6, EventSeqs, PostKeepsType DEF CableIn
  <2> QED BY <1>6, <2>1 DEF CableIn, TypeOK
<1>7. ASSUME NEW n \in Nets, AddressObtained(n) \/ LinkLost(n) \/ AddressRenewed(n) PROVE TypeOK'
  <2>1. drv' \in Seq(EventType)
    BY <1>7, EventSeqs, PostKeepsType DEF AddressObtained, LinkLost, AddressRenewed
  <2>2. link' \in [Nets -> {"off", "idle", "trying", "up"}] /\ renewals' \in Nat
    BY <1>7 DEF AddressObtained, LinkLost, AddressRenewed, TypeOK
  <2> QED BY <1>7, <2>1, <2>2 DEF AddressObtained, LinkLost, AddressRenewed, TypeOK
<1>8. CASE WifiGotIp
  <2>1. drv' \in Seq(EventType)
    BY <1>8, TakeKeepsType DEF WifiGotIp
  <2>2. repeats' \in Nat /\ isConnected' \in [Nets -> BOOLEAN]
    BY <1>8 DEF WifiGotIp, TypeOK
  <2> QED BY <1>8, <2>1, <2>2, PostEventType DEF WifiGotIp, TypeOK, Take
<1>9. CASE WifiDown
  BY <1>9, TakeKeepsType, PostEventType DEF WifiDown, TypeOK, Take
<1>10. CASE WifiDownReturns
  BY <1>10, ConfigAssumption DEF WifiDownReturns, TypeOK
<1>11. CASE EthLinkUp
  BY <1>11, TakeKeepsType DEF EthLinkUp, TypeOK, Take
<1>12. CASE EthGotIp
  BY <1>12, TakeKeepsType, PostEventType DEF EthGotIp, TypeOK, Take
<1>13. CASE EthDown
  BY <1>13, TakeKeepsType, PostEventType DEF EthDown, TypeOK, Take
<1>14. CASE PostTo
  BY <1>14, BoundAssumption DEF PostTo, TypeOK
<1>15. CASE Return
  BY <1>15 DEF Return, TypeOK
<1>16. CASE ReconnectWifiSta
  BY <1>16 DEF ReconnectWifiSta, EspWifiConnect, Refusal, TypeOK
<1>17. CASE Deliver
  <2>1. Head(mq) \in StatusType /\ Tail(mq) \in Seq(StatusType) /\ Len(Tail(mq)) <= MgrCap
    BY <1>17, BoundAssumption DEF Deliver, TypeOK
  <2> QED BY <1>17, <2>1 DEF Deliver, TypeOK, StatusType
<1>18. CASE UNCHANGED vars
  BY <1>18 DEF vars, TypeOK
<1>19. CASE AddUnknown
  BY <1>19 DEF AddUnknown, TypeOK
<1> QED
  BY <1>1, <1>2, <1>3, <1>4, <1>5, <1>6, <1>7, <1>8, <1>9, <1>10, <1>11, <1>12, <1>13,
     <1>14, <1>15, <1>16, <1>17, <1>18, <1>19
  DEF Next, App, Driver, DefaultLoop, HandleWifi, HandleEth

LEMMA InitTyped == Init => TypeOK
<1> SUFFICES ASSUME Init PROVE TypeOK
  OBVIOUS
<1>1. <<>> \in Seq(EventType) /\ <<>> \in Seq(StatusType) /\ Len(<<>>) = 0
  OBVIOUS
<1>2. 0 \in 0 .. ByteMod - 1
  BY BoundAssumption
<1>3. /\ drv \in Seq(EventType) /\ posts \in Seq(StatusType) /\ mq \in Seq(StatusType)
      /\ Len(mq) <= MgrCap
  BY <1>1, BoundAssumption DEF Init
<1>4. /\ count \in [Kinds -> 0 .. ByteMod - 1] /\ view \in [Kinds -> BOOLEAN]
      /\ isConnected \in [Nets -> BOOLEAN]
      /\ link \in [Nets -> {"off", "idle", "trying", "up"}]
  BY <1>2 DEF Init
<1> QED BY <1>3, <1>4 DEF Init, TypeOK

\* Every variable keeps to its type and the manager's queue to its size, for
\* every configuration of the two networks.
THEOREM TypeCorrect == Spec => []TypeOK
BY InitTyped, TypeStep, PTL DEF Spec

-----------------------------------------------------------------------------
\* The published status.

\* What PostEvent posts when both kinds change between "none" and "some" ...
LEMMA PostsBoth ==
    ASSUME NEW id, NEW b \in BOOLEAN, (id \in Ups) = b, PostEvent(id),
           \A k \in Kinds : k \in Counted(id) /\ NewCount(id)[k] = (IF b THEN 1 ELSE 0)
    PROVE  posts' = <<[kind |-> "wan", up |-> b]>> \o <<[kind |-> "lan", up |-> b]>>
<1>1. \A k \in Kinds : Published(id, k) = <<[kind |-> k, up |-> b]>>
  BY Zenon DEF Published
<1> QED BY <1>1 DEF PostEvent

\* ... and when a network connects: the first one is published for both kinds.
LEMMA ConnectPosts ==
    ASSUME IInv, handler = "idle", NEW id \in {"STA_CONNECTED", "ETHERNET_CONNECTED"},
           PostEvent(id)
    PROVE  /\ count'["wan"] = (count["wan"] + 1) % ByteMod
           /\ count'["lan"] = count'["wan"]
           /\ count["wan"] + 1 < ByteMod =>
                 /\ count'["wan"] = count["wan"] + 1
                 /\ posts' = IF count["wan"] = 0
                             THEN <<[kind |-> "wan", up |-> TRUE]>>
                                  \o <<[kind |-> "lan", up |-> TRUE]>>
                             ELSE <<>>
<1>1. count["wan"] \in 0 .. ByteMod - 1 /\ count["lan"] = count["wan"]
  BY DEF IInv, TypeOK, CountersAgree
<1>2. /\ count'["wan"] = (count["wan"] + 1) % ByteMod
      /\ count'["lan"] = count'["wan"]
  BY <1>1 DEF PostEvent, NewCount, Counted, Ups
<1>3. ASSUME count["wan"] + 1 < ByteMod
      PROVE  /\ count'["wan"] = count["wan"] + 1
             /\ posts' = IF count["wan"] = 0
                         THEN <<[kind |-> "wan", up |-> TRUE]>> \o <<[kind |-> "lan", up |-> TRUE]>>
                         ELSE <<>>
  <2>1. count'["wan"] = count["wan"] + 1
    BY <1>1, <1>2, <1>3, BoundAssumption
  <2>2. NewCount(id)["wan"] = count["wan"] + 1 /\ NewCount(id)["lan"] = count["wan"] + 1
    BY <1>2, <2>1 DEF PostEvent
  <2>3. CASE count["wan"] = 0
    <3>1. (id \in Ups) = TRUE
      BY DEF Ups
    <3>2. \A k \in Kinds : k \in Counted(id) /\ NewCount(id)[k] = (IF TRUE THEN 1 ELSE 0)
      BY <2>2, <2>3 DEF Counted
    <3> QED BY <2>1, <2>3, <3>1, <3>2, PostsBoth
  <2>4. CASE count["wan"] # 0
    <3>1. Published(id, "wan") = <<>> /\ Published(id, "lan") = <<>>
      BY <1>1, <2>2, <2>4 DEF Published, Ups
    <3> QED BY <2>1, <2>4, <3>1 DEF PostEvent
  <2> QED BY <2>3, <2>4
<1> QED BY <1>2, <1>3

\* A network that disconnects: both counters fall, to zero at the lowest, and
\* zero is published for both kinds.
LEMMA DisconnectPosts ==
    ASSUME IInv, handler = "idle",
           NEW id \in {"STA_DISCONNECTED", "ETHERNET_DISCONNECTED"}, PostEvent(id)
    PROVE  /\ count'["wan"] = IF count["wan"] > 0 THEN count["wan"] - 1 ELSE 0
           /\ count'["lan"] = count'["wan"]
           /\ posts' = IF count["wan"] <= 1
                       THEN <<[kind |-> "wan", up |-> FALSE]>> \o <<[kind |-> "lan", up |-> FALSE]>>
                       ELSE <<>>
<1>1. count["wan"] \in 0 .. ByteMod - 1 /\ count["lan"] = count["wan"]
  BY DEF IInv, TypeOK, CountersAgree
<1>2. /\ count'["wan"] = IF count["wan"] > 0 THEN count["wan"] - 1 ELSE 0
      /\ count'["lan"] = count'["wan"]
  BY <1>1 DEF PostEvent, NewCount, Counted, Ups
<1>3. NewCount(id)["wan"] = count'["wan"] /\ NewCount(id)["lan"] = count'["wan"]
  BY <1>2 DEF PostEvent
<1>4. CASE count["wan"] <= 1
  <2>1. count'["wan"] = 0
    BY <1>1, <1>2, <1>4
  <2>2. (id \in Ups) = FALSE
    BY DEF Ups
  <2>3. \A k \in Kinds : k \in Counted(id) /\ NewCount(id)[k] = (IF FALSE THEN 1 ELSE 0)
    BY <1>3, <2>1 DEF Counted
  <2> QED BY <1>2, <1>4, <2>2, <2>3, PostsBoth
<1>5. CASE ~(count["wan"] <= 1)
  <2>1. count'["wan"] > 0
    BY <1>1, <1>2, <1>5
  <2>2. Published(id, "wan") = <<>> /\ Published(id, "lan") = <<>>
    BY <1>3, <2>1 DEF Published, Ups
  <2> QED BY <1>2, <1>5, <2>2 DEF PostEvent
<1> QED BY <1>4, <1>5

\* Either way the subscribers can tell.
LEMMA ConnectPublished ==
    ASSUME IInv, handler = "idle", NEW id \in {"STA_CONNECTED", "ETHERNET_CONNECTED"},
           PostEvent(id)
    PROVE  /\ count'["wan"] = (count["wan"] + 1) % ByteMod
           /\ count'["lan"] = count'["wan"]
           /\ (repeats + 3 <= ByteMod /\ count["wan"] + 1 < ByteMod) =>
                 \A k \in Kinds : Tells(mq' \o posts', view', k, count'[k] > 0)
<1>1. count["wan"] \in 0 .. ByteMod - 1 /\ count["lan"] = count["wan"]
  BY DEF IInv, TypeOK, CountersAgree
<1>2. posts = <<>> /\ mq \in Seq(StatusType) /\ mq' = mq /\ view' = view
  BY DEF IInv, TypeOK, IdlePostsNothing, PostEvent
<1>3. ASSUME repeats + 3 <= ByteMod, count["wan"] + 1 < ByteMod, NEW k \in Kinds
      PROVE  Tells(mq' \o posts', view', k, count'[k] > 0)
  <2>1. count'["wan"] = count["wan"] + 1 /\ count'[k] > 0
    BY <1>1, <1>3, ConnectPosts
  <2>2. CASE count["wan"] = 0
    <3>1. Tells(mq \o posts', view, k, TRUE)
      BY <1>2, <1>3, <2>2, ConnectPosts, TellsPublished
    <3> QED BY <1>2, <2>1, <3>1
  <2>3. CASE count["wan"] # 0
    <3>1. mq' \o posts' = mq \o posts
      BY <1>2, <1>3, <2>3, ConnectPosts
    <3>2. count[k] > 0 /\ Tells(mq \o posts, view, k, count[k] > 0)
      BY <1>1, <1>3, <2>3 DEF IInv, StatusAnnounced
    <3>3. (count'[k] > 0) = (count[k] > 0)
      BY <2>1, <3>2
    <3> QED BY <1>2, <3>1, <3>2, <3>3
  <2> QED BY <2>2, <2>3
<1> QED BY <1>3, ConnectPosts

LEMMA DisconnectPublished ==
    ASSUME IInv, handler = "idle",
           NEW id \in {"STA_DISCONNECTED", "ETHERNET_DISCONNECTED"}, PostEvent(id)
    PROVE  /\ count'["wan"] = IF count["wan"] > 0 THEN count["wan"] - 1 ELSE 0
           /\ count'["lan"] = count'["wan"]
           /\ repeats + 3 <= ByteMod =>
                 \A k \in Kinds : Tells(mq' \o posts', view', k, count'[k] > 0)
<1>1. count["wan"] \in 0 .. ByteMod - 1 /\ count["lan"] = count["wan"]
  BY DEF IInv, TypeOK, CountersAgree
<1>2. posts = <<>> /\ mq \in Seq(StatusType) /\ mq' = mq /\ view' = view
  BY DEF IInv, TypeOK, IdlePostsNothing, PostEvent
<1>3. ASSUME repeats + 3 <= ByteMod, NEW k \in Kinds
      PROVE  Tells(mq' \o posts', view', k, count'[k] > 0)
  <2>1. count'[k] = count'["wan"] /\ count[k] = count["wan"]
    BY <1>1, DisconnectPosts
  <2>2. CASE count["wan"] <= 1
    <3>1. Tells(mq \o posts', view, k, FALSE)
      BY <1>2, <2>2, DisconnectPosts, TellsPublished
    <3>2. (count'[k] > 0) = FALSE
      BY <1>1, <2>1, <2>2, DisconnectPosts
    <3> QED BY <1>2, <3>1, <3>2
  <2>3. CASE ~(count["wan"] <= 1)
    <3>1. mq' \o posts' = mq \o posts
      BY <1>2, <2>3, DisconnectPosts
    <3>2. Tells(mq \o posts, view, k, count[k] > 0)
      BY <1>3 DEF IInv, StatusAnnounced
    <3>3. (count'[k] > 0) = (count[k] > 0)
      BY <1>1, <2>1, <2>3, DisconnectPosts
    <3> QED BY <1>2, <3>1, <3>2, <3>3
  <2> QED BY <2>2, <2>3
<1> QED BY <1>3, DisconnectPosts

\* A step that leaves the manager, the connections and the handler alone.
LEMMA OtherStep ==
    ASSUME IInv, TypeOK',
           UNCHANGED <<count, view, isConnected, handler, repeats>>,
           mq' \o posts' = mq \o posts, posts = <<>> => posts' = <<>>
    PROVE  IInv'
<1>1. CountersAgree' /\ IdlePostsNothing' /\ CountBounded'
  BY DEF IInv, CountersAgree, IdlePostsNothing, CountBounded, Connections
<1>2. StatusAnnounced'
  BY DEF IInv, StatusAnnounced
<1> QED BY <1>1, <1>2 DEF IInv

LEMMA InvStep == IInv /\ [Next]_vars => IInv'
<1> SUFFICES ASSUME IInv, [Next]_vars PROVE IInv'
  OBVIOUS
<1>t. TypeOK /\ TypeOK'
  BY TypeStep DEF IInv
<1>c. /\ count["wan"] \in 0 .. ByteMod - 1 /\ repeats \in Nat /\ ByteMod \in Nat
      /\ isConnected \in [Nets -> BOOLEAN]
  BY <1>t, BoundAssumption DEF TypeOK
<1> USE DEF appVars, driverVars, mgrVars, netVars
<1>1. ASSUME App \/ Driver \/ ReconnectWifiSta \/ EthLinkUp \/ UNCHANGED vars PROVE IInv'
  <2>1. UNCHANGED <<count, view, mq, posts, isConnected, handler, repeats>>
    BY <1>1 DEF App, AddNetwork, AddUnknown, DisconnectNetwork, RemoveNetwork, BeginAll, ConnectAll,
         Driver, CableIn, AddressObtained, LinkLost, AddressRenewed, ReconnectWifiSta,
         EthLinkUp, vars
  <2> QED BY <2>1, <1>t, OtherStep
<1>2. CASE WifiGotIp
  <2>1. /\ handler = "idle" /\ PostEvent("STA_CONNECTED") /\ handler' = "return"
        /\ isConnected' = [isConnected EXCEPT !["wifi"] = TRUE]
        /\ repeats' = IF isConnected["wifi"] THEN repeats + 1 ELSE repeats
    BY <1>2 DEF WifiGotIp, Take
  <2>2. repeats' + 3 <= ByteMod =>
           /\ repeats + 3 <= ByteMod /\ count["wan"] + 1 < ByteMod
           /\ count["wan"] + 1 <= (Connections("wifi") + Connections("eth") + repeats)'
    BY <1>c, <2>1 DEF IInv, CountBounded, Connections
  <2>3. /\ count'["wan"] = (count["wan"] + 1) % ByteMod /\ count'["lan"] = count'["wan"]
        /\ repeats' + 3 <= ByteMod =>
              \A k \in Kinds : Tells(mq' \o posts', view', k, count'[k] > 0)
    BY <2>1, <2>2, ConnectPublished
  <2>4. CountBounded'
    BY <1>c, <2>2, <2>3 DEF CountBounded
  <2> QED BY <1>t, <2>1, <2>3, <2>4 DEF IInv, CountersAgree, IdlePostsNothing, StatusAnnounced
<1>3. CASE EthGotIp
  <2>1. /\ handler = "idle" /\ PostEvent("ETHERNET_CONNECTED") /\ handler' = "return"
        /\ isConnected' = [isConnected EXCEPT !["eth"] = TRUE]
        /\ repeats' = IF isConnected["eth"] THEN repeats + 1 ELSE repeats
    BY <1>3 DEF EthGotIp, Take
  <2>2. repeats' + 3 <= ByteMod =>
           /\ repeats + 3 <= ByteMod /\ count["wan"] + 1 < ByteMod
           /\ count["wan"] + 1 <= (Connections("wifi") + Connections("eth") + repeats)'
    BY <1>c, <2>1 DEF IInv, CountBounded, Connections
  <2>3. /\ count'["wan"] = (count["wan"] + 1) % ByteMod /\ count'["lan"] = count'["wan"]
        /\ repeats' + 3 <= ByteMod =>
              \A k \in Kinds : Tells(mq' \o posts', view', k, count'[k] > 0)
    BY <2>1, <2>2, ConnectPublished
  <2>4. CountBounded'
    BY <1>c, <2>2, <2>3 DEF CountBounded
  <2> QED BY <1>t, <2>1, <2>3, <2>4 DEF IInv, CountersAgree, IdlePostsNothing, StatusAnnounced
<1>4. CASE WifiDown
  <2>1. handler = "idle" /\ handler' = "staDown" /\ UNCHANGED <<isConnected, repeats>>
    BY <1>4 DEF WifiDown, Take
  <2>2. CASE isConnected["wifi"]
    <3>1. PostEvent("STA_DISCONNECTED")
      BY <1>4, <2>2 DEF WifiDown
    <3>2. /\ count'["wan"] = (IF count["wan"] > 0 THEN count["wan"] - 1 ELSE 0)
          /\ count'["lan"] = count'["wan"]
          /\ repeats + 3 <= ByteMod =>
                \A k \in Kinds : Tells(mq' \o posts', view', k, count'[k] > 0)
      BY <2>1, <3>1, DisconnectPublished
    <3>3. CountBounded'
      BY <1>c, <2>1, <2>2, <3>2 DEF IInv, CountBounded, Connections
    <3> QED BY <1>t, <2>1, <3>2, <3>3 DEF IInv, CountersAgree, IdlePostsNothing, StatusAnnounced
  <2>3. CASE ~isConnected["wifi"]
    <3>1. UNCHANGED <<count, mq, posts, view>>
      BY <1>4, <2>3 DEF WifiDown
    <3>2. CountBounded'
      BY <1>c, <2>1, <2>3, <3>1 DEF IInv, CountBounded, Connections
    <3> QED BY <1>t, <2>1, <3>1, <3>2 DEF IInv, CountersAgree, IdlePostsNothing, StatusAnnounced
  <2> QED BY <2>2, <2>3
<1>5. CASE WifiDownReturns
  <2>1. /\ handler = "staDown" /\ handler' = "idle" /\ posts = <<>>
        /\ UNCHANGED <<count, mq, posts, view, repeats>>
        /\ isConnected' = [isConnected EXCEPT !["wifi"] = FALSE]
    BY <1>5 DEF WifiDownReturns
  <2>2. CountBounded'
    BY <1>c, <2>1 DEF IInv, CountBounded, Connections
  <2> QED BY <1>t, <2>1, <2>2 DEF IInv, CountersAgree, IdlePostsNothing, StatusAnnounced
<1>6. CASE EthDown
  <2>1. /\ handler = "idle" /\ PostEvent("ETHERNET_DISCONNECTED") /\ handler' = "return"
        /\ isConnected' = [isConnected EXCEPT !["eth"] = FALSE] /\ repeats' = repeats
    BY <1>6 DEF EthDown, Take
  <2>2. /\ count'["wan"] = (IF count["wan"] > 0 THEN count["wan"] - 1 ELSE 0)
        /\ count'["lan"] = count'["wan"]
        /\ repeats + 3 <= ByteMod =>
              \A k \in Kinds : Tells(mq' \o posts', view', k, count'[k] > 0)
    BY <2>1, DisconnectPublished
  <2>3. CountBounded'
    BY <1>c, <2>1, <2>2 DEF IInv, CountBounded, Connections
  <2> QED BY <1>t, <2>1, <2>2, <2>3 DEF IInv, CountersAgree, IdlePostsNothing, StatusAnnounced
<1>7. CASE PostTo
  <2>1. /\ posts # <<>> /\ mq' = Append(mq, Head(posts)) /\ posts' = Tail(posts)
        /\ UNCHANGED <<count, view, isConnected, handler, repeats>>
    BY <1>7 DEF PostTo
  <2>2. mq' \o posts' = mq \o posts
    BY <1>t, <2>1, PostToKeepsOrder DEF TypeOK
  <2> QED BY <1>t, <2>1, <2>2, OtherStep
<1>8. CASE Return
  <2>1. /\ handler = "return" /\ handler' = "idle" /\ posts = <<>>
        /\ UNCHANGED <<count, mq, posts, view, repeats, isConnected>>
    BY <1>8 DEF Return
  <2>2. CountBounded'
    BY <2>1 DEF IInv, CountBounded, Connections
  <2> QED BY <1>t, <2>1, <2>2 DEF IInv, CountersAgree, IdlePostsNothing, StatusAnnounced
<1>9. CASE Deliver
  <2>1. /\ mq # <<>> /\ mq' = Tail(mq)
        /\ view' = [view EXCEPT ![Head(mq).kind] = Head(mq).up]
        /\ UNCHANGED <<count, posts, isConnected, handler, repeats>>
    BY <1>9 DEF Deliver
  <2>2. /\ mq' \o posts' = Tail(mq \o posts) /\ Head(mq \o posts) = Head(mq)
        /\ mq \o posts # <<>> /\ mq \o posts \in Seq(StatusType)
    BY <1>t, <2>1, DeliverKeepsRest DEF TypeOK
  <2>3. ASSUME repeats + 3 <= ByteMod, NEW k \in Kinds
        PROVE  Tells(mq' \o posts', view', k, count[k] > 0)
    <3>1. Tells(mq \o posts, view, k, count[k] > 0)
      BY <2>3 DEF IInv, StatusAnnounced
    <3>2. view \in [Kinds -> BOOLEAN] /\ (count[k] > 0) \in BOOLEAN
      BY <1>t DEF TypeOK
    <3>3. Tells(Tail(mq \o posts), [view EXCEPT ![Head(mq \o posts).kind] = Head(mq \o posts).up],
                k, count[k] > 0)
      BY <2>2, <3>1, <3>2, TellsDelivered, Zenon
    <3> QED BY <2>1, <2>2, <3>3
  <2>4. StatusAnnounced'
    BY <2>1, <2>3 DEF StatusAnnounced
  <2>5. CountersAgree' /\ IdlePostsNothing' /\ CountBounded'
    BY <2>1 DEF IInv, CountersAgree, IdlePostsNothing, CountBounded, Connections
  <2> QED BY <1>t, <2>4, <2>5 DEF IInv
<1> QED
  BY <1>1, <1>2, <1>3, <1>4, <1>5, <1>6, <1>7, <1>8, <1>9
  DEF Next, DefaultLoop, HandleWifi, HandleEth

LEMMA InvInit == Init => IInv
<1> SUFFICES ASSUME Init PROVE IInv
  OBVIOUS
<1>1. TypeOK
  BY InitTyped
<1>2. CountersAgree /\ IdlePostsNothing /\ CountBounded
  BY BoundAssumption DEF Init, CountersAgree, IdlePostsNothing, CountBounded, Connections
<1>3. StatusAnnounced
  <2>1. mq \o posts = <<>>
    BY DEF Init
  <2>2. \A k \in Kinds : view[k] = FALSE /\ (count[k] > 0) = FALSE
    BY DEF Init
  <2>3. \A k \in Kinds : Tells(<<>>, view, k, FALSE)
    BY <2>2 DEF Tells
  <2> QED BY <2>1, <2>2, <2>3, Zenon DEF StatusAnnounced
<1> QED BY <1>1, <1>2, <1>3 DEF IInv

\* Whatever the two networks, the drivers and the application do, and however
\* the posts block, a subscriber that has received its events knows what
\* IsWanConnected() and IsLanConnected() answer, as long as the byte that
\* counts has not had ByteMod - 2 repeated GOT_IPs to wrap.
THEOREM StatusIsAnnounced == Spec => []StatusAnnounced
<1>1. IInv => StatusAnnounced
  BY DEF IInv
<1> QED BY <1>1, InvInit, InvStep, PTL DEF Spec

-----------------------------------------------------------------------------
\* The refinement of NetworkStatus: the manager's queue, followed by what the
\* running handler has still to post, is the queue of announcements.

LEMMA NewsConcat ==
    ASSUME NEW b \in BOOLEAN
    PROVE  <<[kind |-> "wan", up |-> b]>> \o <<[kind |-> "lan", up |-> b]>> = Status!News(b)
<1> DEFINE w == [kind |-> "wan", up |-> b]
           l == [kind |-> "lan", up |-> b]
<1>1. w \in StatusType /\ l \in StatusType
  BY DEF StatusType
<1>2. <<w>> \in Seq(StatusType) /\ <<l>> \in Seq(StatusType) /\ <<w, l>> \in Seq(StatusType)
  BY <1>1
<1> HIDE DEF w, l
<1>3. /\ <<w>> \o <<l>> \in Seq(StatusType) /\ Len(<<w>> \o <<l>>) = Len(<<w, l>>)
      /\ \A i \in 1 .. Len(<<w, l>>) : (<<w>> \o <<l>>)[i] = <<w, l>>[i]
  BY <1>2
<1>4. <<w>> \o <<l>> = <<w, l>>
  BY <1>2, <1>3, SeqEqual
<1> QED BY <1>4 DEF Status!News, w, l

LEMMA ConnectRefines ==
    ASSUME IInv, handler = "idle", NEW id \in {"STA_CONNECTED", "ETHERNET_CONNECTED"},
           PostEvent(id), count["wan"] + 1 < ByteMod
    PROVE  Status!Next \/ UNCHANGED Status!netVars
<1>1. /\ posts = <<>> /\ mq \in Seq(StatusType) /\ mq' = mq
      /\ count["wan"] \in 0 .. ByteMod - 1
  BY DEF IInv, TypeOK, IdlePostsNothing, PostEvent
<1>2. CASE count["wan"] = 0
  <2>1. mq' \o posts' = (mq \o posts) \o Status!News(TRUE)
    <3>1. posts' = Status!News(TRUE)
      BY <1>2, ConnectPosts, NewsConcat
    <3>2. mq \o posts = mq
      BY <1>1
    <3> QED BY <1>1, <3>1, <3>2
  <2>2. ~IsWanConnected /\ IsWanConnected' = TRUE
    BY <1>1, <1>2, ConnectPosts DEF IsWanConnected
  <2> QED BY <2>1, <2>2 DEF Status!Next, Status!GoUp
<1>3. CASE count["wan"] # 0
  <2>1. mq' \o posts' = mq \o posts
    BY <1>1, <1>3, ConnectPosts
  <2>2. count'["wan"] > 0 /\ count["wan"] > 0
    BY <1>1, <1>3, ConnectPosts
  <2>3. IsWanConnected' = IsWanConnected
    BY <2>2 DEF IsWanConnected
  <2> QED BY <2>1, <2>3 DEF Status!netVars
<1> QED BY <1>2, <1>3

LEMMA DisconnectRefines ==
    ASSUME IInv, handler = "idle",
           NEW id \in {"STA_DISCONNECTED", "ETHERNET_DISCONNECTED"}, PostEvent(id)
    PROVE  Status!Next \/ UNCHANGED Status!netVars
<1>1. /\ posts = <<>> /\ mq \in Seq(StatusType) /\ mq' = mq
      /\ count["wan"] \in 0 .. ByteMod - 1
  BY DEF IInv, TypeOK, IdlePostsNothing, PostEvent
<1>2. CASE count["wan"] <= 1
  <2>1. mq' \o posts' = (mq \o posts) \o Status!News(FALSE)
    <3>1. posts' = Status!News(FALSE)
      BY <1>2, DisconnectPosts, NewsConcat
    <3>2. mq \o posts = mq
      BY <1>1
    <3> QED BY <1>1, <3>1, <3>2
  <2>2. IsWanConnected' = FALSE
    BY <1>1, <1>2, DisconnectPosts DEF IsWanConnected
  <2> QED BY <2>1, <2>2 DEF Status!Next, Status!GoDown
<1>3. CASE ~(count["wan"] <= 1)
  <2>1. mq' \o posts' = mq \o posts
    BY <1>1, <1>3, DisconnectPosts
  <2>2. count'["wan"] > 0 /\ count["wan"] > 0
    BY <1>1, <1>3, DisconnectPosts
  <2>3. IsWanConnected' = IsWanConnected
    BY <2>2 DEF IsWanConnected
  <2> QED BY <2>1, <2>3 DEF Status!netVars
<1> QED BY <1>2, <1>3

LEMMA StepRefines ==
    ASSUME IInv, [Next]_vars, repeats' + 3 <= ByteMod
    PROVE  Status!Next \/ UNCHANGED Status!netVars
<1>t. /\ mq \in Seq(StatusType) /\ posts \in Seq(StatusType)
      /\ count["wan"] \in 0 .. ByteMod - 1 /\ repeats \in Nat
      /\ isConnected \in [Nets -> BOOLEAN] /\ ByteMod \in Nat
  BY BoundAssumption DEF IInv, TypeOK
<1> USE DEF appVars, driverVars, mgrVars, netVars
<1>1. ASSUME \/ App \/ Driver \/ ReconnectWifiSta \/ EthLinkUp \/ WifiDownReturns \/ Return
             \/ UNCHANGED vars
      PROVE  UNCHANGED Status!netVars
  <2>1. UNCHANGED <<count, mq, posts>>
    BY <1>1 DEF App, AddNetwork, AddUnknown, DisconnectNetwork, RemoveNetwork, BeginAll, ConnectAll,
         Driver, CableIn, AddressObtained, LinkLost, AddressRenewed, ReconnectWifiSta,
         EthLinkUp, WifiDownReturns, Return, vars
  <2> QED BY <2>1 DEF Status!netVars, IsWanConnected
<1>2. ASSUME WifiGotIp \/ EthGotIp PROVE Status!Next \/ UNCHANGED Status!netVars
  <2>1. PICK id \in {"STA_CONNECTED", "ETHERNET_CONNECTED"} : PostEvent(id)
    BY <1>2 DEF WifiGotIp, EthGotIp
  <2>2. handler = "idle"
    BY <1>2 DEF WifiGotIp, EthGotIp, Take
  <2>3. count["wan"] + 1 < ByteMod
    BY <1>2, <1>t, <2>2 DEF IInv, CountBounded, Connections, WifiGotIp, EthGotIp
  <2> QED BY <2>1, <2>2, <2>3, ConnectRefines
<1>3. ASSUME WifiDown \/ EthDown PROVE Status!Next \/ UNCHANGED Status!netVars
  <2>1. handler = "idle"
    BY <1>3 DEF WifiDown, EthDown, Take
  <2>2. CASE UNCHANGED mgrVars
    BY <2>2 DEF Status!netVars, IsWanConnected
  <2>3. ASSUME NEW id \in {"STA_DISCONNECTED", "ETHERNET_DISCONNECTED"}, PostEvent(id)
        PROVE  Status!Next \/ UNCHANGED Status!netVars
    BY <2>1, <2>3, DisconnectRefines
  <2> QED BY <1>3, <2>2, <2>3 DEF WifiDown, EthDown
<1>4. CASE PostTo
  <2>1. mq' \o posts' = mq \o posts /\ count' = count
    BY <1>4, <1>t, PostToKeepsOrder DEF PostTo
  <2> QED BY <2>1 DEF Status!netVars, IsWanConnected
<1>5. CASE Deliver
  <2>1. /\ mq' \o posts' = Tail(mq \o posts) /\ mq \o posts # <<>> /\ count' = count
    BY <1>5, <1>t, DeliverKeepsRest DEF Deliver
  <2> QED BY <2>1 DEF Status!Next, Status!Deliver, IsWanConnected
<1> QED
  BY <1>1, <1>2, <1>3, <1>4, <1>5 DEF Next, DefaultLoop, HandleWifi, HandleEth

\* SigmaNetworkMgr implements NetworkStatus: every step of the two networks is a
\* change of the one status with both its announcements, a delivery, or nothing
\* a subscriber can see.
THEOREM StatusImplemented == Spec => ImplementsStatus
<1>1. Init => Status!Init
  <2> SUFFICES ASSUME Init PROVE Status!Init
    OBVIOUS
  <2>1. mq \o posts = <<>> /\ (count["wan"] > 0) = FALSE
    BY DEF Init
  <2>2. IsWanConnected = FALSE
    BY <2>1, Zenon DEF IsWanConnected
  <2> QED BY <2>1, <2>2 DEF Status!Init
<1>2. IInv /\ [Next]_vars => [repeats' + 3 <= ByteMod => [Status!Next]_(Status!netVars)]_vars
  BY StepRefines
<1> QED BY <1>1, <1>2, InvInit, InvStep, PTL DEF Spec, ImplementsStatus
=============================================================================
