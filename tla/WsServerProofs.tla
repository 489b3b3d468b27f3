--------------------------- MODULE WsServerProofs ---------------------------
(***************************************************************************)
(* Type correctness of WsServer and its safety properties, for every set   *)
(* of scenes, sockets, clients and every number of sessions and retries.   *)
(***************************************************************************)
EXTENDS WsServer, TLAPS, SequenceTheorems, FiniteSetTheorems, WellFoundedInduction

-----------------------------------------------------------------------------
\* The sessions and the request: what the httpd task and the worker do to them.

Ops == {"none", "get", "login", "url", "key", "named", "frame", "text", "binary",
        "member", "command", "first", "log", "stranger", "stuck"}
Requests == [op : Ops, fd : Fds \cup {0}, frame : Frames \cup {"none"}]

HttpdOK ==
    /\ scene \in Scenes /\ running \in BOOLEAN
    /\ sess \in [Fds -> Sessions \cup {0}]
    /\ peer \in Seq(Peers) /\ Len(peer) <= MaxSessions
    /\ hello \subseteq Sessions
    /\ req \in Requests
    /\ restarts \in 0 .. scene.maxRestarts
    /\ SessionsApart
    /\ req.op = "none" => Idle
    /\ ~Idle => req.fd \in Fds /\ sess[req.fd] \in hello

\* A step of the worker leaves the sessions alone and takes its request a place
\* further, or ends it.
LEMMA WorkerShape ==
    ASSUME Worker
    PROVE  /\ UNCHANGED <<scene, running, sess, peer, hello, doomed, restarts>>
           /\ req.op # "none"
           /\ req' = NoReq \/ \E op \in Ops \ {"none"} : req' = [req EXCEPT !.op = op]
<1> USE DEF httpdVars, Done, Ops
<1>1. CASE RegisterClient
  BY <1>1 DEF RegisterClient
<1>2. CASE CheckLimit \/ RemoveFormer
  BY <1>2 DEF CheckLimit, RemoveFormer
<1>3. CASE CheckKey \/ MarkAuthenticated
  BY <1>3 DEF CheckKey, MarkAuthenticated
<1>4. CASE ReceiveFrame \/ SortFrame
  BY <1>4 DEF ReceiveFrame, SortFrame
<1>5. CASE MemberFrame \/ Command
  BY <1>5 DEF MemberFrame, Command
<1>6. CASE FirstMessage \/ LogClient \/ StrangerFrame
  BY <1>6 DEF FirstMessage, LogClient, StrangerFrame
<1> QED BY <1>1, <1>2, <1>3, <1>4, <1>5, <1>6 DEF Worker, Login

LEMMA HttpdInit == Init => HttpdOK
BY ServerAssumption
DEF Init, HttpdOK, SessionsApart, Sessions, Peers, NoReq, Idle, Requests, Ops, Frames

LEMMA HttpdStep == HttpdOK /\ [Next]_vars => HttpdOK'
<1> SUFFICES ASSUME HttpdOK, [Next]_vars PROVE HttpdOK'
  OBVIOUS
<1> USE ServerAssumption DEF HttpdOK, SessionsApart, Sessions, Peers, Idle, httpdVars
<1>1. CASE Worker
  <2>1. /\ UNCHANGED <<scene, running, sess, peer, hello, restarts>>
        /\ req.op # "none"
        /\ req' = NoReq \/ \E op \in Ops \ {"none"} : req' = [req EXCEPT !.op = op]
    BY <1>1, WorkerShape
  <2>2. req' = NoReq \/ (req' \in Requests /\ req'.op # "none" /\ req'.fd = req.fd)
    BY <2>1 DEF Requests, Ops
  <2>3. NoReq \in Requests /\ NoReq.op = "none"
    BY DEF NoReq, Requests, Ops
  <2> QED BY <2>1, <2>2, <2>3
<1>2. CASE Timer \/ Connect \/ \E id \in scene.ids : SendMessage(id)
  BY <1>2 DEF Timer, SendPing, RemoveDoomed, Connect, SendMessage
<1>3. ASSUME NEW fd \in Fds, NEW p \in Peers, Accept(fd, p) PROVE HttpdOK'
  <2>1. /\ UNCHANGED <<scene, running, hello, req, restarts>> /\ Idle /\ running
        /\ peer' = Append(peer, p) /\ Len(peer) < MaxSessions
        /\ sess' = [sess EXCEPT ![fd] = Len(peer) + 1]
    BY <1>3 DEF Accept
  <2>2. peer' \in Seq(Peers) /\ Len(peer') = Len(peer) + 1 /\ Len(peer) \in Nat
    BY <2>1, AppendProperties
  <2>3. sess' \in [Fds -> Sessions \cup {0}]
    BY <2>1, <2>2
  <2>4. SessionsApart'
    BY <2>1, <2>2, <2>3
  <2> QED BY <2>1, <2>2, <2>3, <2>4
<1>4. ASSUME NEW fd \in Fds, Handshake(fd) PROVE HttpdOK'
  <2>1. req' = [op |-> "get", fd |-> fd, frame |-> "none"]
    BY <1>4 DEF Handshake, NoReq
  <2>2. req' \in Requests /\ req'.op # "none" /\ req'.fd = fd
    BY <2>1 DEF Requests, Ops
  <2> QED BY <1>4, <2>2 DEF Handshake, NoReq
<1>5. ASSUME NEW fd \in Fds, NEW f \in Frames, DataFrame(fd, f) PROVE HttpdOK'
  BY <1>5 DEF DataFrame, NoReq, Requests, Ops
<1>6. ASSUME NEW fd \in Fds, PeerLeaves(fd) PROVE HttpdOK'
  <2>1. /\ UNCHANGED <<scene, running, peer, hello, req, restarts>> /\ Idle
        /\ sess' \in [Fds -> Sessions \cup {0}]
        /\ \A f \in Fds : sess'[f] \in {sess[f], 0}
    BY <1>6 DEF PeerLeaves
  <2>2. SessionsApart' /\ peer' \in Seq(Peers)
    BY <2>1
  <2> QED BY <2>1, <2>2
<1>7. CASE RunWork
  <2>1. /\ UNCHANGED <<scene, running, peer, hello, req, restarts>> /\ Idle
        /\ sess' \in [Fds -> Sessions \cup {0}]
        /\ \A fd \in Fds : sess'[fd] \in {sess[fd], 0}
    BY <1>7 DEF RunWork
  <2>2. SessionsApart' /\ peer' \in Seq(Peers)
    BY <2>1
  <2> QED BY <2>1, <2>2
<1>8. CASE Disconnect
  <2>1. /\ UNCHANGED <<scene, peer, hello, req>> /\ Idle
        /\ sess' = [fd \in Fds |-> 0] /\ restarts' \in 0 .. scene.maxRestarts
    BY <1>8 DEF Disconnect
  <2>2. running' \in BOOLEAN
    BY <1>8 DEF Disconnect
  <2> QED BY <2>1, <2>2
<1>9. CASE UNCHANGED vars
  BY <1>9 DEF vars
<1> QED
  BY <1>1, <1>2, <1>3, <1>4, <1>5, <1>6, <1>7, <1>8, <1>9 DEF Next, Httpd

-----------------------------------------------------------------------------
\* The operators on the registry.

Registry(c) == DOMAIN c \subseteq Fds /\ \A fd \in DOMAIN c : c[fd] \in ClientAuth
Closings == {w \in Work : w.op = "close"}

\* The order of a set of sockets is a sequence of its members.
LEMMA OrderedSockets ==
    ASSUME NEW S \in SUBSET Fds, NEW order \in InMapOrder(S)
    PROVE  order \in Seq(S) /\ DOMAIN order = 1 .. Len(order)
<1>1. Cardinality(S) \in Nat
  BY ServerAssumption, FS_Subset, FS_CardinalityType
<1>2. order \in [1 .. Cardinality(S) -> S]
  BY DEF InMapOrder
<1> QED BY <1>1, <1>2

\* What a removal leaves is what was there before, less some of the sockets named,
\* or all of them where httpd runs and takes all work; and closings are queued.
LEMMA Removal ==
    ASSUME NEW c, NEW fds, DOMAIN c \subseteq Fds, RemoveClients(c, fds)
    PROVE  /\ DOMAIN clients' \subseteq DOMAIN c /\ DOMAIN c \ fds \subseteq DOMAIN clients'
           /\ \A fd \in DOMAIN clients' : clients'[fd] = c[fd]
           /\ ~scene.workFails /\ running => DOMAIN clients' = DOMAIN c \ fds
           /\ \E closings \in Seq(Closings) : work' = work \o closings
<1>1. PICK failed \in SUBSET (fds \cap DOMAIN c) :
        /\ failed # {} => scene.workFails \/ ~running
        /\ running \/ failed = fds \cap DOMAIN c
        /\ LET gone == (fds \cap DOMAIN c) \ failed IN
           /\ clients' = Erase(c, gone)
           /\ \E order \in InMapOrder(gone) :
                 work' = work \o [i \in DOMAIN order |->
                                     [op |-> "close", fd |-> order[i], to |-> NoId]]
  BY DEF RemoveClients
<1> DEFINE gone == (fds \cap DOMAIN c) \ failed
<1>2. clients' = Erase(c, gone)
  BY <1>1
<1>3. DOMAIN clients' = DOMAIN c \ gone /\ \A fd \in DOMAIN clients' : clients'[fd] = c[fd]
  BY <1>2 DEF Erase
<1>4. ~scene.workFails /\ running => failed = {}
  BY <1>1
<1>5. PICK order \in InMapOrder(gone) :
        work' = work \o [i \in DOMAIN order |-> [op |-> "close", fd |-> order[i], to |-> NoId]]
  BY <1>1
<1>6. order \in Seq(gone) /\ DOMAIN order = 1 .. Len(order)
  BY OrderedSockets
<1>7. \A i \in DOMAIN order : [op |-> "close", fd |-> order[i], to |-> NoId] \in Closings
  BY <1>6 DEF Closings, Work
<1>8. [i \in DOMAIN order |-> [op |-> "close", fd |-> order[i], to |-> NoId]] \in Seq(Closings)
  BY <1>6, <1>7
<1> QED BY <1>3, <1>4, <1>5, <1>8

\* Where httpd runs and takes all work, all that is to go goes.
LEMMA RemovalDone ==
    ASSUME NEW c, NEW fds, DOMAIN c \subseteq Fds, running, ~scene.workFails,
           RemoveClients(c, fds)
    PROVE  /\ DOMAIN clients' = DOMAIN c \ fds
           /\ \A fd \in DOMAIN clients' : clients'[fd] = c[fd]
BY Removal

\* Whatever happens, nothing else goes.
LEMMA RemovalSpares ==
    ASSUME NEW c, NEW fds, DOMAIN c \subseteq Fds, RemoveClients(c, fds)
    PROVE  DOMAIN c \ fds \subseteq DOMAIN clients'
BY Removal

LEMMA RegistryPut ==
    ASSUME NEW c, Registry(c), NEW fd \in Fds, NEW entry \in ClientAuth
    PROVE  Registry(Put(c, fd, entry))
BY DEF Registry, Put

LEMMA BlankEntries ==
    /\ Blank \in ClientAuth
    /\ \A fd \in Fds : FreshEntry(fd) \in ClientAuth
    /\ \A c : Registry(c) => \A fd : At(c, fd) \in ClientAuth
<1>1. Blank \in ClientAuth
  BY DEF Blank, ClientAuth
<1>2. ASSUME NEW fd \in Fds PROVE FreshEntry(fd) \in ClientAuth
  <2>1. PingRetryCount \in Int /\ fd \in Fds \cup {0}
    BY ServerAssumption
  <2>2. [Blank EXCEPT !.socketNumber = fd] \in ClientAuth
    BY <1>1, <2>1 DEF ClientAuth
  <2>3. \A e \in ClientAuth : [e EXCEPT !.pingRetryCount = PingRetryCount] \in ClientAuth
    BY <2>1 DEF ClientAuth
  <2>4. FreshEntry(fd)
          = [[Blank EXCEPT !.socketNumber = fd] EXCEPT !.pingRetryCount = PingRetryCount]
    BY DEF FreshEntry
  <2> QED BY <2>2, <2>3, <2>4
<1>3. ASSUME NEW c, Registry(c), NEW fd PROVE At(c, fd) \in ClientAuth
  BY <1>1, <1>3 DEF At, Registry
<1> QED BY <1>1, <1>2, <1>3

-----------------------------------------------------------------------------
\* What the worker does to the registry.

LEMMA PeerKnown ==
    ASSUME HttpdOK, req.op # "none"
    PROVE  /\ req.fd \in Fds /\ sess[req.fd] \in 1 .. Len(peer)
           /\ peer[sess[req.fd]] \in Peers /\ peer[sess[req.fd]].id \in scene.ids
           /\ peer[sess[req.fd]].ping \in {"PING_NO", "PING_TEXT", "PING_BINARY"}
<1>1. req.fd \in Fds /\ sess[req.fd] \in hello
  BY DEF HttpdOK, Idle, NoReq
<1>2. sess[req.fd] \in 1 .. Len(peer)
  BY <1>1 DEF HttpdOK, SessionsApart
<1>3. peer[sess[req.fd]] \in Peers
  BY <1>2 DEF HttpdOK
<1> QED BY <1>1, <1>2, <1>3, ServerAssumption DEF Peers, HttpdOK

\* What is written to an entry: a count, the ping type asked for, whose it is.
Counted(e, n)   == [e EXCEPT !.pingRetryCount = n]
Asked(e, ping)  == [e EXCEPT !.pingType = ping]
Titled(e, id)   == [e EXCEPT !.clientId = id]
Marked(e)       == [e EXCEPT !.isAuth = TRUE]
LoggedIn(e, id) == [e EXCEPT !.clientId = id, !.isAuth = TRUE]
SameClient(e, f) ==
    e.clientId = f.clientId /\ e.isAuth = f.isAuth /\ e.socketNumber = f.socketNumber

LEMMA CountedEntry ==
    ASSUME NEW e \in ClientAuth, NEW n \in Int
    PROVE  /\ Counted(e, n) \in ClientAuth /\ SameClient(Counted(e, n), e)
           /\ Counted(e, n).pingRetryCount = n
BY DEF ClientAuth, Counted, SameClient

LEMMA AskedEntry ==
    ASSUME NEW e \in ClientAuth, NEW ping \in {"PING_NO", "PING_TEXT", "PING_BINARY"}
    PROVE  Asked(e, ping) \in ClientAuth /\ SameClient(Asked(e, ping), e)
BY DEF ClientAuth, Asked, SameClient

LEMMA TitledEntry ==
    ASSUME NEW e \in ClientAuth, NEW id \in scene.ids
    PROVE  /\ Titled(e, id) \in ClientAuth /\ Titled(e, id).clientId = id
           /\ Titled(e, id).isAuth = e.isAuth /\ Titled(e, id).socketNumber = e.socketNumber
BY DEF ClientAuth, Titled

LEMMA MarkedEntry ==
    ASSUME NEW e \in ClientAuth
    PROVE  /\ Marked(e) \in ClientAuth /\ Marked(e).clientId = e.clientId
           /\ Marked(e).isAuth /\ Marked(e).socketNumber = e.socketNumber
BY DEF ClientAuth, Marked

LEMMA LoggedEntry ==
    ASSUME NEW e \in ClientAuth, NEW id \in scene.ids
    PROVE  /\ LoggedIn(e, id) \in ClientAuth /\ LoggedIn(e, id).clientId = id
           /\ LoggedIn(e, id).isAuth /\ LoggedIn(e, id).socketNumber = e.socketNumber
BY DEF ClientAuth, LoggedIn

\* The entry of the socket that asks, compared with what operator[] finds there: a GET
\* makes it nobody's, a login writes the name of a client whose key has been shown and,
\* in a step of its own, that it is authenticated, a first message both, anything else
\* leaves it whose it is.
Own       == At(clients, req.fd)
Number(e) == e.socketNumber \in {0, req.fd, Own.socketNumber}
Same(e)   == e.clientId = Own.clientId /\ e.isAuth = Own.isAuth
Nobody(e) == e.clientId = NoId /\ ~e.isAuth
Owner(e)  ==
    LET p == peer[sess[req.fd]] IN
    \/ req.op \notin {"get", "named"} /\ Same(e)
    \/ req.op = "get" /\ Nobody(e)
    \/ req.op = "key" /\ UrlKey(p) /\ e.clientId = p.id /\ e.isAuth = Own.isAuth
    \/ req.op = "named" /\ e.clientId = Own.clientId /\ e.isAuth
    \/ req.op = "first" /\ Genuine(p, e.clientId) /\ e.isAuth
Asker(c) ==
    /\ DOMAIN c \subseteq DOMAIN clients \cup {req.fd}
    /\ \A f \in DOMAIN c : f # req.fd => c[f] = clients[f]
    /\ req.fd \in DOMAIN c => c[req.fd] \in ClientAuth /\ Number(c[req.fd]) /\ Owner(c[req.fd])

LEMMA AskerNow ==
    ASSUME Registry(clients), req.op \notin {"get", "named"} PROVE Asker(clients)
BY DEF Asker, Number, Owner, Same, Own, At, Registry

LEMMA AskerPut ==
    ASSUME NEW e \in ClientAuth, Number(e), Owner(e)
    PROVE  Asker(Put(clients, req.fd, e))
BY DEF Asker, Put

\* What operator[] finds, with a count or a ping type written to it, is still that.
LEMMA AskerFound ==
    ASSUME Registry(clients), req.op \notin {"get", "named"},
           NEW e \in ClientAuth, SameClient(e, Own)
    PROVE  Asker(Put(clients, req.fd, e))
BY AskerPut DEF Number, Owner, Same, SameClient

LEMMA AskerTouch ==
    ASSUME Registry(clients), req.op \notin {"get", "named"}
    PROVE  Asker(Touch(clients, req.fd))
<1>1. Own \in ClientAuth /\ SameClient(Own, Own)
  BY BlankEntries DEF Own, SameClient
<1> QED BY <1>1, AskerFound DEF Touch, Own

\* Removals leave an asker's registry one.
LEMMA AskerRemoval ==
    ASSUME Registry(clients), req.fd \in Fds, NEW c, Asker(c), NEW fds, RemoveClients(c, fds)
    PROVE  Asker(clients') /\ \E closings \in Seq(Closings) : work' = work \o closings
<1>1. DOMAIN c \subseteq Fds
  BY DEF Asker, Registry
<1>2. /\ DOMAIN clients' \subseteq DOMAIN c /\ \A fd \in DOMAIN clients' : clients'[fd] = c[fd]
      /\ \E closings \in Seq(Closings) : work' = work \o closings
  BY <1>1, Removal
<1> QED BY <1>2 DEF Asker

LEMMA WorkerAsker ==
    ASSUME HttpdOK, Registry(clients), work \in Seq(Work), Worker
    PROVE  Asker(clients') /\ \E closings \in Seq(Closings) : work' = work \o closings
<1> DEFINE Closes == \E closings \in Seq(Closings) : work' = work \o closings
           fd == req.fd
           p  == peer[sess[req.fd]]
<1>1. req.op # "none"
  BY WorkerShape
<1>2. /\ fd \in Fds /\ p \in Peers /\ p.id \in scene.ids
      /\ p.ping \in {"PING_NO", "PING_TEXT", "PING_BINARY"}
  BY <1>1, PeerKnown
<1>3. Own \in ClientAuth /\ Own = At(clients, fd) /\ SameClient(Own, Own)
  BY BlankEntries DEF Own, SameClient
<1>4. UNCHANGED work => Closes
  <2>1. <<>> \in Seq(Closings) /\ work \o <<>> = work
    OBVIOUS
  <2> QED BY <2>1
<1>5. req.op \notin {"get", "named"} => Asker(clients) /\ Asker(Touch(clients, fd))
  BY AskerNow, AskerTouch
<1> SUFFICES Asker(clients') /\ Closes
  OBVIOUS
<1> HIDE DEF Closes, fd, p
<1>6. ASSUME NEW c, Asker(c), NEW fds, RemoveClients(c, fds)
      PROVE  Asker(clients') /\ Closes
  BY <1>2, <1>6, AskerRemoval DEF Closes, fd
<1>10. CASE RegisterClient
  <2>1. clients' = Put(clients, fd, FreshEntry(fd)) /\ UNCHANGED work /\ req.op = "get"
    BY <1>10 DEF RegisterClient, fd
  <2>2. FreshEntry(fd) \in ClientAuth
    BY <1>2, BlankEntries
  <2>3. Number(FreshEntry(fd)) /\ Owner(FreshEntry(fd))
    BY <2>1 DEF Number, Owner, Nobody, FreshEntry, Blank, fd
  <2> QED BY <1>4, <2>1, <2>2, <2>3, AskerPut DEF fd
<1>11. CASE CheckLimit \/ RemoveFormer \/ StrangerFrame
  <2>1. /\ req.op \notin {"get", "named"}
        /\ UNCHANGED <<clients, work>> \/ \E fds : RemoveClients(clients, fds)
    BY <1>11 DEF CheckLimit, RemoveFormer, StrangerFrame
  <2> QED BY <1>4, <1>5, <1>6, <2>1
<1>12. CASE CheckKey
  <2>1. /\ req.op = "key"
        /\ \/ UrlKey(p) /\ clients' = Put(clients, fd, Titled(Own, UrlId(p))) /\ UNCHANGED work
           \/ RemoveClients(clients, {fd})
    BY <1>3, <1>12 DEF CheckKey, fd, p, Titled
  <2>2. ASSUME UrlKey(p) PROVE Asker(Put(clients, fd, Titled(Own, UrlId(p))))
    <3>1. UrlId(p) = p.id
      BY <2>2 DEF UrlId, UrlKey
    <3>2. /\ Titled(Own, p.id) \in ClientAuth /\ Titled(Own, p.id).clientId = p.id
          /\ Titled(Own, p.id).isAuth = Own.isAuth
          /\ Titled(Own, p.id).socketNumber = Own.socketNumber
      BY <1>2, <1>3, TitledEntry
    <3>3. Number(Titled(Own, p.id)) /\ Owner(Titled(Own, p.id))
      BY <2>1, <2>2, <3>2 DEF Number, Owner, p
    <3> QED BY <3>1, <3>2, <3>3, AskerPut DEF fd
  <2> QED BY <1>4, <1>5, <1>6, <2>1, <2>2
<1>13. CASE MarkAuthenticated
  <2>1. req.op = "named" /\ clients' = Put(clients, fd, Marked(Own)) /\ UNCHANGED work
    BY <1>3, <1>13 DEF MarkAuthenticated, fd, Marked
  <2>2. /\ Marked(Own) \in ClientAuth /\ Marked(Own).clientId = Own.clientId
        /\ Marked(Own).isAuth /\ Marked(Own).socketNumber = Own.socketNumber
    BY <1>3, MarkedEntry
  <2>3. Number(Marked(Own)) /\ Owner(Marked(Own))
    BY <2>1, <2>2 DEF Number, Owner
  <2> QED BY <1>4, <2>1, <2>2, <2>3, AskerPut DEF fd
<1>14. CASE ReceiveFrame
  BY <1>4, <1>5, <1>14 DEF ReceiveFrame
<1>15. CASE SortFrame \/ LogClient
  <2>1. /\ req.op \notin {"get", "named"}
        /\ clients' = Touch(clients, fd) /\ UNCHANGED work
    BY <1>15 DEF SortFrame, LogClient, fd
  <2> QED BY <1>4, <1>5, <2>1
<1>16. CASE MemberFrame
  <2>1. req.op = "member" /\ clients' = Put(clients, fd, Counted(Own, PingRetryCount))
        /\ UNCHANGED work
    BY <1>3, <1>16 DEF MemberFrame, fd, Counted
  <2>2. /\ Counted(Own, PingRetryCount) \in ClientAuth
        /\ SameClient(Counted(Own, PingRetryCount), Own)
    BY <1>3, ServerAssumption, CountedEntry
  <2> QED BY <1>4, <2>1, <2>2, AskerFound DEF fd
<1>17. CASE Command
  <2> DEFINE pong == Counted(Own, Own.pingRetryCount - 1)
  <2>1. /\ req.op = "command"
        /\ \/ RemoveClients(Touch(clients, fd), {fd})
           \/ \E fds : RemoveClients(Put(clients, fd, pong), fds)
           \/ clients' = Touch(clients, fd) /\ UNCHANGED work
    BY <1>3, <1>17 DEF Command, fd, Counted
  <2>2. Own.pingRetryCount - 1 \in Int
    BY <1>3 DEF ClientAuth
  <2>3. pong \in ClientAuth /\ SameClient(pong, Own)
    BY <1>3, <2>2, CountedEntry
  <2> HIDE DEF pong
  <2>4. Asker(Put(clients, fd, pong))
    BY <2>1, <2>3, AskerFound DEF fd
  <2> QED BY <1>4, <1>5, <1>6, <2>1, <2>4
<1>18. CASE FirstMessage
  <2> DEFINE asked == Asked(Own, p.ping)
  <2>1. /\ req.op = "first"
        /\ \/ /\ Available(p)
              /\ RemoveClients(Put(clients, fd, LoggedIn(asked, p.id)), Displaced(p.id, fd))
           \/ RemoveClients(Put(clients, fd, asked), Refused(p.id, fd))
           \/ RemoveClients(Touch(clients, fd), Refused(p.id, fd))
    BY <1>3, <1>18 DEF FirstMessage, fd, p, Asked, LoggedIn
  <2>2. asked \in ClientAuth /\ SameClient(asked, Own)
    BY <1>2, <1>3, AskedEntry
  <2> HIDE DEF asked
  <2>3. Asker(Put(clients, fd, asked))
    BY <2>1, <2>2, AskerFound DEF fd
  <2>4. ASSUME Available(p) PROVE Asker(Put(clients, fd, LoggedIn(asked, p.id)))
    <3>1. /\ LoggedIn(asked, p.id) \in ClientAuth /\ LoggedIn(asked, p.id).clientId = p.id
          /\ LoggedIn(asked, p.id).isAuth
          /\ LoggedIn(asked, p.id).socketNumber = Own.socketNumber
      BY <1>2, <2>2, LoggedEntry DEF SameClient
    <3>2. Number(LoggedIn(asked, p.id)) /\ Owner(LoggedIn(asked, p.id))
      BY <2>1, <2>4, <3>1 DEF Number, Owner, Genuine, Available, p
    <3> QED BY <3>1, <3>2, AskerPut DEF fd
  <2> QED BY <1>5, <1>6, <2>1, <2>3, <2>4
<1> QED
  BY <1>10, <1>11, <1>12, <1>13, <1>14, <1>15, <1>16, <1>17, <1>18 DEF Worker, Login

-----------------------------------------------------------------------------
\* The types of the registry and of the queues.

LEMMA LowestIsMember ==
    ASSUME NEW S \in SUBSET Fds, S # {} PROVE Lowest(S) \in S
<1> DEFINE R == OpToRel(<, Nat)
<1>1. S \subseteq Nat
  BY ServerAssumption
<1>2. IsWellFoundedOn(R, Nat)
  BY NatLessThanWellFounded, Zenon
<1>3. \A x, y \in Nat : <<y, x>> \notin R => x <= y
  BY DEF OpToRel
<1> HIDE DEF R
<1>4. PICK x \in S : \A y \in S : <<y, x>> \notin R
  BY <1>1, <1>2, WFMin
<1>5. \A y \in S : x <= y
  BY <1>1, <1>3, <1>4
<1> QED BY <1>5 DEF Lowest

RegistryOK == Registry(clients) /\ work \in Seq(Work) /\ doomed \in Seq(Fds)

LEMMA AskerTyped ==
    ASSUME Registry(clients), req.fd \in Fds, NEW c, Asker(c) PROVE Registry(c)
BY DEF Registry, Asker

LEMMA PingedEntry ==
    ASSUME NEW e \in ClientAuth PROVE Pinged(e) \in ClientAuth /\ SameClient(Pinged(e), e)
<1> DEFINE n == IF e.pingRetryCount < 0 THEN e.pingRetryCount ELSE e.pingRetryCount - 1
<1>1. n \in Int
  BY DEF ClientAuth
<1>2. Pinged(e) = Counted(e, n)
  BY DEF Pinged, Counted
<1> QED BY <1>1, <1>2, CountedEntry

\* Outside the worker an entry goes or stays what it is, but for its retries.
Kept(c) ==
    DOMAIN c \subseteq DOMAIN clients /\ \A f \in DOMAIN c : SameClient(c[f], clients[f])

LEMMA OthersKeep ==
    ASSUME HttpdOK, RegistryOK, [Next]_vars, ~Worker
    PROVE  Kept(clients') /\ RegistryOK'
<1> USE DEF RegistryOK, httpdVars
<1>0. scene' = scene
  BY DEF Next, Httpd, Timer, Accept, Handshake, PeerLeaves, DataFrame, RunWork, SendPing,
         RemoveDoomed, Disconnect, Connect, SendMessage, vars
<1>1. CASE SendPing
  <2>1. clients' = [fd \in DOMAIN clients |-> Pinged(clients[fd])] /\ UNCHANGED work
    BY <1>1 DEF SendPing
  <2>2. Kept(clients') /\ Registry(clients)'
    BY <1>0, <2>1, PingedEntry DEF Kept, Registry, ClientAuth
  <2> DEFINE S == {fd \in DOMAIN clients : clients'[fd].pingRetryCount < 0}
  <2>3. S \in SUBSET Fds /\ doomed' \in InMapOrder(S)
    BY <1>1 DEF Registry, SendPing
  <2> HIDE DEF S
  <2>4. doomed' \in Seq(S)
    BY <2>3, OrderedSockets
  <2>5. doomed' \in Seq(Fds)
    BY <2>3, <2>4
  <2> QED BY <1>0, <2>1, <2>2, <2>5 DEF Work
<1>2. CASE RemoveDoomed
  <2>1. DOMAIN clients \subseteq Fds /\ RemoveClients(clients, {Head(doomed)})
    BY <1>2 DEF RemoveDoomed, Registry
  <2>2. /\ DOMAIN clients' \subseteq DOMAIN clients
        /\ \A fd \in DOMAIN clients' : clients'[fd] = clients[fd]
        /\ \E closings \in Seq(Closings) : work' = work \o closings
    BY <2>1, Removal
  <2>3. Kept(clients') /\ Registry(clients)'
    BY <1>0, <2>2 DEF Kept, Registry, SameClient, ClientAuth
  <2>4. \A closings \in Seq(Closings) : closings \in Seq(Work)
    BY DEF Closings
  <2>5. work' \in Seq(Work)
    BY <2>2, <2>4, ConcatProperties
  <2>6. doomed' \in Seq(Fds)
    BY <1>2, HeadTailProperties DEF RemoveDoomed
  <2> QED BY <1>0, <2>3, <2>5, <2>6 DEF Work
<1>3. ASSUME NEW id \in scene.ids, SendMessage(id) PROVE Kept(clients') /\ RegistryOK'
  <2> DEFINE holder == Lowest(Holders(clients, id))
  <2>1. holder \in DOMAIN clients
    BY <1>3, LowestIsMember DEF SendMessage, Holders, Registry
  <2>2. clients[holder].socketNumber \in Fds \cup {0}
    BY <2>1 DEF Registry, ClientAuth
  <2> HIDE DEF holder
  <2>3. [op |-> "text", to |-> id, fd |-> clients[holder].socketNumber] \in Work
    BY <1>3, <2>2 DEF Work
  <2>4. work' \in Seq(Work)
    BY <1>3, <2>3, AppendProperties DEF SendMessage, holder
  <2> QED BY <1>0, <1>3, <2>4 DEF SendMessage, Kept, SameClient, Registry, ClientAuth, Work
<1>4. CASE RunWork
  <2>1. work' \in Seq(Work) /\ UNCHANGED <<clients, doomed>>
    BY <1>4, HeadTailProperties DEF RunWork
  <2> QED BY <1>0, <2>1 DEF Kept, SameClient, Registry, ClientAuth, Work
<1>5. CASE UNCHANGED <<clients, work, doomed>>
  BY <1>0, <1>5 DEF Kept, SameClient, Registry, ClientAuth, Work
<1>6. CASE Disconnect
  <2>1. work' \in Seq(Work) /\ UNCHANGED <<clients, doomed>>
    BY <1>6 DEF Disconnect
  <2> QED BY <1>0, <2>1 DEF Kept, SameClient, Registry, ClientAuth, Work
<1>7. Httpd \/ Connect \/ UNCHANGED vars => UNCHANGED <<clients, work, doomed>>
  BY DEF Httpd, Accept, Handshake, PeerLeaves, DataFrame, Connect, vars
<1> QED BY <1>1, <1>2, <1>3, <1>4, <1>5, <1>6, <1>7 DEF Next, Timer

LEMMA RegistryStep == HttpdOK /\ RegistryOK /\ [Next]_vars => RegistryOK'
<1> SUFFICES ASSUME HttpdOK, RegistryOK, [Next]_vars, Worker PROVE RegistryOK'
  BY OthersKeep
<1>1. UNCHANGED <<scene, doomed>> /\ req.op # "none"
  BY WorkerShape
<1>2. /\ Asker(clients')
      /\ \E closings \in Seq(Closings) : work' = work \o closings
  BY WorkerAsker DEF RegistryOK
<1>3. Registry(clients)'
  <2>1. req.fd \in Fds
    BY <1>1, PeerKnown
  <2>2. \A fd \in DOMAIN clients' : clients'[fd] \in ClientAuth /\ fd \in Fds
    BY <1>2, <2>1, AskerTyped DEF Registry, RegistryOK
  <2> QED BY <1>1, <2>2 DEF Registry, ClientAuth
<1>4. \A closings \in Seq(Closings) : closings \in Seq(Work)
  BY DEF Closings
<1>5. work' \in Seq(Work)
  BY <1>2, <1>4, ConcatProperties DEF RegistryOK
<1> QED BY <1>1, <1>3, <1>5 DEF RegistryOK, Work

LEMMA ServerTypeInvariant == Spec => [](HttpdOK /\ RegistryOK)
<1>1. Init => HttpdOK /\ RegistryOK
  BY HttpdInit DEF Init, RegistryOK, Registry
<1>2. HttpdOK /\ RegistryOK /\ [Next]_vars => (HttpdOK /\ RegistryOK)'
  BY HttpdStep, RegistryStep
<1> QED BY <1>1, <1>2, PTL DEF Spec

\* The registry, the queues and the request are what the program makes them: an
\* entry is a client's or nobody's, queued work names a socket.
THEOREM ServerTypeCorrect == Spec => []TypeOK
<1>1. HttpdOK /\ RegistryOK => TypeOK
  BY DEF HttpdOK, RegistryOK, Registry, TypeOK, Requests, Ops
<1> QED BY <1>1, ServerTypeInvariant, PTL

-----------------------------------------------------------------------------
\* Whom an entry speaks for.

\* What the steps of the httpd task leave of a session the handler has seen: the
\* socket was its already, and unless its handshake is being handled the handler
\* had seen it.
LEMMA SessionSeen ==
    ASSUME HttpdOK, [Next]_vars, NEW fd \in Fds, sess'[fd] \in hello'
    PROVE  /\ sess'[fd] = sess[fd] /\ peer'[sess[fd]] = peer[sess[fd]]
           /\ sess[fd] \in hello \/ (req'.op = "get" /\ req'.fd = fd)
<1> USE DEF HttpdOK, SessionsApart, Sessions, Peers, Idle, httpdVars
<1>1. CASE UNCHANGED <<sess, peer, hello>>
  BY <1>1
<1>2. ASSUME NEW f \in Fds, NEW p \in Peers, Accept(f, p)
      PROVE  sess'[fd] = sess[fd] /\ peer'[sess[fd]] = peer[sess[fd]] /\ sess[fd] \in hello
  <2>1. /\ peer' = Append(peer, p) /\ hello' = hello
        /\ sess' = [sess EXCEPT ![f] = Len(peer) + 1]
    BY <1>2 DEF Accept
  <2>2. fd # f /\ sess'[fd] = sess[fd]
    BY <2>1
  <2>3. sess[fd] \in 1 .. Len(peer)
    BY <2>1, <2>2
  <2>4. peer'[sess[fd]] = peer[sess[fd]]
    BY <2>1, <2>3, AppendProperties
  <2> QED BY <2>1, <2>2, <2>4
<1>3. ASSUME NEW f \in Fds, Handshake(f)
      PROVE  /\ sess'[fd] = sess[fd] /\ peer'[sess[fd]] = peer[sess[fd]]
             /\ sess[fd] \in hello \/ (req'.op = "get" /\ req'.fd = fd)
  <2>1. /\ UNCHANGED <<sess, peer>> /\ hello' = hello \cup {sess[f]} /\ sess[f] # 0
        /\ req' = [op |-> "get", fd |-> f, frame |-> "none"]
    BY <1>3 DEF Handshake, NoReq
  <2> QED BY <2>1
<1>4. ASSUME UNCHANGED <<peer, hello>>, \A f \in Fds : sess'[f] \in {sess[f], 0}
      PROVE  sess'[fd] = sess[fd] /\ peer'[sess[fd]] = peer[sess[fd]] /\ sess[fd] \in hello
  BY <1>4
<1>5. ASSUME NEW f \in Fds, PeerLeaves(f)
      PROVE  UNCHANGED <<peer, hello>> /\ \A g \in Fds : sess'[g] \in {sess[g], 0}
  BY <1>5 DEF PeerLeaves
<1>6. RunWork \/ Disconnect
        => UNCHANGED <<peer, hello>> /\ \A f \in Fds : sess'[f] \in {sess[f], 0}
  BY DEF RunWork, Disconnect
<1>7. Worker \/ Timer \/ Connect \/ UNCHANGED vars \/ (\E id \in scene.ids : SendMessage(id))
        => UNCHANGED <<sess, peer, hello>>
  BY WorkerShape DEF Timer, SendPing, RemoveDoomed, Connect, SendMessage, vars
<1>8. ASSUME NEW f \in Fds, NEW g \in Frames, DataFrame(f, g)
      PROVE  UNCHANGED <<sess, peer, hello>>
  BY <1>8 DEF DataFrame
<1>9. CASE \E f \in Fds : \/ \E p \in Peers : Accept(f, p)
                         \/ Handshake(f) \/ PeerLeaves(f)
                         \/ \E g \in Frames : DataFrame(f, g)
  BY <1>1, <1>2, <1>3, <1>4, <1>5, <1>8, <1>9
<1>10. CASE RunWork \/ Disconnect
  BY <1>4, <1>6, <1>10
<1>11. CASE Worker \/ Timer \/ Connect \/ UNCHANGED vars \/ \E id \in scene.ids : SendMessage(id)
  BY <1>1, <1>7, <1>11
<1> QED
  BY <1>9, <1>10, <1>11 DEF Next, Httpd

\* Outside the worker a request stays what it is, or one that waits takes its place.
LEMMA OthersRequest ==
    ASSUME [Next]_vars, ~Worker
    PROVE  req' = req \/ (Idle /\ req'.op \in {"get", "frame"})
<1>1. ASSUME NEW fd \in Fds, Handshake(fd) PROVE Idle /\ req'.op = "get"
  BY <1>1 DEF Handshake, NoReq
<1>2. ASSUME NEW fd \in Fds, NEW f \in Frames, DataFrame(fd, f) PROVE Idle /\ req'.op = "frame"
  BY <1>2 DEF DataFrame
<1>3. ASSUME NEW fd \in Fds, (\E p \in Peers : Accept(fd, p)) \/ PeerLeaves(fd) PROVE req' = req
  BY <1>3 DEF Accept, PeerLeaves
<1>4. Timer \/ RunWork \/ Disconnect \/ Connect \/ UNCHANGED vars
        \/ (\E id \in scene.ids : SendMessage(id)) => req' = req
  BY DEF Timer, SendPing, RemoveDoomed, RunWork, Disconnect, Connect, SendMessage, vars
<1> QED
  BY <1>1, <1>2, <1>3, <1>4 DEF Next, Httpd

\* The way of a request through the worker: where it comes from.
LEMMA WorkerRequest ==
    ASSUME HttpdOK, Worker
    PROVE  /\ req'.op \notin {"get", "frame"}
           /\ req'.op # "none" => req'.fd = req.fd
           /\ req'.op = "login" => RegisterClient
           /\ req'.op = "url" => CheckLimit /\ scene.authType = "URL" /\ UNCHANGED clients /\ ~Full
           /\ req'.op = "key" => RemoveFormer
           /\ req'.op = "named" => CheckKey /\ UrlKey(peer[sess[req.fd]])
           /\ req'.op \in {"text", "binary"} => ReceiveFrame /\ req.fd \in DOMAIN clients
           /\ req'.op \in {"member", "first", "stranger"} => SortFrame
           /\ req'.op = "member" => Own.isAuth \/ scene.authType = "NONE"
           /\ req'.op = "first" => scene.authType = "FIRST_MESSAGE"
           /\ req'.op = "command" => MemberFrame
           /\ req'.op = "log" => FirstMessage
           /\ req'.op = "stuck" => Command
<1> USE DEF Done
<1>1. NoReq.op = "none"
  BY DEF NoReq
<1>2. \A op : [req EXCEPT !.op = op].op = op /\ [req EXCEPT !.op = op].fd = req.fd
  BY DEF HttpdOK, Requests
<1>3. CASE RegisterClient \/ MarkAuthenticated
  BY <1>1, <1>2, <1>3 DEF RegisterClient, MarkAuthenticated
<1>4. CASE CheckLimit
  BY <1>1, <1>2, <1>4 DEF CheckLimit
<1>5. CASE RemoveFormer
  BY <1>1, <1>2, <1>5 DEF RemoveFormer
<1>6. CASE CheckKey
  BY <1>1, <1>2, <1>6 DEF CheckKey
<1>7. CASE ReceiveFrame
  BY <1>1, <1>2, <1>7 DEF ReceiveFrame
<1>8. CASE SortFrame
  BY <1>1, <1>2, <1>8 DEF SortFrame, Own
<1>9. CASE MemberFrame
  BY <1>1, <1>2, <1>9 DEF MemberFrame
<1>10. CASE Command
  <2>1. req' = NoReq \/ req' = [req EXCEPT !.op = "stuck"]
    BY <1>10 DEF Command
  <2> QED BY <1>1, <1>2, <1>10, <2>1
<1>11. CASE FirstMessage
  BY <1>1, <1>2, <1>11 DEF FirstMessage
<1>12. CASE LogClient \/ StrangerFrame
  BY <1>1, <1>2, <1>12 DEF LogClient, StrangerFrame
<1> QED
  BY <1>3, <1>4, <1>5, <1>6, <1>7, <1>8, <1>9, <1>10, <1>11, <1>12 DEF Worker, Login

\* Which of its steps the worker takes is the request's to say.
LEMMA WorkerServes ==
    ASSUME Worker
    PROVE  /\ req.op = "get" => RegisterClient
           /\ req.op = "login" => CheckLimit
           /\ req.op = "url" => RemoveFormer
           /\ req.op = "key" => CheckKey
           /\ req.op = "named" => MarkAuthenticated
           /\ req.op = "frame" => ReceiveFrame
           /\ req.op = "first" => FirstMessage
BY DEF Worker, Login, RegisterClient, CheckLimit, RemoveFormer, CheckKey, MarkAuthenticated,
       ReceiveFrame, SortFrame, MemberFrame, Command, FirstMessage, LogClient, StrangerFrame

\* A step of the worker, put together.
LEMMA WorkerStep ==
    ASSUME HttpdOK, RegistryOK, Worker
    PROVE  /\ UNCHANGED <<scene, running, sess, peer, hello, doomed, restarts>>
           /\ req.op # "none" /\ req.fd \in Fds /\ running
           /\ sess[req.fd] \in hello /\ sess[req.fd] \in 1 .. Len(peer)
           /\ peer[sess[req.fd]].id \in scene.ids /\ peer[sess[req.fd]].id # NoId
           /\ DOMAIN clients \subseteq Fds /\ Asker(clients')
<1>1. req.op # "none" /\ UNCHANGED <<scene, running, sess, peer, hello, doomed, restarts>>
  BY WorkerShape
<1>2. /\ req.fd \in Fds /\ sess[req.fd] \in 1 .. Len(peer)
      /\ peer[sess[req.fd]].id \in scene.ids
  BY <1>1, PeerKnown
<1>3. running /\ sess[req.fd] \in hello
  BY <1>1 DEF HttpdOK, SessionsApart, Idle, NoReq
<1>4. Asker(clients') /\ DOMAIN clients \subseteq Fds
  BY WorkerAsker DEF RegistryOK, Registry
<1> QED BY <1>1, <1>2, <1>3, <1>4, ServerAssumption DEF HttpdOK

\* What operator[] makes is nobody's.
LEMMA OwnEntry ==
    ASSUME Own.isAuth \/ Own.clientId # NoId
    PROVE  req.fd \in DOMAIN clients /\ Own = clients[req.fd]
BY DEF Own, At, Blank

LEMMA SceneForGood == [Next]_vars => scene' = scene
<1>1. Worker => scene' = scene
  BY WorkerShape
<1> QED
  BY <1>1 DEF Next, Httpd, Timer, Accept, Handshake, PeerLeaves, DataFrame, RunWork, SendPing,
              RemoveDoomed, Disconnect, Connect, SendMessage, vars, httpdVars

\* Until it has shown its key, whoever logs in is nobody.
LoginFresh ==
    /\ req.op \in LoggingIn \ {"login"} => scene.authType = "URL"
    /\ req.op = "first" => scene.authType = "FIRST_MESSAGE"
    /\ req.op \in LoggingIn /\ req.fd \in DOMAIN clients =>
          /\ ~clients[req.fd].isAuth
          /\ clients[req.fd].clientId # NoId => req.op = "named"
GenuineOK == EntriesGenuine /\ LoginFresh

\* What the worker leaves of an entry, of its own socket or another's.
LEMMA WorkerLeaves ==
    ASSUME HttpdOK, RegistryOK, Worker, NEW fd \in DOMAIN clients'
    PROVE  \/ fd # req.fd /\ fd \in DOMAIN clients /\ clients'[fd] = clients[fd]
           \/ fd = req.fd /\ Owner(clients'[fd])
BY WorkerStep DEF Asker

\* A request that the worker has not touched is of the session it was of.
LEMMA OthersSession ==
    ASSUME HttpdOK, [Next]_vars, ~Worker, req'.op \notin {"none", "get", "frame"}
    PROVE  /\ req' = req /\ scene' = scene /\ req.fd \in Fds
           /\ sess'[req.fd] = sess[req.fd] /\ peer'[sess[req.fd]] = peer[sess[req.fd]]
<1>1. req' = req
  BY OthersRequest
<1>2. req.fd \in Fds
  BY <1>1, PeerKnown
<1>3. sess'[req.fd] \in hello'
  BY <1>1, HttpdStep DEF HttpdOK, Idle, NoReq
<1> QED BY <1>1, <1>2, <1>3, SessionSeen, SceneForGood

LEMMA NamesStep ==
    ASSUME HttpdOK, RegistryOK, GenuineOK, [Next]_vars, NEW fd \in DOMAIN clients'
    PROVE  /\ clients'[fd].clientId # NoId =>
                 clients'[fd].isAuth \/ (req'.op = "named" /\ req'.fd = fd)
           /\ clients'[fd].isAuth /\ clients'[fd].clientId = NoId => scene'.authType = "URL"
<1> USE DEF GenuineOK, EntriesGenuine
<1>1. CASE ~Worker
  <2>1. fd \in DOMAIN clients /\ SameClient(clients'[fd], clients[fd])
    BY <1>1, OthersKeep DEF Kept
  <2>2. req' = req \/ req.op = "none"
    BY <1>1, OthersRequest DEF Idle, NoReq
  <2> QED BY <2>1, <2>2, SceneForGood DEF SameClient
<1>2. CASE Worker /\ fd # req.fd
  BY <1>2, WorkerLeaves, SceneForGood
<1>3. CASE Worker /\ fd = req.fd
  <2> DEFINE e == clients'[req.fd]
             p == peer[sess[req.fd]]
  <2>1. Owner(e) /\ p.id # NoId /\ scene' = scene
    BY <1>3, WorkerLeaves, WorkerStep
  <2>2. CASE req.op \notin {"get", "named"} /\ Same(e)
    BY <1>3, <2>1, <2>2, OwnEntry DEF Same
  <2>3. CASE req.op = "get" /\ Nobody(e)
    BY <1>3, <2>3 DEF Nobody
  <2>4. CASE req.op = "key" /\ UrlKey(p) /\ e.clientId = p.id /\ e.isAuth = Own.isAuth
    <3>1. CheckKey
      BY <1>3, <2>4, WorkerServes
    <3>2. req' = [req EXCEPT !.op = "named"]
      BY <2>4, <3>1 DEF CheckKey
    <3>3. req'.op = "named" /\ req'.fd = req.fd
      BY <3>2 DEF HttpdOK, Requests
    <3> QED BY <1>3, <2>1, <2>4, <3>3
  <2>5. CASE req.op = "named" /\ e.clientId = Own.clientId /\ e.isAuth
    BY <1>3, <2>1, <2>5 DEF LoginFresh, LoggingIn
  <2>6. CASE req.op = "first" /\ Genuine(p, e.clientId) /\ e.isAuth
    BY <1>3, <2>1, <2>6 DEF Genuine
  <2> HIDE DEF e, p
  <2>7. \/ req.op \notin {"get", "named"} /\ Same(e)
        \/ req.op = "get" /\ Nobody(e)
        \/ req.op = "key" /\ UrlKey(p) /\ e.clientId = p.id /\ e.isAuth = Own.isAuth
        \/ req.op = "named" /\ e.clientId = Own.clientId /\ e.isAuth
        \/ req.op = "first" /\ Genuine(p, e.clientId) /\ e.isAuth
    BY <2>1 DEF Owner, p
  <2> QED BY <2>2, <2>3, <2>4, <2>5, <2>6, <2>7
<1> QED BY <1>1, <1>2, <1>3

LEMMA KeysStep ==
    ASSUME HttpdOK, RegistryOK, GenuineOK, [Next]_vars, NEW fd \in DOMAIN clients',
           sess'[fd] \in hello', ~(req'.op = "get" /\ req'.fd = fd)
    PROVE  /\ clients'[fd].isAuth => peer'[sess'[fd]].good
           /\ clients'[fd].clientId # NoId => Genuine(peer'[sess'[fd]], clients'[fd].clientId)
<1> USE DEF GenuineOK, EntriesGenuine
<1>1. fd \in Fds
  BY RegistryStep DEF RegistryOK, Registry
<1>2. sess'[fd] = sess[fd] /\ peer'[sess[fd]] = peer[sess[fd]] /\ sess[fd] \in hello
  BY <1>1, SessionSeen
<1>3. ASSUME fd \in DOMAIN clients, ~(req.op = "get" /\ req.fd = fd)
      PROVE  /\ clients[fd].isAuth => peer'[sess'[fd]].good
             /\ clients[fd].clientId # NoId => Genuine(peer'[sess'[fd]], clients[fd].clientId)
  BY <1>2, <1>3 DEF Seen
<1>4. CASE ~Worker
  <2>1. ~(req.op = "get" /\ req.fd = fd)
    BY <1>4, OthersRequest DEF Idle, NoReq
  <2>2. fd \in DOMAIN clients /\ SameClient(clients'[fd], clients[fd])
    BY <1>4, OthersKeep DEF Kept
  <2> QED BY <1>3, <2>1, <2>2 DEF SameClient
<1>5. CASE Worker /\ fd # req.fd
  BY <1>3, <1>5, WorkerLeaves
<1>6. CASE Worker /\ fd = req.fd
  <2> DEFINE e == clients'[req.fd]
             p == peer[sess[req.fd]]
  <2>1. Owner(e) /\ p.id # NoId /\ peer'[sess'[fd]] = p
    BY <1>2, <1>6, WorkerLeaves, WorkerStep
  <2>2. CASE req.op \notin {"get", "named"} /\ Same(e)
    BY <1>3, <1>6, <2>2, OwnEntry DEF Same
  <2>3. CASE req.op = "get" /\ Nobody(e)
    BY <1>6, <2>3 DEF Nobody
  <2>4. CASE req.op = "key" /\ UrlKey(p) /\ e.clientId = p.id /\ e.isAuth = Own.isAuth
    BY <1>6, <2>1, <2>4 DEF UrlKey, Available, Genuine
  <2>5. CASE req.op = "named" /\ e.clientId = Own.clientId /\ e.isAuth
    BY <1>3, <1>6, <2>1, <2>5, OwnEntry DEF UrlKey, Available
  <2>6. CASE req.op = "first" /\ Genuine(p, e.clientId) /\ e.isAuth
    BY <1>6, <2>1, <2>6 DEF Genuine
  <2> HIDE DEF e, p
  <2>7. \/ req.op \notin {"get", "named"} /\ Same(e)
        \/ req.op = "get" /\ Nobody(e)
        \/ req.op = "key" /\ UrlKey(p) /\ e.clientId = p.id /\ e.isAuth = Own.isAuth
        \/ req.op = "named" /\ e.clientId = Own.clientId /\ e.isAuth
        \/ req.op = "first" /\ Genuine(p, e.clientId) /\ e.isAuth
    BY <2>1 DEF Owner, p
  <2> QED BY <2>2, <2>3, <2>4, <2>5, <2>6, <2>7
<1> QED BY <1>4, <1>5, <1>6

LEMMA RequestStep ==
    ASSUME HttpdOK, RegistryOK, GenuineOK, [Next]_vars
    PROVE  /\ req'.op \in {"member", "command"} /\ scene'.authType # "NONE"
                 => peer'[sess'[req'.fd]].good
           /\ req'.op = "named" => UrlKey(peer[sess[req.fd]])' /\ req'.fd = req.fd
<1> USE DEF GenuineOK, EntriesGenuine
<1>1. CASE Worker
  <2>1. UNCHANGED <<scene, sess, peer>> /\ sess[req.fd] \in hello
    BY <1>1, WorkerStep
  <2>2. req'.op = "named" => UrlKey(peer[sess[req.fd]]) /\ req'.fd = req.fd
    BY <1>1, WorkerRequest
  <2>3. ASSUME req'.op = "member", scene.authType # "NONE" PROVE peer[sess[req.fd]].good
    <3>1. Own.isAuth /\ SortFrame
      BY <1>1, <2>3, WorkerRequest
    <3>2. req.op = "text"
      BY <3>1 DEF SortFrame
    <3> QED BY <2>1, <3>1, <3>2, OwnEntry DEF Seen
  <2>4. req'.op = "command" => req.op = "member"
    BY <1>1, WorkerRequest DEF MemberFrame
  <2>5. req'.op \in {"member", "command"} => req'.fd = req.fd
    BY <1>1, WorkerRequest
  <2> QED BY <2>1, <2>2, <2>3, <2>4, <2>5 DEF UrlKey, Available
<1>2. CASE ~Worker
  BY <1>2, OthersSession DEF UrlKey, Available
<1> QED BY <1>1, <1>2

LEMMA FreshStep ==
    ASSUME HttpdOK, RegistryOK, GenuineOK, [Next]_vars
    PROVE  LoginFresh'
<1> USE DEF GenuineOK, LoggingIn
<1>1. CASE ~Worker
  <2>1. CASE req'.op \in LoggingIn \cup {"first"}
    <3>1. req' = req /\ scene' = scene
      BY <1>1, <2>1, OthersSession
    <3>2. Kept(clients')
      BY <1>1, OthersKeep
    <3> QED BY <3>1, <3>2 DEF LoginFresh, Kept, SameClient
  <2> QED BY <2>1 DEF LoginFresh
<1>2. CASE Worker
  <2>1. scene' = scene
    BY <1>2, WorkerStep
  <2>2. req'.op \in LoggingIn \ {"login"} => scene.authType = "URL"
    BY <1>2, WorkerRequest DEF LoginFresh, RemoveFormer, CheckKey
  <2>3. req'.op = "first" => scene.authType = "FIRST_MESSAGE"
    BY <1>2, WorkerRequest
  <2> SUFFICES ASSUME req'.op \in LoggingIn, req'.fd \in DOMAIN clients'
               PROVE  /\ ~clients'[req'.fd].isAuth
                      /\ clients'[req'.fd].clientId # NoId => req'.op = "named"
    BY <2>1, <2>2, <2>3 DEF LoginFresh
  <2>4. req'.fd = req.fd /\ Owner(clients'[req.fd])
    BY <1>2, WorkerRequest, WorkerLeaves
  <2>5. CASE req'.op = "login"
    <3>1. req.op = "get"
      BY <1>2, <2>5, WorkerRequest DEF RegisterClient
    <3> QED BY <2>4, <3>1 DEF Owner, Nobody
  <2>6. CASE req'.op # "login"
    <3>1. req.op \in {"login", "url", "key"} /\ (req.op = "key" => req'.op = "named")
      BY <1>2, <2>6, WorkerRequest DEF CheckLimit, RemoveFormer, CheckKey
    <3>2. ~Own.isAuth /\ Own.clientId = NoId
      BY <3>1, OwnEntry DEF LoginFresh
    <3> QED BY <2>4, <3>1, <3>2 DEF Owner, Same
  <2> QED BY <2>5, <2>6
<1> QED BY <1>1, <1>2

LEMMA GenuineStep ==
    ASSUME HttpdOK, RegistryOK, GenuineOK, [Next]_vars
    PROVE  GenuineOK'
<1>1. EntriesGenuine'
  BY NamesStep, KeysStep, RequestStep DEF EntriesGenuine, Seen
<1> QED BY <1>1, FreshStep DEF GenuineOK

LEMMA GenuineInit == Init => GenuineOK
BY DEF Init, GenuineOK, EntriesGenuine, LoginFresh, LoggingIn, NoReq

\* A message is taken only from a session that has shown the key of the client it
\* is taken for, whatever the socket number, a restart or the timer has left behind.
THEOREM ServerMembersGenuine == Spec => []MembersAreGenuine
<1>1. HttpdOK /\ GenuineOK => MembersAreGenuine
  <2> SUFFICES ASSUME HttpdOK, GenuineOK, req.op \in {"member", "command"},
                      scene.authType # "NONE"
               PROVE  /\ peer[sess[req.fd]].good
                      /\ req.fd \in DOMAIN clients =>
                            clients[req.fd].clientId \in {peer[sess[req.fd]].id, NoId}
    BY DEF MembersAreGenuine
  <2>1. Seen(req.fd)
    BY DEF HttpdOK, Idle, NoReq, Seen
  <2> QED BY <2>1 DEF GenuineOK, EntriesGenuine, Genuine
<1>2. HttpdOK /\ RegistryOK /\ GenuineOK /\ [Next]_vars => GenuineOK'
  BY GenuineStep
<1> QED BY <1>1, <1>2, GenuineInit, ServerTypeInvariant, PTL DEF Spec

-----------------------------------------------------------------------------
\* One entry for a client.

\* Where the queue takes work, a first message that is let in leaves its client no
\* other entry.
LEMMA FirstDisplaces ==
    ASSUME HttpdOK, RegistryOK, ~scene.workFails, Worker, req.op = "first",
           req.fd \in DOMAIN clients', NEW h \in DOMAIN clients', h # req.fd
    PROVE  clients[h].clientId # peer[sess[req.fd]].id
<1> DEFINE fd == req.fd
           p  == peer[sess[req.fd]]
<1>1. fd \in Fds /\ running /\ DOMAIN clients \subseteq Fds
  BY WorkerStep
<1>2. FirstMessage
  BY WorkerServes
<1> HIDE DEF fd, p
<1>3. \/ \E e : RemoveClients(Put(clients, fd, e), Displaced(p.id, fd))
      \/ \E e : RemoveClients(Put(clients, fd, e), {fd})
  BY <1>2 DEF FirstMessage, Refused, Touch, fd, p
<1>4. ASSUME NEW e, NEW fds, RemoveClients(Put(clients, fd, e), fds)
      PROVE  DOMAIN clients' = (DOMAIN clients \cup {fd}) \ fds
  <2>1. DOMAIN Put(clients, fd, e) = DOMAIN clients \cup {fd}
    BY DEF Put
  <2>2. DOMAIN Put(clients, fd, e) \subseteq Fds
    BY <1>1, <2>1
  <2> QED BY <1>1, <1>4, <2>1, <2>2, RemovalDone, Zenon
<1>5. DOMAIN clients' = (DOMAIN clients \cup {fd}) \ Displaced(p.id, fd)
  BY <1>3, <1>4 DEF fd
<1>6. h \in DOMAIN clients /\ h \notin Displaced(p.id, fd)
  BY <1>5 DEF fd
<1> QED BY <1>6 DEF Displaced, Holders, fd, p

\* So does the removal of the former entry, for a client that gives its name in the URL.
LEMMA FormerRemoved ==
    ASSUME HttpdOK, RegistryOK, OneEntry, ~scene.workFails, Worker, RemoveFormer,
           UrlId(peer[sess[req.fd]]) # NoId, NEW h \in DOMAIN clients'
    PROVE  clients'[h].clientId # peer[sess[req.fd]].id
<1> DEFINE p == peer[sess[req.fd]]
           S == Holders(clients, p.id)
<1>1. running /\ DOMAIN clients \subseteq Fds /\ p.id # NoId /\ UrlId(p) = p.id
  BY WorkerStep DEF UrlId
<1>2. RemoveClients(clients, Former(p))
  BY DEF RemoveFormer
<1> HIDE DEF p
<1>3. /\ DOMAIN clients' = DOMAIN clients \ Former(p)
      /\ \A f \in DOMAIN clients' : clients'[f] = clients[f]
  BY <1>1, <1>2, RemovalDone, Zenon
<1>4. ASSUME clients'[h].clientId = p.id PROVE FALSE
  <2>1. h \in S
    BY <1>3, <1>4 DEF Holders
  <2>2. Former(p) = {Lowest(S)}
    BY <1>1, <2>1 DEF Former
  <2>3. Lowest(S) \in S
    BY <1>1, <2>1, LowestIsMember DEF Holders
  <2>4. h = Lowest(S)
    BY <1>1, <2>1, <2>3 DEF OneEntry, Holders
  <2> QED BY <1>3, <2>2, <2>4
<1> QED BY <1>4 DEF p

LEMMA EntriesApart ==
    ASSUME HttpdOK, RegistryOK, GenuineOK, OneEntry, [Next]_vars, ~scene.workFails,
           NEW f \in DOMAIN clients', NEW g \in DOMAIN clients', f # g,
           clients'[f].clientId = clients'[g].clientId
    PROVE  clients'[f].clientId = NoId
<1>1. CASE ~Worker
  BY <1>1, OthersKeep DEF Kept, SameClient, OneEntry
<1>2. ASSUME Worker, NEW h \in DOMAIN clients', h # req.fd, req.fd \in DOMAIN clients',
             clients'[h].clientId = clients'[req.fd].clientId
      PROVE  clients'[h].clientId = NoId
  <2> DEFINE e == clients'[req.fd]
             p == peer[sess[req.fd]]
  <2>1. h \in DOMAIN clients /\ clients'[h] = clients[h]
    BY <1>2, WorkerLeaves
  <2>2. Owner(e) /\ p.id # NoId
    BY <1>2, WorkerLeaves, WorkerStep
  <2>3. CASE e.clientId = Own.clientId
    BY <1>2, <2>1, <2>3, OwnEntry DEF OneEntry
  <2>4. CASE req.op = "key" /\ UrlKey(p) /\ e.clientId = p.id
    <3>1. UrlId(p) = p.id
      BY <2>4 DEF UrlId, UrlKey
    <3>2. h \in Holders(clients, p.id)
      BY <1>2, <2>1, <2>4 DEF Holders
    <3> QED BY <1>2, <2>2, <2>4, <3>1, <3>2 DEF OneEntry
  <2>5. CASE req.op = "first" /\ Genuine(p, e.clientId)
    BY <1>2, <2>1, <2>5, FirstDisplaces DEF Genuine
  <2> QED BY <1>2, <2>2, <2>3, <2>4, <2>5 DEF Owner, Same, Nobody
<1>3. CASE Worker /\ f # req.fd /\ g # req.fd
  <2>1. /\ f \in DOMAIN clients /\ clients'[f] = clients[f]
        /\ g \in DOMAIN clients /\ clients'[g] = clients[g]
    BY <1>3, WorkerLeaves
  <2> QED BY <2>1 DEF OneEntry
<1> QED BY <1>1, <1>2, <1>3

LEMMA LoginAlone ==
    ASSUME HttpdOK, RegistryOK, GenuineOK, OneEntry, [Next]_vars, ~scene.workFails,
           req'.op \in {"key", "named"}, (UrlId(peer[sess[req.fd]]) # NoId)'
    PROVE  (Holders(clients, peer[sess[req.fd]].id) \subseteq {req.fd})'
<1> SUFFICES ASSUME NEW h \in DOMAIN clients', clients'[h].clientId = peer'[sess'[req'.fd]].id
             PROVE  h = req'.fd
  BY DEF Holders
<1>1. CASE ~Worker
  <2>1. /\ req' = req /\ sess'[req.fd] = sess[req.fd]
        /\ peer'[sess[req.fd]] = peer[sess[req.fd]]
    BY <1>1, OthersSession
  <2>2. h \in DOMAIN clients /\ clients[h].clientId = peer[sess[req.fd]].id
    BY <1>1, <2>1, OthersKeep DEF Kept, SameClient
  <2>3. UrlId(peer[sess[req.fd]]) # NoId
    BY <2>1 DEF UrlId
  <2> QED BY <2>1, <2>2, <2>3 DEF OneEntry, Holders
<1>2. CASE Worker
  <2>1. UNCHANGED <<sess, peer>> /\ req'.fd = req.fd
    BY <1>2, WorkerStep, WorkerRequest
  <2>2. UrlId(peer[sess[req.fd]]) # NoId
    BY <2>1 DEF UrlId
  <2>3. CASE req'.op = "key"
    BY <1>2, <2>1, <2>2, <2>3, WorkerRequest, FormerRemoved
  <2>4. CASE req'.op = "named" /\ h # req.fd
    <3>1. req.op = "key"
      BY <1>2, <2>4, WorkerRequest DEF CheckKey
    <3>2. h \in DOMAIN clients /\ clients'[h] = clients[h]
      BY <1>2, <2>4, WorkerLeaves
    <3> QED BY <2>1, <2>2, <2>4, <3>1, <3>2 DEF OneEntry, Holders
  <2> QED BY <2>1, <2>3, <2>4
<1> QED BY <1>1, <1>2

LEMMA OneEntryStep ==
    ASSUME HttpdOK, RegistryOK, GenuineOK, OneEntry, [Next]_vars
    PROVE  OneEntry'
<1> SUFFICES ASSUME ~scene.workFails
             PROVE  /\ \A f, g \in DOMAIN clients' :
                          clients'[f].clientId = clients'[g].clientId /\ f # g
                             => clients'[f].clientId = NoId
                    /\ req'.op \in {"key", "named"} /\ (UrlId(peer[sess[req.fd]]) # NoId)'
                          => (Holders(clients, peer[sess[req.fd]].id) \subseteq {req.fd})'
  BY SceneForGood DEF OneEntry
<1> QED BY EntriesApart, LoginAlone

LEMMA OneEntryInit == Init => OneEntry
BY DEF Init, OneEntry, NoReq

LEMMA ServerOneEntryInvariant == Spec => [](GenuineOK /\ OneEntry)
<1>1. HttpdOK /\ RegistryOK /\ GenuineOK /\ OneEntry /\ [Next]_vars => (GenuineOK /\ OneEntry)'
  BY GenuineStep, OneEntryStep
<1> QED BY <1>1, GenuineInit, OneEntryInit, ServerTypeInvariant, PTL DEF Spec

\* A client is authenticated under one socket at a time, as long as the queue takes work.
THEOREM ServerOneEntryPerClient == Spec => []OneEntryPerClient
<1>1. HttpdOK /\ RegistryOK /\ OneEntry => OneEntryPerClient
  <2> SUFFICES ASSUME HttpdOK, RegistryOK, OneEntry, ~scene.workFails, NEW id \in scene.ids
               PROVE  Cardinality({fd \in Holders(clients, id) : clients[fd].isAuth}) <= 1
    BY DEF OneEntryPerClient
  <2> DEFINE S == {fd \in Holders(clients, id) : clients[fd].isAuth}
  <2>1. id # NoId
    BY ServerAssumption DEF HttpdOK
  <2>2. \A f, g \in S : f = g
    BY <2>1 DEF OneEntry, Holders
  <2> HIDE DEF S
  <2>3. S = {} \/ \E f : S = {f}
    BY <2>2
  <2>4. Cardinality(S) = 0 \/ Cardinality(S) = 1
    BY <2>3, FS_EmptySet, FS_Singleton
  <2> QED BY <2>4 DEF S
<1> QED BY <1>1, ServerTypeInvariant, ServerOneEntryInvariant, PTL

-----------------------------------------------------------------------------
\* The room in the registry.

LEMMA FewerSockets ==
    ASSUME NEW S \in SUBSET Fds, NEW T \in SUBSET S
    PROVE  /\ Cardinality(S) \in Nat /\ Cardinality(T) \in Nat
           /\ Cardinality(T) <= Cardinality(S)
<1>1. IsFiniteSet(S)
  BY ServerAssumption, FS_Subset
<1> QED BY <1>1, FS_Subset, FS_CardinalityType

LEMMA OneMoreSocket ==
    ASSUME NEW S \in SUBSET Fds, NEW x
    PROVE  Cardinality(S \cup {x}) <= Cardinality(S) + 1
<1>1. IsFiniteSet(S)
  BY ServerAssumption, FS_Subset
<1>2. Cardinality(S) \in Nat
  BY <1>1, FS_CardinalityType
<1>3. Cardinality(S \cup {x}) = IF x \in S THEN Cardinality(S) ELSE Cardinality(S) + 1
  BY <1>1, FS_AddElement, Zenon
<1> QED BY <1>2, <1>3

\* The limit is looked at, and only a login by URL can make an entry after that.
LEMMA LimitStep ==
    ASSUME HttpdOK, RegistryOK, Room, ~scene.workFails, Worker, CheckLimit
    PROVE  /\ req'.op = "none" => Cardinality(DOMAIN clients') <= scene.maxClients + Excess
           /\ req'.op # "none" =>
                 Cardinality(DOMAIN clients' \cup {req.fd}) <= scene.maxClients + Excess
<1>1. req.op = "login" /\ running /\ req.fd \in Fds /\ DOMAIN clients \subseteq Fds
  BY WorkerStep DEF CheckLimit
<1>2. scene.maxClients \in Nat /\ Excess = IF scene.authType = "URL" THEN 1 ELSE 0
  BY ServerAssumption DEF HttpdOK, Excess
<1>3. Cardinality(DOMAIN clients) \in Nat
  BY <1>1, FewerSockets
<1>4. CASE Full
  <2>1. RemoveClients(clients, {req.fd}) /\ req' = NoReq
    BY <1>4 DEF CheckLimit, Done
  <2>2. DOMAIN clients' = DOMAIN clients \ {req.fd}
    BY <1>1, <2>1, RemovalDone, Zenon
  <2> QED BY <1>1, <2>1, <2>2 DEF Room, NoReq
<1>5. CASE ~Full /\ scene.authType # "URL"
  <2>1. UNCHANGED clients /\ req' = NoReq
    BY <1>5 DEF CheckLimit, Done
  <2> QED BY <1>2, <1>3, <1>5, <2>1 DEF Full, NoReq
<1>6. CASE ~Full /\ scene.authType = "URL"
  <2>1. UNCHANGED clients /\ req' = [req EXCEPT !.op = "url"]
    BY <1>6 DEF CheckLimit
  <2>2. req'.op # "none"
    BY <2>1 DEF HttpdOK, Requests
  <2>3. /\ Cardinality(DOMAIN clients \cup {req.fd}) <= Cardinality(DOMAIN clients) + 1
        /\ Cardinality(DOMAIN clients \cup {req.fd}) \in Nat
    BY <1>1, FewerSockets, OneMoreSocket
  <2> QED BY <1>2, <1>3, <1>6, <2>1, <2>2, <2>3 DEF Full
<1> QED BY <1>4, <1>5, <1>6

LEMMA RoomStep ==
    ASSUME HttpdOK, RegistryOK, Room, [Next]_vars
    PROVE  Room'
<1> DEFINE Limit == scene.maxClients + Excess
<1>1. scene' = scene /\ Limit' = Limit /\ Limit \in Nat
  BY SceneForGood, ServerAssumption DEF Excess, HttpdOK
<1> SUFFICES ASSUME ~scene.workFails
             PROVE  IF req'.op = "login" THEN Cardinality(DOMAIN clients' \ {req'.fd}) <= Limit
                    ELSE IF req'.op \in {"none", "get", "frame"}
                    THEN Cardinality(DOMAIN clients') <= Limit
                    ELSE Cardinality(DOMAIN clients' \cup {req'.fd}) <= Limit
  BY <1>1 DEF Room
<1>2. DOMAIN clients \subseteq Fds
  BY DEF RegistryOK, Registry
<1>3. req.op # "none" => req.fd \in Fds
  BY PeerKnown
<1>4. ASSUME NEW S \in SUBSET Fds, NEW T \in SUBSET S, Cardinality(S) <= Limit
      PROVE  Cardinality(T) <= Limit
  BY <1>1, <1>4, FewerSockets
<1>5. IF req.op = "login" THEN Cardinality(DOMAIN clients \ {req.fd}) <= Limit
      ELSE IF req.op \in {"none", "get", "frame"} THEN Cardinality(DOMAIN clients) <= Limit
      ELSE Cardinality(DOMAIN clients \cup {req.fd}) <= Limit
  BY DEF Room
<1>0. CASE Worker /\ CheckLimit
  <2>1. req'.op \notin {"login", "get", "frame"} /\ (req'.op # "none" => req'.fd = req.fd)
    BY <1>0, WorkerRequest DEF CheckLimit, RegisterClient
  <2> QED BY <1>0, <2>1, LimitStep
<1> HIDE DEF Limit
<1>6. CASE ~Worker
  <2>1. DOMAIN clients' \subseteq DOMAIN clients
    BY <1>6, OthersKeep DEF Kept
  <2>2. CASE req' = req
    <3>1. CASE req.op = "login"
      BY <1>2, <1>4, <1>5, <2>1, <2>2, <3>1
    <3>2. CASE req.op \in {"none", "get", "frame"}
      BY <1>2, <1>4, <1>5, <2>1, <2>2, <3>2
    <3>3. CASE req.op \notin {"login", "none", "get", "frame"}
      <4>1. DOMAIN clients \cup {req.fd} \in SUBSET Fds
        BY <1>2, <1>3, <3>3
      <4>2. DOMAIN clients' \cup {req.fd} \in SUBSET (DOMAIN clients \cup {req.fd})
        BY <2>1
      <4> QED BY <1>4, <1>5, <2>2, <3>3, <4>1, <4>2
    <3> QED BY <3>1, <3>2, <3>3
  <2>3. CASE Idle /\ req'.op \in {"get", "frame"}
    BY <1>2, <1>4, <1>5, <2>1, <2>3 DEF Idle, NoReq
  <2> QED BY <1>6, <2>2, <2>3, OthersRequest
<1>7. CASE Worker /\ ~CheckLimit
  <2>1. req.fd \in Fds /\ req.op # "none" /\ DOMAIN clients \cup {req.fd} \in SUBSET Fds
    BY <1>2, <1>3, <1>7, WorkerShape
  <2>2. DOMAIN clients' \subseteq DOMAIN clients \cup {req.fd}
    BY <1>7, WorkerStep DEF Asker
  <2>3. req.op # "login"
    BY <1>7, WorkerServes
  <2>4. CASE req.op = "get"
    <3>1. RegisterClient
      BY <1>7, <2>4, WorkerServes
    <3>2. req'.op = "login" /\ req'.fd = req.fd
      BY <3>1 DEF RegisterClient, HttpdOK, Requests
    <3>3. DOMAIN clients' \ {req.fd} \in SUBSET DOMAIN clients
      BY <2>2
    <3> QED BY <1>2, <1>4, <1>5, <2>4, <3>2, <3>3
  <2>5. CASE req.op = "frame"
    <3>1. ReceiveFrame
      BY <1>7, <2>5, WorkerServes
    <3>2. UNCHANGED clients /\ Cardinality(DOMAIN clients) <= Limit
      BY <1>5, <2>5, <3>1 DEF ReceiveFrame
    <3>3. \/ req'.op = "none"
          \/ /\ req'.op \notin {"login", "get", "frame"}
             /\ req.fd \in DOMAIN clients /\ req'.fd = req.fd
      BY <1>7, <2>5, <3>1 DEF ReceiveFrame, NoReq, HttpdOK, Requests
    <3>4. req.fd \in DOMAIN clients => DOMAIN clients \cup {req.fd} = DOMAIN clients
      OBVIOUS
    <3> QED BY <3>2, <3>3, <3>4
  <2>6. CASE req.op \notin {"get", "frame"}
    <3>1. req'.op \notin {"login", "get", "frame"} /\ (req'.op # "none" => req'.fd = req.fd)
      BY <1>7, <2>6, WorkerRequest DEF RegisterClient
    <3>2. Cardinality(DOMAIN clients \cup {req.fd}) <= Limit
      BY <1>5, <2>1, <2>3, <2>6
    <3>3. Cardinality(DOMAIN clients') <= Limit
      BY <1>4, <2>1, <2>2, <3>2
    <3>4. DOMAIN clients' \cup {req.fd} \in SUBSET (DOMAIN clients \cup {req.fd})
      BY <2>2
    <3>5. Cardinality(DOMAIN clients' \cup {req.fd}) <= Limit
      BY <1>4, <2>1, <3>2, <3>4
    <3> QED BY <3>1, <3>3, <3>5
  <2> QED BY <2>4, <2>5, <2>6
<1> QED BY <1>0, <1>6, <1>7

LEMMA RoomInit == Init => Room
BY ServerAssumption, FS_EmptySet DEF Init, Room, NoReq, Excess

\* Between requests the registry holds no more clients than it is configured for, but
\* one that a login by URL makes again.
THEOREM ServerRegistryBounded == Spec => []RegistryBounded
<1>1. HttpdOK /\ Room => RegistryBounded
  BY DEF HttpdOK, Room, RegistryBounded, Idle, NoReq
<1>2. HttpdOK /\ RegistryOK /\ Room /\ [Next]_vars => Room'
  BY RoomStep
<1> QED BY <1>1, <1>2, RoomInit, ServerTypeInvariant, PTL DEF Spec

-----------------------------------------------------------------------------
\* Whom a message is queued for.

LEMMA OwnNumberStep ==
    ASSUME HttpdOK, RegistryOK, OwnNumber, [Next]_vars
    PROVE  OwnNumber'
<1> SUFFICES ASSUME NEW fd \in DOMAIN clients' PROVE clients'[fd].socketNumber \in {0, fd}
  BY DEF OwnNumber
<1>1. CASE ~Worker
  BY <1>1, OthersKeep DEF Kept, SameClient, OwnNumber
<1>2. CASE Worker /\ fd # req.fd
  BY <1>2, WorkerLeaves DEF OwnNumber
<1>3. CASE Worker /\ fd = req.fd
  <2>1. Number(clients'[fd])
    BY <1>3, WorkerStep DEF Asker
  <2> QED BY <1>3, <2>1 DEF Number, Own, At, Blank, OwnNumber
<1> QED BY <1>1, <1>2, <1>3

LEMMA OwnNumberInit == Init => OwnNumber
BY DEF Init, OwnNumber

LEMMA ServerOwnNumber == Spec => []OwnNumber
<1>1. HttpdOK /\ RegistryOK /\ OwnNumber /\ [Next]_vars => OwnNumber'
  BY OwnNumberStep
<1> QED BY <1>1, OwnNumberInit, ServerTypeInvariant, PTL DEF Spec

\* Only a message makes the queue longer by anything but closings.
LEMMA MoreClosings ==
    ASSUME work \in Seq(Work), NEW closings \in Seq(Closings), work' = work \o closings,
           NEW i \in DOMAIN work' \ DOMAIN work
    PROVE  work'[i].op = "close"
<1>1. closings \in Seq(Work)
  BY DEF Closings
<1>2. /\ DOMAIN work' = 1 .. Len(work) + Len(closings) /\ DOMAIN work = 1 .. Len(work)
      /\ Len(work) \in Nat /\ Len(closings) \in Nat /\ DOMAIN closings = 1 .. Len(closings)
      /\ \A j \in 1 .. Len(work) + Len(closings) :
            work'[j] = IF j <= Len(work) THEN work[j] ELSE closings[j - Len(work)]
  BY <1>1, ConcatProperties
<1>3. i - Len(work) \in DOMAIN closings /\ work'[i] = closings[i - Len(work)]
  BY <1>2
<1> QED BY <1>3 DEF Closings

LEMMA QueuedForClient ==
    ASSUME HttpdOK, RegistryOK, GenuineOK, OwnNumber, [Next]_vars,
           NEW i \in DOMAIN work' \ DOMAIN work,
           work'[i].op = "text", work'[i].fd # 0, Seen(work'[i].fd)
    PROVE  Genuine(peer[sess[work'[i].fd]], work'[i].to)
<1> USE DEF RegistryOK
<1>1. CASE Worker \/ RemoveDoomed
  <2>1. \E closings \in Seq(Closings) : work' = work \o closings
    BY <1>1, WorkerAsker, Removal DEF RemoveDoomed, Registry
  <2> QED BY <2>1, MoreClosings
<1>2. ASSUME NEW id \in scene.ids, SendMessage(id)
      PROVE  Genuine(peer[sess[work'[i].fd]], work'[i].to)
  <2> DEFINE holder == Lowest(Holders(clients, id))
  <2>1. holder \in DOMAIN clients /\ clients[holder].clientId = id
    <3>1. holder \in Holders(clients, id)
      BY <1>2, LowestIsMember DEF SendMessage, Holders, Registry
    <3> QED BY <3>1 DEF Holders
  <2> DEFINE w == [op |-> "text", to |-> id, fd |-> clients[holder].socketNumber]
  <2>2. work' = Append(work, w)
    BY <1>2 DEF SendMessage
  <2>3. w.fd = clients[holder].socketNumber /\ w.to = id
    OBVIOUS
  <2> HIDE DEF holder, w
  <2>4. work'[i] = w
    BY <2>2, AppendProperties
  <2>5. work'[i].fd = holder
    BY <2>1, <2>3, <2>4 DEF OwnNumber
  <2>6. id # NoId
    BY <1>2, ServerAssumption DEF HttpdOK
  <2> QED BY <2>1, <2>3, <2>4, <2>5, <2>6 DEF GenuineOK, EntriesGenuine
<1>3. CASE RunWork
  <2>1. DOMAIN work' \subseteq DOMAIN work
    BY <1>3, HeadTailProperties DEF RunWork
  <2> QED BY <2>1
<1>4. CASE Disconnect
  BY <1>4 DEF Disconnect
<1>5. Httpd \/ SendPing \/ Connect \/ UNCHANGED vars => UNCHANGED work
  BY DEF Httpd, Accept, Handshake, PeerLeaves, DataFrame, SendPing, Connect, vars
<1> QED BY <1>1, <1>2, <1>3, <1>4, <1>5 DEF Next, Timer

\* A message for a client is queued for a socket whose session has shown that client's
\* key, if the registry has noticed the session at all.
THEOREM ServerAddressesClient == Spec => AddressedToClient
<1> DEFINE Addressed ==
      \A i \in DOMAIN work' \ DOMAIN work :
          LET w == work'[i] IN
          w.op = "text" /\ w.fd # 0 /\ Seen(w.fd) => Genuine(peer[sess[w.fd]], w.to)
<1>1. HttpdOK /\ RegistryOK /\ GenuineOK /\ OwnNumber /\ [Next]_vars => Addressed
  BY QueuedForClient
<1>2. Spec => [](GenuineOK /\ OneEntry) /\ [](HttpdOK /\ RegistryOK) /\ []OwnNumber
  BY ServerOneEntryInvariant, ServerTypeInvariant, ServerOwnNumber
<1>3. Spec => [][Addressed]_vars
  BY <1>1, <1>2, PTL DEF Spec
<1> QED BY <1>3 DEF AddressedToClient

\* The registry, the sessions, the request and the queue agree with one another as IInv
\* says, in every state.
THEOREM ServerInvariant == Spec => []IInv
<1>1. HttpdOK /\ RegistryOK /\ GenuineOK /\ OneEntry /\ Room /\ OwnNumber /\ TypeOK => IInv
  BY DEF HttpdOK, GenuineOK, LoginFresh, IInv, RequestKnown
<1>2. HttpdOK /\ RegistryOK /\ Room /\ [Next]_vars => Room'
  BY RoomStep
<1> QED
  BY <1>1, <1>2, RoomInit, ServerTypeCorrect, ServerTypeInvariant, ServerOneEntryInvariant,
     ServerOwnNumber, PTL DEF Spec

-----------------------------------------------------------------------------
\* Who is turned away.

LEMMA TurnedAwayShape ==
    ASSUME [Next]_vars, TurnedAway
    PROVE  /\ Worker /\ req.fd \in DOMAIN clients /\ req.fd \notin DOMAIN clients'
           /\ CheckKey \/ (FirstMessage /\ req.frame = "auth")
<1>1. /\ req.op = "key" \/ (req.op = "first" /\ req.frame = "auth")
      /\ req' # req /\ ~Idle /\ req.fd \in DOMAIN clients \ DOMAIN clients'
  BY DEF TurnedAway, Serves
<1>2. Worker
  BY <1>1, OthersRequest
<1> QED BY <1>1, <1>2, WorkerServes

LEMMA RefusedByMessage ==
    ASSUME HttpdOK, RegistryOK, Worker, FirstMessage, req.frame = "auth",
           req.fd \in DOMAIN clients, req.fd \notin DOMAIN clients'
    PROVE  /\ ~Available(peer[sess[req.fd]])
           /\ DOMAIN clients \ {req.fd} \subseteq DOMAIN clients'
<1> DEFINE fd == req.fd
           p  == peer[sess[req.fd]]
<1>1. fd \in Fds /\ DOMAIN clients \subseteq Fds
  BY WorkerStep
<1> HIDE DEF fd, p
<1>2. \/ Available(p) /\ \E e : RemoveClients(Put(clients, fd, e), Displaced(p.id, fd))
      \/ ~Available(p) /\ \E e : RemoveClients(Put(clients, fd, e), {fd})
  BY DEF FirstMessage, Refused, fd, p
<1>3. ASSUME NEW e, NEW fds, RemoveClients(Put(clients, fd, e), fds)
      PROVE  (DOMAIN clients \cup {fd}) \ fds \subseteq DOMAIN clients'
  <2>1. DOMAIN Put(clients, fd, e) = DOMAIN clients \cup {fd}
    BY DEF Put
  <2>2. DOMAIN Put(clients, fd, e) \subseteq Fds
    BY <1>1, <2>1
  <2> QED BY <1>3, <2>1, <2>2, RemovalSpares, Zenon
<1>4. fd \notin Displaced(p.id, fd)
  BY DEF Displaced
<1> QED BY <1>2, <1>3, <1>4 DEF fd, p

LEMMA RefusedByUrl ==
    ASSUME CheckKey, req.fd \notin DOMAIN clients'
    PROVE  ~UrlKey(peer[sess[req.fd]])
BY DEF CheckKey, Put

\* A client that gives its own key, in the form that is read, is not turned away for it.
THEOREM ServerAcceptsGoodCredentials == Spec => GoodCredentialsAccepted
<1>1. HttpdOK /\ RegistryOK /\ GenuineOK /\ [Next]_vars
        => (TurnedAway => ~GivesKey(peer[sess[req.fd]]))
  <2> SUFFICES ASSUME HttpdOK, RegistryOK, GenuineOK, [Next]_vars, TurnedAway,
                      GivesKey(peer[sess[req.fd]])
               PROVE  FALSE
    OBVIOUS
  <2>1. Worker /\ peer[sess[req.fd]].id \in scene.ids
    BY TurnedAwayShape, WorkerStep
  <2>2. Available(peer[sess[req.fd]])
    BY <2>1 DEF Available, GivesKey
  <2>3. CASE CheckKey
    <3>1. scene.authType = "URL"
      BY <2>3 DEF CheckKey, GenuineOK, LoginFresh, LoggingIn
    <3> QED BY <2>2, <2>3, <3>1, TurnedAwayShape, RefusedByUrl DEF GivesKey, UrlKey
  <2>4. CASE FirstMessage /\ req.frame = "auth"
    BY <2>1, <2>2, <2>4, TurnedAwayShape, RefusedByMessage
  <2> QED BY <2>3, <2>4, TurnedAwayShape
<1>2. Spec => [](GenuineOK /\ OneEntry) /\ [](HttpdOK /\ RegistryOK)
  BY ServerOneEntryInvariant, ServerTypeInvariant
<1>3. Spec => [][TurnedAway => ~GivesKey(peer[sess[req.fd]])]_vars
  BY <1>1, <1>2, PTL DEF Spec
<1> QED BY <1>3 DEF GoodCredentialsAccepted

\* A login by message that is refused costs no other client its entry.
THEOREM ServerRefusalIsPrivate == Spec => RefusalIsPrivate
<1>1. HttpdOK /\ RegistryOK /\ GenuineOK /\ [Next]_vars
        => (TurnedAway /\ scene.authType # "URL"
              => DOMAIN clients \ DOMAIN clients' = {req.fd})
  <2> SUFFICES ASSUME HttpdOK, RegistryOK, GenuineOK, [Next]_vars, TurnedAway,
                      scene.authType # "URL"
               PROVE  DOMAIN clients \ DOMAIN clients' = {req.fd}
    OBVIOUS
  <2>1. ~CheckKey
    BY DEF CheckKey, GenuineOK, LoginFresh, LoggingIn
  <2> QED BY <2>1, TurnedAwayShape, RefusedByMessage
<1>2. Spec => [](GenuineOK /\ OneEntry) /\ [](HttpdOK /\ RegistryOK)
  BY ServerOneEntryInvariant, ServerTypeInvariant
<1>3. Spec => [][TurnedAway /\ scene.authType # "URL"
                   => DOMAIN clients \ DOMAIN clients' = {req.fd}]_vars
  BY <1>1, <1>2, PTL DEF Spec
<1> QED BY <1>3 DEF RefusalIsPrivate

-----------------------------------------------------------------------------
\* What a request does to the entries of others.

\* What it may take: its own socket's entry, and those of the client its sender names.
ItsOwn(f) == f = req.fd \/ clients[f].clientId = peer[sess[req.fd]].id
TakesItsOwn == \A f \in DOMAIN clients \ DOMAIN clients' : ItsOwn(f)

LEMMA RemovalOfItsOwn ==
    ASSUME NEW c, NEW fds, DOMAIN c \subseteq Fds, DOMAIN clients \subseteq DOMAIN c,
           \A f \in fds \cap DOMAIN clients : ItsOwn(f), RemoveClients(c, fds)
    PROVE  TakesItsOwn
<1>1. DOMAIN c \ fds \subseteq DOMAIN clients'
  BY RemovalSpares
<1> QED BY <1>1 DEF TakesItsOwn

LEMMA WorkerTakesItsOwn ==
    ASSUME HttpdOK, RegistryOK, OwnNumber, Worker
    PROVE  TakesItsOwn
<1> DEFINE fd == req.fd
           p  == peer[sess[req.fd]]
<1>1. fd \in Fds /\ DOMAIN clients \subseteq Fds
  BY WorkerStep
<1>2. \A e : /\ DOMAIN clients \subseteq DOMAIN Put(clients, fd, e)
             /\ DOMAIN Put(clients, fd, e) \subseteq Fds
  BY <1>1 DEF Put
<1>3. \A f \in {fd} : ItsOwn(f)
  BY DEF ItsOwn
<1>4. UNCHANGED clients \/ (\E e : clients' = Put(clients, fd, e)) => TakesItsOwn
  BY <1>2 DEF TakesItsOwn
<1> HIDE DEF fd, p
<1>5. ASSUME NEW fds, \A f \in fds \cap DOMAIN clients : ItsOwn(f),
             \/ RemoveClients(clients, fds)
             \/ \E e : RemoveClients(Put(clients, fd, e), fds)
      PROVE  TakesItsOwn
  BY <1>1, <1>2, <1>5, RemovalOfItsOwn
<1>10. CASE RegisterClient \/ MarkAuthenticated \/ MemberFrame
  BY <1>4, <1>10 DEF RegisterClient, MarkAuthenticated, MemberFrame, fd
<1>11. CASE ReceiveFrame \/ SortFrame \/ LogClient
  BY <1>4, <1>11 DEF ReceiveFrame, SortFrame, LogClient, Touch, fd
<1>12. CASE CheckLimit \/ StrangerFrame
  <2>1. RemoveClients(clients, {fd}) \/ UNCHANGED clients
    BY <1>12 DEF CheckLimit, StrangerFrame, fd
  <2> QED BY <1>3, <1>4, <1>5, <2>1
<1>13. CASE RemoveFormer
  <2>1. RemoveClients(clients, Former(p))
    BY <1>13 DEF RemoveFormer, fd, p
  <2>2. \A f \in Former(p) : ItsOwn(f)
    <3> SUFFICES ASSUME UrlId(p) # NoId, Holders(clients, UrlId(p)) # {}
                 PROVE  ItsOwn(Lowest(Holders(clients, UrlId(p))))
      BY DEF Former
    <3>1. UrlId(p) = p.id
      BY DEF UrlId
    <3>2. Lowest(Holders(clients, p.id)) \in Holders(clients, p.id)
      BY <1>1, <3>1, LowestIsMember DEF Holders
    <3> QED BY <3>1, <3>2 DEF Holders, ItsOwn, p
  <2> QED BY <1>5, <2>1, <2>2
<1>14. CASE CheckKey
  <2>1. RemoveClients(clients, {fd}) \/ \E e : clients' = Put(clients, fd, e)
    BY <1>14 DEF CheckKey, fd
  <2> QED BY <1>3, <1>4, <1>5, <2>1
<1>15. CASE Command
  <2> DEFINE pong == [At(clients, fd) EXCEPT !.pingRetryCount = @ - 1]
             fds == IF pong.pingRetryCount < 0 THEN {pong.socketNumber} ELSE {}
  <2>1. \/ \E e : clients' = Put(clients, fd, e)
        \/ \E e : RemoveClients(Put(clients, fd, e), {fd})
        \/ \E e : RemoveClients(Put(clients, fd, e), fds)
    BY <1>15 DEF Command, Touch, fd
  <2>2. pong.socketNumber \in {0, fd}
    <3>1. At(clients, fd) \in ClientAuth /\ At(clients, fd).socketNumber \in {0, fd}
      BY BlankEntries DEF RegistryOK, OwnNumber, At, Blank
    <3> QED BY <3>1 DEF ClientAuth
  <2> HIDE DEF pong
  <2>3. \A f \in fds \cap DOMAIN clients : ItsOwn(f)
    BY <1>1, <2>2, ServerAssumption DEF ItsOwn, fd
  <2> HIDE DEF fds
  <2> QED BY <1>3, <1>4, <1>5, <2>1, <2>3
<1>16. CASE FirstMessage
  <2>1. \/ \E e : RemoveClients(Put(clients, fd, e), Displaced(p.id, fd))
        \/ \E e : RemoveClients(Put(clients, fd, e), {fd})
    BY <1>16 DEF FirstMessage, Refused, Touch, fd, p
  <2>2. \A f \in Displaced(p.id, fd) : ItsOwn(f)
    BY DEF Displaced, Holders, ItsOwn, p
  <2> QED BY <1>3, <1>5, <2>1, <2>2
<1> QED
  BY <1>10, <1>11, <1>12, <1>13, <1>14, <1>15, <1>16 DEF Worker, Login

\* A request that is served leaves the entries of all other sockets as they are, but
\* that those of the client its sender names may go.
THEOREM ServerRequestIsPrivate == Spec => RequestIsPrivate
<1> DEFINE Private == Serves =>
      \A fd \in (DOMAIN clients \cup DOMAIN clients') \ {req.fd} :
          \/ fd \in DOMAIN clients \cap DOMAIN clients' /\ clients'[fd] = clients[fd]
          \/ /\ fd \in DOMAIN clients \ DOMAIN clients'
             /\ clients[fd].clientId = peer[sess[req.fd]].id
<1>1. HttpdOK /\ RegistryOK /\ OwnNumber /\ [Next]_vars => Private
  <2> SUFFICES ASSUME HttpdOK, RegistryOK, OwnNumber, [Next]_vars, Serves PROVE Private
    OBVIOUS
  <2>1. Worker
    BY OthersRequest DEF Serves
  <2>2. /\ DOMAIN clients' \subseteq DOMAIN clients \cup {req.fd}
        /\ \A f \in DOMAIN clients' : f # req.fd => clients'[f] = clients[f]
    BY <2>1, WorkerStep DEF Asker
  <2> QED BY <2>1, <2>2, WorkerTakesItsOwn DEF TakesItsOwn, ItsOwn
<1>2. Spec => [][Private]_vars
  BY <1>1, ServerTypeInvariant, ServerOwnNumber, PTL DEF Spec
<1> QED BY <1>2 DEF RequestIsPrivate
=============================================================================
