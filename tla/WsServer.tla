------------------------------ MODULE WsServer ------------------------------
(***************************************************************************)
(* SigmaWsServer: the registry of clients and the four tasks that use it   *)
(* without a lock.                                                         *)
(*                                                                         *)
(*   - the httpd task accepts sockets, passes each request to onWsEvent    *)
(*     and, between requests, runs the work queued for it (external);      *)
(*   - the worker, processData, handles one request while the httpd task   *)
(*     waits for it (WsRequestGate);                                       *)
(*   - the timer task runs sendPing every pingInterval;                    *)
(*   - the connection's event loop runs protocolEventHandler, and the      *)
(*     manager's event loop runs Disconnect, which restarts the server.    *)
(*                                                                         *)
(* One step is one visit to the registry: between its steps a task keeps   *)
(* what it has read.  Visits are one step where nobody can tell: only the  *)
(* worker makes entries, so between two of its visits an entry can at most *)
(* go, or lose a retry.  A socket number names whatever session has it     *)
(* now, so every session has a number of its own here, which the code does *)
(* not have.                                                               *)
(***************************************************************************)
EXTENDS Integers, Sequences, FiniteSets

CONSTANTS
    Scenes,          \* the configurations and surroundings of the server looked at, records:
                     \*   authType    config.authType
                     \*   ids         allowableClients
                     \*   maxClients  config.maxClients, also max_open_sockets
                     \*   peers       who may connect
                     \*   workFails   httpd_queue_work may fail
                     \*   maxWork     bound: work left waiting when more messages or pings come
                     \*   maxRestarts bound: restarts by network events
    NoId,            \* the clientId of an entry that has none ("")
    Fds,             \* socket numbers
    PingRetryCount,  \* config.pingRetryCount
    MaxSessions      \* bound: sessions accepted

ASSUME ServerAssumption ==
    /\ \A s \in Scenes :
          /\ s.authType \in {"NONE", "URL", "FIRST_MESSAGE", "ALL_MESSAGES"}
          /\ NoId \notin s.ids
          /\ s.peers \subseteq [id : s.ids, good : BOOLEAN,
                             ping : {"PING_NO", "PING_TEXT", "PING_BINARY"},
                             form : {"idThenKey", "documented", "sigmaClient"}]
          /\ s.workFails \in BOOLEAN
          /\ s.maxClients \in Nat /\ s.maxWork \in Nat /\ s.maxRestarts \in Nat
    /\ Fds \subseteq Nat \ {0} /\ IsFiniteSet(Fds)  \* lwIP's are a few, from an offset on
    /\ PingRetryCount \in Nat /\ MaxSessions \in Nat

Sessions == 1 .. MaxSessions

VARIABLES
    scene,     \* one of Scenes, for good
    running,   \* httpd runs; between stop and start, "server" names one that is gone
    sess,      \* per socket, the session that has it, 0 for none
    peer,      \* who is behind each session accepted so far
    hello,     \* sessions whose handshake the handler has seen
    clients,   \* SigmaWsServer::clients, socketNumber -> ClientAuth
    req,       \* the request the worker processes
    work,      \* what the httpd task still has to run
    doomed,    \* sendPing's clientsToRemove
    restarts   \* restarts so far

httpdVars == <<scene, running, sess, peer, hello>>
vars == <<httpdVars, clients, req, work, doomed, restarts>>

\* Who is behind a session: whom it says it is, whether it has that client's
\* key, the ping type it asks for and the form of its URL.
Peers == scene.peers
\* What a client sends: its credentials, a command, or a message, which for the
\* registry is the same as a PONG or a text that means nothing.
\* A binary frame is only logged.
Frames == {"auth", "ping", "close", "sigma", "binary"}

NoReq == [op |-> "none", fd |-> 0, frame |-> "none"]
Idle  == req = NoReq

ClientAuth == [clientId : scene.ids \cup {NoId}, socketNumber : Fds \cup {0}, isAuth : BOOLEAN,
               pingType : {"PING_NO", "PING_TEXT", "PING_BINARY"}, pingRetryCount : Int]
Work == [op : {"close", "text"}, fd : Fds \cup {0}, to : scene.ids \cup {NoId}]

TypeOK ==
    /\ scene \in Scenes /\ running \in BOOLEAN
    /\ sess \in [Fds -> Sessions \cup {0}]
    /\ peer \in Seq(Peers) /\ Len(peer) <= MaxSessions
    /\ hello \subseteq Sessions
    /\ DOMAIN clients \subseteq Fds
    /\ \A fd \in DOMAIN clients : clients[fd] \in ClientAuth
    /\ req \in [op : {"none", "get", "login", "url", "key", "named", "frame", "text", "binary",
                      "member", "command", "first", "log", "stranger", "stuck"},
                fd : Fds \cup {0}, frame : Frames \cup {"none"}]
    /\ work \in Seq(Work)
    /\ doomed \in Seq(Fds)
    /\ restarts \in 0 .. scene.maxRestarts

Init ==
    /\ scene \in Scenes /\ running = TRUE
    /\ sess = [fd \in Fds |-> 0] /\ peer = <<>> /\ hello = {}
    /\ clients = <<>> /\ req = NoReq /\ work = <<>> /\ doomed = <<>>
    /\ restarts = 0

-----------------------------------------------------------------------------
\* std::map<int32_t, ClientAuth>

Put(c, fd, entry) == [f \in DOMAIN c \cup {fd} |-> IF f = fd THEN entry ELSE c[f]]
Erase(c, fds) == [f \in DOMAIN c \ fds |-> c[f]]

\* Mutant: the socket number is left uninitialised.
MutUnsetSocket == [clientId |-> NoId, socketNumber |-> -1, isAuth |-> FALSE,
                   pingType |-> "PING_NO", pingRetryCount |-> 3]

\* What operator[] makes of a key that is not there: the struct's defaults.
Blank == [clientId |-> NoId, socketNumber |-> 0, isAuth |-> FALSE, pingType |-> "PING_NO",
          pingRetryCount |-> 3]
At(c, fd) == IF fd \in DOMAIN c THEN c[fd] ELSE Blank

\* operator[] of a key that is read: the entry is there afterwards.
Touch(c, fd) == Put(c, fd, At(c, fd))

\* isClientConnected: the first socket, in the map's order, of a client.
Holders(c, id) == {fd \in DOMAIN c : c[fd].clientId = id}
Lowest(fds) == CHOOSE fd \in fds : \A f \in fds : fd <= f

\* std::map is gone through in the order of its keys.
InMapOrder(fds) ==
    {s \in [1 .. Cardinality(fds) -> fds] : \A i, j \in DOMAIN s : i < j => s[i] < s[j]}

\* removeClient of each of "fds" that is in the map c. A CLOSE frame and the closing
\* of the session are queued for the httpd task - by number, whoever has it by then -
\* and the entry goes; when the queue refuses, the entry stays and so does its session.
\* (A server that has been stopped refuses: its control socket is closed.)
RemoveClients(c, fds) ==
    \E failed \in SUBSET (fds \cap DOMAIN c) :
        /\ failed # {} => scene.workFails \/ ~running
        /\ running \/ failed = fds \cap DOMAIN c
        /\ LET gone == (fds \cap DOMAIN c) \ failed IN
           /\ clients' = Erase(c, gone)
           /\ \E order \in InMapOrder(gone) :
                 work' = work \o [i \in DOMAIN order |->
                                     [op |-> "close", fd |-> order[i], to |-> NoId]]

-----------------------------------------------------------------------------
\* The httpd task (external). It does one thing at a time, and nothing while
\* onWsEvent waits for the worker.

Accept(fd, p) ==
    /\ Idle /\ running /\ sess[fd] = 0 /\ Len(peer) < MaxSessions
    /\ Cardinality({f \in Fds : sess[f] # 0}) < scene.maxClients
    /\ peer' = Append(peer, p)
    /\ sess' = [sess EXCEPT ![fd] = Len(peer) + 1]
    /\ UNCHANGED <<scene, running, hello, clients, req, work, doomed, restarts>>

\* The websocket handshake, a GET.
Handshake(fd) ==
    /\ Idle /\ sess[fd] # 0 /\ sess[fd] \notin hello
    /\ hello' = hello \cup {sess[fd]}
    /\ req' = [NoReq EXCEPT !.op = "get", !.fd = fd]
    /\ UNCHANGED <<scene, running, sess, peer, clients, work, doomed, restarts>>

\* A frame. Control frames do not reach the handler, since ws_uri leaves
\* handle_ws_control_frames false.
DataFrame(fd, f) ==
    /\ Idle /\ sess[fd] \in hello
    /\ req' = [op |-> "frame", fd |-> fd, frame |-> f]
    /\ UNCHANGED <<httpdVars, clients, work, doomed, restarts>>

\* The peer goes away. The registry is not told.
PeerLeaves(fd) ==
    /\ Idle /\ sess[fd] # 0
    /\ sess' = [sess EXCEPT ![fd] = 0]
    /\ UNCHANGED <<scene, running, peer, hello, clients, req, work, doomed, restarts>>

\* Queued work names a socket: it concerns the session that has it by now.
RunWork ==
    /\ Idle /\ work # <<>>
    /\ sess' = IF Head(work).op = "close" THEN [sess EXCEPT ![Head(work).fd] = 0] ELSE sess
    /\ work' = Tail(work)
    /\ UNCHANGED <<scene, running, peer, hello, clients, req, doomed, restarts>>

-----------------------------------------------------------------------------
\* processData, the worker.

Done == req' = NoReq

\* Mutant: an entry that the socket number still has is kept (map::insert).
MutKeptEntry(fd) ==
    IF fd \in DOMAIN clients THEN clients[fd]
    ELSE [Blank EXCEPT !.socketNumber = fd, !.pingRetryCount = PingRetryCount]

FreshEntry(fd) == [Blank EXCEPT !.socketNumber = fd, !.pingRetryCount = PingRetryCount]

\* isClientAvailable: the client is known and the key is its own.
Available(p) == p.id \in scene.ids /\ p.good

\* A GET makes a fresh entry, in the place of any the socket number still has.
RegisterClient ==
    /\ req.op = "get"
    /\ clients' = Put(clients, req.fd, FreshEntry(req.fd))
    /\ req' = [req EXCEPT !.op = "login"]
    /\ UNCHANGED <<httpdVars, work, doomed, restarts>>

\* What the parser of the URL finds: clientId up to the first '&', the key from
\* "apiKey=" on. The form of the header's comment has no "apiKey=", and of the one
\* SigmaWsClient sends, key first, it makes a name that no client has.
UrlId(p)  == IF p.form = "sigmaClient" THEN NoId ELSE p.id
UrlKey(p) == p.form = "idThenKey" /\ Available(p)

\* Mutant: the limit is off by one.
MutOneMore == Cardinality(DOMAIN clients) > scene.maxClients + 1

Full == Cardinality(DOMAIN clients) > scene.maxClients

\* The rest of the GET: the limit; then, by URL, the client's former entry goes, ...
CheckLimit ==
    /\ req.op = "login"
    /\ \/ Full /\ RemoveClients(clients, {req.fd}) /\ Done
       \/ ~Full /\ scene.authType # "URL" /\ Done /\ UNCHANGED <<clients, work>>
       \/ /\ ~Full /\ scene.authType = "URL"
          /\ req' = [req EXCEPT !.op = "url"]
          /\ UNCHANGED <<clients, work>>
    /\ UNCHANGED <<httpdVars, doomed, restarts>>

\* Mutant: the former entry is left alone.
MutFormerStays(p) == {}

Former(p) == IF UrlId(p) = NoId \/ Holders(clients, UrlId(p)) = {} THEN {}
             ELSE {Lowest(Holders(clients, UrlId(p)))}

RemoveFormer ==
    /\ req.op = "url"
    /\ RemoveClients(clients, Former(peer[sess[req.fd]]))
    /\ req' = [req EXCEPT !.op = "key"]
    /\ UNCHANGED <<httpdVars, doomed, restarts>>

\* ... before the key is looked at. Who has shown it is written to the entry in two
\* visits, each of which makes the entry again if the timer has erased it: between
\* them that leaves an authenticated entry of no client.
CheckKey ==
    /\ req.op = "key"
    /\ LET fd == req.fd
           p  == peer[sess[fd]]
       IN  \/ /\ UrlKey(p)
              /\ clients' = Put(clients, fd, [At(clients, fd) EXCEPT !.clientId = UrlId(p)])
              /\ req' = [req EXCEPT !.op = "named"]
              /\ UNCHANGED work
           \/ ~UrlKey(p) /\ RemoveClients(clients, {fd}) /\ Done
    /\ UNCHANGED <<httpdVars, doomed, restarts>>

MarkAuthenticated ==
    /\ req.op = "named"
    /\ clients' = Put(clients, req.fd, [At(clients, req.fd) EXCEPT !.isAuth = TRUE])
    /\ Done
    /\ UNCHANGED <<httpdVars, work, doomed, restarts>>

\* A frame, of a socket that is found in the registry (twice, for a text, but what goes
\* between the two might as well have gone before) ...
ReceiveFrame ==
    /\ req.op = "frame"
    /\ req' = IF req.fd \notin DOMAIN clients THEN NoReq
              ELSE [req EXCEPT !.op = IF req.frame = "binary" THEN "binary" ELSE "text"]
    /\ UNCHANGED <<httpdVars, clients, work, doomed, restarts>>

\* ... goes the way its entry decides, which operator[] reads and, if the timer has
\* erased it since, makes again. (AUTH_TYPE_ALL_MESSAGES has a branch of its own for a
\* client that is authenticated; none ever is.)
SortFrame ==
    /\ req.op = "text"
    /\ clients' = Touch(clients, req.fd)
    /\ req' = [req EXCEPT !.op =
                  IF At(clients, req.fd).isAuth \/ scene.authType = "NONE" THEN "member"
                  ELSE IF scene.authType = "FIRST_MESSAGE" THEN "first" ELSE "stranger"]
    /\ UNCHANGED <<httpdVars, work, doomed, restarts>>

\* handleTextPackage for a client that may speak: its retries are reset, ...
MemberFrame ==
    /\ req.op = "member"
    /\ clients' = Put(clients, req.fd,
                      [At(clients, req.fd) EXCEPT !.pingRetryCount = PingRetryCount])
    /\ req' = IF req.frame \in {"ping", "close"} THEN [req EXCEPT !.op = "command"] ELSE NoReq
    /\ UNCHANGED <<httpdVars, work, doomed, restarts>>

\* ... then PING is answered (sendPongToClient, which takes one retry and for
\* PING_BINARY calls itself for ever), CLOSE closes.
Command ==
    /\ req.op = "command"
    /\ LET fd   == req.fd
           pong == [At(clients, fd) EXCEPT !.pingRetryCount = @ - 1]
       IN  \/ /\ req.frame = "close"
              /\ RemoveClients(Touch(clients, fd), {fd})
              /\ Done
           \/ /\ req.frame = "ping" /\ pong.pingType # "PING_BINARY"
              /\ RemoveClients(Put(clients, fd, pong),
                        IF pong.pingRetryCount < 0 THEN {pong.socketNumber} ELSE {})
              /\ Done
           \/ /\ req.frame = "ping" /\ pong.pingType = "PING_BINARY"
              /\ clients' = Touch(clients, fd)
              /\ req' = [req EXCEPT !.op = "stuck"]
              /\ UNCHANGED work
    /\ UNCHANGED <<httpdVars, doomed, restarts>>

\* Mutant: the former entries are left alone.
MutNoneDisplaced(id, fd) == {}

\* Mutant: whose the entries are is not compared.
MutAllDisplaced(id, fd) == DOMAIN clients \ {fd}

\* Mutant: the former entries are looked for after the new one is entered.
MutSelfDisplaced(id, fd) == Holders(clients, id) \cup {fd}

\* The entries that go when a client has shown its key on socket fd ...
Displaced(id, fd) == Holders(clients, id) \ {fd}

\* Mutant: the former entries go before the key is looked at.
MutRefusedDisplaces(id, fd) == {fd} \cup Holders(clients, id)

\* ... and when it has not.
Refused(id, fd) == {fd}

\* handleTextPackage and clientAuthRequest for a first message, through a pointer to the
\* entry, which operator[] makes again if it has gone. What is written through it after
\* that, to an entry that has gone, is lost, as if the entry had gone afterwards.
FirstMessage ==
    /\ req.op = "first"
    /\ LET fd    == req.fd
           p     == peer[sess[fd]]
           asked == [At(clients, fd) EXCEPT !.pingType = p.ping]
       IN  \/ /\ req.frame = "auth" /\ Available(p)
              /\ RemoveClients(
                    Put(clients, fd, [asked EXCEPT !.clientId = p.id, !.isAuth = TRUE]),
                    Displaced(p.id, fd))
              /\ req' = [req EXCEPT !.op = "log"]
           \/ /\ ~(req.frame = "auth" /\ Available(p))
              /\ RemoveClients(IF req.frame = "auth" THEN Put(clients, fd, asked)
                               ELSE Touch(clients, fd), Refused(p.id, fd))
              /\ Done
    /\ UNCHANGED <<httpdVars, doomed, restarts>>

\* The log names the client of a binary frame, and one that has just been let in.
LogClient ==
    /\ req.op \in {"binary", "log"}
    /\ clients' = Touch(clients, req.fd)
    /\ Done
    /\ UNCHANGED <<httpdVars, work, doomed, restarts>>

StrangerFrame ==
    /\ req.op = "stranger"
    /\ RemoveClients(clients, {req.fd})
    /\ Done
    /\ UNCHANGED <<httpdVars, doomed, restarts>>

-----------------------------------------------------------------------------
\* sendPing, on the timer task: one pass over the registry takes a retry from
\* every client, pinged or not, and collects those that have none left ...

\* Mutant: only clients that are pinged lose a retry.
MutPingedOnly(c) ==
    IF c.pingType = "PING_NO" THEN c ELSE [c EXCEPT !.pingRetryCount = IF @ < 0 THEN @ ELSE @ - 1]

Pinged(c) == [c EXCEPT !.pingRetryCount = IF @ < 0 THEN @ ELSE @ - 1]

SendPing ==
    /\ doomed = <<>> /\ DOMAIN clients # {} /\ Len(work) <= scene.maxWork
    /\ clients' = [fd \in DOMAIN clients |-> Pinged(clients[fd])]
    /\ doomed' \in InMapOrder({fd \in DOMAIN clients : clients'[fd].pingRetryCount < 0})
    /\ UNCHANGED <<httpdVars, req, work, restarts>>

\* ... and afterwards removes them one by one, by socket number.
RemoveDoomed ==
    /\ doomed # <<>>
    /\ RemoveClients(clients, {Head(doomed)})
    /\ doomed' = Tail(doomed)
    /\ UNCHANGED <<httpdVars, req, restarts>>

\* protocolEventHandler, PROTOCOL_SEND_SIGMA_MESSAGE: a message for a client.
SendMessage(id) ==
    /\ running /\ Holders(clients, id) # {} /\ Len(work) < scene.maxWork
    /\ work' = Append(work, [op |-> "text", to |-> id,
                             fd |-> clients[Lowest(Holders(clients, id))].socketNumber])
    /\ UNCHANGED <<httpdVars, clients, req, doomed, restarts>>

\* Disconnect: httpd stops, which closes every session and drops the work queued.
\* The registry stays ...
Disconnect ==
    /\ Idle /\ running /\ restarts < scene.maxRestarts
    /\ running' = FALSE
    /\ sess' = [fd \in Fds |-> 0]
    /\ work' = <<>>
    /\ restarts' = restarts + 1
    /\ UNCHANGED <<scene, peer, hello, clients, req, doomed>>

\* ... and it ends in Connect, which starts httpd again.
Connect ==
    /\ ~running /\ running' = TRUE
    /\ UNCHANGED <<scene, sess, peer, hello, clients, req, work, doomed, restarts>>

-----------------------------------------------------------------------------
Httpd  == \E fd \in Fds : \/ \E p \in Peers : Accept(fd, p)
                          \/ Handshake(fd) \/ PeerLeaves(fd)
                          \/ \E f \in Frames : DataFrame(fd, f)
Login  == CheckLimit \/ RemoveFormer \/ CheckKey \/ MarkAuthenticated
Worker == \/ RegisterClient \/ Login \/ ReceiveFrame \/ SortFrame
          \/ MemberFrame \/ Command \/ FirstMessage \/ LogClient \/ StrangerFrame
Timer  == SendPing \/ RemoveDoomed

Next == \/ Httpd \/ RunWork \/ Worker \/ Timer \/ Disconnect \/ Connect
        \/ \E id \in scene.ids : SendMessage(id)

Spec == Init /\ [][Next]_vars

\* The worker and the timer are tasks that run; httpd runs the work it is given.
\* It looks at its control socket before the clients' in every turn of its loop, so
\* frames, however many, do not keep queued work waiting: strong fairness. A timer
\* that expires is not put off by a queue that fills and empties again either.
FairSpec == Spec /\ WF_vars(Worker) /\ SF_vars(Timer) /\ SF_vars(RunWork) /\ WF_vars(Connect)

-----------------------------------------------------------------------------
\* A message is taken from a session only if that very session has shown the
\* key of the client it is taken for: neither an entry left by another session
\* of the same socket, nor a restart, nor an erased entry lends it one.
MembersAreGenuine ==
    (req.op \in {"member", "command"} /\ scene.authType # "NONE") =>
        LET p == peer[sess[req.fd]] IN
        /\ p.good
        /\ req.fd \in DOMAIN clients => clients[req.fd].clientId \in {p.id, NoId}

\* A client is authenticated under one socket at a time.
OneEntryPerClient ==
    ~scene.workFails =>
        \A id \in scene.ids : Cardinality({fd \in Holders(clients, id) : clients[fd].isAuth}) <= 1

\* Between requests the registry respects config.maxClients; a login by URL whose
\* entry the timer has erased since it was counted makes it again, one too many.
Excess == IF scene.authType = "URL" THEN 1 ELSE 0
RegistryBounded ==
    (Idle /\ ~scene.workFails) => Cardinality(DOMAIN clients) <= scene.maxClients + Excess

\* A step of the worker.
Serves == ~Idle /\ req' # req

\* The client whose request is decided loses its entry in this step, having shown
\* its credentials (in the URL, or in its first message) and found room.
TurnedAway ==
    /\ \/ req.op = "key"
       \/ req.op = "first" /\ req.frame = "auth"
    /\ Serves /\ req.fd \in DOMAIN clients \ DOMAIN clients'

\* A client that gives its own key - in the URL, in the form the parser reads, which is
\* not the one documented - is not turned away for it.
GivesKey(p) == p.good /\ (scene.authType = "URL" => p.form = "idThenKey")
GoodCredentialsAccepted == [][TurnedAway => ~GivesKey(peer[sess[req.fd]])]_vars

\* A login by message that is refused costs no other client its entry.
RefusalIsPrivate ==
    [][TurnedAway /\ scene.authType # "URL" => DOMAIN clients \ DOMAIN clients' = {req.fd}]_vars

\* A request makes, changes or takes away the entry of its own socket; of the others it
\* takes at most those of the client its sender names, and changes none, whatever
\* number an entry that operator[] made again holds.
RequestIsPrivate ==
    [][Serves => \A fd \in (DOMAIN clients \cup DOMAIN clients') \ {req.fd} :
          \/ fd \in DOMAIN clients \cap DOMAIN clients' /\ clients'[fd] = clients[fd]
          \/ /\ fd \in DOMAIN clients \ DOMAIN clients'
             /\ clients[fd].clientId = peer[sess[req.fd]].id]_vars

\* The registry implements Membership. A member is a session whose entry is
\* authenticated; one whose entry lost its name between the two visits that log it in
\* by URL is a member the registry does not know as its client's. An entry that is left
\* under the number of a new session speaks for nobody until the handshake has
\* replaced it.
Genuine(p, id) == p.good /\ p.id = id
Seen(fd) == sess[fd] \in hello /\ ~(req.op = "get" /\ req.fd = fd)
Speaking == {fd \in DOMAIN clients : clients[fd].isAuth /\ Seen(fd)}
Members  == {sess[fd] : fd \in Speaking}
Nameless == {sess[fd] : fd \in {f \in Speaking : clients[f].clientId = NoId}}
Persons  == [s \in DOMAIN peer |-> [client |-> peer[s].id, hasKey |-> peer[s].good]]
Logins == INSTANCE Membership
          WITH Clients <- UNION {s.ids : s \in Scenes}, behind <- Persons, members <- Members,
               nameless <- Nameless, exclusive <- ~scene.workFails
ImplementsMembership == Logins!Spec

\* A message is queued for a socket whose session, if it has one that the registry has
\* taken notice of, has shown the key of the client the message is for: not for the one
\* that has the number of the client's former session. (By the time it is sent that may
\* be otherwise: httpd goes by the number.)
AddressedToClient ==
    [][\A i \in DOMAIN work' \ DOMAIN work :
          LET w == work'[i] IN
          w.op = "text" /\ w.fd # 0 /\ Seen(w.fd) => Genuine(peer[sess[w.fd]], w.to)]_vars

\* Why. The sessions are apart from one another, and a request is of one of them.
\* An entry speaks for a client only on the socket of a session that has shown its
\* key, or on one whose session the handler has not seen yet; a client has one such
\* entry, and the registry without the socket that asks has room for it.
SessionsApart ==
    /\ hello \subseteq 1 .. Len(peer)
    /\ \A fd \in Fds : sess[fd] \in 0 .. Len(peer)
    /\ \A f, g \in Fds : sess[f] = sess[g] /\ f # g => sess[f] = 0
    /\ ~running => Idle /\ \A fd \in Fds : sess[fd] = 0
LoggingIn == {"login", "url", "key", "named"}
RequestKnown ==
    /\ req.op = "none" => Idle
    /\ ~Idle => req.fd \in Fds /\ sess[req.fd] \in hello
    /\ req.op \in LoggingIn \ {"login"} => scene.authType = "URL"
    /\ req.op = "first" => scene.authType = "FIRST_MESSAGE"
    /\ req.op \in LoggingIn /\ req.fd \in DOMAIN clients =>
          /\ ~clients[req.fd].isAuth
          /\ clients[req.fd].clientId # NoId => req.op = "named"
\* An entry has its client's name before it is authenticated, and may be made again
\* without it in between.
EntriesGenuine ==
    /\ \A fd \in DOMAIN clients : clients[fd].clientId # NoId =>
          clients[fd].isAuth \/ (req.op = "named" /\ req.fd = fd)
    /\ \A fd \in DOMAIN clients : clients[fd].isAuth /\ clients[fd].clientId = NoId =>
          scene.authType = "URL"
    /\ \A fd \in DOMAIN clients : clients[fd].isAuth /\ Seen(fd) => peer[sess[fd]].good
    /\ \A fd \in DOMAIN clients : clients[fd].clientId # NoId /\ Seen(fd) =>
          Genuine(peer[sess[fd]], clients[fd].clientId)
    /\ req.op \in {"member", "command"} /\ scene.authType # "NONE" => peer[sess[req.fd]].good
    /\ req.op = "named" => UrlKey(peer[sess[req.fd]])
OneEntry ==
    ~scene.workFails =>
        /\ \A f, g \in DOMAIN clients :
              clients[f].clientId = clients[g].clientId /\ f # g => clients[f].clientId = NoId
        /\ req.op \in {"key", "named"} /\ UrlId(peer[sess[req.fd]]) # NoId =>
              Holders(clients, peer[sess[req.fd]].id) \subseteq {req.fd}
Room ==
    ~scene.workFails =>
        IF req.op = "login" THEN Cardinality(DOMAIN clients \ {req.fd}) <= scene.maxClients + Excess
        ELSE IF req.op \in {"none", "get", "frame"}
        THEN Cardinality(DOMAIN clients) <= scene.maxClients + Excess
        ELSE Cardinality(DOMAIN clients \cup {req.fd}) <= scene.maxClients + Excess
\* An entry holds the number of its own socket or, made by operator[], none.
OwnNumber == \A fd \in DOMAIN clients : clients[fd].socketNumber \in {0, fd}
IInv == TypeOK /\ SessionsApart /\ RequestKnown /\ EntriesGenuine /\ OneEntry /\ Room /\ OwnNumber

\* The entry of a session that is gone does not stay: nobody reports the loss,
\* so the pings nobody answers must remove it, also if httpd was stopped when the
\* timer came to that.
Stale(fd) == fd \in DOMAIN clients /\ sess[fd] = 0
StaleReaped == \A fd \in Fds : (~scene.workFails /\ Stale(fd)) ~> (~Stale(fd) \/ req.op = "stuck")

-----------------------------------------------------------------------------
\* A statement of the repository that the code does not keep.

\* "int pingRetryCount = 3; // disconnect after 3 pings": the client that is
\* removed has used up its retries.
RemovesDoomed(fd) == /\ doomed # <<>> /\ doomed' = Tail(doomed) /\ fd = Head(doomed)
                     /\ fd \in DOMAIN clients \ DOMAIN clients'
NotBeforePings ==
    [][\A fd \in Fds : RemovesDoomed(fd) => clients[fd].pingRetryCount < 0]_vars
=============================================================================
