-------------------------- MODULE WsMembershipProofs --------------------------
(***************************************************************************)
(* WsServer implements Membership: however sockets are given out again,    *)
(* the server restarts and the timer erases entries, a session becomes a   *)
(* client's only by showing the key itself, and costs nobody else its      *)
(* place.                                                                  *)
(***************************************************************************)
EXTENDS WsServerProofs

\* What is invariant, of which the proof uses every part.
MembershipInv == HttpdOK /\ RegistryOK /\ GenuineOK /\ OneEntry /\ OwnNumber

LEMMA ServerMembershipInv == Spec => []MembershipInv
BY ServerTypeInvariant, ServerOneEntryInvariant, ServerOwnNumber, PTL DEF MembershipInv

-----------------------------------------------------------------------------
\* The sessions there have been.

LEMMA PersonsKnown ==
    ASSUME HttpdOK
    PROVE  /\ DOMAIN Persons = 1 .. Len(peer)
           /\ \A s \in 1 .. Len(peer) : /\ Persons[s].client = peer[s].id
                                       /\ Persons[s].hasKey = peer[s].good
           /\ Persons \in Seq([client : UNION {t.ids : t \in Scenes}, hasKey : BOOLEAN])
<1>1. peer \in Seq(Peers) /\ DOMAIN peer = 1 .. Len(peer) /\ Len(peer) \in Nat
  BY DEF HttpdOK
<1>2. \A s \in 1 .. Len(peer) : peer[s] \in Peers
  BY <1>1
<1>3. \A q \in Peers : q.id \in scene.ids /\ q.good \in BOOLEAN
  BY ServerAssumption DEF Peers, HttpdOK
<1>4. scene.ids \subseteq UNION {t.ids : t \in Scenes}
  BY DEF HttpdOK
<1>5. Persons = [s \in 1 .. Len(peer) |-> [client |-> peer[s].id, hasKey |-> peer[s].good]]
  BY <1>1 DEF Persons
<1> QED BY <1>1, <1>2, <1>3, <1>4, <1>5

LEMMA SamePersons == ASSUME peer' = peer PROVE Persons' = Persons
BY DEF Persons

-----------------------------------------------------------------------------
\* The members.

LEMMA MembersSpeak ==
    /\ Members = {sess[f] : f \in Speaking} /\ Members' = {sess'[f] : f \in Speaking'}
    /\ Nameless \subseteq Members /\ Nameless' \subseteq Members'
    /\ \A m : m \in Nameless <=> \E f \in Speaking : m = sess[f] /\ clients[f].clientId = NoId
    /\ \A m : m \in Nameless' <=>
                 \E f \in Speaking' : m = sess'[f] /\ clients'[f].clientId = NoId
BY DEF Members, Nameless

LEMMA SpeakingKnown ==
    ASSUME MembershipInv, NEW f \in Speaking
    PROVE  /\ f \in Fds /\ sess[f] \in 1 .. Len(peer) /\ peer[sess[f]].good
           /\ clients[f].clientId # NoId => clients[f].clientId = peer[sess[f]].id
           /\ \A g \in Speaking : sess[f] = sess[g] => f = g
<1>1. Speaking \subseteq Fds /\ sess[f] \in hello
  BY DEF MembershipInv, RegistryOK, Registry, Speaking, Seen
<1>2. sess[f] \in 1 .. Len(peer)
  BY <1>1 DEF MembershipInv, HttpdOK, SessionsApart
<1>3. \A g \in Speaking : sess[f] = sess[g] => f = g
  BY <1>1, <1>2 DEF MembershipInv, HttpdOK, SessionsApart
<1> QED BY <1>1, <1>2, <1>3 DEF MembershipInv, GenuineOK, EntriesGenuine, Speaking, Genuine

\* Where nobody begins to speak and nobody changes its name, members at most leave.
LEMMA LossIsLeaving ==
    ASSUME MembershipInv,
           \A f \in Speaking' : /\ f \in Speaking /\ sess'[f] = sess[f]
                                /\ clients'[f].clientId = clients[f].clientId
    PROVE  Members' \subseteq Members /\ Nameless' = Nameless \cap Members'
<1>1. Members' \subseteq Members /\ Nameless' \subseteq Nameless \cap Members'
  BY MembersSpeak
<1>2. ASSUME NEW m \in Nameless, m \in Members' PROVE m \in Nameless'
  <2>1. PICK f \in Speaking : m = sess[f] /\ clients[f].clientId = NoId
    BY MembersSpeak
  <2>2. PICK g \in Speaking' : m = sess'[g]
    BY <1>2, MembersSpeak
  <2>3. g = f
    BY <2>1, <2>2, SpeakingKnown
  <2> QED BY <2>1, <2>2, <2>3, MembersSpeak
<1> QED BY <1>1, <1>2

\* Whatever is no request's step makes nobody a member.
LEMMA OthersLeave ==
    ASSUME MembershipInv, [Next]_vars, ~Worker
    PROVE  Members' \subseteq Members /\ Nameless' = Nameless \cap Members'
<1> SUFFICES ASSUME NEW f \in Speaking'
             PROVE  /\ f \in Speaking /\ sess'[f] = sess[f]
                    /\ clients'[f].clientId = clients[f].clientId
  BY LossIsLeaving
<1>1. f \in DOMAIN clients' /\ clients'[f].isAuth /\ sess'[f] \in hello'
        /\ ~(req'.op = "get" /\ req'.fd = f)
  BY DEF Speaking, Seen
<1>2. /\ f \in DOMAIN clients /\ clients[f].isAuth
      /\ clients'[f].clientId = clients[f].clientId
  BY <1>1, OthersKeep DEF MembershipInv, Kept, SameClient
<1>3. f \in Fds
  BY <1>2 DEF MembershipInv, RegistryOK, Registry
<1>4. sess'[f] = sess[f] /\ sess[f] \in hello
  BY <1>1, <1>3, SessionSeen DEF MembershipInv
<1>5. ~(req.op = "get" /\ req.fd = f)
  BY <1>1, OthersRequest DEF Idle, NoReq
<1> QED BY <1>2, <1>4, <1>5 DEF Speaking, Seen

\* An arriving session takes a free socket and is nobody yet.
LEMMA ArrivalSpares ==
    ASSUME MembershipInv, NEW fd \in Fds, NEW p \in Peers, Accept(fd, p)
    PROVE  Members' = Members /\ Nameless' = Nameless
<1>1. /\ sess' = [sess EXCEPT ![fd] = Len(peer) + 1] /\ sess[fd] = 0
      /\ UNCHANGED <<hello, clients, req>>
  BY DEF Accept
<1>2. hello \subseteq 1 .. Len(peer) /\ Len(peer) \in Nat /\ sess \in [Fds -> Sessions \cup {0}]
  BY DEF MembershipInv, HttpdOK, SessionsApart
<1>3. DOMAIN clients \subseteq Fds
  BY DEF MembershipInv, RegistryOK, Registry
<1>4. \A f \in DOMAIN clients : Seen(f)' <=> Seen(f)
  BY <1>1, <1>2, <1>3 DEF Seen
<1>5. Speaking' = Speaking
  BY <1>1, <1>4 DEF Speaking
<1>6. \A f \in Speaking : sess'[f] = sess[f]
  BY <1>1, <1>2, <1>3 DEF Speaking, Seen
<1>7. Members' = Members
  BY <1>5, <1>6, MembersSpeak
<1>8. \A m : m \in Nameless' <=> m \in Nameless
  BY <1>1, <1>5, <1>6, MembersSpeak
<1> QED BY <1>7, <1>8

\* The only session a request can make a member is its own ...
LEMMA WorkerMembers ==
    ASSUME MembershipInv, Worker
    PROVE  /\ UNCHANGED <<peer, sess, hello, scene>>
           /\ req.fd \in Fds /\ sess[req.fd] \in 1 .. Len(peer)
           /\ \A f \in Speaking' : f # req.fd => f \in Speaking /\ clients'[f] = clients[f]
           /\ \A f \in Speaking : f # req.fd => f \in Speaking' <=> f \in DOMAIN clients'
<1>1. /\ UNCHANGED <<peer, sess, hello, scene>> /\ Asker(clients')
      /\ req.fd \in Fds /\ sess[req.fd] \in 1 .. Len(peer)
      /\ req'.op # "get"
  BY WorkerStep, WorkerRequest DEF MembershipInv
<1>2. ASSUME NEW f \in DOMAIN clients', f # req.fd
      PROVE  f \in DOMAIN clients /\ clients'[f] = clients[f]
  BY <1>1, <1>2 DEF Asker
<1>3. \A f : f # req.fd => Seen(f)' <=> Seen(f)
  BY <1>1 DEF Seen
<1> QED BY <1>1, <1>2, <1>3 DEF Speaking

\* ... which then has shown its key in this very request, its last step or the one before.
LEMMA NewMemberShows ==
    ASSUME MembershipInv, Worker, req.fd \in Speaking',
           req.fd \in Speaking => clients'[req.fd].clientId # clients[req.fd].clientId
    PROVE  LET p == peer[sess[req.fd]] IN
           /\ req.fd \notin Speaking /\ p.good
           /\ (req.op = "named" /\ UrlId(p) = p.id) \/ req.op = "first"
<1> DEFINE e == clients'[req.fd]
           p == peer[sess[req.fd]]
<1> USE DEF MembershipInv, GenuineOK, EntriesGenuine, LoginFresh
<1>1. req.fd \in DOMAIN clients' /\ e.isAuth
  BY DEF Speaking
<1>2. /\ Owner(e) /\ p.id # NoId /\ sess[req.fd] \in hello
      /\ req.op # "get" => Seen(req.fd)
  BY <1>1, WorkerLeaves, WorkerStep DEF Seen
<1>3. ASSUME Own.isAuth, req.op # "get"
      PROVE  req.fd \in Speaking /\ Own = clients[req.fd]
  BY <1>2, <1>3, OwnEntry DEF Speaking
<1>4. ~(req.op \notin {"get", "named"} /\ Same(e))
  BY <1>1, <1>3 DEF Same
<1>5. ~(req.op = "get" /\ Nobody(e))
  BY <1>1 DEF Nobody
<1>6. ~(req.op = "key" /\ e.isAuth = Own.isAuth)
  BY <1>1, <1>3, OwnEntry DEF LoggingIn
<1>7. CASE req.op = "named"
  <2>1. UrlKey(p) /\ req.fd \notin Speaking
    BY <1>7 DEF LoggingIn, Speaking
  <2> QED BY <1>7, <2>1 DEF UrlKey, UrlId, Available
<1>8. CASE req.op = "first" /\ Genuine(p, e.clientId) /\ e.isAuth
  <2>1. req.fd \notin Speaking
    <3> SUFFICES ASSUME req.fd \in Speaking PROVE FALSE
      OBVIOUS
    <3>1. clients[req.fd].clientId # NoId
      BY <1>8 DEF Speaking
    <3>2. clients[req.fd].clientId = p.id
      BY <3>1, SpeakingKnown
    <3> QED BY <1>8, <3>2 DEF Genuine
  <2> QED BY <1>8, <2>1 DEF Genuine
<1> QED BY <1>2, <1>4, <1>5, <1>6, <1>7, <1>8 DEF Owner

\* Who ceases to be a member when another joins is a member for the same client; where
\* the former can be closed, none of them stays that is known to be that client's.
LEMMA JoinDisplaces ==
    ASSUME MembershipInv, Worker, req.fd \in Speaking', req.fd \notin Speaking,
           (req.op = "named" /\ UrlId(peer[sess[req.fd]]) = peer[sess[req.fd]].id)
              \/ req.op = "first"
    PROVE  /\ \A m \in Members \ Members' : peer[m].id = peer[sess[req.fd]].id
           /\ ~scene.workFails =>
                \A m \in (Members \cap Members') \ Nameless :
                    peer[m].id # peer[sess[req.fd]].id
<1> DEFINE p == peer[sess[req.fd]]
<1>1. /\ UNCHANGED <<peer, sess, hello, scene>> /\ p.id # NoId
      /\ \A f \in Speaking' : f # req.fd => f \in Speaking /\ clients'[f] = clients[f]
      /\ \A f \in Speaking : f \in Speaking' <=> f \in DOMAIN clients'
  BY WorkerMembers, WorkerStep DEF MembershipInv
<1>2. ASSUME NEW m \in Members \ Members' PROVE peer[m].id = p.id
  <2>1. PICK f \in Speaking : m = sess[f]
    BY MembersSpeak
  <2>2. f \notin DOMAIN clients' /\ f \in DOMAIN clients /\ f # req.fd
    BY <1>1, <1>2, <2>1, MembersSpeak DEF Speaking
  <2>3. clients[f].clientId = p.id
    BY <2>2, WorkerTakesItsOwn DEF MembershipInv, TakesItsOwn, ItsOwn
  <2> QED BY <1>1, <2>1, <2>3, SpeakingKnown
<1>3. ASSUME ~scene.workFails, NEW m \in Members, m \in Members', m \notin Nameless
      PROVE  peer[m].id # p.id
  <2>1. PICK f \in Speaking : m = sess[f]
    BY MembersSpeak
  <2>2. PICK g \in Speaking' : m = sess[g]
    BY <1>1, <1>3, MembersSpeak
  <2>3. req.fd \in Fds /\ sess[req.fd] \in 1 .. Len(peer)
    BY WorkerMembers
  <2>4. f = g
    <3>1. CASE g = req.fd
      <4>1. f \in Fds /\ sess[f] \in 1 .. Len(peer) /\ Len(peer) \in Nat
        BY SpeakingKnown DEF MembershipInv, HttpdOK
      <4>2. SessionsApart
        BY DEF MembershipInv, HttpdOK
      <4>3. sess[f] # 0 /\ sess[f] = sess[req.fd]
        BY <2>1, <2>2, <3>1, <4>1
      <4> QED BY <2>3, <3>1, <4>1, <4>2, <4>3 DEF SessionsApart
    <3>2. CASE g # req.fd
      BY <1>1, <2>1, <2>2, <3>2, SpeakingKnown
    <3> QED BY <3>1, <3>2
  <2>5. clients[f].clientId = peer[m].id /\ f # req.fd /\ f \in DOMAIN clients'
    BY <1>1, <1>3, <2>1, <2>2, <2>4, SpeakingKnown, MembersSpeak DEF Speaking
  <2>6. CASE req.op = "named"
    <3>1. Holders(clients, p.id) \subseteq {req.fd}
      BY <1>1, <1>3, <2>6 DEF MembershipInv, OneEntry
    <3> QED BY <2>5, <3>1 DEF Holders, Speaking
  <2>7. CASE req.op = "first"
    <3>1. req.fd \in DOMAIN clients'
      BY DEF Speaking
    <3>2. clients[f].clientId # p.id
      BY <1>3, <2>5, <2>7, <3>1, FirstDisplaces DEF MembershipInv
    <3> QED BY <2>5, <3>2
  <2> QED BY <2>6, <2>7
<1> QED BY <1>2, <1>3

\* The names of the others stay what they are.
LEMMA JoinNames ==
    ASSUME MembershipInv, Worker, req.fd \in Speaking', req.fd \notin Speaking
    PROVE  LET s    == sess[req.fd]
               gone == Members \ Members'
           IN  /\ Members' = (Members \ gone) \cup {s} /\ s \notin Members
               /\ Nameless' \in {Nameless \ gone, (Nameless \ gone) \cup {s}}
<1> DEFINE s    == sess[req.fd]
           gone == Members \ Members'
<1>1. /\ sess' = sess /\ req.fd \in Fds /\ s \in 1 .. Len(peer)
      /\ \A f \in Speaking' : f # req.fd => f \in Speaking /\ clients'[f] = clients[f]
  BY WorkerMembers
<1>2. s \notin Members
  <2>1. \A f \in Speaking : f \in Fds /\ f # req.fd
    BY SpeakingKnown
  <2> QED BY <1>1, <2>1, MembersSpeak DEF MembershipInv, HttpdOK, SessionsApart
<1>3. s \in Members' /\ Members' \subseteq Members \cup {s}
  BY <1>1, MembersSpeak
<1>4. ASSUME NEW m, m # s PROVE m \in Nameless' <=> m \in Nameless \ gone
  <2>1. ASSUME m \in Nameless' PROVE m \in Nameless \ gone
    <3>1. PICK f \in Speaking' : m = sess[f] /\ clients'[f].clientId = NoId
      BY <1>1, <2>1, MembersSpeak
    <3> QED BY <1>1, <1>4, <2>1, <3>1, MembersSpeak
  <2>2. ASSUME m \in Nameless \ gone PROVE m \in Nameless'
    <3>1. PICK f \in Speaking : m = sess[f] /\ clients[f].clientId = NoId
      BY <2>2, MembersSpeak
    <3>2. PICK g \in Speaking' : m = sess[g]
      BY <1>1, <2>2, MembersSpeak
    <3>3. g \in Speaking /\ clients'[g] = clients[g]
      BY <1>1, <1>4, <3>2
    <3>4. g = f
      BY <3>1, <3>2, <3>3, SpeakingKnown
    <3> QED BY <1>1, <3>1, <3>2, <3>3, <3>4, MembersSpeak
  <2> QED BY <2>1, <2>2
<1>5. s \notin Nameless
  BY <1>2, MembersSpeak
<1> HIDE DEF s, gone
<1>6. Nameless' = Nameless \ gone \/ Nameless' = (Nameless \ gone) \cup {s}
  <2>1. CASE s \in Nameless'
    BY <1>4, <2>1
  <2>2. CASE s \notin Nameless'
    BY <1>4, <1>5, <2>2
  <2> QED BY <2>1, <2>2
<1>7. Members' = (Members \ gone) \cup {s}
  BY <1>3 DEF gone
<1> QED BY <1>2, <1>6, <1>7 DEF s, gone

-----------------------------------------------------------------------------
\* The steps.

LEMMA WorkerImplements ==
    ASSUME MembershipInv, Worker
    PROVE  Logins!Next
<1> DEFINE s == sess[req.fd]
<1>1. /\ UNCHANGED <<peer, sess, hello, scene>> /\ s \in 1 .. Len(peer)
      /\ \A f \in Speaking' : f # req.fd => f \in Speaking /\ clients'[f] = clients[f]
  BY WorkerMembers
<1>2. Persons' = Persons /\ DOMAIN Persons = 1 .. Len(peer)
      /\ (~scene.workFails)' = ~scene.workFails
  BY <1>1, SamePersons, PersonsKnown DEF MembershipInv
<1> DEFINE Stays == req.fd \in Speaking /\ clients'[req.fd].clientId = clients[req.fd].clientId
<1>3. CASE req.fd \in Speaking' => Stays
  <2>1. Members' \subseteq Members /\ Nameless' = Nameless \cap Members'
    BY <1>1, <1>3, LossIsLeaving
  <2> QED BY <1>2, <2>1 DEF Logins!Next, Logins!Leave
<1>4. CASE req.fd \in Speaking' /\ ~Stays
  <2> DEFINE gone == Members \ Members'
             same == {m \in Members : Persons[m].client = Persons[s].client}
  <2>1. /\ req.fd \notin Speaking /\ peer[s].good
        /\ (req.op = "named" /\ UrlId(peer[s]) = peer[s].id) \/ req.op = "first"
    BY <1>4, NewMemberShows
  <2>2. Persons[s].hasKey /\ Persons[s].client = peer[s].id
    BY <1>1, <2>1, PersonsKnown DEF MembershipInv
  <2>3. \A m \in Members : Persons[m].client = peer[m].id
    BY MembersSpeak, SpeakingKnown, PersonsKnown DEF MembershipInv
  <2>4. gone \subseteq same
    BY <1>4, <2>1, <2>2, <2>3, JoinDisplaces
  <2>5. ~scene.workFails => same \ Nameless \subseteq gone
    BY <1>4, <2>1, <2>2, <2>3, JoinDisplaces
  <2>6. /\ Members' = (Members \ gone) \cup {s}
        /\ Nameless' \in {Nameless \ gone, (Nameless \ gone) \cup {s}}
    BY <1>4, <2>1, JoinNames
  <2>7. Logins!SameClient(s) = same
    BY DEF Logins!SameClient
  <2> HIDE DEF gone, same, s
  <2>8. Logins!Join(s)
    BY <1>2, <2>2, <2>4, <2>5, <2>6, <2>7 DEF Logins!Join
  <2> QED BY <1>1, <1>2, <2>8 DEF Logins!Next
<1> QED BY <1>3, <1>4

LEMMA ArrivalImplements ==
    ASSUME MembershipInv, NEW fd \in Fds, NEW p \in Peers, Accept(fd, p)
    PROVE  Logins!Next
<1>1. peer' = Append(peer, p) /\ scene' = scene
  BY DEF Accept
<1>2. peer \in Seq(Peers) /\ scene \in Scenes
  BY DEF MembershipInv, HttpdOK
<1>3. p.id \in UNION {t.ids : t \in Scenes} /\ p.good \in BOOLEAN
  BY <1>2, ServerAssumption DEF Peers
<1> DEFINE newcomer == [client |-> p.id, hasKey |-> p.good]
<1>4. Persons' = Append(Persons, newcomer)
  <2>1. DOMAIN peer = 1 .. Len(peer) /\ Len(peer) \in Nat
    BY <1>2
  <2>2. /\ DOMAIN peer' = 1 .. Len(peer) + 1
        /\ \A i \in 1 .. Len(peer) : peer'[i] = peer[i]
        /\ peer'[Len(peer) + 1] = p
    BY <1>1, <1>2, AppendProperties
  <2>3. Persons' = [i \in 1 .. Len(peer) + 1 |-> IF i = Len(peer) + 1 THEN newcomer
                                                ELSE Persons[i]]
    BY <2>1, <2>2 DEF Persons
  <2>4. Persons = [i \in 1 .. Len(peer) |-> Persons[i]] /\ Len(Persons) = Len(peer)
    BY <2>1, PersonsKnown DEF Persons, MembershipInv
  <2> HIDE DEF newcomer
  <2>5. Append(Persons, newcomer)
          = [i \in 1 .. Len(Persons) + 1 |-> IF i = Len(Persons) + 1 THEN newcomer
                                            ELSE Persons[i]]
    BY <2>4, PersonsKnown, AppendProperties
  <2> QED BY <2>3, <2>4, <2>5
<1>5. Logins!Arrive(p.id, p.good)
  BY <1>1, <1>4, ArrivalSpares DEF Logins!Arrive
<1> QED BY <1>3, <1>5 DEF Logins!Next

LEMMA OthersImplement ==
    ASSUME MembershipInv, [Next]_vars, ~Worker, peer' = peer
    PROVE  Logins!Next
<1>1. Members' \subseteq Members /\ Nameless' = Nameless \cap Members'
  BY OthersLeave
<1>2. scene' = scene /\ Persons' = Persons
  BY SceneForGood, SamePersons
<1> QED BY <1>1, <1>2 DEF Logins!Next, Logins!Leave

\* Every session the registry takes for a client's has shown that client's key itself;
\* when it does so it takes the place of that client's other sessions that are known to
\* be its own, and of no others, whichever sockets they have, have had or will have.
THEOREM ServerImplementsMembership == Spec => ImplementsMembership
<1>1. Init => Logins!Init
  <2> SUFFICES ASSUME Init PROVE Logins!Init
    OBVIOUS
  <2>1. Persons = <<>>
    BY DEF Init, Persons
  <2>2. Members = {} /\ Nameless = {}
    BY DEF Init, Members, Nameless, Speaking
  <2>3. (~scene.workFails) \in BOOLEAN
    OBVIOUS
  <2> QED BY <2>1, <2>2, <2>3 DEF Logins!Init
<1>2. MembershipInv /\ [Next]_vars => Logins!Next
  <2> SUFFICES ASSUME MembershipInv, [Next]_vars, ~Worker PROVE Logins!Next
    BY WorkerImplements
  <2>1. CASE \E fd \in Fds, p \in Peers : Accept(fd, p)
    BY <2>1, ArrivalImplements
  <2>2. CASE ~ \E fd \in Fds, p \in Peers : Accept(fd, p)
    <3>1. peer' = peer
      BY <2>2 DEF Next, Httpd, Timer, Handshake, PeerLeaves, DataFrame, RunWork, SendPing,
                  RemoveDoomed, Disconnect, Connect, SendMessage, vars, httpdVars
    <3> QED BY <3>1, OthersImplement
  <2> QED BY <2>1, <2>2
<1>3. Spec => Logins!Init /\ [][Logins!Next]_(Logins!vars)
  BY <1>1, <1>2, ServerMembershipInv, PTL DEF Spec
<1> QED BY <1>3 DEF ImplementsMembership, Logins!Spec
=============================================================================
