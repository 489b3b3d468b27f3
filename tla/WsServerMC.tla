----------------------------- MODULE WsServerMC -----------------------------
(* Scenes to check WsServer in. *)
EXTENDS WsServer

CONSTANTS A, B  \* clients

\* Clients of "ids", with and without their key, who ask for pings of "types".
Peer(ids, keys, types, forms) == [id : ids, good : keys, ping : types, form : forms]
Callers(ids, types) == Peer(ids, BOOLEAN, types, {"idThenKey"})
AlsoB(type) == Callers({A}, {type}) \cup Peer({B}, {TRUE}, {type}, {"idThenKey"})

\* Two clients, authenticated by their first message; somebody says he is one of them.
ByMessage ==
    [authType |-> "FIRST_MESSAGE", ids |-> {A, B}, maxClients |-> 2,
     peers |-> AlsoB("PING_TEXT"),
     workFails |-> FALSE, maxWork |-> 0, maxRestarts |-> 0]

\* A client, with and without its key, whose server restarts.
Restarted == [ByMessage EXCEPT !.ids = {A}, !.peers = Callers({A}, {"PING_TEXT"}),
                               !.maxRestarts = 1]

\* By the URL, with httpd refusing work.
ByUrl == [ByMessage EXCEPT !.authType = "URL", !.ids = {A}, !.peers = Callers({A}, {"PING_NO"}),
                           !.workFails = TRUE]

\* Two by the URL, with httpd taking all work and room for one.
UrlAlone == [ByUrl EXCEPT !.ids = {A, B}, !.peers = AlsoB("PING_NO"),
                          !.workFails = FALSE, !.maxClients = 1]

\* URLs in every form that clients write them in, and room for two.
Forms == [UrlAlone EXCEPT !.ids = {A}, !.maxClients = 2,
              !.peers = Callers({A}, {"PING_NO"})
                          \cup Peer({A}, {TRUE}, {"PING_NO"}, {"documented", "sigmaClient"})]

\* One client and room for one; it takes messages.
Alone == [Restarted EXCEPT !.maxClients = 1, !.maxWork = 1]

\* Clients that ask for pings of the websocket protocol.
Binary == [Alone EXCEPT !.peers = Callers({A}, {"PING_BINARY"}), !.maxRestarts = 0]

\* Nobody is asked for credentials.
Open == [Alone EXCEPT !.authType = "NONE"]

AllScenes == {ByMessage, Restarted, ByUrl, UrlAlone, Forms, Binary, Open}
PingScenes == {[Alone EXCEPT !.maxClients = 2]}
=============================================================================
