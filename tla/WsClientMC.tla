----------------------------- MODULE WsClientMC -----------------------------
(* Surroundings to check WsClientConnection in. *)
EXTENDS WsClientConnection

\* The network named "" is the only one.
OneNetwork == [others |-> FALSE, server |-> TRUE]

\* Others come and go as well, and what matters is whether the client is started.
ManyNetworks == [others |-> TRUE, server |-> FALSE]

AllScenes == {OneNetwork, ManyNetworks}
OneScene  == {OneNetwork}
=============================================================================
