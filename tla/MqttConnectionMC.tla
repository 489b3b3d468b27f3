-------------------------- MODULE MqttConnectionMC --------------------------
(* Scenes to check MqttConnection in. *)
EXTENDS MqttConnection

\* As the tests do: made before the network connects, left to its events.
Subscriber ==
    [networkMode |-> "WAN", defaultName |-> FALSE, rootSlash |-> TRUE, getLastState |-> FALSE,
     createdFirst |-> TRUE, appConnects |-> FALSE, subscribes |-> TRUE, messages |-> {},
     retryCount |-> 0]

\* With retries, and nothing but them.
Retrier == [Subscriber EXCEPT !.subscribes = FALSE, !.retryCount = 2]

\* With a root topic that lacks the "/", as in TestMQTT, and a retained message.
RootWithoutSlash == [Subscriber EXCEPT !.rootSlash = FALSE, !.messages = {"RETAINED"}]

\* With all kinds of messages coming in.
Listener == [Subscriber EXCEPT !.messages = Messages]

\* Made at any time, on the LAN, with the application calling Connect() as well.
LateComer ==
    [Subscriber EXCEPT !.networkMode = "LAN", !.createdFirst = FALSE, !.appConnects = TRUE,
                       !.subscribes = FALSE]

\* Connected by the application alone, once the network named "" is.
AnyNetwork == [LateComer EXCEPT !.networkMode = "NONE", !.defaultName = TRUE]

AllScenes == {Subscriber, Retrier, RootWithoutSlash, LateComer, AnyNetwork}
ReadyScenes == {Retrier}
ListenerScenes == {Listener}
=============================================================================
