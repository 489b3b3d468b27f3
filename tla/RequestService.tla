--------------------------- MODULE RequestService ---------------------------
(***************************************************************************)
(* What the hand-over of requests to the workers promises to the httpd     *)
(* tasks: a request that arrives is processed once, before its handler     *)
(* returns, and one request at a time.  WsRequestGate implements this      *)
(* specification with a binary semaphore taken twice.                      *)
(***************************************************************************)
CONSTANTS Servers

VARIABLES request  \* per httpd task, how far the request is that it was given

Init == request = [s \in Servers |-> "none"]

Moves(s, from, to) == request[s] = from /\ request' = [request EXCEPT ![s] = to]

Arrive(s) == Moves(s, "none", "waiting")
Begin(s)  == (\A t \in Servers : request[t] # "inWork") /\ Moves(s, "waiting", "inWork")
Finish(s) == Moves(s, "inWork", "done")
Return(s) == Moves(s, "done", "none")

Next == \E s \in Servers : Arrive(s) \/ Begin(s) \/ Finish(s) \/ Return(s)

Spec == Init /\ [][Next]_request
=============================================================================
