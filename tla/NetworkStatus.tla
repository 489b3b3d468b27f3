--------------------------- MODULE NetworkStatus ---------------------------
(***************************************************************************)
(* What SigmaNetworkMgr promises to those who register for its events: a   *)
(* WAN and a LAN status that change together, and a queue of announcements *)
(* in the order of the changes, none missing.  A status may be announced   *)
(* again when nothing is connected anyway.  NetworkMgr implements this     *)
(* specification; the connections are modelled on top of it.               *)
(***************************************************************************)
EXTENDS Sequences

VARIABLES
    up,      \* IsWanConnected() and IsLanConnected()
    queue    \* the announcements not yet delivered

netVars == <<up, queue>>

\* PostEvent posts the WAN's event before the LAN's.
News(b) == <<[kind |-> "wan", up |-> b], [kind |-> "lan", up |-> b]>>

Init == up = FALSE /\ queue = <<>>

GoUp ==
    /\ ~up /\ up' = TRUE
    /\ queue' = queue \o News(TRUE)

GoDown ==
    /\ up' = FALSE
    /\ queue' = queue \o News(FALSE)

\* The manager's event loop takes the next announcement.
Deliver ==
    /\ queue # <<>>
    /\ queue' = Tail(queue)
    /\ UNCHANGED up

Next == GoUp \/ GoDown \/ Deliver
Spec == Init /\ [][Next]_netVars
=============================================================================
