----------------------------- MODULE Membership -----------------------------
(***************************************************************************)
(* What the registry of SigmaWsServer promises to its clients: a session   *)
(* becomes a member by showing the key of the client it says it is, for    *)
(* itself and for nobody else; it takes the place of that client's other   *)
(* sessions and of no others.  How a session ceases to be a member - the   *)
(* peer leaves, is refused, closes, does not answer, the server restarts - *)
(* is left open.  WsServer implements this specification with entries      *)
(* under socket numbers, which are given out again.                        *)
(***************************************************************************)
EXTENDS Sequences

CONSTANTS Clients

VARIABLES
    behind,    \* per session so far, the client it says it is and whether it has its key
    members,   \* the sessions whose messages are taken for those of a client
    nameless,  \* the members of whom it is not known whose they are
    exclusive  \* whether a client has one session at a time: the former can be closed

vars == <<behind, members, nameless, exclusive>>

Init == behind = <<>> /\ members = {} /\ nameless = {} /\ exclusive \in BOOLEAN

Arrive(client, hasKey) ==
    /\ behind' = Append(behind, [client |-> client, hasKey |-> hasKey])
    /\ UNCHANGED <<members, nameless, exclusive>>

SameClient(s) == {m \in members : behind[m].client = behind[s].client}

\* A session joins, under its client's name or without one: the client's others that
\* are known to be its own are then gone.
Join(s) ==
    /\ behind[s].hasKey
    /\ \E gone \in SUBSET SameClient(s) :
          /\ members' = (members \ gone) \cup {s}
          /\ exclusive => SameClient(s) \ nameless \subseteq gone
          /\ nameless' \in {nameless \ gone, (nameless \ gone) \cup {s}}
    /\ UNCHANGED <<behind, exclusive>>

Leave ==
    /\ members' \subseteq members
    /\ nameless' = nameless \cap members'
    /\ UNCHANGED <<behind, exclusive>>

Next == \/ Leave
        \/ \E s \in DOMAIN behind : Join(s)
        \/ \E client \in Clients, hasKey \in BOOLEAN : Arrive(client, hasKey)

Spec == Init /\ [][Next]_vars
=============================================================================
