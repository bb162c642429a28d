------------------------------- MODULE Holder -------------------------------
(***************************************************************************)
(* What a seat promises its clients: at most one of them holds it, and it  *)
(* keeps the seat until it has been asked for it and has given it up, or   *)
(* leaves.                                                                 *)
(***************************************************************************)
CONSTANTS Client, NoClient

VARIABLES
    members,     \* the clients of the seat
    holder,      \* the one that holds it, or NoClient
    asked        \* it has been asked to give it up

holderVars == <<members, holder, asked>>

HolderInit == members = {} /\ holder = NoClient /\ asked = FALSE

\* A client joins, and may get a free seat.
Join(c) ==
    /\ c \notin members
    /\ members' = members \cup {c}
    /\ \/ UNCHANGED <<holder, asked>>
       \/ holder = NoClient /\ holder' = c /\ asked' = FALSE

\* A free seat is given to a client.
Grant ==
    /\ holder = NoClient /\ holder' \in members
    /\ asked' = FALSE /\ UNCHANGED members

Ask ==
    /\ holder # NoClient /\ ~asked /\ asked' = TRUE
    /\ UNCHANGED <<members, holder>>

\* The holder has been asked and gives the seat up: to another client, to
\* nobody, or to itself, when it is enabled again.
Give ==
    /\ asked /\ holder' \in members \cup {NoClient}
    /\ asked' = FALSE /\ UNCHANGED members

\* A client leaves; the seat of the holder passes on.
Leave(c) ==
    /\ c \in members
    /\ members' = members \ {c}
    /\ \/ holder # c /\ UNCHANGED <<holder, asked>>
       \/ holder = c /\ holder' \in members' \cup {NoClient} /\ asked' = FALSE

HolderNext == Grant \/ Ask \/ Give \/ \E c \in Client : Join(c) \/ Leave(c)

HolderSpec == HolderInit /\ [][HolderNext]_holderVars

=============================================================================
