---------------------------- MODULE HolderProofs ----------------------------
(***************************************************************************)
(* Seat implements Holder: the initial states map to initial states, and,  *)
(* from the inductive invariant, every step maps to a step or a stutter.   *)
(***************************************************************************)
EXTENDS SeatProofs

\* A client that seat_open_client has made active has not been asked for the
\* seat.
LEMMA NewlyActive ==
  ASSUME NEW c, NEW st \in [Client -> ClientState], NEW sess, NEW devs, NEW vt,
         NEW tidy, seat_open_client(c, st, sess, devs, vt, tidy),
         active_client' # NoClient, active_client' \in Client
  PROVE  active_client' = c /\ state'[active_client'] = "ACTIVE"
BY DEF seat_open_client

\* Every step of the seat is a step of the abstract seat, or leaves it alone.
LEMMA HolderStep ==
  ASSUME IInv, IInv', [Next]_vars
  PROVE  [Promise!HolderNext]_(Promise!holderVars)
<1> DEFINE members == {c \in Client : OnSeat(c)}
           asked == active_client # NoClient
                    /\ state[active_client] = "PENDING_DISABLE"
<1>types. /\ NoClient \notin Client
          /\ conn \in [Client -> {"none", "idle", "seat"}]
          /\ state \in [Client -> ClientState]
          /\ active_client \in Client \cup {NoClient}
          /\ active_client' \in Client \cup {NoClient}
          /\ active_client # NoClient => conn[active_client] = "seat"
          /\ active_client' # NoClient => conn'[active_client'] = "seat"
          /\ \A c \in Client : state[c] \in {"ACTIVE", "PENDING_DISABLE"}
                               <=> active_client = c
  BY ConstantsAssumption DEF IInv, TypeOK, NextQueued, OnSeat, OneActive
<1>0. ASSUME members' = members, active_client' = active_client, asked' = asked
      PROVE  [Promise!HolderNext]_(Promise!holderVars)
  BY <1>0 DEF Promise!holderVars
<1>1. ASSUME NEW c \in Client,
             \/ Connect(c) \/ OpenSeatRefused(c)
             \/ \E s \in Sessions : OpenSeatUnanswered(c, s)
             \/ client_destroy(c) /\ conn[c] = "idle"
      PROVE  members' = members /\ active_client' = active_client /\ asked' = asked
  BY <1>1, <1>types, Zenon DEF Connect, OpenSeatRefused, OpenSeatUnanswered, MayAdd,
    seat_add_client, client_destroy, OnSeat
<1>2. ASSUME NEW c \in Client, NEW s \in Sessions, OpenSeat(c, s)
      PROVE  [Promise!HolderNext]_(Promise!holderVars)
  <2>1. c \notin members /\ members' = members \cup {c}
    BY <1>2, <1>types DEF OpenSeat, seat_add_client, MayAdd, OnSeat
  <2>2. CASE active_client' = active_client /\ asked' = asked
    BY <2>1, <2>2 DEF Promise!HolderNext, Promise!Join
  <2>3. CASE ~(active_client' = active_client /\ asked' = asked)
    <3>1. /\ active_client = NoClient
          /\ seat_open_client(c, state, session', devices, cur_vt', FALSE)
      BY <1>2, <2>3, Zenon DEF OpenSeat, SeatFree
    <3>2. active_client' = c /\ ~asked'
      BY <2>3, <3>1, <1>types, NewlyActive, Zenon
    <3> QED
      BY <2>1, <3>1, <3>2, SMTT(30) DEF Promise!HolderNext, Promise!Join
  <2> QED
    BY <2>2, <2>3
<1>3. ASSUME NEW c \in Client, CloseSeat(c) \/ client_destroy(c), conn[c] = "seat"
      PROVE  [Promise!HolderNext]_(Promise!holderVars)
  <2>1. c \in members /\ members' = members \ {c}
    BY <1>3, <1>types DEF CloseSeat, client_destroy, OnSeat
  <2>2. CASE active_client # c
    <3>1. active_client' = active_client /\ asked' = asked
      BY <1>3, <1>types, <2>2, Zenon DEF CloseSeat, client_destroy, seat_remove_client
    <3> QED
      BY <2>1, <2>2, <3>1, SMTT(30) DEF Promise!HolderNext, Promise!Leave
  <2>3. CASE active_client = c
    <3>1. active_client' \in members' \cup {NoClient}
      BY <1>types DEF OnSeat
    <3> DEFINE st == [state EXCEPT ![c] = "CLOSED"]
    <3>2. st \in [Client -> ClientState]
      BY <1>types DEF ClientState
    <3>3. seat_open_client(Candidate(Unlinked(clients, c), Unqueued(c), cur_vt), st,
                           session, DevicesClosed(c), cur_vt, TRUE)
      BY <1>3, <2>3, Zenon DEF CloseSeat, client_destroy, seat_remove_client, seat_activate
    <3> HIDE DEF st
    <3>4. ~asked'
      BY <1>types, <3>2, <3>3, NewlyActive, Zenon
    <3> QED
      BY <2>1, <2>3, <3>1, <3>4 DEF Promise!HolderNext, Promise!Leave
  <2> QED
    BY <2>2, <2>3
<1>4. ASSUME NEW c \in Client, DisableSeat(c)
      PROVE  [Promise!HolderNext]_(Promise!holderVars)
  <2> DEFINE st == [state EXCEPT ![c] = "DISABLED"]
  <2>1. active_client = c /\ asked /\ members' = members
    BY <1>4, <1>types DEF DisableSeat, OnSeat
  <2>2. active_client' \in members' \cup {NoClient}
    BY <1>types DEF OnSeat
  <2>3. /\ st \in [Client -> ClientState]
        /\ seat_open_client(Candidate(clients, next_client, cur_vt), st, session,
                            devices, cur_vt, FALSE)
    BY <1>4, <1>types, <2>1, Zenon DEF DisableSeat, seat_activate, ClientState
  <2> HIDE DEF st
  <2>4. ~asked'
    BY <1>types, <2>3, NewlyActive, Zenon
  <2> QED
    BY <2>1, <2>2, <2>4 DEF Promise!HolderNext, Promise!Give
<1>5. ASSUME VtAcquire PROVE [Promise!HolderNext]_(Promise!holderVars)
  <2>1. members' = members
    BY <1>5 DEF VtAcquire, OnSeat
  <2>2. CASE active_client' = active_client /\ asked' = asked
    BY <1>0, <2>1, <2>2
  <2>3. CASE ~(active_client' = active_client /\ asked' = asked)
    <3>1. /\ active_client = NoClient
          /\ seat_open_client(Candidate(clients, next_client, cur_vt'), state,
                              session, devices, cur_vt', FALSE)
      BY <1>5, <2>3, Zenon DEF VtAcquire, seat_activate
    <3>2. active_client' \in members' /\ ~asked'
      BY <2>3, <3>1, <1>types, NewlyActive, Zenon DEF OnSeat
    <3> QED
      BY <2>1, <3>1, <3>2, SMTT(30) DEF Promise!HolderNext, Promise!Grant
  <2> QED
    BY <2>2, <2>3
<1>6. ASSUME \/ VtRelease
             \/ \E c \in Client, s \in Sessions : SwitchSession(c, s)
      PROVE  [Promise!HolderNext]_(Promise!holderVars)
  <2>1. members' = members /\ active_client' = active_client
    BY <1>6 DEF VtRelease, SwitchSession, OnSeat
  <2>2. CASE UNCHANGED state
    BY <1>0, <2>1, <2>2, SMTT(30)
  <2>3. CASE ~UNCHANGED state
    <3>1. active_client # NoClient /\ ~asked /\ asked'
      BY <1>6, <2>3, <1>types, SMTT(30)
      DEF VtRelease, ReleaseDisables, SwitchSession, seat_disable_client
    <3> QED
      BY <2>1, <3>1 DEF Promise!HolderNext, Promise!Ask
  <2> QED
    BY <2>2, <2>3
<1>7. ASSUME \/ \E c \in Client :
                  \/ \E p \in Path : \/ OpenDevice(c, p) \/ ReopenDevice(c, p)
                                     \/ CloseDevice(c, p)
                  \/ \E v \in VTs : SwitchVt(c, v)
             \/ Kill \/ Leave \/ Exit
             \/ \E v \in VTs : UserSwitch(v)
             \/ \E p \in OutsidePath : OutsideMaster(p)
             \/ UNCHANGED vars
      PROVE  UNCHANGED <<conn, active_client, state>>
  BY <1>7, Zenon DEF OpenDevice, ReopenDevice, CloseDevice, SwitchVt, Kill, Leave, Exit,
    UserSwitch, OutsideMaster, seatVars, vars
<1>8. ASSUME UNCHANGED <<conn, active_client, state>>
      PROVE  [Promise!HolderNext]_(Promise!holderVars)
  BY <1>0, <1>8 DEF OnSeat
<1>9. ASSUME NEW c \in Client, CloseSeat(c) \/ client_destroy(c)
      PROVE  conn[c] = "seat" \/ (client_destroy(c) /\ conn[c] = "idle")
  BY <1>9 DEF CloseSeat, client_destroy
<1> HIDE DEF members, asked
<1> QED
  BY <1>0, <1>1, <1>2, <1>3, <1>4, <1>5, <1>6, <1>7, <1>8, <1>9, SMTT(30)
    DEF Next, Request, Disconnect, FinishClient

\* The seat implements the abstract seat, with and without VTs, for every number
\* of clients and every failure of a tty or of a send.
THEOREM SeatIsHeld == Spec => IsHeld
<1>1. Init => Promise!HolderInit
  BY ConstantsAssumption DEF Init, Promise!HolderInit, OnSeat
<1> QED
  BY <1>1, HolderStep, Invariance, PTL DEF Spec, IsHeld, Promise!HolderSpec

=============================================================================
