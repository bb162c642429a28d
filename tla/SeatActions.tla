----------------------------- MODULE SeatActions ----------------------------
(***************************************************************************)
(* Theorems about Seat that follow from its inductive invariant and a look *)
(* at each action: who gets the seat next, session numbers, and the VT of  *)
(* an enabled client.                                                      *)
(***************************************************************************)
EXTENDS SeatProofs

\* Sessions on a seat without VTs are handed out once: the new client gets a
\* number that nobody has had, whoever left before.
LEMMA SessionsStep ==
  ASSUME TypeOK, SessionsUnique, [Next]_vars
  PROVE  SessionsUnique'
<1> USE DEF SessionsUnique, OnSeat, TypeOK
<1>1. ASSUME NEW c \in Client, Connect(c) PROVE SessionsUnique'
  BY <1>1 DEF Connect
<1>2. ASSUME NEW c \in Client, NEW s \in Sessions, OpenSeat(c, s)
      PROVE  SessionsUnique'
  BY <1>2 DEF OpenSeat, seat_add_client, NextSession
<1>3. ASSUME NEW c \in Client, NEW s \in Sessions, OpenSeatUnanswered(c, s)
      PROVE  SessionsUnique'
  BY <1>3 DEF OpenSeatUnanswered, seat_add_client, NextSession
<1>4. ASSUME NEW c \in Client, CloseSeat(c) PROVE SessionsUnique'
  BY <1>4 DEF CloseSeat, seat_remove_client
<1>5. ASSUME NEW c \in Client, client_destroy(c) PROVE SessionsUnique'
  BY <1>5, Zenon DEF client_destroy, seat_remove_client
<1>6. ASSUME NEW c \in Client, OpenSeatRefused(c) PROVE SessionsUnique'
  BY <1>6 DEF OpenSeatRefused
<1>7. ASSUME NEW c \in Client,
             \/ \E s \in Sessions : SwitchSession(c, s)
             \/ \E p \in Path : \/ OpenDevice(c, p) \/ ReopenDevice(c, p)
                                \/ CloseDevice(c, p)
             \/ \E v \in VTs : SwitchVt(c, v)
             \/ DisableSeat(c)
      PROVE  UNCHANGED <<conn, session, session_cnt>>
  BY <1>7, Zenon DEF SwitchSession, OpenDevice, ReopenDevice, CloseDevice, SwitchVt,
    DisableSeat, seatVars
<1>8. ASSUME \/ VtAcquire \/ VtRelease \/ Kill \/ Leave \/ Exit
             \/ \E v \in VTs : UserSwitch(v)
             \/ \E p \in OutsidePath : OutsideMaster(p)
             \/ UNCHANGED vars
      PROVE  UNCHANGED <<conn, session, session_cnt>>
  BY <1>8, Zenon DEF VtAcquire, VtRelease, Kill, Leave, Exit, UserSwitch,
    OutsideMaster, seatVars, vars
<1>9. ASSUME UNCHANGED <<conn, session, session_cnt>> PROVE SessionsUnique'
  BY <1>9
<1> QED
  BY <1>1, <1>2, <1>3, <1>4, <1>5, <1>6, <1>7, <1>8, <1>9, SMTT(30)
    DEF Next, Request, Disconnect, FinishClient

\* No two clients of a seat without VTs have the same session.
THEOREM SessionsCorrect == Spec => []SessionsUnique
<1>1. Init => SessionsUnique
  BY DEF Init, SessionsUnique, OnSeat
<1> QED
  BY <1>1, SessionsStep, TypeCorrect, PTL DEF Spec

-----------------------------------------------------------------------------

\* What the actions that leave the seat's two pointers alone have in common.
LEMMA PointersKept ==
  ASSUME [Next]_vars,
         ~\E c \in Client :
            \/ \E s \in Sessions : OpenSeat(c, s) \/ SwitchSession(c, s)
            \/ CloseSeat(c) \/ client_destroy(c) \/ DisableSeat(c),
         ~VtAcquire
  PROVE  UNCHANGED <<active_client, next_client>>
<1>1. ASSUME NEW c \in Client,
             \/ Connect(c) \/ OpenSeatRefused(c)
             \/ \E s \in Sessions : OpenSeatUnanswered(c, s)
             \/ \E p \in Path : \/ OpenDevice(c, p) \/ ReopenDevice(c, p)
                                \/ CloseDevice(c, p)
             \/ \E v \in VTs : SwitchVt(c, v)
      PROVE  UNCHANGED <<active_client, next_client>>
  BY <1>1, Zenon DEF Connect, OpenSeatRefused, OpenSeatUnanswered, OpenDevice,
    ReopenDevice, CloseDevice, SwitchVt, seatVars
<1>2. ASSUME \/ VtRelease \/ Kill \/ Leave \/ Exit
             \/ \E v \in VTs : UserSwitch(v)
             \/ \E p \in OutsidePath : OutsideMaster(p)
             \/ UNCHANGED vars
      PROVE  UNCHANGED <<active_client, next_client>>
  BY <1>2 DEF VtRelease, Kill, Leave, Exit, UserSwitch, OutsideMaster, seatVars,
    vars
<1> QED
  BY <1>1, <1>2, SMTT(30) DEF Next, Request, Disconnect, FinishClient

\* A client that leaves is the only one that can lose the seat by it.
LEMMA RemovedLosesSeat ==
  ASSUME NEW c \in Client, TypeOK, CloseSeat(c) \/ client_destroy(c)
  PROVE  active_client' # active_client => active_client = c /\ conn'[c] # "seat"
BY Zenon DEF TypeOK, CloseSeat, client_destroy, seat_remove_client

\* The seat is handed over only by a client that answered or left, for every
\* number of clients.
THEOREM HandoverCorrect == Spec => HandoverAsked
<1> DEFINE Asked ==
      active_client # NoClient /\ active_client' # active_client
      => \/ state[active_client] = "PENDING_DISABLE"
         \/ conn'[active_client] # "seat"
<1>1. ASSUME IInv, [Next]_vars PROVE Asked
  <2>1. ASSUME NEW c \in Client, NEW s \in Sessions,
               OpenSeat(c, s) \/ SwitchSession(c, s)
        PROVE  Asked
    BY <2>1, Zenon DEF OpenSeat, SeatFree, SwitchSession
  <2>2. ASSUME NEW c \in Client, CloseSeat(c) \/ client_destroy(c) PROVE Asked
    BY <1>1, <2>2, RemovedLosesSeat DEF IInv
  <2>3. ASSUME NEW c \in Client, DisableSeat(c) PROVE Asked
    BY <2>3, ZenonT(30) DEF DisableSeat
  <2>4. ASSUME VtAcquire PROVE Asked
    BY <2>4 DEF VtAcquire
  <2> QED
    BY <1>1, <2>1, <2>2, <2>3, <2>4, PointersKept
<1>2. IInv /\ [Next]_vars => [Asked]_vars
  BY <1>1
<1> QED
  BY <1>2, Invariance, PTL DEF Spec, HandoverAsked

\* seat_activate gives the seat to the client that is queued: it can always be
\* opened.
LEMMA QueuedActivated ==
  ASSUME IInv, next_client # NoClient,
         NEW l, NEW st, NEW devs, NEW vt, NEW tidy,
         st[next_client] = state[next_client],
         seat_activate(l, next_client, st, devs, vt, tidy)
  PROVE  active_client' = next_client /\ next_client' = NoClient
BY DEF IInv, NextQueued, seat_activate, seat_open_client, Candidate

\* The queued client is served next, whoever leaves or asks for what meanwhile.
THEOREM QueuedServed == Spec => QueuedIsNext
<1> DEFINE Served ==
      next_client # NoClient /\ next_client' # next_client
      => \/ active_client' = next_client /\ next_client' = NoClient
         \/ conn'[next_client] # "seat"
<1>1. ASSUME IInv, [Next]_vars, next_client # NoClient PROVE Served
  <2>1. next_client \in Client /\ ~VtBound /\ active_client # next_client
    BY <1>1, ConstantsAssumption, SMTT(30)
    DEF IInv, TypeOK, NextQueued
  <2>2. ASSUME NEW c \in Client, NEW s \in Sessions,
               OpenSeat(c, s) \/ SwitchSession(c, s)
        PROVE  Served
    BY <1>1, <2>2, Zenon DEF OpenSeat, SwitchSession
  <2>3. ASSUME NEW c \in Client, CloseSeat(c) \/ client_destroy(c) PROVE Served
    <3>1. conn'[c] # "seat"
      BY <1>1, <2>3, SMTT(30) DEF IInv, TypeOK, CloseSeat, client_destroy
    <3>2. CASE conn[c] = "seat" /\ next_client # c /\ active_client = c
      <4>1. seat_activate(Unlinked(clients, c), next_client,
                          [state EXCEPT ![c] = "CLOSED"], DevicesClosed(c),
                          cur_vt, TRUE)
        BY <2>3, <3>2, Zenon
        DEF CloseSeat, client_destroy, seat_remove_client, Unqueued
      <4>2. [state EXCEPT ![c] = "CLOSED"][next_client] = state[next_client]
        BY <1>1, <2>1, <3>2 DEF IInv, TypeOK
      <4> QED
        BY <1>1, <4>1, <4>2, QueuedActivated, Zenon
    <3>3. CASE conn[c] = "seat" /\ next_client # c /\ active_client # c
      BY <2>3, <3>3, Zenon DEF CloseSeat, client_destroy, seat_remove_client, Unqueued
    <3>4. CASE conn[c] # "seat"
      BY <2>3, <3>4 DEF CloseSeat, client_destroy
    <3> QED
      BY <3>1, <3>2, <3>3, <3>4
  <2>4. ASSUME NEW c \in Client, DisableSeat(c) PROVE Served
    <3>1. CASE active_client = c
      <4>1. seat_activate(clients, next_client, [state EXCEPT ![c] = "DISABLED"],
                          devices, cur_vt, FALSE)
        BY <2>4, <3>1, Zenon DEF DisableSeat
      <4>2. [state EXCEPT ![c] = "DISABLED"][next_client] = state[next_client]
        BY <1>1, <2>1, <3>1 DEF IInv, TypeOK
      <4> QED
        BY <1>1, <4>1, <4>2, QueuedActivated, Zenon
    <3>2. CASE active_client # c
      BY <2>4, <3>2, SMTT(30) DEF DisableSeat
    <3> QED
      BY <3>1, <3>2
  <2>5. ~VtAcquire
    BY <2>1, Zenon DEF VtAcquire
  <2> QED
    BY <1>1, <2>2, <2>3, <2>4, <2>5, PointersKept, SMTT(30)
<1>2. IInv /\ [Next]_vars => [Served]_vars
  BY <1>1
<1> QED
  BY <1>2, Invariance, PTL DEF Spec, QueuedIsNext

-----------------------------------------------------------------------------

\* Whom seat_open_client enables, and that nobody else becomes enabled.
LEMMA Enables ==
  ASSUME NEW c, NEW st \in [Client -> ClientState], NEW sess, NEW devs, NEW vt,
         NEW tidy, seat_open_client(c, st, sess, devs, vt, tidy),
         NEW d \in Client, state'[d] = "ACTIVE"
  PROVE  st[d] = "ACTIVE" \/ (c = d /\ c # NoClient)
BY DEF seat_open_client

\* seat_activate without a VT finds nobody on a VT-bound seat.
LEMMA NobodyWithoutVt ==
  ASSUME IInv, VtBound, NEW l
  PROVE  /\ next_client = NoClient
         /\ Candidate(l, NoClient, NoVt) = NoClient
BY DEF IInv, NextQueued, Candidate, NoVt

\* After a VT release nobody is enabled until cur_vt is known again.
LEMMA SwitchHasVtStep ==
  ASSUME IInv, SwitchHasVt, [Next]_vars
  PROVE  SwitchHasVt'
<1> SUFFICES ASSUME VtBound, NEW d \in Client, state'[d] = "ACTIVE"
             PROVE  cur_vt' # NoVt
  BY ConstantsAssumption DEF SwitchHasVt
<1>types. /\ fg_vt # NoVt /\ NoClient \notin Client
          /\ state \in [Client -> ClientState]
  <2>1. fg_vt \in VTs /\ state \in [Client -> ClientState]
    BY Zenon DEF IInv, TypeOK
  <2>2. VTs \subseteq Nat \ {0} /\ NoClient \notin Client
    BY ConstantsAssumption, Zenon
  <2>3. fg_vt # NoVt
    BY <2>1, <2>2, SMTT(30) DEF NoVt
  <2> QED
    BY <2>1, <2>2, <2>3, Zenon
<1>0. ASSUME UNCHANGED <<state, cur_vt>> PROVE cur_vt' # NoVt
  BY <1>0 DEF SwitchHasVt
<1>1. ASSUME NEW c \in Client, Connect(c) \/ OpenSeatRefused(c)
      PROVE  cur_vt' # NoVt
  BY <1>1, <1>types, SMTT(30) DEF Connect, OpenSeatRefused, UpdatedVt, SwitchHasVt
<1>2. ASSUME NEW c \in Client, NEW s \in Sessions,
             OpenSeat(c, s) \/ OpenSeatUnanswered(c, s)
      PROVE  cur_vt' # NoVt
  BY <1>2, Zenon DEF OpenSeat, OpenSeatUnanswered, seat_add_client
<1>3. ASSUME NEW c \in Client, CloseSeat(c) \/ client_destroy(c)
      PROVE  cur_vt' # NoVt
  <2>1. CASE conn[c] = "seat" /\ active_client = c
    <3> DEFINE st == [state EXCEPT ![c] = "CLOSED"]
    <3>1. /\ cur_vt' = cur_vt
          /\ seat_open_client(Candidate(Unlinked(clients, c), NoClient, cur_vt),
                              st, session, DevicesClosed(c), cur_vt, TRUE)
      BY <1>3, <2>1, NobodyWithoutVt, Zenon
      DEF CloseSeat, client_destroy, seat_remove_client, seat_activate, Unqueued
    <3>2. st \in [Client -> ClientState] /\ (st[d] = "ACTIVE" => state[d] = "ACTIVE")
      BY <1>types DEF ClientState
    <3> HIDE DEF st
    <3>3. \/ st[d] = "ACTIVE"
          \/ Candidate(Unlinked(clients, c), NoClient, cur_vt) # NoClient
      BY <3>1, <3>2, Enables, Zenon
    <3> QED
      BY <3>1, <3>2, <3>3, NobodyWithoutVt DEF SwitchHasVt
  <2>2. CASE ~(conn[c] = "seat" /\ active_client = c)
    <3>1. cur_vt' = cur_vt /\ state' = [state EXCEPT ![c] = "CLOSED"]
      BY <1>3, <2>2, Zenon DEF CloseSeat, client_destroy, seat_remove_client
    <3> QED
      BY <3>1, <1>types DEF SwitchHasVt
  <2> QED
    BY <2>1, <2>2
<1>4. ASSUME NEW c \in Client, DisableSeat(c) PROVE cur_vt' # NoVt
  <2> DEFINE st == [state EXCEPT ![c] = "DISABLED"]
  <2>1. cur_vt' = cur_vt
    BY <1>4 DEF DisableSeat
  <2>2. st \in [Client -> ClientState] /\ (st[d] = "ACTIVE" => state[d] = "ACTIVE")
    BY <1>types, SMTT(30) DEF ClientState
  <2>3. CASE active_client = c
    <3>1. seat_open_client(Candidate(clients, NoClient, cur_vt), st, session,
                           devices, cur_vt, FALSE)
      BY <1>4, <2>3, NobodyWithoutVt, Zenon DEF DisableSeat, seat_activate
    <3> HIDE DEF st
    <3>2. \/ st[d] = "ACTIVE"
          \/ Candidate(clients, NoClient, cur_vt) # NoClient
      BY <3>1, <2>2, Enables, Zenon
    <3> QED
      BY <2>1, <2>2, <3>2, NobodyWithoutVt, SMTT(30) DEF SwitchHasVt
  <2>4. CASE active_client # c
    BY <1>4, <2>1, <2>2, <2>4 DEF DisableSeat, SwitchHasVt
  <2> QED
    BY <2>3, <2>4
<1>5. ASSUME VtAcquire PROVE cur_vt' # NoVt
  BY <1>5, <1>types, Zenon DEF VtAcquire, UpdatedVt, SwitchHasVt
<1>6. ~VtRelease
  BY <1>types, Zenon
  DEF VtRelease, ReleaseDisables, seat_disable_client, IInv, OneActive, TypeOK
<1>7. ASSUME NEW c \in Client,
             \/ \E p \in Path : \/ OpenDevice(c, p) \/ ReopenDevice(c, p)
                                \/ CloseDevice(c, p)
             \/ \E v \in VTs : SwitchVt(c, v)
      PROVE  UNCHANGED <<state, cur_vt>>
  BY <1>7, Zenon DEF OpenDevice, ReopenDevice, CloseDevice, SwitchVt, seatVars
<1>8. ASSUME NEW c \in Client, NEW s \in Sessions PROVE ~SwitchSession(c, s)
  BY DEF SwitchSession
<1>9. ASSUME \/ Kill \/ Leave \/ Exit
             \/ \E v \in VTs : UserSwitch(v)
             \/ \E p \in OutsidePath : OutsideMaster(p)
             \/ UNCHANGED vars
      PROVE  UNCHANGED <<state, cur_vt>>
  BY <1>9 DEF Kill, Leave, Exit, UserSwitch, OutsideMaster, seatVars, vars
<1> QED
  BY <1>0, <1>1, <1>2, <1>3, <1>4, <1>5, <1>6, <1>7, <1>8, <1>9, SMTT(30)
    DEF Next, Request, Disconnect, FinishClient

\* vt_switch is never called with cur_vt -1: an enabled client has a VT.
THEOREM SwitchVtKnown == Spec => []SwitchHasVt
<1>1. Init => SwitchHasVt
  BY DEF Init, SwitchHasVt
<1> QED
  BY <1>1, SwitchHasVtStep, Invariance, PTL DEF Spec

=============================================================================
