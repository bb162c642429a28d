----------------------------- MODULE SeatSteps ------------------------------
(***************************************************************************)
(* Every action of Seat keeps the inductive invariant, one lemma per action.*)
(***************************************************************************)
EXTENDS SeatLemmas

\* Steps that move a client between "none" and "idle".
LEMMA IdleLemma ==
    ASSUME IInv, NEW c \in Client, conn[c] # "seat",
           NEW where \in {"none", "idle"}, conn' = [conn EXCEPT ![c] = where],
           NEW st \in {"NEW", "CLOSED"}, state' = [state EXCEPT ![c] = st],
           where = "idle" => st = "NEW", session' \in [Client -> Int],
           \A d \in Client \ {c} : session'[d] = session[d], session_cnt' \in Nat,
           cur_vt' \in VTs \cup {0, NoVt}, tty' \in [VTs -> TtyConfig],
           UNCHANGED <<server, clients, active_client, next_client, devices,
                       fg_vt, newvt, raised, outside>>
    PROVE  IInv'
<1>1. TypeOK'
  BY Zenon DEF IInv, TypeOK, ClientState
<1>2. ListIsSeat'
  BY DEF IInv, TypeOK, ListIsSeat, OnSeat
<1>3. state[c] \notin {"ACTIVE", "PENDING_DISABLE"} /\ active_client # c
      /\ next_client # c
  BY ConstantsAssumption DEF IInv, Placed, OneActive, OnSeat, NextQueued, TypeOK
<1>4. OneActive' /\ Placed'
  BY <1>3 DEF IInv, TypeOK, OneActive, Placed, OnSeat
<1>5. NextQueued' /\ NeverIdle'
  BY <1>3 DEF IInv, TypeOK, NextQueued, NeverIdle, OnSeat
<1>6. LiveIsActive' /\ ExclusiveAccess'
  BY <1>3 DEF IInv, TypeOK, LiveIsActive, ExclusiveAccess
<1> QED
  BY <1>1, <1>2, <1>4, <1>5, <1>6, SMTT(30) DEF IInv

\* server_add_client: a new client is idle and has nothing.
LEMMA ConnectLemma ==
    ASSUME IInv, NEW c \in Client, Connect(c) PROVE IInv'
<1>1. /\ conn[c] # "seat"
      /\ conn' = [conn EXCEPT ![c] = "idle"] /\ state' = [state EXCEPT ![c] = "NEW"]
      /\ session' \in [Client -> Int] /\ session_cnt' \in Nat
      /\ \A d \in Client \ {c} : session'[d] = session[d]
      /\ cur_vt' \in VTs \cup {0, NoVt} /\ tty' \in [VTs -> TtyConfig]
      /\ UNCHANGED <<server, clients, active_client, next_client, devices,
                     fg_vt, newvt, raised, outside>>
  BY DEF Connect, IInv, TypeOK, vtVars
<1> QED
  BY <1>1, IdleLemma, Zenon

\* seat_update_vt leaves a VT, 0 or NoVt in cur_vt.
LEMMA UpdatedVtLemma ==
    ASSUME TypeOK, NEW opened PROVE UpdatedVt(opened) \in VTs \cup {0, NoVt}
BY DEF TypeOK, UpdatedVt

\* handle_open_seat that is refused destroys an idle client.
LEMMA OpenSeatRefusedLemma ==
    ASSUME IInv, NEW c \in Client, OpenSeatRefused(c) PROVE IInv'
<1>1. /\ conn[c] # "seat"
      /\ conn' = [conn EXCEPT ![c] = "none"] /\ state' = [state EXCEPT ![c] = "CLOSED"]
      /\ session' \in [Client -> Int] /\ session_cnt' \in Nat
      /\ \A d \in Client \ {c} : session'[d] = session[d]
      /\ tty' \in [VTs -> TtyConfig]
      /\ UNCHANGED <<server, clients, active_client, next_client, devices,
                     fg_vt, newvt, raised, outside>>
  BY DEF OpenSeatRefused, MayAdd, IInv, TypeOK, vtVars
<1>2. cur_vt' \in VTs \cup {0, NoVt}
  BY UpdatedVtLemma DEF OpenSeatRefused, IInv
<1> QED
  BY <1>1, <1>2, IdleLemma, Zenon

\* What seat_add_client leaves behind, whatever happens to the client next.
LEMMA AddLemma ==
    ASSUME TypeOK, NEW c \in Client, NEW s, seat_add_client(c, s)
    PROVE  /\ s \in VTs \cup Nat /\ conn[c] = "idle" /\ session_cnt' \in Nat
           /\ cur_vt' \in VTs \cup {0, NoVt}
<1>1. conn[c] = "idle"
  BY DEF seat_add_client, MayAdd
<1>2. CASE VtBound
  BY <1>1, <1>2, UpdatedVtLemma, SMTT(30) DEF seat_add_client, TypeOK
<1>3. CASE ~VtBound
  BY <1>1, <1>3 DEF seat_add_client, TypeOK, NextSession
<1> QED
  BY <1>2, <1>3

\* handle_open_seat without an answer: the client is added and destroyed again.
LEMMA OpenSeatUnansweredLemma ==
    ASSUME IInv, NEW c \in Client, NEW s, OpenSeatUnanswered(c, s) PROVE IInv'
<1>1. /\ conn[c] # "seat" /\ session_cnt' \in Nat
      /\ cur_vt' \in VTs \cup {0, NoVt}
  BY AddLemma DEF OpenSeatUnanswered, IInv
<1>2. /\ conn' = [conn EXCEPT ![c] = "none"] /\ state' = [state EXCEPT ![c] = "CLOSED"]
      /\ session' \in [Client -> Int] /\ tty' \in [VTs -> TtyConfig]
      /\ \A d \in Client \ {c} : session'[d] = session[d]
      /\ UNCHANGED <<server, clients, active_client, next_client, devices,
                     fg_vt, newvt, raised, outside>>
  BY Zenon DEF OpenSeatUnanswered, IInv, TypeOK, vt_close, TtyConfig
<1> QED
  BY <1>1, <1>2, IdleLemma, Zenon

\* With no active client, nobody can use a device.
LEMMA FreeLemma ==
    ASSUME IInv, active_client = NoClient PROVE Free(state, devices)
BY ConstantsAssumption
   DEF IInv, TypeOK, OneActive, ExclusiveAccess, Free, Devices, Revocable

\* handle_open_seat: the client joins the list and takes a free seat.
LEMMA OpenSeatLemma ==
    ASSUME IInv, NEW c \in Client, NEW s \in Sessions, OpenSeat(c, s) PROVE IInv'
<1> USE ConstantsAssumption
<1>1. TypeOK /\ ListIsSeat /\ OneActive /\ Placed /\ NextQueued /\ NeverIdle
      /\ LiveIsActive /\ ExclusiveAccess
  BY DEF IInv
<1>2. /\ conn[c] = "idle" /\ session_cnt' \in Nat
      /\ cur_vt' \in VTs \cup {0, NoVt} /\ s \in Nat
  BY <1>1, AddLemma, SMTT(30) DEF OpenSeat, Sessions
<1>3. /\ session' \in [Client -> Int]
      /\ clients' = <<c>> \o clients /\ clients' \in Seq(Client)
      /\ conn' = [conn EXCEPT ![c] = "seat"]
      /\ conn' \in [Client -> {"none", "idle", "seat"}]
      /\ UNCHANGED <<next_client, fg_vt, newvt, raised, outside>>
  BY <1>1, <1>2 DEF OpenSeat, TypeOK
<1>4. ListIsSeat'
  <2>1. /\ Len(clients') = Len(clients) + 1 /\ clients'[1] = c
        /\ \A i \in 2 .. Len(clients) + 1 : clients'[i] = clients[i - 1]
    BY <1>1, <1>3 DEF TypeOK
  <2>2. /\ Len(clients) \in Nat /\ DOMAIN clients = 1 .. Len(clients)
        /\ DOMAIN clients' = 1 .. Len(clients) + 1
    BY <1>1, <1>3, <2>1, SMTT(30) DEF TypeOK
  <2>3. \A i \in DOMAIN clients : clients[i] # c
    BY <1>1, <1>2, Zenon DEF ListIsSeat, OnSeat, TypeOK
  <2>4. ASSUME NEW d \in Client
        PROVE  (\E i \in DOMAIN clients' : clients'[i] = d)
               <=> d = c \/ \E i \in DOMAIN clients : clients[i] = d
    <3>1. ASSUME NEW i \in DOMAIN clients
          PROVE  i + 1 \in DOMAIN clients' /\ clients'[i + 1] = clients[i]
      BY <2>1, <2>2
    <3>2. ASSUME NEW i \in DOMAIN clients', i # 1
          PROVE  i - 1 \in DOMAIN clients /\ clients'[i] = clients[i - 1]
      BY <2>1, <2>2, <3>2, SMTT(30)
    <3>3. 1 \in DOMAIN clients'
      BY <2>2
    <3> QED
      BY <2>1, <3>1, <3>2, <3>3, SMTT(30)
  <2>5. \A i, j \in DOMAIN clients' : clients'[i] = clients'[j] => i = j
    <3>1. ASSUME NEW i \in DOMAIN clients'
          PROVE  /\ i \in Int
                 /\ i # 1 => /\ i - 1 \in DOMAIN clients
                            /\ clients'[i] = clients[i - 1]
      BY <2>1, <2>2
    <3> QED
      BY <1>1, <2>1, <2>3, <3>1, SMTT(30) DEF ListIsSeat
  <2>6. \A d \in Client : conn'[d] = "seat" <=> d = c \/ conn[d] = "seat"
    BY <1>1, <1>3 DEF TypeOK
  <2>7. \A d \in Client : conn[d] = "seat" <=> \E i \in DOMAIN clients : clients[i] = d
    BY <1>1 DEF ListIsSeat, OnSeat
  <2> QED
    BY <2>4, <2>5, <2>6, <2>7, SMTT(30) DEF ListIsSeat, OnSeat
<1>5. active_client # c /\ next_client # c
  BY <1>1, <1>2 DEF NextQueued, OnSeat
<1>6. session'[c] # NoSession /\ \A d \in Client \ {c} : session'[d] = session[d]
  BY <1>1, <1>2, SMTT(30) DEF OpenSeat, seat_add_client, NextSession, TypeOK, Sessions, NoVt,
                    NoSession
<1>7. CASE SeatFree
  <2>1. seat_open_client(c, state, session', devices, cur_vt', FALSE)
    BY <1>7, Zenon DEF OpenSeat
  <2>2. Free(state, devices)
    BY <1>7, FreeLemma DEF SeatFree
  <2>3. Given(c, state, devices)
    BY <1>1, <2>1, <2>2, ActivateLemma, Zenon
  <2>4. TypeOK'
    BY <1>1, <1>2, <1>3, <2>3, Zenon DEF TypeOK, Devices, Given
  <2>5. state[c] \in {"NEW", "CLOSED"} /\ next_client = NoClient
    BY <1>1, <1>2, <1>7, SMTT(30) DEF Placed, OnSeat, NextQueued, SeatFree
  <2>6. state[c] = "NEW"
    BY <1>1, <1>2, SMTT(30) DEF OpenSeat, seat_add_client, MayAdd, Placed, OnSeat
  <2>7. Placed'
    BY <1>1, <1>3, <1>6, <2>3, <2>6, SMTT(30) DEF Placed, OnSeat, TypeOK, Given
  <2>8. NextQueued' /\ NeverIdle'
    BY <1>1, <1>3, <2>3, <2>5, <2>6, SMTT(30) DEF NextQueued, NeverIdle, OnSeat, TypeOK, Given
  <2> QED
    BY <1>4, <2>3, <2>4, <2>7, <2>8, SMTT(30) DEF IInv, Given
<1>8. CASE ~SeatFree
  <2>1. UNCHANGED <<server, state, active_client, devices, tty>>
    BY <1>8, Zenon DEF OpenSeat
  <2>2. TypeOK'
    BY <1>1, <1>2, <1>3, <2>1, SMTT(30) DEF TypeOK
  <2>3. OneActive' /\ LiveIsActive' /\ ExclusiveAccess'
    BY <1>1, <2>1, SMTT(30) DEF OneActive, LiveIsActive, ExclusiveAccess
  <2>4. Placed'
    <3>1. state[c] = "NEW"
      BY <1>1, <1>2 DEF OpenSeat, seat_add_client, MayAdd, Placed, OnSeat
    <3> QED
      BY <1>1, <1>3, <1>6, <2>1, <3>1, SMTT(30) DEF Placed, OnSeat, TypeOK
  <2>5. NextQueued' /\ NeverIdle'
    BY <1>1, <1>3, <1>8, <2>1, SMTT(30) DEF NextQueued, NeverIdle, OnSeat, TypeOK, SeatFree
  <2> QED
    BY <1>4, <2>2, <2>3, <2>4, <2>5, SMTT(30) DEF IInv
<1> QED
  BY <1>7, <1>8, SMTT(30)

\* Requests of an open device by an enabled client, and closing: the device
\* of client c at path p becomes new, and nothing else changes.
LEMMA DeviceStepLemma ==
    ASSUME IInv, NEW c \in Client, NEW p \in Path, NEW new \in Device,
           OnSeat(c), devices' = [devices EXCEPT ![c][p] = new],
           p \in Revocable /\ new.live => new.active /\ state[c] = "ACTIVE",
           UNCHANGED <<server, conn, seatVars, vtVars, outside>>
    PROVE  IInv'
<1>1. TypeOK /\ ListIsSeat /\ OneActive /\ Placed /\ NextQueued /\ NeverIdle
      /\ LiveIsActive /\ ExclusiveAccess
  BY DEF IInv
<1>2. /\ devices' \in [Client -> [Path -> Device]]
      /\ \A d \in Client \ {c} : devices'[d] = devices[d]
      /\ \A q \in Path : devices'[c][q] = IF q = p THEN new ELSE devices[c][q]
  BY <1>1 DEF TypeOK
<1>3. TypeOK'
  BY <1>1, <1>2 DEF TypeOK, seatVars, vtVars
<1>4. ListIsSeat' /\ OneActive' /\ NextQueued' /\ NeverIdle'
  BY <1>1, SMTT(30) DEF ListIsSeat, OneActive, NextQueued, NeverIdle, OnSeat, seatVars
<1>5. Placed'
  BY <1>1, <1>2, SMTT(30) DEF Placed, OnSeat, seatVars
<1>6. LiveIsActive' /\ ExclusiveAccess'
  BY <1>1, <1>2 DEF LiveIsActive, ExclusiveAccess, seatVars, Revocable, Path
<1> QED
  BY <1>3, <1>4, <1>5, <1>6, SMTT(30) DEF IInv

\* handle_open_device: only the active client opens a device, with a fresh id.
LEMMA OpenDeviceLemma ==
    ASSUME IInv, NEW c \in Client, NEW p \in Path, OpenDevice(c, p) PROVE IInv'
<1> DEFINE id == NextDeviceId(devices[c])
           live == p \in DrmPath => MasterFree(devices, p)
           new == [device_id |-> id, ref_cnt |-> 1, active |-> TRUE, live |-> live]
<1>1. id \in Nat
  BY NextDeviceIdLemma DEF IInv, TypeOK
<1>2. live \in BOOLEAN
  OBVIOUS
<1>3. /\ OnSeat(c) /\ state[c] = "ACTIVE"
      /\ devices' = [devices EXCEPT ![c][p] = new]
      /\ UNCHANGED <<server, conn, seatVars, vtVars, outside>>
  BY SMTT(30) DEF OpenDevice, OnSeat, IInv, TypeOK
<1> HIDE DEF id, live
<1>4. new \in Device /\ new.active
  BY <1>1, <1>2 DEF Device
<1> QED
  BY <1>3, <1>4, DeviceStepLemma, Zenon

\* handle_open_device of an open path changes a reference count only.
LEMMA ReopenDeviceLemma ==
    ASSUME IInv, NEW c \in Client, NEW p \in Path, ReopenDevice(c, p) PROVE IInv'
<1> DEFINE dev == devices[c][p]
           new == [dev EXCEPT !.ref_cnt = @ + 1]
<1>1. dev \in Device
  BY DEF IInv, TypeOK
<1>2. new \in Device /\ new.live = dev.live /\ new.active = dev.active
  BY <1>1 DEF Device
<1>3. /\ OnSeat(c) /\ state[c] = "ACTIVE"
      /\ devices' = [devices EXCEPT ![c][p] = new]
      /\ UNCHANGED <<server, conn, seatVars, vtVars, outside>>
  BY DEF ReopenDevice, OnSeat, IInv, TypeOK
<1>4. p \in Revocable /\ dev.live => dev.active
  BY DEF IInv, LiveIsActive, Revocable
<1> QED
  BY <1>2, <1>3, <1>4, DeviceStepLemma, Zenon

\* handle_close_device takes a device away and never hands one out.
LEMMA CloseDeviceLemma ==
    ASSUME IInv, NEW c \in Client, NEW p \in Path, CloseDevice(c, p) PROVE IInv'
<1> DEFINE dev == devices[c][p]
           new == seat_close_device(dev)
<1>1. dev \in Device
  BY DEF IInv, TypeOK
<1>2. new \in Device /\ (new.live => new.active = dev.active /\ dev.live)
  <2>1. CASE dev.ref_cnt > 1
    BY <1>1, <2>1 DEF seat_close_device, Device
  <2>2. CASE ~(dev.ref_cnt > 1)
    BY <2>2, Zenon DEF seat_close_device, Device, NoDevice
  <2> QED
    BY <2>1, <2>2, SMTT(30)
<1>3. /\ OnSeat(c)
      /\ devices' = [devices EXCEPT ![c][p] = new]
      /\ UNCHANGED <<server, conn, seatVars, vtVars, outside>>
  BY DEF CloseDevice, OnSeat, IInv, TypeOK
<1>4. p \in Revocable /\ dev.live => dev.active /\ state[c] = "ACTIVE"
  BY SMTT(30) DEF IInv, LiveIsActive, ExclusiveAccess, Revocable
<1> QED
  BY <1>2, <1>3, <1>4, DeviceStepLemma, ZenonT(30)

\* seat_disable_client of the active client, with or without a queued client.
LEMMA DisableClientLemma ==
    ASSUME IInv, NEW c \in Client, active_client = c, state[c] = "ACTIVE",
           seat_disable_client(c),
           \/ next_client' = next_client
           \/ /\ ~VtBound /\ next_client' \in Client \ {c}
              /\ OnSeat(next_client'),
           server' \in {"running", "killed", "finishing", "stopped", "aborted"},
           cur_vt' \in VTs \cup {0, NoVt}, fg_vt' \in VTs, newvt' \in VTs \cup {NoVt},
           raised' \in SUBSET {"acquire", "release"},
           UNCHANGED <<conn, clients, active_client, session, session_cnt,
                       tty, outside>>
    PROVE  IInv'
<1> USE ConstantsAssumption
<1>1. TypeOK /\ ListIsSeat /\ OneActive /\ Placed /\ NextQueued /\ NeverIdle
      /\ LiveIsActive /\ ExclusiveAccess
  BY DEF IInv
<1>2. state' = [state EXCEPT ![c] = "PENDING_DISABLE"]
      /\ devices' = Deactivated(devices, c)
  BY DEF seat_disable_client
<1>3. /\ devices' \in Devices
      /\ \A d \in Client \ {c} : devices'[d] = devices[d]
      /\ \A p \in Revocable : ~devices'[c][p].live
  <2>1. devices \in Devices
        /\ \A p \in Revocable : devices[c][p].live => devices[c][p].active
    BY <1>1 DEF TypeOK, Devices, LiveIsActive, Revocable
  <2> QED
    BY <1>2, <2>1, DeactivatedLemma, SMTT(30)
<1>4. next_client' \in Client \cup {NoClient}
  BY <1>1 DEF TypeOK
<1>5. TypeOK'
  BY <1>1, <1>2, <1>3, <1>4, Zenon DEF TypeOK, Devices, ClientState
<1>6. ListIsSeat' /\ NeverIdle'
  BY <1>1, SMTT(30) DEF ListIsSeat, NeverIdle, OnSeat
<1>7. OneActive' /\ Placed'
  BY <1>1, <1>2, <1>3, SMTT(30) DEF OneActive, Placed, OnSeat, TypeOK, NextQueued
<1>8. NextQueued'
  <2>1. CASE next_client' = next_client
    BY <1>1, <1>2, <2>1, SMTT(30) DEF NextQueued, OnSeat, TypeOK
  <2>2. CASE ~VtBound /\ next_client' \in Client \ {c} /\ OnSeat(next_client')
    <3>1. state[next_client'] \in {"NEW", "DISABLED"}
      BY <1>1, <2>2, SMTT(30) DEF TypeOK, ClientState, OneActive, Placed
    <3> QED
      BY <1>1, <1>2, <2>2, <3>1, SMTT(30) DEF NextQueued, OnSeat, TypeOK
  <2> QED
    BY <2>1, <2>2
<1>9. LiveIsActive' /\ ExclusiveAccess'
  BY <1>1, <1>2, <1>3, Zenon DEF LiveIsActive, ExclusiveAccess, TypeOK, Revocable
<1> QED
  BY <1>5, <1>6, <1>7, <1>8, <1>9, SMTT(30) DEF IInv

\* seat_set_next_session: a client of the seat is queued, the active one asked.
LEMMA SwitchSessionLemma ==
    ASSUME IInv, NEW c \in Client, NEW s, SwitchSession(c, s) PROVE IInv'
<1>1. active_client = c /\ state[c] = "ACTIVE"
  BY DEF SwitchSession, IInv, OneActive
<1>2. PICK i \in DOMAIN clients :
        session[clients[i]] = s /\ next_client' = clients[i]
  BY DEF SwitchSession
<1>3. ~VtBound /\ next_client' \in Client \ {c}
  BY <1>2 DEF SwitchSession, IInv, TypeOK
<1>4. OnSeat(next_client')
  BY <1>2, <1>3, SMTT(30) DEF IInv, ListIsSeat
<1>5. /\ seat_disable_client(c)
      /\ server' \in {"running", "killed", "finishing", "stopped", "aborted"}
      /\ cur_vt' \in VTs \cup {0, NoVt} /\ fg_vt' \in VTs
      /\ newvt' \in VTs \cup {NoVt} /\ raised' \in SUBSET {"acquire", "release"}
      /\ UNCHANGED <<conn, clients, active_client, session, session_cnt,
                     tty, outside>>
  BY <1>1 DEF SwitchSession, IInv, TypeOK, vtVars
<1> QED
  BY <1>1, <1>3, <1>4, <1>5, DisableClientLemma, SMTT(30)

\* The kernel's and the server's own variables play no part in the invariant
\* beyond their types.
LEMMA KernelStepLemma ==
    ASSUME IInv, server' \in {"running", "killed", "finishing", "stopped", "aborted"},
           cur_vt' \in VTs \cup {0, NoVt}, fg_vt' \in VTs,
           newvt' \in VTs \cup {NoVt}, tty' \in [VTs -> TtyConfig],
           raised' \in SUBSET {"acquire", "release"}, outside' \in SUBSET DrmPath,
           UNCHANGED <<conn, clients, active_client, next_client, state, session,
                       session_cnt, devices>>
    PROVE  IInv'
<1>1. TypeOK'
  BY SMTT(30) DEF IInv, TypeOK
<1>2. ListIsSeat' /\ OneActive' /\ Placed' /\ NextQueued' /\ NeverIdle'
      /\ LiveIsActive' /\ ExclusiveAccess'
  BY SMTT(30) DEF IInv, ListIsSeat, OneActive, Placed, NextQueued, NeverIdle, LiveIsActive,
         ExclusiveAccess, OnSeat
<1> QED
  BY <1>1, <1>2 DEF IInv

\* vt_switch leaves clients and devices alone.
LEMMA SwitchVtLemma ==
    ASSUME IInv, NEW c \in Client, NEW v \in VTs, SwitchVt(c, v) PROVE IInv'
<1>1. fg_vt' \in VTs /\ newvt' \in VTs \cup {NoVt}
      /\ raised' \in SUBSET {"acquire", "release"}
  BY Zenon DEF SwitchVt, vt_switch, RequestSwitch, Complete, IInv, TypeOK, vtVars
<1>2. /\ tty' \in [VTs -> TtyConfig]
      /\ server' \in {"running", "killed", "finishing", "stopped", "aborted"}
  BY Zenon DEF SwitchVt, vt_switch, terminal_set_process_switching, IInv, TypeOK, TtyConfig, vtVars
<1>3. cur_vt' \in VTs \cup {0, NoVt} /\ outside' \in SUBSET DrmPath
      /\ UNCHANGED <<conn, clients, active_client, next_client, state, session,
                     session_cnt, devices>>
  BY DEF SwitchVt, vt_switch, seatVars, IInv, TypeOK
<1> QED
  BY <1>1, <1>2, <1>3, KernelStepLemma, SMTT(30)

\* A VT switch asked for by the user leaves clients and devices alone.
LEMMA UserSwitchLemma ==
    ASSUME IInv, NEW v \in VTs, UserSwitch(v) PROVE IInv'
<1>1. fg_vt' \in VTs /\ newvt' \in VTs \cup {NoVt}
      /\ raised' \in SUBSET {"acquire", "release"}
  BY Zenon DEF UserSwitch, RequestSwitch, Complete, IInv, TypeOK
<1>2. /\ tty' \in [VTs -> TtyConfig] /\ cur_vt' \in VTs \cup {0, NoVt}
      /\ server' \in {"running", "killed", "finishing", "stopped", "aborted"}
      /\ outside' \in SUBSET DrmPath
      /\ UNCHANGED <<conn, clients, active_client, next_client, state, session,
                     session_cnt, devices>>
  BY DEF UserSwitch, seatVars, IInv, TypeOK
<1> QED
  BY <1>1, <1>2, KernelStepLemma

\* st is where the clients are once one of them may have given up the seat.
GivenUp(st) ==
    \A d \in Client : st[d] = state[d] \/ (st[d] = "DISABLED" /\ OnSeat(d))

\* seat_activate once the seat is free, where the clients are in states st: the
\* client that gave it up, if any, is disabled and the others are as before.
LEMMA HandoverLemma ==
    ASSUME IInv, NEW st, NEW vt, Free(st, devices),
           GivenUp(st),
           seat_activate(clients, next_client, st, devices, vt, FALSE),
           cur_vt' \in VTs \cup {0, NoVt}, raised' \in SUBSET {"acquire", "release"},
           UNCHANGED <<conn, clients, session, session_cnt, fg_vt, newvt,
                       outside>>
    PROVE  IInv'
<1> USE ConstantsAssumption
<1>1. TypeOK /\ ListIsSeat /\ OneActive /\ Placed /\ NextQueued /\ NeverIdle
      /\ LiveIsActive /\ ExclusiveAccess
  BY DEF IInv
<1> DEFINE d == Candidate(clients, next_client, vt)
<1>2. /\ next_client' = NoClient
      /\ seat_open_client(d, st, session, devices, vt, FALSE)
  BY Zenon DEF seat_activate
<1>3. /\ d \in Client \cup {NoClient}
      /\ d # NoClient => OnSeat(d)
      /\ ~VtBound /\ clients # <<>> => d # NoClient
  <2>1. /\ d \in Client \cup {NoClient}
        /\ next_client # NoClient => d = next_client
        /\ next_client = NoClient => d = NoClient \/ Among(clients, d)
        /\ next_client = NoClient /\ ~VtBound /\ clients # <<>> => Among(clients, d)
    BY <1>1, CandidateLemma, SMTT(30) DEF TypeOK
  <2>2. Among(clients, d) => d \in Client /\ OnSeat(d)
    BY <1>1, SMTT(30) DEF TypeOK, ListIsSeat, Among
  <2> HIDE DEF d
  <2> QED
    BY <1>1, <2>1, <2>2, SMTT(30) DEF NextQueued
<1> HIDE DEF d
<1>4. Given(d, st, devices)
  BY <1>1, <1>2, <1>3, ActivateLemma, ZenonT(30)
<1>5. TypeOK'
  BY <1>1, <1>2, <1>3, <1>4, SMTT(30) DEF TypeOK, Devices, Given
<1>6. ListIsSeat'
  BY <1>1, Zenon DEF ListIsSeat, OnSeat
<1>7. Placed'
  <2>1. \A e \in Client : e # active_client' =>
            /\ devices'[e] = devices[e]
            /\ state'[e] = state[e] \/ (state'[e] = "DISABLED" /\ OnSeat(e))
    <3> SUFFICES ASSUME NEW e \in Client, e # active_client'
                 PROVE  /\ devices'[e] = devices[e]
                        /\ state'[e] = state[e] \/ (state'[e] = "DISABLED" /\ OnSeat(e))
      OBVIOUS
    <3>1. state'[e] = st[e] /\ devices'[e] = devices[e]
      BY <1>4, Zenon DEF Given
    <3>2. st[e] = state[e] \/ (st[e] = "DISABLED" /\ OnSeat(e))
      BY Zenon DEF GivenUp
    <3> QED
      BY <3>1, <3>2, ZenonT(30)
  <2>2. active_client' # NoClient => OnSeat(active_client') /\ state'[active_client'] = "ACTIVE"
    BY <1>3, <1>4, SMTT(30) DEF Given
  <2> QED
    BY <1>1, <2>1, <2>2, Zenon DEF Placed, OnSeat
<1>8. NextQueued'
  BY <1>2, <1>3, <1>4, SMTT(30) DEF NextQueued, OnSeat, Given
<1>9. NeverIdle'
  <2>1. d \in Client => st[d] \in {"NEW", "DISABLED"}
    BY <1>1, <1>3, SMTT(30) DEF Free, GivenUp, Placed, TypeOK, ClientState
  <2> QED
    BY <1>3, <1>4, <2>1, SMTT(30) DEF NeverIdle, Given
<1> QED
  BY <1>4, <1>5, <1>6, <1>7, <1>8, <1>9, Zenon DEF IInv, Given

\* handle_disable_seat: the client that acknowledges gives the seat to the next.
LEMMA DisableSeatLemma ==
    ASSUME IInv, NEW c \in Client, DisableSeat(c) PROVE IInv'
<1> USE ConstantsAssumption
<1> DEFINE st == [state EXCEPT ![c] = "DISABLED"]
<1>1. active_client = c /\ OnSeat(c)
  BY Zenon DEF DisableSeat, IInv, OneActive, OnSeat
<1>2. /\ seat_activate(clients, next_client, st, devices, cur_vt, FALSE)
      /\ UNCHANGED <<conn, clients, session, session_cnt, cur_vt, fg_vt,
                     newvt, raised, outside>>
  BY <1>1, Zenon DEF DisableSeat
<1>3. st \in [Client -> ClientState]
      /\ \A d \in Client : st[d] = IF d = c THEN "DISABLED" ELSE state[d]
  BY DEF IInv, TypeOK, ClientState
<1> HIDE DEF st
<1>4. \A d \in Client : st[d] \notin {"ACTIVE", "PENDING_DISABLE"}
  BY <1>1, <1>3 DEF IInv, OneActive
<1>5. \A d \in Client, p \in Revocable : ~devices[d][p].live
  BY <1>1, Zenon DEF DisableSeat, IInv, OneActive, ExclusiveAccess, Revocable
<1>6. Free(st, devices)
  BY <1>3, <1>4, <1>5, SMTT(30) DEF Free, Devices, IInv, TypeOK
<1>7. cur_vt' \in VTs \cup {0, NoVt} /\ raised' \in SUBSET {"acquire", "release"}
  BY <1>2, SMTT(30) DEF IInv, TypeOK
<1>8. GivenUp(st)
  BY <1>1, <1>3 DEF GivenUp
<1> QED
  BY <1>2, <1>6, <1>7, <1>8, HandoverLemma, Zenon

\* seat_vt_activate enables a client only when nobody is active.
LEMMA VtAcquireLemma ==
    ASSUME IInv, VtAcquire PROVE IInv'
<1>1. cur_vt' \in VTs \cup {0, NoVt}
  BY UpdatedVtLemma DEF VtAcquire, IInv
<1>2. /\ raised' \in SUBSET {"acquire", "release"}
      /\ UNCHANGED <<conn, clients, session, session_cnt, fg_vt, newvt,
                     outside>>
  BY DEF VtAcquire, IInv, TypeOK
<1>3. CASE cur_vt' # NoVt /\ active_client = NoClient
  <2>1. seat_activate(clients, next_client, state, devices, cur_vt', FALSE)
    BY <1>3, Zenon DEF VtAcquire
  <2>2. Free(state, devices)
    BY <1>3, FreeLemma
  <2>3. GivenUp(state)
    BY DEF GivenUp
  <2> QED
    BY <1>1, <1>2, <2>1, <2>2, <2>3, HandoverLemma, Zenon
<1>4. CASE ~(cur_vt' # NoVt /\ active_client = NoClient)
  <2>1. /\ UNCHANGED <<active_client, next_client, state, devices, tty>>
        /\ server' = IF cur_vt' = NoVt THEN "aborted" ELSE server
    BY <1>4, Zenon DEF VtAcquire
  <2>2. /\ server' \in {"running", "killed", "finishing", "stopped", "aborted"}
        /\ fg_vt' \in VTs /\ newvt' \in VTs \cup {NoVt}
        /\ tty' \in [VTs -> TtyConfig] /\ outside' \in SUBSET DrmPath
    BY <1>2, <2>1 DEF IInv, TypeOK
  <2> QED
    BY <1>1, <1>2, <2>1, <2>2, KernelStepLemma, SMTT(30)
<1> QED
  BY <1>3, <1>4

\* seat_vt_release revokes the devices of the active client.
LEMMA VtReleaseLemma ==
    ASSUME IInv, VtRelease PROVE IInv'
<1>1. /\ cur_vt' = NoVt
      /\ UNCHANGED <<conn, clients, active_client, next_client, session,
                     session_cnt, tty, outside>>
  BY DEF VtRelease
<1>2. /\ server' \in {"running", "killed", "finishing", "stopped", "aborted"}
      /\ fg_vt' \in VTs /\ newvt' \in VTs \cup {NoVt}
      /\ raised' \in SUBSET {"acquire", "release"}
  BY Zenon DEF VtRelease, vt_ack_release, Complete, IInv, TypeOK
<1>3. CASE ReleaseDisables
  <2>1. active_client \in Client /\ state[active_client] = "ACTIVE"
    BY <1>3 DEF ReleaseDisables, IInv, TypeOK
  <2>2. seat_disable_client(active_client)
    BY <1>3 DEF VtRelease
  <2>3. PICK c \in Client : c = active_client
    BY <2>1, SMTT(30)
  <2> QED
    BY <1>1, <1>2, <2>1, <2>2, <2>3, DisableClientLemma, SMTT(30)
<1>4. CASE ~ReleaseDisables
  BY <1>1, <1>2, <1>4, KernelStepLemma, SMTT(30) DEF VtRelease, IInv, TypeOK
<1> QED
  BY <1>3, <1>4

\* client_destroy takes the client off whichever list it is on.
LEMMA DestroyLemma ==
    ASSUME IInv, NEW c \in Client, client_destroy(c) PROVE IInv'
<1>1. /\ conn' = [conn EXCEPT ![c] = "none"]
      /\ session' = [session EXCEPT ![c] = NoSession]
  BY DEF client_destroy
<1>2. /\ conn' \in [Client -> {"none", "idle", "seat"}] /\ conn'[c] = "none"
      /\ session' \in [Client -> Int]
      /\ \A d \in Client \ {c} : conn'[d] = conn[d] /\ session'[d] = session[d]
  BY <1>1 DEF IInv, TypeOK, NoSession
<1>3. CASE conn[c] = "idle"
  <2>1. /\ state' = [state EXCEPT ![c] = "CLOSED"]
        /\ UNCHANGED <<server, clients, active_client, next_client, session_cnt,
                       cur_vt, devices, vtVars, outside>>
    BY <1>3 DEF client_destroy
  <2>2. /\ session_cnt' \in Nat /\ cur_vt' \in VTs \cup {0, NoVt}
        /\ tty' \in [VTs -> TtyConfig]
        /\ UNCHANGED <<fg_vt, newvt, raised>>
    BY <2>1 DEF IInv, TypeOK, vtVars
  <2> QED
    BY <1>1, <1>2, <1>3, <2>1, <2>2, IdleLemma, Zenon
<1>4. CASE conn[c] # "idle"
  <2>1. OnSeat(c) /\ seat_remove_client(c)
    BY <1>4 DEF client_destroy, OnSeat
  <2> QED
    BY <1>2, <2>1, RemoveLemma, Zenon
<1> QED
  BY <1>3, <1>4

\* handle_close_seat takes the client off the seat and keeps it connected.
LEMMA CloseSeatLemma ==
    ASSUME IInv, NEW c \in Client, CloseSeat(c) PROVE IInv'
<1>1. OnSeat(c) /\ seat_remove_client(c) /\ session' = session
  BY DEF CloseSeat, OnSeat
<1>2. /\ conn' \in [Client -> {"none", "idle", "seat"}] /\ conn'[c] # "seat"
      /\ session' \in [Client -> Int]
      /\ \A d \in Client \ {c} : conn'[d] = conn[d]
  BY <1>1, SMTT(30) DEF CloseSeat, IInv, TypeOK
<1> QED
  BY <1>1, <1>2, RemoveLemma, SMTT(30)

\* Steps of the server and of processes outside that leave the seat alone.
LEMMA OutsideLemma ==
    ASSUME IInv, (\E p \in OutsidePath : OutsideMaster(p)) \/ Kill \/ Leave \/ Exit
    PROVE  IInv'
<1>1. /\ server' \in {"running", "killed", "finishing", "stopped", "aborted"}
      /\ UNCHANGED <<conn, seatVars, devices, vtVars>>
  BY SMTT(30) DEF OutsideMaster, Kill, Leave, Exit, IInv, TypeOK
<1>2. outside' \in SUBSET DrmPath
  BY ConstantsAssumption, SMTT(30) DEF OutsideMaster, Kill, Leave, Exit, IInv, TypeOK
<1>3. /\ cur_vt' \in VTs \cup {0, NoVt} /\ fg_vt' \in VTs
      /\ newvt' \in VTs \cup {NoVt} /\ tty' \in [VTs -> TtyConfig]
      /\ raised' \in SUBSET {"acquire", "release"}
      /\ UNCHANGED <<conn, clients, active_client, next_client, state, session,
                     session_cnt, devices>>
  BY <1>1, SMTT(30) DEF seatVars, vtVars, IInv, TypeOK
<1> QED
  BY <1>1, <1>2, <1>3, KernelStepLemma, SMTT(30)

=============================================================================
