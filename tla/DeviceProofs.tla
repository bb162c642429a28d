---------------------------- MODULE DeviceProofs ----------------------------
(***************************************************************************)
(* The ids that seatd hands out for devices, for any set of clients and of *)
(* devices: only seat_open_device creates one, larger than those in use.   *)
(***************************************************************************)
EXTENDS SeatProofs

\* Device ids are only given up, never changed or shared.
IdsKept(old, new) ==
    \A c \in Client, p \in Path : new[c][p].device_id \in {old[c][p].device_id, 0}

\* Deactivating and activating a client's devices keeps their ids.
LEMMA SameIds ==
  ASSUME NEW devs \in Devices, NEW c \in Client
  PROVE  IdsKept(devs, Deactivated(devs, c)) /\ IdsKept(devs, Activated(devs, c))
<1>1. ASSUME NEW dev \in Device, NEW a, NEW b
      PROVE  [dev EXCEPT !.active = a, !.live = b].device_id = dev.device_id
  BY Zenon DEF Device
<1>2. ASSUME NEW p \in Path
      PROVE  /\ seat_deactivate_device(p, devs[c][p]).device_id = devs[c][p].device_id
             /\ seat_activate_device(devs, p, devs[c][p]).device_id
                = devs[c][p].device_id
  <2> DEFINE dev == devs[c][p]
  <2>1. dev \in Device
    BY DEF Devices
  <2> HIDE DEF dev
  <2>2. seat_deactivate_device(p, dev).device_id = dev.device_id
    BY <1>1, <2>1, ZenonT(30) DEF seat_deactivate_device
  <2>3. seat_activate_device(devs, p, dev).device_id = dev.device_id
    BY <1>1, <2>1, Zenon DEF seat_activate_device
  <2> QED
    BY <2>2, <2>3 DEF dev
<1> QED
  BY <1>2 DEF IdsKept, Deactivated, Activated, Devices

\* seat_open_client keeps the ids of the devices it is given.
LEMMA OpenKeepsIds ==
  ASSUME NEW c \in Client \cup {NoClient}, NEW st, NEW sess, NEW devs \in Devices,
         NEW vt, NEW tidy, seat_open_client(c, st, sess, devs, vt, tidy)
  PROVE  IdsKept(devs, devices')
<1>1. devices' = devs \/ (c \in Client /\ devices' = Activated(devs, c))
  BY DEF seat_open_client
<1> QED
  BY <1>1, SameIds DEF IdsKept

\* A client that leaves gives up its ids, and the next one keeps its own.
LEMMA RemoveKeepsIds ==
  ASSUME IInv, NEW c \in Client, seat_remove_client(c), ListIsSeat, OnSeat(c)
  PROVE  IdsKept(devices, devices')
<1> DEFINE l == Unlinked(clients, c)
           d == Candidate(l, Unqueued(c), cur_vt)
<1>1. l \in Seq(Client)
  BY UnlinkedLemma, SMTT(30) DEF IInv, TypeOK, ListIsSeat, Among, Injective
<1>2. d \in Client \cup {NoClient}
  <2>1. Unqueued(c) \in Client \cup {NoClient}
    BY DEF Unqueued, IInv, TypeOK
  <2> HIDE DEF l
  <2> QED
    BY <1>1, <2>1, CandidateLemma
<1>3. DevicesClosed(c) \in Devices /\ IdsKept(devices, DevicesClosed(c))
  BY DEF DevicesClosed, NoDevices, NoDevice, Devices, Device, IdsKept, IInv, TypeOK
<1>4. CASE active_client = c
  <2>1. seat_open_client(d, [state EXCEPT ![c] = "CLOSED"], session,
                         DevicesClosed(c), cur_vt, TRUE)
    BY <1>4, Zenon DEF seat_remove_client, seat_activate
  <2>2. IdsKept(DevicesClosed(c), devices')
    BY <1>2, <1>3, <2>1, OpenKeepsIds, Zenon
  <2> QED
    BY <1>3, <2>2 DEF IdsKept
<1>5. CASE active_client # c
  BY <1>3, <1>5, Zenon DEF seat_remove_client
<1> QED
  BY <1>4, <1>5

\* Every step but the opening of a device keeps the ids.
LEMMA IdsStep ==
  ASSUME IInv, [Next]_vars, ~\E c \in Client, p \in Path : OpenDevice(c, p)
  PROVE  IdsKept(devices, devices')
<1>types. /\ devices \in Devices /\ NoClient \notin Client /\ ListIsSeat
          /\ clients \in Seq(Client)
          /\ active_client \in Client \cup {NoClient}
          /\ next_client \in Client \cup {NoClient}
  BY ConstantsAssumption DEF IInv, TypeOK, Devices
<1>0. ASSUME UNCHANGED devices PROVE IdsKept(devices, devices')
  BY <1>0 DEF IdsKept
<1>1. ASSUME NEW vt PROVE Candidate(clients, next_client, vt) \in Client \cup {NoClient}
  BY <1>types, CandidateLemma
<1>2. ASSUME NEW c \in Client, NEW s \in Sessions, OpenSeat(c, s)
      PROVE  IdsKept(devices, devices')
  BY <1>2, <1>0, <1>types, OpenKeepsIds, Zenon DEF OpenSeat
<1>3. ASSUME NEW c \in Client, CloseSeat(c) \/ client_destroy(c)
      PROVE  IdsKept(devices, devices')
  BY <1>3, <1>0, <1>types, RemoveKeepsIds DEF CloseSeat, client_destroy, OnSeat
<1>4. ASSUME NEW c \in Client, DisableSeat(c) PROVE IdsKept(devices, devices')
  BY <1>4, <1>0, <1>1, <1>types, OpenKeepsIds, Zenon DEF DisableSeat, seat_activate
<1>5. ASSUME VtAcquire PROVE IdsKept(devices, devices')
  BY <1>5, <1>0, <1>1, <1>types, OpenKeepsIds, Zenon DEF VtAcquire, seat_activate
<1>6. ASSUME \/ VtRelease
             \/ \E c \in Client, s \in Sessions : SwitchSession(c, s)
      PROVE  IdsKept(devices, devices')
  <2>1. ASSUME NEW c \in Client, NEW s \in Sessions, SwitchSession(c, s)
        PROVE  active_client \in Client /\ seat_disable_client(active_client)
    BY <2>1, SMTT(30) DEF SwitchSession, IInv, OneActive
  <2> QED
    BY <1>6, <1>0, <1>types, <2>1, SameIds
    DEF VtRelease, ReleaseDisables, seat_disable_client
<1>7. ASSUME NEW c \in Client, NEW p \in Path, ReopenDevice(c, p) \/ CloseDevice(c, p)
      PROVE  IdsKept(devices, devices')
  <2> DEFINE dev == devices[c][p]
             reopened == [dev EXCEPT !.ref_cnt = @ + 1]
             closed == seat_close_device(dev)
  <2>1. dev \in Device
    BY <1>types DEF Devices
  <2>2. reopened.device_id = dev.device_id
    BY <2>1, Zenon DEF Device
  <2>3. closed.device_id \in {dev.device_id, 0}
    <3>1. [dev EXCEPT !.ref_cnt = @ - 1].device_id = dev.device_id
      BY <2>1, Zenon DEF Device
    <3>2. NoDevice.device_id = 0
      BY DEF NoDevice
    <3> QED
      BY <3>1, <3>2, Zenon DEF seat_close_device
  <2>4. \/ devices' = [devices EXCEPT ![c][p] = reopened]
        \/ devices' = [devices EXCEPT ![c][p] = closed]
    BY <1>7, Zenon DEF ReopenDevice, CloseDevice
  <2> HIDE DEF reopened, closed
  <2> QED
    BY <1>types, <2>2, <2>3, <2>4, SMTT(30) DEF IdsKept, Devices
<1>8. ASSUME \/ \E c \in Client :
                  \/ Connect(c) \/ OpenSeatRefused(c)
                  \/ \E s \in Sessions : OpenSeatUnanswered(c, s)
                  \/ \E v \in VTs : SwitchVt(c, v)
             \/ Kill \/ Leave \/ Exit
             \/ \E v \in VTs : UserSwitch(v)
             \/ \E p \in OutsidePath : OutsideMaster(p)
             \/ UNCHANGED vars
      PROVE  UNCHANGED devices
  BY <1>8, Zenon DEF Connect, OpenSeatRefused, OpenSeatUnanswered, SwitchVt, Kill, Leave,
    Exit, UserSwitch, OutsideMaster, vars
<1> QED
  BY <1>0, <1>2, <1>3, <1>4, <1>5, <1>6, <1>7, <1>8
    DEF Next, Request, Disconnect, FinishClient

\* seat_find_device finds one device: however many are opened and closed, in
\* whatever order, two open devices of a client have different ids.
THEOREM DeviceIdsCorrect == Spec => []DeviceIdsUnique
<1>1. Init => DeviceIdsUnique
  BY DEF Init, DeviceIdsUnique, OpenPaths, IsOpen, NoDevices, NoDevice
<1>2. ASSUME IInv, DeviceIdsUnique, [Next]_vars PROVE DeviceIdsUnique'
  <2>1. CASE IdsKept(devices, devices')
    BY <1>2, <2>1, SMTT(30) DEF DeviceIdsUnique, OpenPaths, IsOpen, IdsKept
  <2>2. ASSUME NEW c \in Client, NEW p \in Path, OpenDevice(c, p)
        PROVE  DeviceIdsUnique'
    <3> DEFINE id == NextDeviceId(devices[c])
    <3>1. \A q \in Path : devices[c][q].device_id # id
      <4>1. devices[c] \in [Path -> Device]
        BY <1>2 DEF IInv, TypeOK
      <4>2. \A q \in Path : devices[c][q].device_id \in Nat
        BY <4>1, SMTT(30) DEF Device
      <4> QED
        BY <4>1, <4>2, NextDeviceIdLemma, SMTT(30)
    <3>2. \A d \in Client, q \in Path :
            devices'[d][q].device_id
            = IF d = c /\ q = p THEN id ELSE devices[d][q].device_id
      BY <1>2, <2>2 DEF OpenDevice, IInv, TypeOK
    <3> HIDE DEF id
    <3> QED
      BY <1>2, <3>1, <3>2, SMTT(30) DEF DeviceIdsUnique, OpenPaths, IsOpen
  <2> QED
    BY <1>2, <2>1, <2>2, IdsStep, SMTT(30)
<1> QED
  BY <1>1, <1>2, Invariance, PTL DEF Spec

=============================================================================
