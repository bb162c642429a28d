----------------------------- MODULE SeatProofs -----------------------------
(***************************************************************************)
(* The theorems about Seat, for any set of clients, VTs and devices, on seats*)
(* with and without VTs.                                                   *)
(***************************************************************************)
EXTENDS SeatSteps

\* A server without clients satisfies the invariant.
LEMMA InitLemma == Init => IInv
<1> SUFFICES ASSUME Init PROVE IInv
  OBVIOUS
<1> USE ConstantsAssumption DEF Init
<1>1. TypeOK
  BY DEF TypeOK, NoDevices, NoDevice, Device, ClientState, TtyConfig, NoSession
<1>2. ListIsSeat /\ OneActive /\ Placed /\ NextQueued /\ NeverIdle
  BY DEF ListIsSeat, OneActive, Placed, NextQueued, NeverIdle, OnSeat
<1>3. LiveIsActive /\ ExclusiveAccess
  BY DEF LiveIsActive, ExclusiveAccess, NoDevices, NoDevice, Path
<1> QED
  BY <1>1, <1>2, <1>3 DEF IInv

\* Every step of the server, the clients and the kernel keeps the invariant.
LEMMA NextLemma == IInv /\ [Next]_vars => IInv'
<1> SUFFICES ASSUME IInv, [Next]_vars PROVE IInv'
  OBVIOUS
<1>1. ASSUME NEW c \in Client, Connect(c) PROVE IInv'
  BY <1>1, ConnectLemma
<1>2. ASSUME NEW c \in Client, Request(c) PROVE IInv'
  <2>1. ASSUME NEW s \in Sessions, OpenSeat(c, s) PROVE IInv'
    BY <2>1, OpenSeatLemma
  <2>2. ASSUME NEW s \in Sessions, OpenSeatUnanswered(c, s) PROVE IInv'
    BY <2>2, OpenSeatUnansweredLemma
  <2>3. ASSUME NEW s \in Sessions, SwitchSession(c, s) PROVE IInv'
    BY <2>3, SwitchSessionLemma, SMTT(30)
  <2>4. ASSUME OpenSeatRefused(c) PROVE IInv'
    BY <2>4, OpenSeatRefusedLemma
  <2>5. ASSUME CloseSeat(c) PROVE IInv'
    BY <2>5, CloseSeatLemma
  <2>6. ASSUME NEW p \in Path, OpenDevice(c, p) PROVE IInv'
    BY <2>6, OpenDeviceLemma
  <2>7. ASSUME NEW p \in Path, ReopenDevice(c, p) PROVE IInv'
    BY <2>7, ReopenDeviceLemma, SMTT(30)
  <2>8. ASSUME NEW p \in Path, CloseDevice(c, p) PROVE IInv'
    BY <2>8, CloseDeviceLemma
  <2>9. ASSUME NEW v \in VTs, SwitchVt(c, v) PROVE IInv'
    BY <2>9, SwitchVtLemma, SMTT(30)
  <2>10. ASSUME DisableSeat(c) PROVE IInv'
    BY <2>10, DisableSeatLemma
  <2> QED
    BY <1>2, <2>1, <2>2, <2>3, <2>4, <2>5, <2>6, <2>7, <2>8, <2>9, <2>10, SMTT(30)
      DEF Request
<1>3. ASSUME NEW c \in Client, Disconnect(c) \/ FinishClient(c) PROVE IInv'
  BY <1>3, DestroyLemma DEF Disconnect, FinishClient
<1>4. ASSUME VtAcquire PROVE IInv'
  BY <1>4, VtAcquireLemma
<1>5. ASSUME VtRelease PROVE IInv'
  BY <1>5, VtReleaseLemma, SMTT(30)
<1>6. ASSUME NEW v \in VTs, UserSwitch(v) PROVE IInv'
  BY <1>6, UserSwitchLemma
<1>7. ASSUME (\E p \in OutsidePath : OutsideMaster(p)) \/ Kill \/ Leave \/ Exit PROVE IInv'
  BY <1>7, OutsideLemma, SMTT(30)
<1>8. ASSUME UNCHANGED vars PROVE IInv'
  BY <1>8, KernelStepLemma
    DEF vars, seatVars, vtVars, IInv, TypeOK
<1> QED
  BY <1>1, <1>2, <1>3, <1>4, <1>5, <1>6, <1>7, <1>8, SMTT(30) DEF Next

\* The conjunction of the invariants below is inductive.
THEOREM Invariance == Spec => []IInv
BY InitLemma, NextLemma, PTL DEF Spec

\* Every variable keeps its type, whatever the number of clients, VTs and
\* devices: no counter, pointer or list of the seat leaves its range.
THEOREM TypeCorrect == Spec => []TypeOK
<1>1. IInv => TypeOK
  BY DEF IInv
<1> QED
  BY <1>1, Invariance, PTL

\* The seat's list is exactly the clients of the seat, each once.
THEOREM ListCorrect == Spec => []ListIsSeat
<1>1. IInv => ListIsSeat
  BY DEF IInv
<1> QED
  BY <1>1, Invariance, PTL

\* At most one client has the seat, and it is the one active_client points at.
THEOREM MutualExclusion == Spec => []OneActive
<1>1. IInv => OneActive
  BY DEF IInv
<1> QED
  BY <1>1, Invariance, PTL

\* active_client and next_client never dangle, and what is queued can be opened.
THEOREM QueueCorrect == Spec => []NextQueued
<1>1. IInv => NextQueued
  BY DEF IInv
<1> QED
  BY <1>1, Invariance, PTL

\* A seat without VTs that has clients is never without an active one.
THEOREM SeatNeverIdle == Spec => []NeverIdle
<1>1. IInv => NeverIdle
  BY DEF IInv
<1> QED
  BY <1>1, Invariance, PTL

\* No client but the enabled one can use a DRM or input device.
THEOREM DeviceExclusion == Spec => []ExclusiveAccess
<1>1. IInv => ExclusiveAccess
  BY DEF IInv
<1> QED
  BY <1>1, Invariance, PTL

\* A client off the seat has nothing open, and a client on it has a session.
THEOREM ClientsPlaced == Spec => []Placed
<1>1. IInv => Placed
  BY DEF IInv
<1> QED
  BY <1>1, Invariance, PTL

\* No device that the kernel lets a client use escapes seatd's own flag.
THEOREM LiveDevicesKnown == Spec => []LiveIsActive
<1>1. IInv => LiveIsActive
  BY DEF IInv
<1> QED
  BY <1>1, Invariance, PTL

=============================================================================
