----------------------------- MODULE SeatLemmas -----------------------------
(***************************************************************************)
(* Lemmas about the operators of Seat: the list of clients, device ids, the*)
(* choice of the next client, devices, and the operations on the seat that *)
(* several handlers share.  They hold for any set of clients, VTs and devices,*)
(* on seats with and without VTs.                                          *)
(***************************************************************************)
EXTENDS Seat, SequenceTheorems, FiniteSetTheorems, TLAPS

Injective(l) == \A i, j \in DOMAIN l : l[i] = l[j] => i = j
Among(l, c) == \E i \in DOMAIN l : l[i] = c

\* linked_list_remove takes one client off the list and keeps the others.
LEMMA UnlinkedLemma ==
    ASSUME NEW l \in Seq(Client), Injective(l), NEW c \in Client, Among(l, c)
    PROVE  /\ Unlinked(l, c) \in Seq(Client)
           /\ Injective(Unlinked(l, c))
           /\ \A d \in Client : Among(Unlinked(l, c), d) <=> Among(l, d) /\ d # c
<1>1. PICK k \in 1 .. Len(l) : l[k] = c
  BY DEF Among
<1>2. {i \in 1 .. Len(l) : l[i] = c} = {k}
  BY <1>1 DEF Injective
<1>3. SelectInSeq(l, LAMBDA v : v = c) = k
  <2>1. Min({k}) = k
    BY DEF Min
  <2> QED
    BY <1>2, <2>1, Zenon DEF SelectInSeq
<1>4. Unlinked(l, c) = SubSeq(l, 1, k - 1) \o SubSeq(l, k + 1, Len(l))
  BY <1>1, <1>3, Zenon DEF Unlinked, RemoveFirst, RemoveAt
<1> DEFINE m == SubSeq(l, 1, k - 1) \o SubSeq(l, k + 1, Len(l))
<1>5. /\ m \in Seq(Client)
      /\ Len(m) = Len(l) - 1
      /\ \A i \in 1 .. Len(l) - 1 : m[i] = IF i < k THEN l[i] ELSE l[i + 1]
  <2> DEFINE a == SubSeq(l, 1, k - 1)
             b == SubSeq(l, k + 1, Len(l))
  <2>1. /\ a \in Seq(Client) /\ Len(a) = k - 1
        /\ \A i \in 1 .. k - 1 : a[i] = l[i]
    BY SubSeqProperties
  <2>2. /\ b \in Seq(Client) /\ Len(b) = Len(l) - k
        /\ \A i \in 1 .. Len(l) - k : b[i] = l[k + i]
    BY SubSeqProperties
  <2> HIDE DEF a, b
  <2>3. /\ a \o b \in Seq(Client) /\ Len(a \o b) = Len(a) + Len(b)
        /\ \A i \in 1 .. Len(a) + Len(b) :
              (a \o b)[i] = IF i <= Len(a) THEN a[i] ELSE b[i - Len(a)]
    BY <2>1, <2>2, ConcatProperties, Zenon
  <2>4. Len(l) \in Nat /\ k \in Nat /\ k >= 1 /\ k <= Len(l)
    OBVIOUS
  <2>5. Len(a) + Len(b) = Len(l) - 1
    BY <2>1, <2>2, <2>4
  <2>6. ASSUME NEW i \in 1 .. Len(l) - 1
        PROVE  (a \o b)[i] = IF i < k THEN l[i] ELSE l[i + 1]
    <3>1. CASE i < k
      BY <3>1, <2>1, <2>3, <2>4, <2>5, SMTT(30)
    <3>2. CASE ~(i < k)
      <4>1. i - Len(a) \in 1 .. Len(l) - k /\ k + (i - Len(a)) = i + 1
        BY <3>2, <2>1, <2>4
      <4>2. (a \o b)[i] = b[i - Len(a)]
        BY <3>2, <2>1, <2>3, <2>4, <2>5, SMTT(30)
      <4> QED
        BY <3>2, <4>1, <4>2, <2>2, Zenon
    <3> QED
      BY <3>1, <3>2, Zenon
  <2> QED
    BY <2>3, <2>5, <2>6, Zenon DEF a, b
<1> HIDE DEF m
<1>6. DOMAIN m = 1 .. Len(l) - 1 /\ DOMAIN l = 1 .. Len(l) /\ Len(l) \in Nat
  BY <1>5
<1>7. Injective(m)
  <2> SUFFICES ASSUME NEW i \in DOMAIN m, NEW j \in DOMAIN m, m[i] = m[j]
               PROVE  i = j
    BY DEF Injective
  <2> DEFINE up(n) == IF n < k THEN n ELSE n + 1
  <2>1. up(i) \in DOMAIN l /\ up(j) \in DOMAIN l
    BY <1>6
  <2>2. m[i] = l[up(i)] /\ m[j] = l[up(j)]
    BY <1>5, <1>6
  <2>3. up(i) = up(j)
    BY <2>1, <2>2, Zenon DEF Injective
  <2> QED
    BY <2>3, <1>6
<1>8. ASSUME NEW d \in Client PROVE Among(m, d) <=> Among(l, d) /\ d # c
  <2>1. ASSUME NEW i \in DOMAIN m, m[i] = d PROVE Among(l, d) /\ d # c
    <3> DEFINE j == IF i < k THEN i ELSE i + 1
    <3>1. j \in DOMAIN l /\ j # k /\ l[j] = d
      BY <1>5, <1>6, <2>1
    <3> QED
      BY <1>1, <1>6, <3>1, SMTT(30) DEF Among, Injective
  <2>2. ASSUME NEW j \in DOMAIN l, l[j] = d, d # c PROVE Among(m, d)
    <3> DEFINE i == IF j < k THEN j ELSE j - 1
    <3>1. j # k
      BY <1>1, <2>2
    <3>2. i \in DOMAIN m /\ m[i] = d
      BY <1>5, <1>6, <2>2, <3>1
    <3> QED
      BY <3>2 DEF Among
  <2> QED
    BY <2>1, <2>2 DEF Among
<1> QED
  BY <1>4, <1>5, <1>7, <1>8, Zenon DEF m

\* A set of positions has a first one.
LEMMA MinLemma ==
    ASSUME NEW S \in SUBSET Nat, S # {}
    PROVE  Min(S) \in S /\ \A y \in S : Min(S) <= y
<1>1. PICK x \in S : \A y \in S : ~(<<y, x>> \in OpToRel(<, Nat))
  BY NatLessThanWellFounded, WFMin, Zenon
<1>2. \A y \in S : y < x => <<y, x>> \in OpToRel(<, Nat)
  <2> SUFFICES ASSUME NEW y \in S, y < x PROVE <<y, x>> \in OpToRel(<, Nat)
    BY Zenon
  <2>1. <<y, x>> \in Nat \X Nat /\ <<y, x>>[1] < <<y, x>>[2]
    OBVIOUS
  <2> QED
    BY <2>1, Zenon DEF OpToRel
<1>3. \A y \in S : ~(y < x)
  BY <1>1, <1>2, Zenon
<1>4. \A y \in S : x <= y
  BY <1>3
<1> QED
  BY <1>4, Zenon DEF Min

\* A finite set of ids has a largest one: a smallest counterexample would stay
\* one without any of its elements.
LEMMA MaxLemma ==
    ASSUME NEW R \in SUBSET Nat, R # {}, IsFiniteSet(R)
    PROVE  Max(R) \in R /\ \A y \in R : y <= Max(R)
<1> DEFINE Unbounded(S) == \A x \in S : \E y \in S : x < y
           T == {n \in Nat : \E S \in SUBSET Nat :
                    S # {} /\ IsFiniteSet(S) /\ Cardinality(S) = n /\ Unbounded(S)}
<1>1. T = {}
  <2> SUFFICES ASSUME T # {} PROVE FALSE
    OBVIOUS
  <2>1. T \in SUBSET Nat
    OBVIOUS
  <2> DEFINE m == Min(T)
  <2>2. m \in T /\ \A n \in T : m <= n
    BY <2>1, MinLemma, Zenon
  <2> HIDE DEF m
  <2>3. PICK S \in SUBSET Nat :
            S # {} /\ IsFiniteSet(S) /\ Cardinality(S) = m /\ Unbounded(S)
    BY <2>2
  <2>4. PICK x \in S : TRUE
    BY <2>3, Zenon
  <2>5. PICK y \in S : x < y
    BY <2>3
  <2>6. /\ IsFiniteSet(S \ {x}) /\ Cardinality(S \ {x}) = m - 1
        /\ Cardinality(S \ {x}) \in Nat
    BY <2>3, FS_RemoveElement, FS_CardinalityType, Zenon
  <2>7. Unbounded(S \ {x}) /\ S \ {x} # {}
    BY <2>3, <2>5
  <2>8. m - 1 \in T
    BY <2>6, <2>7, SMTT(30)
  <2> QED
    BY <2>1, <2>2, <2>8, SMTT(30)
<1>2. ~Unbounded(R)
  <2>1. Cardinality(R) \in Nat
    BY FS_CardinalityType
  <2> QED
    BY <1>1, <2>1
<1>3. \E x \in R : \A y \in R : y <= x
  BY <1>2
<1> QED
  BY <1>3, Zenon DEF Max

\* A new device id is larger than the ids in use.
LEMMA NextDeviceIdLemma ==
    ASSUME NEW devs \in [Path -> Device]
    PROVE  /\ NextDeviceId(devs) \in Nat \ {0}
           /\ \A p \in Path : devs[p].device_id < NextDeviceId(devs)
<1> DEFINE f == [p \in Path |-> devs[p].device_id]
           ids == {devs[p].device_id : p \in Path}
           R == {0} \cup ids
<1>1. ids = {f[p] : p \in Path}
  OBVIOUS
<1>2. IsFiniteSet(ids)
  <2>1. f \in Surjection(Path, ids)
    BY <1>1 DEF Surjection
  <2>2. IsFiniteSet(Path)
    BY ConstantsAssumption
  <2> HIDE DEF f, ids
  <2> QED
    BY <2>1, <2>2, FS_Surjection
<1>3. R = ids \cup {0}
  OBVIOUS
<1>4. R \in SUBSET Nat /\ R # {} /\ IsFiniteSet(R)
  BY <1>2, <1>3, FS_AddElement DEF Device
<1>5. Max(R) \in R /\ \A y \in R : y <= Max(R)
  BY <1>4, MaxLemma, Zenon
<1>6. Max(R) \in Nat /\ \A p \in Path : devs[p].device_id \in R
  BY <1>4, <1>5
<1>7. NextDeviceId(devs) = 1 + Max(R)
  BY DEF NextDeviceId
<1>8. \A p \in Path : devs[p].device_id \in Nat /\ devs[p].device_id <= Max(R)
  BY <1>4, <1>5, <1>6, Zenon
<1> DEFINE m == Max(R)
<1> HIDE DEF R, m
<1>9. /\ m \in Nat /\ NextDeviceId(devs) = 1 + m
      /\ \A p \in Path : devs[p].device_id \in Nat /\ devs[p].device_id <= m
  BY <1>6, <1>7, <1>8, SMTT(30) DEF m
<1> QED
  BY <1>9

\* seat_activate picks the queued client, or else one of the list; without VTs
\* it always finds one on a list that is not empty.
LEMMA CandidateLemma ==
    ASSUME NEW l \in Seq(Client), NEW n \in Client \cup {NoClient}, NEW vt
    PROVE  LET d == Candidate(l, n, vt) IN
           /\ d \in Client \cup {NoClient}
           /\ n # NoClient => d = n
           /\ n = NoClient => d = NoClient \/ Among(l, d)
           /\ n = NoClient /\ ~VtBound /\ l # <<>> => Among(l, d)
<1> DEFINE I == {i \in 1 .. Len(l) : VtBound => session[l[i]] = vt}
<1>1. Matching(l, vt) = IF I # {} THEN Min(I) ELSE 0
  BY DEF Matching, SelectInSeq
<1>2. I # {} => Min(I) \in I
  <2>1. I \in SUBSET Nat
    OBVIOUS
  <2> QED
    BY <2>1, MinLemma, Zenon
<1>3. ~VtBound /\ l # <<>> => 1 \in I
  OBVIOUS
<1>4. \A i \in I : i # 0 /\ i \in DOMAIN l /\ l[i] \in Client
  OBVIOUS
<1> HIDE DEF I
<1>5. NoClient \notin Client
  BY ConstantsAssumption
<1> QED
  BY <1>1, <1>2, <1>3, <1>4, <1>5, SMTT(30) DEF Candidate, Among

-----------------------------------------------------------------------------
(* Devices *)

Revocable == DrmPath \cup EvdevPath

Devices == [Client -> [Path -> Device]]

\* A device whose flags change is still a device.
LEMMA DeviceLemma ==
    ASSUME NEW dev \in Device, NEW a \in BOOLEAN, NEW b \in BOOLEAN
    PROVE  [dev EXCEPT !.active = a, !.live = b] \in Device
BY Zenon DEF Device

\* seat_disable_client takes every revocable device from the client, provided
\* that seatd's flags say which ones the client can use.
LEMMA DeactivatedLemma ==
    ASSUME NEW devs \in Devices, NEW c \in Client,
           \A p \in Revocable : devs[c][p].live => devs[c][p].active
    PROVE  /\ Deactivated(devs, c) \in Devices
           /\ \A d \in Client \ {c} : Deactivated(devs, c)[d] = devs[d]
           /\ \A p \in Revocable : ~Deactivated(devs, c)[c][p].live
<1>1. ASSUME NEW p \in Path
      PROVE  seat_deactivate_device(p, devs[c][p]) \in Device
  <2> DEFINE dev == devs[c][p]
             b == dev.live /\ p \in WsconsPath
  <2>1. dev \in Device
    BY DEF Devices
  <2>2. b \in BOOLEAN
    OBVIOUS
  <2> HIDE DEF dev, b
  <2>3. [dev EXCEPT !.active = FALSE, !.live = b] \in Device
    BY <2>1, <2>2, DeviceLemma, Zenon
  <2> QED
    BY <2>1, <2>3 DEF seat_deactivate_device, dev, b
<1>2. \A p \in Revocable : p \in Path /\ p \notin WsconsPath
  BY ConstantsAssumption DEF Revocable, Path
<1>3. ASSUME NEW p \in Revocable
      PROVE  ~seat_deactivate_device(p, devs[c][p]).live
  <2> DEFINE dev == devs[c][p]
  <2>1. dev \in Device /\ p \notin WsconsPath /\ (dev.live => dev.active)
    BY <1>2 DEF Devices
  <2> HIDE DEF dev
  <2>2. ~[dev EXCEPT !.active = FALSE, !.live = dev.live /\ p \in WsconsPath].live
    BY <2>1, Zenon DEF Device
  <2> QED
    BY <2>1, <2>2 DEF seat_deactivate_device, Device, dev
<1> QED
  BY <1>1, <1>2, <1>3 DEF Deactivated, Devices

\* seat_open_client touches the devices of one client only, and marks as
\* active what it activates.
LEMMA ActivatedLemma ==
    ASSUME NEW devs \in Devices, NEW c \in Client,
           \A p \in Revocable : devs[c][p].live => devs[c][p].active
    PROVE  /\ Activated(devs, c) \in Devices
           /\ \A d \in Client \ {c} : Activated(devs, c)[d] = devs[d]
           /\ \A p \in Revocable :
                Activated(devs, c)[c][p].live => Activated(devs, c)[c][p].active
<1>1. ASSUME NEW p \in Path
      PROVE  seat_activate_device(devs, p, devs[c][p]) \in Device
  <2> DEFINE dev == devs[c][p]
             b == MasterFree(devs, p)
  <2>1. dev \in Device
    BY DEF Devices
  <2>2. b \in BOOLEAN
    BY DEF MasterFree
  <2> HIDE DEF dev, b
  <2>3. [dev EXCEPT !.active = TRUE, !.live = b] \in Device
    BY <2>1, <2>2, DeviceLemma, Zenon
  <2> QED
    BY <2>1, <2>3 DEF seat_activate_device, dev, b
<1>2. \A p \in Revocable : p \in Path
  BY DEF Revocable, Path
<1>3. \A p \in Revocable : seat_activate_device(devs, p, devs[c][p]).live
                         => seat_activate_device(devs, p, devs[c][p]).active
  BY <1>2 DEF seat_activate_device, Device, Devices
<1> QED
  BY <1>1, <1>2, <1>3 DEF Activated, Devices

-----------------------------------------------------------------------------
(* Handing the seat over *)

\* What seat_open_client does, told from its effects: nobody becomes active,
\* or c does; without VTs an eligible client always does.
LEMMA OpenClientLemma ==
    ASSUME TypeOK, NEW c \in Client \cup {NoClient},
           NEW st \in [Client -> ClientState], NEW sess, NEW devs, NEW vt,
           NEW tidy, seat_open_client(c, st, sess, devs, vt, tidy)
    PROVE  /\ server' \in {"running", "killed", "finishing", "stopped", "aborted"}
           /\ tty' \in [VTs -> TtyConfig]
           /\ \/ /\ active_client' = NoClient
                 /\ state' = st
                 /\ devices' = devs
              \/ /\ c \in Client /\ st[c] \in {"NEW", "DISABLED"}
                 /\ active_client' = c
                 /\ state' = [st EXCEPT ![c] = "ACTIVE"]
                 /\ devices' = Activated(devs, c)
           /\ ~VtBound /\ c \in Client /\ st[c] \in {"NEW", "DISABLED"}
                => active_client' = c
<1>1. server' \in {"running", "killed", "finishing", "stopped", "aborted"}
  BY DEF seat_open_client, TypeOK
<1>2. tty' \in [VTs -> TtyConfig]
  BY Zenon DEF seat_open_client, TypeOK, vt_open, vt_close, TtyConfig
<1>3. \/ /\ active_client' = NoClient
         /\ state' = st
         /\ devices' = devs
      \/ /\ c \in Client /\ st[c] \in {"NEW", "DISABLED"}
         /\ active_client' = c
         /\ state' = [st EXCEPT ![c] = "ACTIVE"]
         /\ devices' = Activated(devs, c)
  BY DEF seat_open_client
<1>4. ~VtBound /\ c \in Client /\ st[c] \in {"NEW", "DISABLED"}
        => active_client' = c
  BY ConstantsAssumption, SMTT(30) DEF seat_open_client
<1> QED
  BY <1>1, <1>2, <1>3, <1>4, SMTT(30)

\* Nobody is active and nobody can use a device.
Free(st, devs) ==
    /\ st \in [Client -> ClientState] /\ devs \in Devices
    /\ \A d \in Client : st[d] \notin {"ACTIVE", "PENDING_DISABLE"}
    /\ \A d \in Client, p \in Revocable : ~devs[d][p].live

\* The seat has been given to c, or to nobody.
Given(c, st, devs) ==
    /\ server' \in {"running", "killed", "finishing", "stopped", "aborted"}
    /\ tty' \in [VTs -> TtyConfig]
    /\ state' \in [Client -> ClientState]
    /\ devices' \in Devices
    /\ active_client' \in {c, NoClient}
    /\ active_client' # NoClient => /\ st[c] \in {"NEW", "DISABLED"}
                                   /\ state'[c] = "ACTIVE"
    /\ \A d \in Client : d # active_client' => /\ state'[d] = st[d]
                                              /\ devices'[d] = devs[d]
    /\ ~VtBound /\ c \in Client /\ st[c] \in {"NEW", "DISABLED"}
            => active_client' = c
    /\ OneActive' /\ LiveIsActive' /\ ExclusiveAccess'

\* seat_open_client on a free seat gives it to its client or to nobody.
LEMMA ActivateLemma ==
    ASSUME TypeOK, NEW c \in Client \cup {NoClient}, NEW st, NEW sess, NEW devs,
           NEW vt, NEW tidy, Free(st, devs),
           seat_open_client(c, st, sess, devs, vt, tidy)
    PROVE  Given(c, st, devs)
<1> USE ConstantsAssumption DEF Free
<1>1. /\ server' \in {"running", "killed", "finishing", "stopped", "aborted"}
      /\ tty' \in [VTs -> TtyConfig]
      /\ ~VtBound /\ c \in Client /\ st[c] \in {"NEW", "DISABLED"}
            => active_client' = c
  BY OpenClientLemma
<1>2. CASE active_client' = NoClient /\ state' = st /\ devices' = devs
  BY <1>1, <1>2, SMTT(30) DEF Given, OneActive, LiveIsActive, ExclusiveAccess, Revocable
<1>3. CASE /\ c \in Client /\ st[c] \in {"NEW", "DISABLED"}
           /\ active_client' = c
           /\ state' = [st EXCEPT ![c] = "ACTIVE"]
           /\ devices' = Activated(devs, c)
  <2>1. /\ devices' \in Devices
        /\ \A d \in Client \ {c} : devices'[d] = devs[d]
        /\ \A p \in Revocable : devices'[c][p].live => devices'[c][p].active
    BY <1>3, ActivatedLemma, SMTT(30)
  <2>2. state' \in [Client -> ClientState]
    BY <1>3 DEF ClientState
  <2>3. OneActive'
    BY <1>3 DEF OneActive
  <2>4. LiveIsActive' /\ ExclusiveAccess'
    BY <1>3, <2>1, SMTT(30) DEF LiveIsActive, ExclusiveAccess, Revocable
  <2> QED
    BY <1>1, <1>3, <2>1, <2>2, <2>3, <2>4, SMTT(30) DEF Given
<1> QED
  BY <1>2, <1>3, OpenClientLemma, SMTT(30)

\* seat_remove_client, from whichever caller: c is off the seat afterwards and
\* the invariant holds again.
LEMMA RemoveLemma ==
    ASSUME IInv, NEW c \in Client, OnSeat(c), seat_remove_client(c),
           conn' \in [Client -> {"none", "idle", "seat"}], conn'[c] # "seat",
           \A d \in Client \ {c} : conn'[d] = conn[d],
           session' \in [Client -> Int],
           conn'[c] = "idle" => session'[c] = session[c],
           \A d \in Client \ {c} : session'[d] = session[d]
    PROVE  IInv'
<1> USE ConstantsAssumption
<1> DEFINE l == Unlinked(clients, c)
           n == Unqueued(c)
           st == [state EXCEPT ![c] = "CLOSED"]
           devs == DevicesClosed(c)
<1>1. TypeOK /\ ListIsSeat /\ OneActive /\ Placed /\ NextQueued /\ NeverIdle
      /\ LiveIsActive /\ ExclusiveAccess
  BY DEF IInv
<1>2. /\ l \in Seq(Client) /\ Injective(l)
      /\ \A d \in Client : Among(l, d) <=> OnSeat(d) /\ d # c
  <2>1. clients \in Seq(Client) /\ Injective(clients)
        /\ \A d \in Client : OnSeat(d) <=> Among(clients, d)
    BY <1>1 DEF TypeOK, ListIsSeat, Injective, Among
  <2> QED
    BY <2>1, UnlinkedLemma, SMTT(30)
<1>3. ListIsSeat'
  <2>1. clients' = l
    BY SMTT(30) DEF seat_remove_client
  <2> QED
    BY <1>2, <2>1, SMTT(30) DEF ListIsSeat, OnSeat, Injective, Among
<1>4. /\ st \in [Client -> ClientState]
      /\ n \in Client \cup {NoClient} /\ n # c
      /\ n # NoClient => n = next_client
  BY <1>1 DEF TypeOK, ClientState, Unqueued
<1>5. devs \in Devices /\ devs[c] = NoDevices
      /\ \A d \in Client \ {c} : devs[d] = devices[d]
  BY <1>1 DEF TypeOK, Devices, DevicesClosed, NoDevices, NoDevice, Device
<1>6. /\ clients' \in Seq(Client)
      /\ UNCHANGED <<session_cnt, cur_vt, fg_vt, newvt, raised, outside>>
  BY <1>1, <1>2, SMTT(30) DEF TypeOK, seat_remove_client
<1>7. \A p \in Revocable : ~devs[c][p].live
  BY <1>5, SMTT(30) DEF NoDevices, NoDevice, Revocable, Path
<1> HIDE DEF l, n, st, devs
<1>8. CASE active_client = c
  <2> DEFINE d == Candidate(l, n, cur_vt)
  <2>1. /\ next_client' = NoClient
        /\ seat_open_client(d, st, session, devs, cur_vt, TRUE)
        /\ clients' = l
    BY <1>8, Zenon DEF seat_remove_client, seat_activate, l, n, st, devs
  <2>2. /\ d \in Client \cup {NoClient}
        /\ d # NoClient => OnSeat(d) /\ d # c
        /\ ~VtBound /\ l # <<>> => d # NoClient
    <3>1. n # NoClient => OnSeat(n)
      BY <1>1, <1>4, SMTT(30) DEF NextQueued
    <3>2. /\ d \in Client \cup {NoClient}
          /\ n # NoClient => d = n
          /\ n = NoClient => d = NoClient \/ Among(l, d)
          /\ n = NoClient /\ ~VtBound /\ l # <<>> => Among(l, d)
      BY <1>2, <1>4, CandidateLemma, SMTT(30)
    <3>3. \A i \in DOMAIN l : l[i] \in Client
      BY <1>2, SMTT(30)
    <3> QED
      BY <1>2, <1>4, <3>1, <3>2, <3>3, SMTT(30) DEF Among
  <2> HIDE DEF d
  <2>3. \A e \in Client : st[e] \notin {"ACTIVE", "PENDING_DISABLE"}
    BY <1>1, <1>8, SMTT(30) DEF OneActive, TypeOK, st
  <2>4. \A e \in Client, p \in Revocable : ~devs[e][p].live
    BY <1>1, <1>5, <1>7, <1>8, SMTT(30) DEF OneActive, ExclusiveAccess, Revocable
  <2>5. Free(st, devs)
    BY <1>4, <1>5, <2>3, <2>4, SMTT(30) DEF Free
  <2>6. Given(d, st, devs)
    BY <1>1, <2>1, <2>2, <2>5, ActivateLemma, Zenon
  <2>7. TypeOK'
    BY <1>1, <1>6, <2>1, <2>2, <2>6, Zenon DEF TypeOK, Devices, Given
  <2>8. Placed'
    <3>1. c # active_client' /\ st[c] = "CLOSED"
      <4>1. c # active_client'
        BY <2>2, <2>6, SMTT(30) DEF Given
      <4>2. st[c] = "CLOSED"
        BY <1>1, SMTT(30) DEF TypeOK, st
      <4> QED
        BY <4>1, <4>2, SMTT(30)
    <3>2. \A e \in Client \ {c} : st[e] = state[e] /\ (OnSeat(e) <=> OnSeat(e)')
      BY <1>1 DEF TypeOK, OnSeat, st
    <3>3. \A e \in Client \ {c} : e # active_client' =>
            state'[e] = state[e] /\ devices'[e] = devices[e]
      BY <1>5, <2>6, <3>2, Zenon DEF Given
    <3>4. active_client' # NoClient => conn'[d] = "seat" /\ state'[d] = "ACTIVE"
      BY <2>2, <2>6, Zenon DEF OnSeat, Given
    <3>5. devices'[c] = NoDevices /\ state'[c] = "CLOSED"
      BY <1>5, <2>6, <3>1, Zenon DEF Given
    <3>6. active_client' \in {d, NoClient}
      BY <2>6, SMTT(30) DEF Given
    <3>7. session[c] # NoSession
      BY <1>1, SMTT(30) DEF Placed
    <3> QED
      BY <1>1, <3>2, <3>3, <3>4, <3>5, <3>6, <3>7, SMTT(30) DEF Placed, OnSeat
  <2>9. NextQueued'
    BY <2>1, <2>2, <2>6, SMTT(30) DEF NextQueued, OnSeat, Given
  <2>10. NeverIdle'
    <3>1. ASSUME ~VtBound, l # <<>> PROVE active_client' # NoClient
      <4>1. d \in Client /\ OnSeat(d) /\ d # c
        BY <2>2, <3>1, Zenon
      <4>2. state[d] = st[d] /\ st[d] \notin {"ACTIVE", "PENDING_DISABLE"}
        BY <1>1, <2>3, <4>1, SMTT(30) DEF TypeOK, st
      <4>3. st[d] \in {"NEW", "DISABLED"}
        BY <1>1, <4>1, <4>2 DEF Placed, TypeOK, ClientState
      <4>4. active_client' = d
        BY <2>6, <3>1, <4>1, <4>3, ZenonT(30) DEF Given
      <4> QED
        BY <4>1, <4>4, ConstantsAssumption, Zenon
    <3> QED
      BY <2>1, <3>1, Zenon DEF NeverIdle
  <2> QED
    BY <1>3, <2>6, <2>7, <2>8, <2>9, <2>10, SMTT(30) DEF IInv, Given
<1>9. CASE active_client # c
  <2>1. /\ next_client' = n /\ state' = st /\ devices' = devs
        /\ clients' = l
        /\ UNCHANGED <<active_client, server>>
    BY <1>9, Zenon DEF seat_remove_client, l, n, st, devs
  <2>2. TypeOK'
    <3>1. tty \in [VTs -> TtyConfig]
      BY <1>1 DEF TypeOK
    <3>2. tty' \in [VTs -> TtyConfig]
      BY <1>9, <3>1, Zenon DEF seat_remove_client, vt_close, TtyConfig
    <3> QED
      BY <1>1, <1>4, <1>5, <1>6, <2>1, <3>2, SMTT(30) DEF TypeOK, Devices
  <2>3. OneActive' /\ Placed'
    BY <1>1, <1>5, <1>9, <2>1, SMTT(30) DEF OneActive, Placed, OnSeat, TypeOK, st
  <2>4. NextQueued'
    BY <1>1, <1>4, <1>9, <2>1, SMTT(30) DEF NextQueued, OnSeat, TypeOK, st
  <2>5. NeverIdle'
    <3>1. l # <<>> => clients # <<>>
      BY <1>1, <1>2 DEF TypeOK, ListIsSeat, Among
    <3> QED
      BY <1>1, <2>1, <3>1, SMTT(30) DEF NeverIdle
  <2>6. LiveIsActive' /\ ExclusiveAccess'
    BY <1>1, <1>5, <1>7, <2>1, ZenonT(30)
      DEF LiveIsActive, ExclusiveAccess, Revocable, TypeOK, st
  <2> QED
    BY <1>3, <2>2, <2>3, <2>4, <2>5, <2>6, SMTT(30) DEF IInv
<1> QED
  BY <1>8, <1>9

=============================================================================
