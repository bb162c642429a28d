-------------------------------- MODULE Seat --------------------------------
(***************************************************************************)
(* The seat of seatd: its clients, the client that is active, the devices  *)
(* each client has open, and, on a VT-bound seat, the virtual terminals.   *)
(*                                                                         *)
(* seatd is one thread around poller_poll, so a callback (a request of a   *)
(* client, a disconnect, a VT signal) is one step.  Clients, the user who  *)
(* switches VTs and processes outside the seat interleave between the      *)
(* callbacks.  An operation that only answers with SERVER_ERROR changes    *)
(* nothing here and is not an action.                                      *)
(***************************************************************************)
EXTENDS Integers, Sequences, FiniteSets, SequencesExt

CONSTANTS
    Client,          \* connections; a slot is reused once its client is freed
    NoClient,        \* the NULL of active_client and next_client
    VtBound,         \* seat->vt_bound (SEATD_VTBOUND)
    VTs,             \* the VTs of the machine, positive numbers
    DrmPath,         \* device paths, by seat_device_type
    EvdevPath,       \* evdev and hidraw: opened, and revoked for good
    WsconsPath,
    OutsidePath,     \* DRM devices that a process outside the seat also uses
    TtyOpens,        \* possible outcomes of terminal_open
    SendResults,     \* possible outcomes of sending an event to a client
    MaxSeatDevices,  \* MAX_SEAT_DEVICES
    MaxSessions,     \* bound: sessions handed out on a seat without VTs
    MaxDeviceId,     \* bound: device ids handed out to a client
    MaxRefs          \* bound: references to one device

NoVt == -1
NoSession == -1
Path == DrmPath \cup EvdevPath \cup WsconsPath

ASSUME ConstantsAssumption ==
    /\ NoClient \notin Client
    /\ VtBound \in BOOLEAN
    /\ VTs \subseteq Nat \ {0} /\ VTs # {}
    /\ IsFiniteSet(Path)
    /\ DrmPath \cap EvdevPath = {} /\ DrmPath \cap WsconsPath = {}
    /\ EvdevPath \cap WsconsPath = {}
    /\ OutsidePath \subseteq DrmPath
    /\ TtyOpens \in SUBSET BOOLEAN /\ SendResults \in SUBSET BOOLEAN
    /\ MaxSeatDevices \in Nat /\ MaxSessions \in Nat
    /\ MaxDeviceId \in Nat /\ MaxRefs \in Nat

VARIABLES
    server,         \* "running", "killed" (running is false, and the callbacks of
                    \* the last poll are served), "finishing" (server_finish),
                    \* "stopped"; "aborted" by an assertion
    conn,           \* where a struct client is: "none", "idle" or "seat" list
    clients,        \* seat->clients, the most recently added client first
    active_client,
    next_client,
    state,          \* client->state
    session,        \* client->session
    session_cnt,
    cur_vt,
    devices,        \* client->devices, by path
    fg_vt,          \* kernel: the VT in the foreground
    newvt,          \* kernel: the VT whose switch waits for a release, or NoVt
    tty,            \* kernel: configuration of each VT
    raised,         \* VT signals that seatd has still to handle
    outside         \* kernel: DRM devices whose master is outside the seat

seatVars == <<clients, active_client, next_client, state, session,
              session_cnt, cur_vt>>
vtVars == <<fg_vt, newvt, tty, raised>>
vars == <<server, conn, seatVars, devices, vtVars, outside>>

ClientState == {"NEW", "ACTIVE", "PENDING_DISABLE", "DISABLED", "CLOSED"}

(***************************************************************************)
(* A struct seat_device.  device_id 0 is never handed out and stands for a *)
(* path that is not in the client's list.  `live' is the kernel's side:    *)
(* the file description is DRM master, or has not been revoked.            *)
(***************************************************************************)
Device == [device_id : Nat, ref_cnt : Nat, active : BOOLEAN, live : BOOLEAN]
NoDevice == [device_id |-> 0, ref_cnt |-> 0, active |-> FALSE, live |-> FALSE]
NoDevices == [p \in Path |-> NoDevice]
IsOpen(dev) == dev.device_id # 0
OpenPaths(c) == {p \in Path : IsOpen(devices[c][p])}

(***************************************************************************)
(* Configuration of a VT: "auto" (never touched by seatd: the kernel       *)
(* switches by itself), "text" (process switching, keyboard on), or        *)
(* "graphics" (process switching, keyboard off).  Opening tty 0 opens the  *)
(* VT in the foreground.                                                   *)
(***************************************************************************)
TtyConfig == {"auto", "text", "graphics"}
TtyOf(vt) == IF vt = 0 THEN fg_vt ELSE vt

terminal_set_process_switching(cfg, vt) ==
    IF cfg[TtyOf(vt)] = "auto" THEN [cfg EXCEPT ![TtyOf(vt)] = "text"] ELSE cfg

\* vt_open and vt_close set process switching, the keyboard and the graphics
\* mode of a terminal that opens.
vt_open(cfg, vt) == [cfg EXCEPT ![TtyOf(vt)] = "graphics"]
vt_close(cfg, vt) == [cfg EXCEPT ![TtyOf(vt)] = "text"]

Init ==
    /\ server = "running"
    /\ conn = [c \in Client |-> "none"]
    /\ clients = <<>>
    /\ active_client = NoClient
    /\ next_client = NoClient
    /\ state = [c \in Client |-> "CLOSED"]
    /\ session = [c \in Client |-> NoSession]
    /\ session_cnt = 0
    /\ cur_vt = 0
    /\ devices = [c \in Client |-> NoDevices]
    /\ fg_vt \in VTs
    /\ newvt = NoVt
    /\ tty = [v \in VTs |-> "auto"]
    /\ raised = {}
    /\ outside = {}

-----------------------------------------------------------------------------
(* Devices *)

\* DRM_IOCTL_SET_MASTER succeeds when nobody else is master.
MasterFree(devs, p) == p \notin outside /\ \A c \in Client : ~devs[c][p].live

\* Mutant: ids are the number of open devices, as if none were ever closed.
NextDeviceId_Count(devs) == 1 + Cardinality({p \in Path : IsOpen(devs[p])})

\* Ids grow from the largest one in use; 1 for the first device.
NextDeviceId(devs) == 1 + Max({0} \cup {devs[p].device_id : p \in Path})

\* Mutant: the device is marked inactive, but not revoked.
seat_deactivate_device_Kept(p, dev) == [dev EXCEPT !.active = FALSE]

\* A failed drop (the client was not master) leaves the device active.
seat_deactivate_device(p, dev) ==
    IF ~dev.active \/ (p \in DrmPath /\ ~dev.live)
    THEN dev
    ELSE [dev EXCEPT !.active = FALSE, !.live = dev.live /\ p \in WsconsPath]

\* Mutant: DRM devices are left to the client to reopen, as evdev devices are.
seat_activate_device_Never(devs, p, dev) == dev

\* Only a DRM device comes back; a failure to become master is ignored.
seat_activate_device(devs, p, dev) ==
    IF IsOpen(dev) /\ ~dev.active /\ p \in DrmPath
    THEN [dev EXCEPT !.active = TRUE, !.live = MasterFree(devs, p)]
    ELSE dev

\* The last reference deactivates and closes the device.  (What the client can
\* still do with its own copy of a wscons descriptor is not followed.)
seat_close_device(dev) ==
    IF dev.ref_cnt > 1 THEN [dev EXCEPT !.ref_cnt = @ - 1] ELSE NoDevice

\* All references of a client that leaves are closed.
DevicesClosed(c) == [devices EXCEPT ![c] = NoDevices]

Deactivated(devs, c) ==
    [devs EXCEPT ![c] = [p \in Path |-> seat_deactivate_device(p, devs[c][p])]]

Activated(devs, c) ==
    [devs EXCEPT ![c] = [p \in Path |-> seat_activate_device(devs, p, devs[c][p])]]

-----------------------------------------------------------------------------
(* The kernel's VTs (external) *)

\* The switch to v happens: v's owner is told if v is in process mode.
Complete(v, pending) ==
    /\ fg_vt' = v
    /\ newvt' = NoVt
    /\ raised' = pending \cup (IF tty[v] = "auto" THEN {} ELSE {"acquire"})

\* A request to switch to v, by the user or by VT_ACTIVATE.  A foreground VT
\* in process mode has to be released by seatd first.
RequestSwitch(v) ==
    IF v = fg_vt THEN UNCHANGED <<fg_vt, newvt, raised>>
    ELSE IF tty'[fg_vt] = "auto" THEN Complete(v, raised)
    ELSE newvt' = v /\ raised' = raised \cup {"release"} /\ UNCHANGED fg_vt

-----------------------------------------------------------------------------
(* Operations on the seat *)

\* seat_update_vt: tty0 says which VT is in the foreground.
UpdatedVt(opened) == IF opened THEN fg_vt ELSE cur_vt

Matching(l, vt) == SelectInSeq(l, LAMBDA c : VtBound => session[c] = vt)

\* Mutant: the first client is preferred to the one that is queued.
Candidate_Unqueued(l, n, vt) == IF l = <<>> THEN n ELSE Head(l)

\* Mutant: nobody takes over unless a switch has been requested.
Candidate_Queued(l, n, vt) == n

\* The client on list l that seat_activate picks, given next_client n.
Candidate(l, n, vt) ==
    IF n # NoClient THEN n
    ELSE IF Matching(l, vt) = 0 \/ (VtBound /\ vt = NoVt) THEN NoClient
    ELSE l[Matching(l, vt)]

(***************************************************************************)
(* seat_open_client for client c, where st, sess, devs and vt are the      *)
(* values the caller has computed and no client is active.  c is NoClient  *)
(* when seat_activate found nobody.  A failed vt_open leaves c as it was;  *)
(* a failed send leaves it active; both close cur_vt.  `tidy': the caller  *)
(* is seat_remove_client, which closes cur_vt if nobody became active.     *)
(* Opening a negative tty fails the assertion in get_tty_path.             *)
(***************************************************************************)
seat_open_client(c, st, sess, devs, vt, tidy) ==
    \E opened, closed \in (IF VtBound THEN TtyOpens ELSE {TRUE}),
       sent \in SendResults :
        LET eligible == c # NoClient /\ st[c] \in {"NEW", "DISABLED"}
            enabled == eligible /\ opened
            closes == VtBound /\ \/ eligible /\ ~(opened /\ sent)
                                 \/ tidy /\ ~enabled
            configured == IF VtBound /\ enabled
                          THEN vt_open(tty, sess[c]) ELSE tty
        IN  /\ state' = IF enabled THEN [st EXCEPT ![c] = "ACTIVE"] ELSE st
            /\ active_client' = IF enabled THEN c ELSE NoClient
            /\ devices' = IF enabled THEN Activated(devs, c) ELSE devs
            /\ tty' = IF closes /\ closed /\ vt # NoVt
                      THEN vt_close(configured, vt) ELSE configured
            /\ server' = IF closes /\ vt = NoVt THEN "aborted" ELSE server

\* seat_activate with no active client; a queued client is consumed.
seat_activate(l, n, st, devs, vt, tidy) ==
    /\ next_client' = NoClient
    /\ seat_open_client(Candidate(l, n, vt), st, session, devs, vt, tidy)

\* Mutant: the client is freed while the seat's list still has it.
Unlinked_Kept(l, c) == l

Unlinked(l, c) == RemoveFirst(l, c)

\* Mutant: a queued client that leaves stays queued.
Unqueued_Kept(c) == next_client

Unqueued(c) == IF next_client = c THEN NoClient ELSE next_client

seat_remove_client(c) ==
    LET l == Unlinked(clients, c)
        n == Unqueued(c)
        st == [state EXCEPT ![c] = "CLOSED"]
        devs == DevicesClosed(c)
    IN  /\ clients' = l
        /\ \/ /\ active_client = c
              /\ seat_activate(l, n, st, devs, cur_vt, TRUE)
           \/ /\ active_client # c
              /\ next_client' = n
              /\ state' = st
              /\ devices' = devs
              /\ \E closed \in TtyOpens :
                    tty' = IF VtBound /\ closed THEN vt_close(tty, session[c])
                                                ELSE tty
              /\ UNCHANGED <<active_client, server>>
        /\ UNCHANGED <<session_cnt, cur_vt, fg_vt, newvt, raised, outside>>

\* The active client is asked to disable; its devices are revoked at once.
seat_disable_client(c) ==
    /\ state' = [state EXCEPT ![c] = "PENDING_DISABLE"]
    /\ devices' = Deactivated(devices, c)

-----------------------------------------------------------------------------
(* Requests and disconnects of clients *)

Serving == server \in {"running", "killed"}

\* server_add_client and client_create.
Connect(c) ==
    /\ Serving
    /\ conn[c] = "none"
    /\ conn' = [conn EXCEPT ![c] = "idle"]
    /\ state' = [state EXCEPT ![c] = "NEW"]
    /\ UNCHANGED <<server, clients, active_client, next_client, session,
                   session_cnt, cur_vt, devices, vtVars, outside>>

\* The checks of seat_add_client that come before any effect.  A client that
\* has been on the seat before keeps its session and is not taken again.
MayAdd(c) ==
    /\ conn[c] = "idle"
    /\ session[c] = NoSession
    /\ ~(VtBound /\ active_client # NoClient
           /\ state[active_client] # "PENDING_DISABLE")

\* Another client has the session of VT vt.  Only looked at while the
\* previous client has still to acknowledge that it is disabled.
VtTaken(vt) ==
    /\ active_client # NoClient
    /\ \E i \in DOMAIN clients : session[clients[i]] = vt

\* CLIENT_OPEN_SEAT on a VT-bound seat that cannot take the client on this
\* VT: cur_vt has been updated by then, and the client is destroyed.
OpenSeatRefused(c) ==
    /\ Serving
    /\ VtBound
    /\ MayAdd(c)
    /\ \E opened \in TtyOpens :
          /\ cur_vt' = UpdatedVt(opened)
          /\ cur_vt' = NoVt \/ VtTaken(cur_vt')
    /\ conn' = [conn EXCEPT ![c] = "none"]
    /\ state' = [state EXCEPT ![c] = "CLOSED"]
    /\ UNCHANGED <<server, clients, active_client, next_client, session,
                   session_cnt, devices, vtVars, outside>>

\* Mutant: sessions are numbered by the clients present.
NextSession_Len == Len(clients)

NextSession == session_cnt

\* seat_add_client gives the client session s: the VT, or the next number.
seat_add_client(c, s) ==
    /\ MayAdd(c)
    /\ IF VtBound
       THEN /\ \E opened \in TtyOpens : s = UpdatedVt(opened)
            /\ s # NoVt /\ ~VtTaken(s)
            /\ cur_vt' = s
            /\ UNCHANGED session_cnt
       ELSE /\ s = NextSession /\ session_cnt < MaxSessions
            /\ session_cnt' = session_cnt + 1
            /\ UNCHANGED cur_vt

\* Mutant: seat_open_client does not look whether a client is active.
SeatFree_Unchecked == TRUE

SeatFree == active_client = NoClient

\* CLIENT_OPEN_SEAT: the client joins the seat, and is enabled if no other
\* client is active.
OpenSeat(c, s) ==
    /\ Serving
    /\ seat_add_client(c, s)
    /\ session' = [session EXCEPT ![c] = s]
    /\ clients' = <<c>> \o clients
    /\ conn' = [conn EXCEPT ![c] = "seat"]
    /\ \/ /\ SeatFree
          /\ seat_open_client(c, state, session', devices, cur_vt', FALSE)
       \/ /\ ~SeatFree
          /\ UNCHANGED <<server, state, active_client, devices, tty>>
    /\ UNCHANGED <<next_client, fg_vt, newvt, raised, outside>>

\* CLIENT_OPEN_SEAT whose answer cannot be written: the client has been added,
\* is not enabled, and is destroyed as a client that was not current.
OpenSeatUnanswered(c, s) ==
    /\ Serving
    /\ FALSE \in SendResults
    /\ seat_add_client(c, s)
    /\ conn' = [conn EXCEPT ![c] = "none"]
    /\ state' = [state EXCEPT ![c] = "CLOSED"]
    /\ \E closed \in TtyOpens :
          tty' = IF VtBound /\ closed THEN vt_close(tty, s) ELSE tty
    /\ UNCHANGED <<server, clients, active_client, next_client, session,
                   devices, fg_vt, newvt, raised, outside>>

\* CLIENT_CLOSE_SEAT: the client goes back to the idle list.
CloseSeat(c) ==
    /\ Serving
    /\ conn[c] = "seat"
    /\ conn' = [conn EXCEPT ![c] = "idle"]
    /\ seat_remove_client(c)
    /\ UNCHANGED session

\* client_destroy of a client on the idle list or on the seat.
client_destroy(c) ==
    /\ conn' = [conn EXCEPT ![c] = "none"]
    /\ session' = [session EXCEPT ![c] = NoSession]
    /\ \/ /\ conn[c] = "idle"
          /\ state' = [state EXCEPT ![c] = "CLOSED"]
          /\ UNCHANGED <<server, clients, active_client, next_client,
                         session_cnt, cur_vt, devices, vtVars, outside>>
       \/ /\ conn[c] = "seat"
          /\ seat_remove_client(c)

\* Hang-up, connection error, protocol error, a refused CLIENT_OPEN_SEAT or an
\* answer that cannot be written: client_handle_connection destroys the client.
Disconnect(c) == Serving /\ client_destroy(c)

\* CLIENT_OPEN_DEVICE of a path the client has not open.
OpenDevice(c, p) ==
    LET id == NextDeviceId(devices[c])
        live == p \in DrmPath => MasterFree(devices, p)
    IN  /\ Serving
        /\ conn[c] = "seat" /\ state[c] = "ACTIVE"
        /\ p \notin OpenPaths(c)
        /\ Cardinality(OpenPaths(c)) < MaxSeatDevices
        /\ id <= MaxDeviceId
        /\ devices' = [devices EXCEPT ![c][p] =
                [device_id |-> id, ref_cnt |-> 1, active |-> TRUE, live |-> live]]
        /\ UNCHANGED <<server, conn, seatVars, vtVars, outside>>

\* CLIENT_OPEN_DEVICE of a path the client has open: the reference is counted,
\* but `device' is still NULL when it is returned, so the answer is an error.
ReopenDevice(c, p) ==
    /\ Serving
    /\ conn[c] = "seat" /\ state[c] = "ACTIVE"
    /\ p \in OpenPaths(c)
    /\ devices[c][p].ref_cnt < MaxRefs
    /\ devices' = [devices EXCEPT ![c][p].ref_cnt = @ + 1]
    /\ UNCHANGED <<server, conn, seatVars, vtVars, outside>>

\* CLIENT_CLOSE_DEVICE, by the id of p, in any state of the client.
CloseDevice(c, p) ==
    /\ Serving
    /\ conn[c] = "seat"
    /\ p \in OpenPaths(c)
    /\ devices' = [devices EXCEPT ![c][p] = seat_close_device(@)]
    /\ UNCHANGED <<server, conn, seatVars, vtVars, outside>>

\* CLIENT_SWITCH_SESSION on a seat without VTs: the client of session s is
\* queued, and the active client is asked to disable.
SwitchSession(c, s) ==
    /\ Serving
    /\ ~VtBound
    /\ conn[c] = "seat" /\ state[c] = "ACTIVE"
    /\ s > 0 /\ s # session[c]
    /\ next_client = NoClient
    /\ \E i \in DOMAIN clients :
          /\ session[clients[i]] = s
          /\ next_client' = clients[i]
    /\ seat_disable_client(active_client)
    /\ UNCHANGED <<server, conn, clients, active_client, session, session_cnt,
                   cur_vt, vtVars, outside>>

\* vt_switch puts the current VT in process mode and asks the kernel for VT v.
vt_switch(v) ==
    IF cur_vt = NoVt
    THEN server' = "aborted" /\ UNCHANGED vtVars
    ELSE /\ tty' = terminal_set_process_switching(tty, cur_vt)
         /\ RequestSwitch(v)
         /\ UNCHANGED server

\* CLIENT_SWITCH_SESSION on a VT-bound seat: the VT signals do the rest.
SwitchVt(c, v) ==
    /\ Serving
    /\ VtBound
    /\ conn[c] = "seat" /\ state[c] = "ACTIVE"
    /\ v # session[c]
    /\ next_client = NoClient
    /\ TRUE \in TtyOpens
    /\ vt_switch(v)
    /\ UNCHANGED <<conn, seatVars, devices, outside>>

\* CLIENT_DISABLE_SEAT acknowledges the disable: the client gives up the seat,
\* and the next one is enabled.
DisableSeat(c) ==
    LET st == [state EXCEPT ![c] = "DISABLED"]
    IN  /\ Serving
        /\ conn[c] = "seat" /\ state[c] = "PENDING_DISABLE"
        /\ IF active_client = c
           THEN seat_activate(clients, next_client, st, devices, cur_vt, FALSE)
           ELSE /\ state' = st
                /\ UNCHANGED <<server, active_client, next_client, devices, tty>>
        /\ UNCHANGED <<conn, clients, session, session_cnt, cur_vt,
                       fg_vt, newvt, raised, outside>>

-----------------------------------------------------------------------------
(* VT signals, the kernel, and the end of the server *)

\* SIGUSR2, seat_vt_activate: the acquisition is acknowledged, and the client
\* of the new VT is enabled if no client is active.
VtAcquire ==
    /\ Serving
    /\ VtBound
    /\ "acquire" \in raised
    /\ raised' = raised \ {"acquire"}
    /\ \E opened \in TtyOpens : cur_vt' = UpdatedVt(opened)
    /\ IF cur_vt' # NoVt /\ active_client = NoClient
       THEN seat_activate(clients, next_client, state, devices, cur_vt', FALSE)
       ELSE /\ server' = IF cur_vt' = NoVt THEN "aborted" ELSE server
            /\ UNCHANGED <<active_client, next_client, state, devices, tty>>
    /\ UNCHANGED <<conn, clients, session, session_cnt, fg_vt, newvt,
                   outside>>

\* Mutant: a VT release leaves the client alone.
ReleaseDisables_Never == FALSE

ReleaseDisables == active_client # NoClient /\ state[active_client] = "ACTIVE"

\* Mutant: the kernel has to wait until the client has acknowledged.
vt_ack_release_Late(vt, acked) ==
    /\ raised' = raised \ {"release"}
    /\ IF acked /\ TtyOf(vt) = fg_vt /\ newvt # NoVt /\ active_client = NoClient
       THEN fg_vt' = newvt /\ newvt' = NoVt
       ELSE UNCHANGED <<fg_vt, newvt>>

vt_ack_release(vt, acked) ==
    IF acked /\ TtyOf(vt) = fg_vt /\ newvt # NoVt
    THEN Complete(newvt, raised \ {"release"})
    ELSE raised' = raised \ {"release"} /\ UNCHANGED <<fg_vt, newvt>>

\* SIGUSR1, seat_vt_release: the active client is asked to disable, and the
\* kernel may switch at once, before the client has answered.
VtRelease ==
    /\ Serving
    /\ VtBound
    /\ "release" \in raised
    /\ IF ReleaseDisables
       THEN seat_disable_client(active_client)
       ELSE UNCHANGED <<state, devices>>
    /\ \E opened \in TtyOpens, acked \in TtyOpens :
          LET vt == UpdatedVt(opened)
          IN  /\ server' = IF vt = NoVt THEN "aborted" ELSE server
              /\ vt_ack_release(vt, acked)
    /\ cur_vt' = NoVt
    /\ UNCHANGED <<conn, clients, active_client, next_client, session,
                   session_cnt, tty, outside>>

\* The user, or a process outside the seat, asks for VT v.
UserSwitch(v) ==
    /\ VtBound
    /\ server \notin {"stopped", "aborted"}
    /\ v # fg_vt
    /\ UNCHANGED tty
    /\ RequestSwitch(v)
    /\ UNCHANGED <<server, conn, seatVars, devices, outside>>

\* A process outside the seat becomes DRM master of p, or gives it up.
OutsideMaster(p) ==
    /\ server \notin {"stopped", "aborted"}
    /\ \/ MasterFree(devices, p) /\ outside' = outside \cup {p}
       \/ p \in outside /\ outside' = outside \ {p}
    /\ UNCHANGED <<server, conn, seatVars, devices, vtVars>>

\* SIGINT, SIGTERM, or an error on the listening socket.
Kill ==
    /\ server = "running"
    /\ server' = "killed"
    /\ UNCHANGED <<conn, seatVars, devices, vtVars, outside>>

\* The loop of main ends, and server_finish begins.
Leave ==
    /\ server = "killed"
    /\ server' = "finishing"
    /\ UNCHANGED <<conn, seatVars, devices, vtVars, outside>>

\* server_finish destroys the idle clients, then seat_destroy those of the
\* seat, from the head of its list.
FinishClient(c) ==
    /\ server = "finishing"
    /\ \/ conn[c] = "idle"
       \/ /\ \A d \in Client : conn[d] # "idle"
          /\ clients # <<>> /\ c = Head(clients)
    /\ client_destroy(c)

Exit ==
    /\ server = "finishing"
    /\ \A c \in Client : conn[c] = "none"
    /\ server' = "stopped"
    /\ UNCHANGED <<conn, seatVars, devices, vtVars, outside>>

Sessions == VTs \cup 0 .. MaxSessions

Request(c) ==
    \/ \E s \in Sessions : \/ OpenSeat(c, s)
                           \/ OpenSeatUnanswered(c, s)
                           \/ SwitchSession(c, s)
    \/ OpenSeatRefused(c)
    \/ CloseSeat(c)
    \/ \E p \in Path : OpenDevice(c, p) \/ ReopenDevice(c, p) \/ CloseDevice(c, p)
    \/ \E v \in VTs : SwitchVt(c, v)
    \/ DisableSeat(c)

Next ==
    \/ \E c \in Client : Connect(c) \/ Request(c) \/ Disconnect(c) \/ FinishClient(c)
    \/ VtAcquire
    \/ VtRelease
    \/ \E v \in VTs : UserSwitch(v)
    \/ \E p \in OutsidePath : OutsideMaster(p)
    \/ Kill
    \/ Leave
    \/ Exit

(***************************************************************************)
(* The poll loop handles every signal and carries server_finish through;   *)
(* nothing makes a client acknowledge a disable.                           *)
(***************************************************************************)
ServerFairness ==
    /\ WF_vars(VtAcquire)
    /\ WF_vars(VtRelease)
    /\ WF_vars(\E c \in Client : FinishClient(c))
    /\ WF_vars(Leave)
    /\ WF_vars(Exit)

\* A client that honours libseat's contract answers every disable.
ClientFairness == \A c \in Client : WF_vars(DisableSeat(c))

Spec == Init /\ [][Next]_vars
ServerFairSpec == Spec /\ ServerFairness
FairSpec == Spec /\ ServerFairness /\ ClientFairness

-----------------------------------------------------------------------------
(* Properties *)

OnSeat(c) == conn[c] = "seat"

\* Every variable keeps its type.
TypeOK ==
    /\ server \in {"running", "killed", "finishing", "stopped", "aborted"}
    /\ conn \in [Client -> {"none", "idle", "seat"}]
    /\ clients \in Seq(Client)
    /\ active_client \in Client \cup {NoClient}
    /\ next_client \in Client \cup {NoClient}
    /\ state \in [Client -> ClientState]
    /\ session \in [Client -> Int]
    /\ session_cnt \in Nat
    /\ cur_vt \in VTs \cup {0, NoVt}
    /\ devices \in [Client -> [Path -> Device]]
    /\ fg_vt \in VTs
    /\ newvt \in VTs \cup {NoVt}
    /\ tty \in [VTs -> TtyConfig]
    /\ raised \in SUBSET {"acquire", "release"}
    /\ outside \in SUBSET DrmPath

\* The seat's list holds each client of the seat once, and nobody else: a
\* request handled for a client never leaves the list pointing at a freed one.
ListIsSeat ==
    /\ \A c \in Client : OnSeat(c) <=> \E i \in DOMAIN clients : clients[i] = c
    /\ \A i, j \in DOMAIN clients : clients[i] = clients[j] => i = j

\* A client is active or asked to disable exactly when active_client points at
\* it: what seat_open_device, seat_disable_client and seat_set_next_session
\* assert.  So no two clients have the seat at once.
OneActive ==
    \A c \in Client :
        state[c] \in {"ACTIVE", "PENDING_DISABLE"} <=> active_client = c

\* A client of the seat has a session and has not been closed.  A client that is
\* not on the seat has no device open, as client_destroy asserts, and is new
\* unless it has been on the seat: what seat_add_client accepts can be enabled.
Placed ==
    \A c \in Client :
        IF OnSeat(c) THEN state[c] # "CLOSED" /\ session[c] # NoSession
        ELSE /\ state[c] \in {"NEW", "CLOSED"} /\ devices[c] = NoDevices
             /\ conn[c] = "idle" /\ session[c] = NoSession => state[c] = "NEW"

\* active_client and next_client never point at a client that has left the
\* seat.  A queued client waits for one that has been asked to disable, and
\* can be opened; a VT-bound seat queues nobody.
NextQueued ==
    /\ active_client # NoClient => OnSeat(active_client)
    /\ next_client # NoClient =>
          /\ ~VtBound
          /\ OnSeat(next_client) /\ state[next_client] \in {"NEW", "DISABLED"}
          /\ active_client # NoClient
          /\ state[active_client] = "PENDING_DISABLE"

\* seatd's flag never misses a device that the kernel lets the client use, so
\* seat_deactivate_device does not skip one.
LiveIsActive ==
    \A c \in Client, p \in DrmPath \cup EvdevPath :
        devices[c][p].live => devices[c][p].active

\* Only the enabled client can use a DRM or input device: everyone else's file
\* descriptors have lost DRM master or have been revoked.
ExclusiveAccess ==
    \A c \in Client, p \in DrmPath \cup EvdevPath :
        devices[c][p].live => state[c] = "ACTIVE"

\* A seat without VTs that has clients has an active one: whenever one leaves
\* or gives up the seat, seat_activate finds another.
NeverIdle ==
    ~VtBound /\ clients # <<>> => active_client # NoClient

\* The inductive invariant: whatever request, signal or failure comes next, the
\* list, the pointers, the clients' states and their devices go on to agree.
IInv ==
    /\ TypeOK
    /\ ListIsSeat
    /\ OneActive
    /\ Placed
    /\ NextQueued
    /\ NeverIdle
    /\ LiveIsActive
    /\ ExclusiveAccess

\* Sessions of a seat without VTs name one client each, so a switch cannot
\* reach another client than the one meant.
SessionsUnique ==
    ~VtBound =>
        \A c, d \in Client :
            /\ OnSeat(c) => session[c] \in 0 .. session_cnt - 1
            /\ OnSeat(c) /\ OnSeat(d) /\ session[c] = session[d] => c = d

\* seat_find_device finds the device that was opened under an id: ids are not
\* shared by two open devices of a client, however they are opened and closed.
DeviceIdsUnique ==
    \A c \in Client : \A p, q \in OpenPaths(c) :
        devices[c][p].device_id = devices[c][q].device_id => p = q

\* The seat is not taken from a client that has neither answered the request
\* to disable nor left.
HandoverAsked ==
    [][active_client # NoClient /\ active_client' # active_client
       => \/ state[active_client] = "PENDING_DISABLE"
          \/ conn'[active_client] # "seat"]_vars

Promise == INSTANCE Holder WITH
    members <- {c \in Client : OnSeat(c)},
    holder <- active_client,
    asked <- active_client # NoClient /\ state[active_client] = "PENDING_DISABLE"

\* The seat keeps its promise: through queued switches, VT signals, refused
\* clients, failed sends and disconnects, every step hands the seat on as the
\* abstract seat may, or not at all.
IsHeld == Promise!HolderSpec

\* A queued client is the next to get the seat, whatever is requested or
\* disconnects meanwhile, unless it leaves.
QueuedIsNext ==
    [][next_client # NoClient /\ next_client' # next_client
       => \/ active_client' = next_client /\ next_client' = NoClient
          \/ conn'[next_client] # "seat"]_vars

\* The kernel does not leave a VT while the client of that VT is enabled.
NoSwitchUnderActive ==
    [][fg_vt' # fg_vt
       => \A c \in Client : session[c] = fg_vt => state'[c] # "ACTIVE"]_vars

\* An enabled client can switch VTs: vt_switch is never called with cur_vt -1.
SwitchHasVt ==
    VtBound => \A c \in Client : state[c] = "ACTIVE" => cur_vt # NoVt

\* A client that is enabled again is master of the DRM devices that were taken
\* from it: no other client of the seat has kept one.
DrmComesBack ==
    [][\A c \in Client, p \in DrmPath :
          /\ state[c] # "ACTIVE" /\ state'[c] = "ACTIVE"
          /\ IsOpen(devices'[c][p]) /\ ~devices[c][p].active /\ p \notin outside
          => devices'[c][p].live]_vars

\* A requested switch happens: the queued client becomes active, or leaves.
SwitchHappens ==
    \A c \in Client :
        next_client = c ~> active_client = c \/ ~OnSeat(c) \/ ~Serving

\* A VT switch that waits for seatd is let through, even if no client ever
\* acknowledges that it is disabled.
KernelReleased == newvt # NoVt ~> newvt = NoVt \/ ~Serving

\* A killed server gets through all its clients.
FinishEnds == server = "killed" ~> server \in {"stopped", "aborted"}

(* What comments and assertions say, and the code does not keep *)

\* seat_create: "switching VTs switches the active session accordingly": the
\* enabled client is the one of the VT in the foreground.
ActiveInForeground ==
    VtBound => \A c \in Client : state[c] = "ACTIVE" => session[c] = fg_vt

\* get_tty_path asserts that the tty number is not negative.
NoAbort == server # "aborted"

=============================================================================
