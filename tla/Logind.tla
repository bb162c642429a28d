------------------------------- MODULE Logind -------------------------------
(***************************************************************************)
(* libseat on top of systemd-logind: the application and the logind        *)
(* backend in one process, logind in another, and the D-Bus connection     *)
(* between them, which keeps the order of messages.                        *)
(*                                                                         *)
(* Calls of logind are synchronous: while sd_bus_call waits for a reply,   *)
(* the signals that come first are queued, and sd_bus_process hands them   *)
(* to their handlers in the next dispatch.  Nothing on the socket tells    *)
(* the application of queued signals, so the backend sends a ping whose    *)
(* answer will.                                                            *)
(*                                                                         *)
(* logind is external.  It signals every change of the session's Active    *)
(* property, with the value or without; it may ask for a graceful pause    *)
(* first, and deactivates the session after it did.                        *)
(***************************************************************************)
EXTENDS Integers, Sequences, SequencesExt

CONSTANTS
    MaxSignals,     \* signals under way: no more are sent
    MaxPings        \* pings under way: the application dispatches first

ASSUME LogindAssumption == MaxSignals \in Nat /\ MaxPings \in Nat

VARIABLES
    opened,         \* the application has the seat
    call,           \* the call that waits for its reply, or "none"
    loop,           \* dispatch_and_execute: "first" and "second" loop around
                    \* sd_bus_process, "poll" between them; or "none"
    dispatched,     \* total_dispatched > 0
    callback,       \* the callback of the application that runs, or "none"
    completes,      \* handle_pause_device has still to complete the pause
    active, initial_setup,
    rqueue,         \* messages that sd-bus has read and not processed
    c2s, s2c,       \* the two directions of the socket
    told,           \* the last callback
    missed,         \* a property could not be read
    Active,         \* logind: the session is active,
    pausing,        \* has been asked to pause and is to be deactivated,
    matched         \* and its signals are sent to this connection

stackVars == <<call, loop, dispatched, callback, completes>>
backendVars == <<opened, active, initial_setup>>
logindVars == <<Active, pausing, matched>>
vars == <<stackVars, backendVars, rqueue, c2s, s2c, told, missed, logindVars>>

\* What sd_bus_call returns with, and what it puts aside.
Value(b) == IF b THEN "active" ELSE "inactive"
Replies == {"reply", "error", "active", "inactive"}
Callback(b) == IF b THEN "enable" ELSE "disable"

\* The signals of a change of Active: with the new value, or invalidated.
Notices(b) == {IF b THEN "True" ELSE "False", "Changed"}
Signals == Notices(TRUE) \cup Notices(FALSE) \cup {"pause", "force"}

Init ==
    /\ opened = FALSE /\ call = "none" /\ loop = "none" /\ dispatched = FALSE
    /\ callback = "none" /\ completes = FALSE
    /\ active = FALSE /\ initial_setup = FALSE
    /\ rqueue = <<>> /\ c2s = <<>> /\ s2c = <<>>
    /\ told = "none" /\ missed = FALSE
    /\ Active \in BOOLEAN /\ pausing = FALSE /\ matched = FALSE

-----------------------------------------------------------------------------
(* Calls *)

sd_bus_call(method) == call' = method /\ c2s' = Append(c2s, method)

\* The reply that a call waits for is the first one on the socket.
ReplyAt == SelectInSeq(s2c, LAMBDA m : m \in Replies)
Reply == s2c[ReplyAt]

Queued == rqueue \o SubSeq(s2c, 1, ReplyAt - 1)

\* The reply of a call of this kind comes.
Receive(methods) ==
    /\ call \in methods /\ ReplyAt # 0
    /\ rqueue' = Queued /\ s2c' = SubSeq(s2c, ReplyAt + 1, Len(s2c))

\* Mutant: nobody pings.
MustPing_Never(queue) == FALSE

\* Mutant: a ping after every dispatch.
MustPing_Always(queue) == TRUE

\* check_pending_events: queued messages need a dispatch.
MustPing(queue) == queue # <<>>
check_pending_events(queue) ==
    c2s' = IF MustPing(queue) THEN Append(c2s, "ping") ELSE c2s

\* destroy: the connection is closed, and whatever is on it is lost.
destroy ==
    /\ opened' = FALSE /\ call' = "none" /\ rqueue' = <<>> /\ c2s' = <<>>
    /\ s2c' = <<>> /\ active' = FALSE /\ initial_setup' = FALSE
    /\ told' = "none" /\ missed' = FALSE /\ matched' = FALSE
    /\ UNCHANGED <<loop, dispatched, callback, completes, Active, pausing>>

-----------------------------------------------------------------------------
(* Opening and closing a seat *)

\* The session and its paths.
Open ==
    /\ ~opened /\ call = "none"
    /\ sd_bus_call("path")
    /\ UNCHANGED <<loop, dispatched, callback, completes, backendVars, rqueue,
                   s2c, told, missed, logindVars>>

\* Mutant: the property is read before the signals are asked for.
OpenOrder_Swapped == [path |-> "get", get |-> "match", match |-> "control"]

\* The calls of logind_open_seat: add_signal_matches, session_get_active and
\* session_take_control.
OpenOrder == [path |-> "match", match |-> "get", get |-> "control"]

session_get_active == IF call = "get" THEN Reply = "active" ELSE active

OpenStep ==
    /\ Receive(DOMAIN OpenOrder) /\ Reply # "error"
    /\ sd_bus_call(OpenOrder[call])
    /\ active' = session_get_active
    /\ UNCHANGED <<loop, dispatched, callback, completes, opened,
                   initial_setup, told, missed, logindVars>>

OpenFails ==
    /\ call \in DOMAIN OpenOrder \cup {"control"}
    /\ ReplyAt # 0 /\ Reply = "error"
    /\ destroy

\* session_set_type, when XDG_SESSION_TYPE is set.
SetType ==
    /\ Receive({"control"}) /\ Reply # "error"
    /\ sd_bus_call("type")
    /\ UNCHANGED <<loop, dispatched, callback, completes, backendVars, told,
                   missed, logindVars>>

\* The seat is open; the first dispatch will tell the application its state.
Opened ==
    /\ Receive({"control", "type"}) /\ (call = "type" \/ Reply # "error")
    /\ call' = "none" /\ opened' = TRUE /\ initial_setup' = TRUE
    /\ check_pending_events(rqueue')
    /\ UNCHANGED <<loop, dispatched, callback, completes, active, told, missed,
                   logindVars>>

Idle == opened /\ call = "none" /\ loop = "none"

\* session_release_control.
Close ==
    /\ Idle /\ sd_bus_call("release")
    /\ UNCHANGED <<loop, dispatched, callback, completes, backendVars, rqueue,
                   s2c, told, missed, logindVars>>

Closed == call = "release" /\ ReplyAt # 0 /\ destroy

-----------------------------------------------------------------------------
(* The other calls of the application *)

\* open_device, close_device and switch_session, in a callback or outside.
Device ==
    /\ opened /\ call = "none" /\ (loop = "none" \/ callback # "none")
    /\ sd_bus_call("device")
    /\ UNCHANGED <<loop, dispatched, callback, completes, backendVars, rqueue,
                   s2c, told, missed, logindVars>>

DeviceReturns ==
    /\ Receive({"device"})
    /\ call' = "none" /\ check_pending_events(rqueue')
    /\ UNCHANGED <<loop, dispatched, callback, completes, backendVars, told,
                   missed, logindVars>>

-----------------------------------------------------------------------------
(* Dispatching *)

Runs(b) == callback' = Callback(b) /\ told' = Callback(b)

set_active(b) ==
    /\ active' = b
    /\ IF active = b THEN UNCHANGED <<callback, told>> ELSE Runs(b)

\* dispatch_and_execute, with the first callback of the seat.
Dispatch ==
    /\ Idle
    /\ loop' = "first" /\ dispatched' = FALSE /\ initial_setup' = FALSE
    /\ IF initial_setup THEN Runs(active) ELSE UNCHANGED <<callback, told>>
    /\ UNCHANGED <<call, completes, opened, active, rqueue, c2s, s2c, missed,
                   logindVars>>

Return ==
    /\ callback # "none" /\ call = "none"
    /\ callback' = "none"
    /\ UNCHANGED <<call, loop, dispatched, completes, backendVars, rqueue, c2s,
                   s2c, told, missed, logindVars>>

\* sd_bus_process may take a message: nothing is running.
Processing ==
    loop \in {"first", "second"} /\ callback = "none" /\ call = "none" /\ ~completes

\* sd_bus_process takes a message from the queue, or else from the socket.
Take(m) ==
    /\ Processing /\ rqueue \o s2c # <<>> /\ Head(rqueue \o s2c) = m
    /\ IF rqueue # <<>>
       THEN rqueue' = Tail(rqueue) /\ UNCHANGED s2c
       ELSE s2c' = Tail(s2c) /\ UNCHANGED rqueue
    /\ dispatched' = TRUE

\* ping_handler, and what handle_pause_device and handle_properties_changed
\* ignore.
HandleOther ==
    /\ Take("pong") \/ Take("force")
    /\ UNCHANGED <<call, loop, callback, completes, backendVars, c2s, told,
                   missed, logindVars>>

\* Mutant: the pause is completed before the application is told.
PauseHandled_Early == UNCHANGED <<active, callback, told>>

\* handle_pause_device disables the seat first.
PauseHandled == set_active(FALSE)
handle_pause_device ==
    /\ Take("pause") /\ PauseHandled /\ completes' = TRUE
    /\ UNCHANGED <<call, loop, opened, initial_setup, c2s, missed, logindVars>>

\* Then it completes the pause.
PauseDeviceComplete ==
    /\ completes /\ callback = "none" /\ call = "none"
    /\ completes' = FALSE /\ sd_bus_call("complete")
    /\ UNCHANGED <<loop, dispatched, callback, backendVars, rqueue, s2c, told,
                   missed, logindVars>>

CompleteReturns ==
    /\ Receive({"complete"}) /\ call' = "none"
    /\ UNCHANGED <<loop, dispatched, callback, completes, backendVars, c2s,
                   told, missed, logindVars>>

\* handle_properties_changed: the new value is in the signal,
handle_properties_changed ==
    /\ \E b \in BOOLEAN :
          Take(IF b THEN "True" ELSE "False") /\ set_active(b)
    /\ UNCHANGED <<call, loop, completes, opened, initial_setup, c2s, missed,
                   logindVars>>

\* or it is read.
HandleInvalidated ==
    /\ Take("Changed") /\ sd_bus_call("changed")
    /\ UNCHANGED <<loop, callback, completes, backendVars, told, missed,
                   logindVars>>

InvalidatedReturns ==
    /\ Receive({"changed"}) /\ call' = "none"
    /\ IF Reply = "error"
       THEN missed' = TRUE /\ UNCHANGED <<active, callback, told>>
       ELSE set_active(Reply = "active") /\ UNCHANGED missed
    /\ UNCHANGED <<loop, dispatched, completes, opened, initial_setup, c2s,
                   logindVars>>

\* sd_bus_process has nothing left, and dispatch returns,
Finish ==
    /\ Processing /\ rqueue \o s2c = <<>>
    /\ loop' = "none" /\ dispatched' = FALSE /\ check_pending_events(rqueue)
    /\ UNCHANGED <<call, callback, completes, backendVars, rqueue, s2c, told,
                   missed, logindVars>>

\* or waits, when it has done nothing and the timeout is not 0.
Wait ==
    /\ Processing /\ rqueue \o s2c = <<>> /\ loop = "first" /\ ~dispatched
    /\ loop' = "poll"
    /\ UNCHANGED <<call, dispatched, callback, completes, backendVars, rqueue,
                   c2s, s2c, told, missed, logindVars>>

\* poll_connection: something to read, the timeout or a signal.
PollReturns ==
    /\ loop = "poll" /\ loop' = "second"
    /\ UNCHANGED <<call, dispatched, callback, completes, backendVars, rqueue,
                   c2s, s2c, told, missed, logindVars>>

-----------------------------------------------------------------------------
(* logind *)

Underway(kinds) == Len(SelectSeq(rqueue \o c2s \o s2c, LAMBDA m : m \in kinds))

Answers(method) ==
    CASE method = "ping" -> {"pong"}
      [] method \in {"get", "changed"} -> {Value(Active), "error"}
      [] method \in {"path", "match", "control", "type"} -> {"reply", "error"}
      [] OTHER -> {"reply"}

Serve ==
    /\ c2s # <<>> /\ c2s' = Tail(c2s)
    /\ \E m \in Answers(Head(c2s)) :
          /\ s2c' = Append(s2c, m)
          /\ matched' = (matched \/ (Head(c2s) = "match" /\ m = "reply"))
    /\ UNCHANGED <<stackVars, backendVars, rqueue, told, missed, Active,
                   pausing>>

\* A signal reaches the connection if a match asks for it.
Signalled(sent) ==
    /\ Underway(Signals) + Len(sent) <= MaxSignals
    /\ s2c' = IF matched THEN s2c \o sent ELSE s2c
    /\ UNCHANGED <<stackVars, backendVars, rqueue, c2s, told, missed, matched>>

AskPause ==
    /\ opened /\ Active /\ ~pausing
    /\ pausing' = TRUE /\ Signalled(<<"pause">>) /\ UNCHANGED Active

\* Devices that were not paused are taken away by force.
Deactivate ==
    /\ Active /\ Active' = FALSE /\ pausing' = FALSE
    /\ \E m \in Notices(FALSE), s \in {<<>>, <<"force">>} :
          Signalled(Append(s, m))

Activate ==
    /\ ~Active /\ Active' = TRUE /\ UNCHANGED pausing
    /\ \E m \in Notices(TRUE) : Signalled(<<m>>)

-----------------------------------------------------------------------------

\* What the library does by itself.
Library ==
    \/ OpenStep \/ OpenFails \/ SetType \/ Opened \/ Closed \/ DeviceReturns
    \/ HandleOther \/ handle_pause_device \/ PauseDeviceComplete
    \/ CompleteReturns \/ handle_properties_changed \/ HandleInvalidated
    \/ InvalidatedReturns \/ Finish \/ Wait \/ (s2c # <<>> /\ PollReturns)

\* A call while pings are under way may add one more.
Calls == Underway({"ping", "pong"}) < MaxPings /\ Device

Change == AskPause \/ Deactivate \/ Activate

Next ==
    \/ Library \/ PollReturns \/ Open \/ Close \/ Calls \/ Dispatch \/ Return
    \/ Serve \/ Change

Spec == Init /\ [][Next]_vars

\* The application polls the descriptor of libseat_get_fd, and dispatches
\* when there is something to read or when it has just opened the seat.
Attend == (s2c # <<>> \/ initial_setup) /\ Dispatch

\* The library, logind's answers and the callbacks make progress, and the
\* application attends to its descriptor.
FairSpec ==
    /\ Spec /\ WF_vars(Library) /\ WF_vars(Serve)
    /\ SF_vars(Return) /\ SF_vars(Attend)

-----------------------------------------------------------------------------
(* Properties *)

\* Once no news of the session is under way, the application believes what
\* is true: however signals, pauses and replies crossed, the last callback
\* was for the session's present state.
BeliefFollows ==
    Idle /\ ~initial_setup /\ Underway(Signals) = 0 /\ ~pausing /\ ~missed =>
        told = Callback(Active)

\* An application that waits for its descriptor while signals are queued is
\* woken up: an answer to a ping is there or will come.
EventsWake ==
    Idle /\ rqueue # <<>> => s2c # <<>> \/ Contains(c2s, "ping")

\* logind is told that the pause is complete only when the application has
\* been told to let its devices go.
CompleteAfterDisable == Contains(c2s, "complete") => told = "disable"

\* An application is told of the state that the session settles in, if it
\* does not make calls for ever and never waits.
StateTold ==
    \A b \in BOOLEAN :
        /\ <>[](opened /\ Active = b /\ ~pausing /\ ~missed)
        /\ <>[][~(loop = "none" /\ Device)]_vars
        => <>[](told = Callback(b))

\* Pings do not keep each other going: when the session does not change and
\* the application makes no calls, the connection falls silent.
Silence ==
    /\ <>[]opened /\ <>[][~Change]_vars /\ <>[][~Device]_vars
    => <>[](c2s = <<>> /\ s2c = <<>>)

=============================================================================
