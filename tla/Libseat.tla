------------------------------ MODULE Libseat -------------------------------
(***************************************************************************)
(* libseat on top of seatd: an application in one process, seatd's handler *)
(* of that application's client in another, and the connection between     *)
(* them as two queues of whole messages (module Connection shows that it   *)
(* delivers bytes in order).                                               *)
(*                                                                         *)
(* Library calls are synchronous: while a call waits for its answer, the   *)
(* events it reads are put aside, and their callbacks run in the next      *)
(* dispatch.  Callbacks make calls of their own.  seatd sends ENABLE and   *)
(* DISABLE whenever other clients or the VTs make it.                      *)
(*                                                                         *)
(* The application keeps the contract of libseat.h: it acknowledges a      *)
(* disable, with libseat_disable_seat, only after it was told, and it      *)
(* neither closes nor dispatches the seat in a callback.                   *)
(***************************************************************************)
EXTENDS Integers, Sequences, SequencesExt

CONSTANT
    Backends     \* impls without noop and logind: the order they are tried in

ASSUME LibseatAssumption ==
    Backends \in Seq({"seatd", "builtin"}) /\ Backends # <<>>

VARIABLES
    impl,            \* the backend of the open seat, or "none"
    trying,          \* libseat_open_seat: backends to try, this one included
    call,            \* the request that waits for its answer, or "none"
    loop,            \* the function that runs execute_events: "open", "pre"
                     \* and "post" (dispatch before and after it reads),
                     \* "close"; or "poll" (dispatch waits); or "none"
    list,            \* the local list of execute_events
    callback,        \* the event whose callback runs, or "none"
    pending,         \* backend->pending_events
    awaiting_pong,
    error,
    inbuf,           \* backend->connection.in
    initial,         \* dispatch has not been called since the seat was opened
    c2s, s2c,        \* the two directions of the socket
    up,              \* seatd listens
    conn,            \* where seatd has the client: "none", "idle" or "seat"
    state,           \* client->state in seatd
    told,            \* the callback the application had last, or "none"
    balance,         \* enable callbacks minus disable callbacks
    owes             \* the application has still to acknowledge a disable

backendVars == <<pending, awaiting_pong, error, inbuf>>
stackVars == <<call, loop, list, callback>>
appVars == <<told, balance, owes>>
serverVars == <<up, conn, state>>
vars == <<impl, trying, stackVars, backendVars, initial, c2s, s2c, serverVars,
          appVars>>

\* The answer that each request waits for.
AnswerTo == [
    OPEN_SEAT |-> "SEAT_OPENED",
    CLOSE_SEAT |-> "SEAT_CLOSED",
    OPEN_DEVICE |-> "DEVICE_OPENED",
    CLOSE_DEVICE |-> "DEVICE_CLOSED",
    SWITCH_SESSION |-> "SESSION_SWITCHED",
    DISABLE_SEAT |-> "SEAT_DISABLED"]
Request == DOMAIN AnswerTo
Response == {AnswerTo[op] : op \in Request} \cup {"ERROR"}
Event == {"ENABLE", "DISABLE"}

Init ==
    /\ impl = "none" /\ trying = <<>>
    /\ call = "none" /\ loop = "none" /\ list = <<>> /\ callback = "none"
    /\ pending = <<>> /\ awaiting_pong = FALSE /\ error = FALSE /\ inbuf = <<>>
    /\ initial = FALSE
    /\ c2s = <<>> /\ s2c = <<>>
    /\ up \in BOOLEAN /\ conn = "none" /\ state = "CLOSED"
    /\ told = "none" /\ balance = 0 /\ owes = FALSE

-----------------------------------------------------------------------------
(* Reading messages *)

\* Events that have been read are put at the head of pending_events.
queue_event(q, m) == <<m>> \o q

\* read_and_queue goes through buf up to the first response, if there is one.
ResponseIn(buf) == SelectInSeq(buf, LAMBDA m : m \in Response)
Background(buf) ==
    IF ResponseIn(buf) = 0 THEN buf ELSE SubSeq(buf, 1, ResponseIn(buf) - 1)
Unread(buf) ==
    IF ResponseIn(buf) = 0 THEN <<>> ELSE SubSeq(buf, ResponseIn(buf), Len(buf))

\* Mutant: a call that waits for its answer skips the events it reads.
Queued_Skipped(buf) == pending

\* pending_events after read_and_queue has gone through buf.
Queued(buf) ==
    FoldLeft(queue_event, pending,
             SelectSeq(Background(buf), LAMBDA m : m \in Event))

\* Mutant: nothing resets awaiting_pong.
Awaiting_Stays(buf) == awaiting_pong

\* awaiting_pong after that.
Awaiting(buf) == awaiting_pong /\ ~Contains(Background(buf), "PONG")

\* What a read of the socket may return: recvmsg stops where the buffer is
\* full, or at a message that carries a descriptor.
Reads == {SubSeq(s2c, 1, n) : n \in 1 .. Len(s2c)}
Unreceived(got) == SubSeq(s2c, Len(got) + 1, Len(s2c))

\* set_error: the socket is shut down, and the queued events are dropped.
set_error == error' = TRUE /\ pending' = <<>>

\* destroy: the structure is freed and the socket closed.
destroy ==
    /\ impl' = "none" /\ call' = "none" /\ loop' = "none" /\ list' = <<>>
    /\ pending' = <<>> /\ awaiting_pong' = FALSE /\ error' = FALSE
    /\ inbuf' = <<>> /\ s2c' = <<>> /\ initial' = FALSE
    /\ told' = "none" /\ balance' = 0 /\ owes' = FALSE

-----------------------------------------------------------------------------
(* Opening a seat *)

\* LIBSEAT_BACKEND names one backend, or they are tried in order.
Orders == {Backends} \cup {<<b>> : b \in {"noop", "seatd", "builtin"}}

libseat_open_seat(order) ==
    /\ impl = "none" /\ trying = <<>> /\ conn = "none"
    /\ trying' = order
    /\ UNCHANGED <<impl, stackVars, backendVars, initial, c2s, s2c, serverVars,
                   appVars>>

\* noop_open_seat.
OpenNoop ==
    /\ impl = "none" /\ trying # <<>> /\ Head(trying) = "noop"
    /\ impl' = "noop" /\ trying' = <<>> /\ initial' = TRUE
    /\ UNCHANGED <<stackVars, backendVars, c2s, s2c, serverVars, appVars>>

\* _open_seat sends its request and waits.
OpenSeat ==
    /\ impl' = Head(trying)
    /\ call' = "OPEN_SEAT"
    /\ c2s' = <<"OPEN_SEAT">>
    /\ conn' = "idle" /\ state' = "NEW"
    /\ UNCHANGED trying

\* A seatd that cannot be reached is skipped; the builtin server is forked.
seatd_connect ==
    /\ Head(trying) = "seatd"
    /\ IF up THEN OpenSeat
       ELSE trying' = Tail(trying) /\ UNCHANGED <<impl, call, c2s, conn, state>>
builtin_open_seat == Head(trying) = "builtin" /\ OpenSeat

Connect ==
    /\ impl = "none" /\ conn = "none" /\ trying # <<>>
    /\ seatd_connect \/ builtin_open_seat
    /\ UNCHANGED <<loop, list, callback, backendVars, initial, s2c, up, appVars>>

-----------------------------------------------------------------------------
(* Requests *)

\* The application runs, in a callback or outside of the library.
InControl ==
    /\ impl # "none" /\ call = "none"
    /\ loop = "none" \/ callback # "none"
Idle == InControl /\ loop = "none"

\* A request is put and flushed, and read_until_response goes through what has
\* been received before.  When seatd is gone, sendmsg fails.
Begin(op) ==
    /\ InControl /\ impl # "noop" /\ ~error
    /\ op = "DISABLE_SEAT" => owes
    /\ IF conn = "none"
       THEN set_error /\ UNCHANGED <<call, c2s, inbuf, awaiting_pong>>
       ELSE /\ call' = op
            /\ c2s' = Append(c2s, op)
            /\ inbuf' = Unread(inbuf)
            /\ pending' = Queued(inbuf)
            /\ awaiting_pong' = Awaiting(inbuf)
            /\ UNCHANGED error
    /\ UNCHANGED <<impl, trying, loop, list, callback, initial, s2c, serverVars,
                   appVars>>

\* close_seat.  With an error, only the events that are left are executed.
BeginClose ==
    /\ Idle /\ impl # "noop"
    /\ IF conn = "none" \/ error
       THEN /\ loop' = "close" /\ list' = IF error THEN pending ELSE <<>>
            /\ error' = TRUE /\ pending' = <<>>
            /\ UNCHANGED <<call, c2s, inbuf, awaiting_pong>>
       ELSE /\ call' = "CLOSE_SEAT"
            /\ c2s' = Append(c2s, "CLOSE_SEAT")
            /\ inbuf' = Unread(inbuf)
            /\ pending' = Queued(inbuf)
            /\ awaiting_pong' = Awaiting(inbuf)
            /\ UNCHANGED <<loop, list, error>>
    /\ UNCHANGED <<impl, trying, callback, initial, s2c, serverVars, appVars>>

CloseNoop ==
    /\ Idle /\ impl = "noop"
    /\ destroy
    /\ UNCHANGED <<trying, callback, c2s, serverVars>>

\* read_until_response: poll_connection, then read_and_queue.
Wait ==
    /\ call # "none" /\ inbuf = <<>> /\ conn # "none"
    /\ \E got \in Reads :
          /\ s2c' = Unreceived(got)
          /\ inbuf' = Unread(got)
          /\ pending' = Queued(got)
          /\ awaiting_pong' = Awaiting(got)
    /\ UNCHANGED <<impl, trying, stackVars, error, initial, c2s, serverVars,
                   appVars>>

\* poll_connection finds that seatd is gone: the call fails.  After a failed
\* _open_seat the next backend is tried.
WaitFails ==
    /\ call # "none" /\ inbuf = <<>> /\ conn = "none"
    /\ IF call = "OPEN_SEAT"
       THEN destroy /\ trying' = Tail(trying)
       ELSE /\ set_error
            /\ call' = "none"
            /\ loop' = IF call = "CLOSE_SEAT" THEN "close" ELSE loop
            /\ UNCHANGED <<impl, trying, list, inbuf, awaiting_pong, initial, s2c,
                           appVars>>
    /\ UNCHANGED <<callback, c2s, serverVars>>

\* Mutant: read_header accepts the answer only.
Refused_Error(r) == r # AnswerTo[call]

\* read_header: any other response than the answer or an error is refused.
Refused(r) == r \notin {AnswerTo[call], "ERROR"}

\* The seat is open: _open_seat executes the events that are queued, but what
\* follows the answer stays in the buffer.
Opened ==
    /\ call = "OPEN_SEAT" /\ inbuf # <<>>
    /\ IF Head(inbuf) = AnswerTo[call]
       THEN /\ call' = "none" /\ trying' = <<>> /\ initial' = TRUE
            /\ loop' = "open" /\ list' = pending /\ pending' = <<>>
            /\ inbuf' = Tail(inbuf)
            /\ UNCHANGED <<impl, awaiting_pong, error, s2c, appVars>>
       ELSE destroy /\ trying' = Tail(trying)
    /\ UNCHANGED <<callback, c2s, serverVars>>

\* The answer of close_seat: the events that are left are executed.
Closed ==
    /\ call = "CLOSE_SEAT" /\ inbuf # <<>>
    /\ call' = "none"
    /\ error' = (error \/ Refused(Head(inbuf)))
    /\ loop' = "close" /\ list' = IF Refused(Head(inbuf)) THEN <<>> ELSE pending
    /\ pending' = <<>>
    /\ inbuf' = Tail(inbuf)
    /\ UNCHANGED <<impl, trying, callback, awaiting_pong, initial, c2s, s2c,
                   serverVars, appVars>>

\* Mutant: no ping is sent when a call leaves events behind.
MustPing_Never(q, awaiting) == FALSE

\* Events have been put aside, and nothing may be left to read: the answer to
\* a ping wakes the application up.
MustPing(q, awaiting) == q # <<>> /\ ~awaiting

\* check_pending_events, with `rest' left in the buffer.
check_pending_events(rest) ==
    LET ping == MustPing(Queued(rest), Awaiting(rest))
    IN  /\ inbuf' = Unread(rest)
        /\ IF ResponseIn(rest) # 0 \/ (ping /\ conn = "none")
           THEN set_error /\ UNCHANGED <<awaiting_pong, c2s>>
           ELSE /\ pending' = Queued(rest)
                /\ awaiting_pong' = (ping \/ Awaiting(rest))
                /\ c2s' = IF ping THEN Append(c2s, "PING") ELSE c2s
                /\ UNCHANGED error

\* disable_seat has been answered.
Acknowledged == owes /\ call # "DISABLE_SEAT"

\* The answer of any other call.
Answered ==
    /\ call \notin {"none", "OPEN_SEAT", "CLOSE_SEAT"} /\ inbuf # <<>>
    /\ call' = "none"
    /\ IF Refused(Head(inbuf))
       THEN set_error /\ inbuf' = Tail(inbuf) /\ UNCHANGED <<awaiting_pong, c2s>>
       ELSE check_pending_events(Tail(inbuf))
    /\ owes' = Acknowledged
    /\ UNCHANGED <<impl, trying, loop, list, callback, initial, s2c, serverVars,
                   told, balance>>

-----------------------------------------------------------------------------
(* Dispatch and callbacks *)

\* dispatch: what has been received is queued, and the queue is executed.  It
\* will wait for more only if there was nothing, and the timeout is not 0.  An
\* application that owes an acknowledgement does not wait.
Dispatch(timeout) ==
    /\ Idle /\ impl # "noop" /\ ~error
    /\ timeout # 0 => ~owes
    /\ inbuf' = Unread(inbuf)
    /\ awaiting_pong' = Awaiting(inbuf)
    /\ initial' = FALSE
    /\ IF ResponseIn(inbuf) # 0
       THEN set_error /\ UNCHANGED <<loop, list>>
       ELSE /\ list' = Queued(inbuf) /\ pending' = <<>>
            /\ loop' = IF inbuf = <<>> /\ pending = <<>> /\ timeout # 0
                       THEN "poll" ELSE "pre"
            /\ UNCHANGED error
    /\ UNCHANGED <<impl, trying, call, callback, c2s, s2c, serverVars, appVars>>

\* dispatch_background of the noop backend: the seat is enabled once.
DispatchNoop ==
    /\ Idle /\ impl = "noop" /\ initial
    /\ initial' = FALSE
    /\ loop' = "post" /\ list' = <<"ENABLE">>
    /\ UNCHANGED <<impl, trying, call, callback, backendVars, c2s, s2c, serverVars,
                   appVars>>

\* execute_events takes the first event and runs its callback.
Execute ==
    /\ loop # "none" /\ callback = "none" /\ list # <<>>
    /\ callback' = Head(list) /\ list' = Tail(list)
    /\ told' = Head(list)
    /\ balance' = balance + IF Head(list) = "ENABLE" THEN 1 ELSE -1
    /\ owes' = (owes \/ Head(list) = "DISABLE")
    /\ UNCHANGED <<impl, trying, call, loop, backendVars, initial, c2s, s2c,
                   serverVars>>

Return ==
    /\ callback # "none" /\ call = "none"
    /\ callback' = "none"
    /\ UNCHANGED <<impl, trying, call, loop, list, backendVars, initial, c2s, s2c,
                   serverVars, appVars>>

Executed == list = <<>> /\ callback = "none"

\* The second half of dispatch, when `got' has been read.
PostDispatch(got) ==
    /\ s2c' = Unreceived(got)
    /\ inbuf' = Unread(inbuf \o got)
    /\ awaiting_pong' = Awaiting(inbuf \o got)
    /\ IF ResponseIn(inbuf \o got) # 0
       THEN set_error /\ loop' = "none" /\ UNCHANGED list
       ELSE /\ list' = Queued(inbuf \o got) /\ pending' = <<>>
            /\ loop' = "post"
            /\ UNCHANGED error

\* dispatch reads once, without waiting.  A read of 0 bytes ends it, without an
\* error; when there is nothing to read it goes on, with the events that calls
\* in callbacks have put aside.
ReadNow ==
    /\ loop = "pre" /\ Executed
    /\ \/ \E got \in Reads : PostDispatch(got)
       \/ s2c = <<>> /\ conn # "none" /\ ~error /\ PostDispatch(<<>>)
       \/ /\ s2c = <<>> /\ (conn = "none" \/ error)
          /\ loop' = "none"
          /\ UNCHANGED <<list, backendVars, s2c>>
    /\ UNCHANGED <<impl, trying, call, callback, initial, c2s, serverVars, appVars>>

\* dispatch waits.  A hang-up comes before what could still be read.
ReadWait ==
    /\ loop = "poll"
    /\ \/ conn # "none" /\ \E got \in Reads : PostDispatch(got)
       \/ /\ conn = "none"
          /\ set_error /\ loop' = "none"
          /\ UNCHANGED <<list, inbuf, awaiting_pong, s2c>>
    /\ UNCHANGED <<impl, trying, call, callback, initial, c2s, serverVars, appVars>>

\* The timeout passes, or a signal interrupts poll.
ReadTimeout ==
    /\ loop = "poll"
    /\ loop' = "none"
    /\ UNCHANGED <<impl, trying, call, list, callback, backendVars, initial, c2s,
                   s2c, serverVars, appVars>>

\* All callbacks have returned, and so does the function that ran them.
ExecuteReturns ==
    /\ loop \in {"open", "post", "close"} /\ Executed
    /\ IF loop = "close"
       THEN destroy
       ELSE /\ loop' = "none"
            /\ UNCHANGED <<impl, call, list, backendVars, initial, s2c, appVars>>
    /\ UNCHANGED <<trying, callback, c2s, serverVars>>

-----------------------------------------------------------------------------
(* seatd, as the client sees it *)

Send(msgs) == s2c' = s2c \o msgs

\* client_destroy.
Gone == conn' = "none" /\ state' = "CLOSED" /\ c2s' = <<>> /\ UNCHANGED s2c

\* The outcomes of a request: the new place and state of the client, and what
\* is sent.  seat_open_client and seat_set_next_session send their events ahead
\* of the answer, handle_open_seat after it.
Outcomes(op) ==
    LET answer == AnswerTo[op]
        same == [conn |-> conn, state |-> state, sent |-> <<answer>>]
        fails == [same EXCEPT !.sent = <<"ERROR">>]
    IN  CASE op = "OPEN_SEAT" ->
               {[conn |-> "seat", state |-> "NEW", sent |-> <<answer>>],
                [conn |-> "seat", state |-> "ACTIVE", sent |-> <<answer, "ENABLE">>]}
          [] op = "CLOSE_SEAT" -> {[same EXCEPT !.conn = "idle", !.state = "CLOSED"]}
          [] op = "OPEN_DEVICE" ->
               {fails} \cup (IF state = "ACTIVE" THEN {same} ELSE {})
          [] op = "CLOSE_DEVICE" -> {fails, same}
          [] op = "SWITCH_SESSION" ->
               {fails} \cup
               (IF state = "ACTIVE"
                THEN {same, [same EXCEPT !.state = "PENDING_DISABLE",
                                         !.sent = <<"DISABLE", answer>>]}
                ELSE {})
          [] op = "DISABLE_SEAT" ->
               IF state = "PENDING_DISABLE"
               THEN {[same EXCEPT !.state = "DISABLED"],
                     [same EXCEPT !.state = "ACTIVE", !.sent = <<"ENABLE", answer>>]}
               ELSE {fails}

\* client_handle_opcode.  A request without a seat, or a seat opened twice, is
\* the end of the client; so is a seat that cannot take the client.
HandleRequest ==
    /\ conn # "none" /\ c2s # <<>>
    /\ LET op == Head(c2s)
       IN  \/ /\ op = "PING"
              /\ Send(<<"PONG">>)
              /\ c2s' = Tail(c2s)
              /\ UNCHANGED <<conn, state>>
           \/ /\ op # "PING"
              /\ conn = IF op = "OPEN_SEAT" THEN "idle" ELSE "seat"
              /\ \E o \in Outcomes(op) :
                    conn' = o.conn /\ state' = o.state /\ Send(o.sent)
              /\ c2s' = Tail(c2s)
           \/ /\ op # "PING"
              /\ op = "OPEN_SEAT" \/ conn # "seat"
              /\ Gone
    /\ UNCHANGED <<impl, trying, stackVars, backendVars, initial, up, appVars>>

\* Mutant: a client that has the seat is enabled once more.
Enable_Again ==
    /\ conn = "seat" /\ state \in {"NEW", "DISABLED", "ACTIVE"}
    /\ state' = "ACTIVE" /\ Send(<<"ENABLE">>)
    /\ UNCHANGED <<impl, trying, stackVars, backendVars, initial, c2s, up, conn,
                   appVars>>

\* The client gets the seat: another client has left it, or the VT is acquired.
Enable ==
    /\ conn = "seat" /\ state \in {"NEW", "DISABLED"}
    /\ state' = "ACTIVE" /\ Send(<<"ENABLE">>)
    /\ UNCHANGED <<impl, trying, stackVars, backendVars, initial, c2s, up, conn,
                   appVars>>

\* The VT is to be released: the client is asked to disable.
AskDisable ==
    /\ conn = "seat" /\ state = "ACTIVE"
    /\ state' = "PENDING_DISABLE" /\ Send(<<"DISABLE">>)
    /\ UNCHANGED <<impl, trying, stackVars, backendVars, initial, c2s, up, conn,
                   appVars>>

\* The client has shut down or closed its end: client_handle_connection sees
\* the hang-up before any request.
HangUp ==
    /\ conn # "none"
    /\ impl = "none" \/ error
    /\ Gone
    /\ UNCHANGED <<impl, trying, stackVars, backendVars, initial, up, appVars>>

\* seatd drops the client, or stops; and starts again.
Drop ==
    /\ conn # "none"
    /\ Gone
    /\ up' \in {up, FALSE}
    /\ UNCHANGED <<impl, trying, stackVars, backendVars, initial, appVars>>

Start ==
    /\ ~up
    /\ up' = TRUE
    /\ UNCHANGED <<impl, trying, stackVars, backendVars, initial, c2s, s2c, conn,
                   state, appVars>>

-----------------------------------------------------------------------------
DeviceCall == \E op \in {"OPEN_DEVICE", "CLOSE_DEVICE", "SWITCH_SESSION"} : Begin(op)
Acknowledge == Begin("DISABLE_SEAT")

Library ==
    \/ OpenNoop \/ Connect
    \/ Wait \/ WaitFails \/ Opened \/ Closed \/ Answered
    \/ Execute \/ ReadNow \/ ReadWait \/ ExecuteReturns

Application ==
    \/ \E order \in Orders : libseat_open_seat(order)
    \/ DeviceCall \/ Acknowledge
    \/ BeginClose \/ CloseNoop
    \/ \E timeout \in {0, -1} : Dispatch(timeout)
    \/ DispatchNoop
    \/ Return

Seatd == HandleRequest \/ HangUp

Next ==
    \/ Library \/ Application \/ ReadTimeout
    \/ Seatd \/ Enable \/ AskDisable \/ Drop \/ Start

Spec == Init /\ [][Next]_vars

\* The descriptor of libseat_get_fd polls readable.
Readable == s2c # <<>> \/ conn = "none"

\* An application dispatches after it has opened the seat and whenever the
\* descriptor is readable.
Attend == (initial \/ Readable) /\ Dispatch(0)

(***************************************************************************)
(* The library and seatd do not stop.  The application attends to the      *)
(* descriptor, returns from callbacks and acknowledges, however many other *)
(* calls it makes.                                                         *)
(***************************************************************************)
FairSpec ==
    /\ Spec
    /\ WF_vars(Library) /\ WF_vars(Seatd)
    /\ SF_vars(Return) /\ SF_vars(Acknowledge) /\ SF_vars(Attend)

-----------------------------------------------------------------------------
(* Properties *)

\* Every variable keeps its type.
TypeOK ==
    /\ impl \in {"none", "seatd", "builtin", "noop"}
    /\ trying \in Seq({"seatd", "builtin", "noop"})
    /\ call \in Request \cup {"none"}
    /\ loop \in {"none", "open", "pre", "poll", "post", "close"}
    /\ list \in Seq(Event) /\ pending \in Seq(Event)
    /\ callback \in Event \cup {"none"}
    /\ awaiting_pong \in BOOLEAN /\ error \in BOOLEAN /\ initial \in BOOLEAN
    /\ inbuf \in Seq(Response \cup Event \cup {"PONG"})
    /\ s2c \in Seq(Response \cup Event \cup {"PONG"})
    /\ c2s \in Seq(Request \cup {"PING"})
    /\ up \in BOOLEAN /\ conn \in {"none", "idle", "seat"}
    /\ state \in {"NEW", "ACTIVE", "PENDING_DISABLE", "DISABLED", "CLOSED"}
    /\ told \in Event \cup {"none"} /\ balance \in -1 .. 1 /\ owes \in BOOLEAN

Count(q, m) == Len(SelectSeq(q, LAMBDA x : x = m))

\* Events that seatd has sent and no callback was run for.
Undelivered(m) == Count(list \o pending \o inbuf \o s2c, m)

\* The application has the seat open, over a connection that works.
Connected == impl \in {"seatd", "builtin"} /\ ~error /\ conn = "seat"

\* The library never gives up a connection that works: no answer is taken for
\* the answer of another call, and none is met where only events are expected.
NoProtocolError == error => conn = "none"

\* No event is lost or repeated: the callbacks that were run and those that
\* are due add up to what seatd has the client down for.
NoEventLost ==
    Connected =>
        balance + Undelivered("ENABLE") - Undelivered("DISABLE")
            = IF state = "ACTIVE" THEN 1 ELSE 0

\* When the application waits on the descriptor, and events have been put
\* aside, it will be woken up: there is something to read, or a ping is on its
\* way.  Only what came with the answer of open_seat stays unnoticed, until
\* the first dispatch.
EventsWake ==
    Idle /\ Connected =>
        /\ pending # <<>> => s2c # <<>> \/ Contains(c2s, "PING")
        /\ inbuf # <<>> => initial

\* Besides every variable keeping its type: seatd has never more than four
\* messages on their way to an application, and the application never more than
\* two to seatd.  Neither the socket nor the buffers of a connection fill up.
Bounded ==
    /\ TypeOK
    /\ Len(s2c) + Len(inbuf) <= 4 /\ Len(c2s) <= 2

\* A call that is made outside of callbacks.
OutsideCall == loop = "none" /\ DeviceCall

\* A client that is asked to disable acknowledges it, or is gone, if the
\* application goes back to waiting on its descriptor at some time.
DisableAcknowledged ==
    <>[][~OutsideCall]_vars
        => (state = "PENDING_DISABLE" ~> state # "PENDING_DISABLE")

(* What comments say, and the code does not keep *)

\* enable_seat: "The seat has been enabled, and is now valid for use": an
\* application that was told so last, and is not to be told otherwise, has it.
BelievesRight ==
    Connected /\ told = "ENABLE" /\ Undelivered("DISABLE") = 0
        => state = "ACTIVE"

=============================================================================
