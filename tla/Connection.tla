----------------------------- MODULE Connection -----------------------------
(***************************************************************************)
(* One direction of the connection between seatd and a client: the sender  *)
(* puts messages and descriptors into ring buffers and flushes these into  *)
(* a UNIX stream socket, the receiver reads the socket into ring buffers   *)
(* of its own.  The two processes interleave between any two system calls. *)
(*                                                                         *)
(* The sender is seatd, which answers ("reply") or sends ENABLE and        *)
(* DISABLE ("event"), or libseat ("request"); they differ in what they do  *)
(* when the socket is full.                                                *)
(***************************************************************************)
EXTENDS Integers, Sequences, SequencesExt

CONSTANTS
    Size,      \* CONNECTION_BUFFER_SIZE
    MaxFds,    \* MAX_FDS
    Laps,      \* 2^32 / CONNECTION_BUFFER_SIZE: when the counters wrap around
    Room,      \* bytes that the socket holds
    Kinds,     \* of messages that the sender sends
    Lengths,   \* of the messages
    Carrying,  \* whether a reply may carry a descriptor
    Numbers    \* bytes are numbered modulo this

ASSUME ConnectionAssumption ==
    /\ Size \in Nat \ {0} /\ MaxFds \in Nat \ {0} /\ Laps \in Nat \ {0, 1}
    /\ Room \in Nat \ {0}
    /\ Kinds \subseteq {"reply", "event", "request"}
    /\ Lengths \subseteq Nat \ {0}
    /\ Carrying \in SUBSET BOOLEAN
    /\ Numbers \in Nat /\ Numbers > 2 * Size + Room

VARIABLES
    call,        \* what the sender is doing: "idle", or a kind, or "writable"
    flushing,    \* in connection_flush
    job,         \* message that connection_put puts once it has flushed
    out, fds_out, want_flush,      \* the sender's struct connection
    interest,    \* the sender polls for EVENT_WRITABLE
    socket,      \* what was sent and not received, one record per sendmsg
    in, fds_in,                    \* the receiver's struct connection
    got,         \* the bytes connection_get returned last
    open,
    sent         \* number of the next byte

senderVars == <<call, flushing, job, out, fds_out, want_flush, interest, sent>>
receiverVars == <<in, fds_in, got>>
vars == <<senderVars, receiverVars, socket, open>>

Byte == 0 .. Numbers - 1
Numbered(n) == [i \in 1 .. n |-> (sent + i - 1) % Numbers]

-----------------------------------------------------------------------------
(* struct connection_buffer: head and tail count without end, modulo 2^32. *)
(* A buffer of descriptors is counted in descriptors, not in bytes.        *)

Buffer(slots) == [head : 0 .. Laps * slots - 1, tail : 0 .. Laps * slots - 1,
                  data : [0 .. slots - 1 -> Byte]]
EmptyBuffer(slots) == [head |-> 0, tail |-> 0, data |-> [i \in 0 .. slots - 1 |-> 0]]

Slots(b) == Cardinality(DOMAIN b.data)
connection_buffer_mask(b, idx) == idx % Slots(b)
Counted(b, idx) == idx % (Laps * Slots(b))

connection_buffer_size(b) == Counted(b, b.head - b.tail)
connection_buffer_consume(b, n) == [b EXCEPT !.tail = Counted(b, @ + n)]
connection_buffer_restore(b, n) == [b EXCEPT !.tail = Counted(b, @ - n)]

\* The slots of an I/O vector that starts at `from'.
Piece(from, n) == [i \in 1 .. n |-> from + i - 1]

connection_buffer_get_iov(b) ==
    LET head == connection_buffer_mask(b, b.head)
        tail == connection_buffer_mask(b, b.tail)
    IN  IF tail < head THEN Piece(tail, head - tail)
        ELSE Piece(tail, Slots(b) - tail) \o Piece(0, head)

connection_buffer_put_iov(b) ==
    LET head == connection_buffer_mask(b, b.head)
        tail == connection_buffer_mask(b, b.tail)
    IN  IF head < tail THEN Piece(head, tail - head)
        ELSE Piece(head, Slots(b) - head) \o Piece(0, tail)

\* memcpy from and to the linear memory of the buffer.
Loaded(b, slots) == [i \in DOMAIN slots |-> b.data[slots[i]]]
Stored(b, slots, s) ==
    [b EXCEPT !.data = [k \in DOMAIN b.data |->
        IF \E i \in DOMAIN s : slots[i] = k
        THEN s[CHOOSE i \in DOMAIN s : slots[i] = k] ELSE b.data[k]]]

connection_buffer_copy(b, n) ==
    LET tail == connection_buffer_mask(b, b.tail)
        size == Slots(b) - tail
    IN  IF tail + n <= Slots(b) THEN Loaded(b, Piece(tail, n))
        ELSE Loaded(b, Piece(tail, size)) \o Loaded(b, Piece(0, n - size))

\* Mutant: the part that wraps around is copied from the start of the message.
connection_buffer_put_Again(b, s) ==
    LET head == connection_buffer_mask(b, b.head)
        size == Slots(b) - head
        b2 == IF head + Len(s) <= Slots(b) THEN Stored(b, Piece(head, Len(s)), s)
              ELSE Stored(Stored(b, Piece(head, size), SubSeq(s, 1, size)),
                          Piece(0, Len(s) - size), SubSeq(s, 1, Len(s) - size))
    IN  [b2 EXCEPT !.head = Counted(b, @ + Len(s))]

connection_buffer_put(b, s) ==
    LET head == connection_buffer_mask(b, b.head)
        size == Slots(b) - head
        b2 == IF head + Len(s) <= Slots(b) THEN Stored(b, Piece(head, Len(s)), s)
              ELSE Stored(Stored(b, Piece(head, size), SubSeq(s, 1, size)),
                          Piece(0, Len(s) - size), SubSeq(s, size + 1, Len(s)))
    IN  [b2 EXCEPT !.head = Counted(b, @ + Len(s))]

\* connection_buffer_close_fds: the descriptors are closed and consumed.
connection_buffer_close_fds(b) ==
    connection_buffer_consume(b, connection_buffer_size(b))

\* What a buffer holds, in order.
Contents(b) ==
    [i \in 1 .. connection_buffer_size(b) |-> b.data[(b.tail + i - 1) % Slots(b)]]

Init ==
    /\ call = "idle" /\ flushing = FALSE /\ job = <<>>
    /\ out = EmptyBuffer(Size) /\ fds_out = EmptyBuffer(MaxFds)
    /\ want_flush = FALSE /\ interest = FALSE
    /\ socket = <<>>
    /\ in = EmptyBuffer(Size) /\ fds_in = EmptyBuffer(MaxFds)
    /\ got = <<>>
    /\ open = TRUE
    /\ sent = 0

-----------------------------------------------------------------------------
(* The sender *)

\* The sender closes its end: what it has not flushed is lost.
Closed ==
    /\ open' = FALSE
    /\ call' = "idle" /\ flushing' = FALSE /\ job' = <<>>
    /\ out' = connection_buffer_consume(out, connection_buffer_size(out))
    /\ fds_out' = connection_buffer_close_fds(fds_out)
    /\ want_flush' = FALSE /\ interest' = FALSE
    /\ UNCHANGED <<sent, receiverVars, socket>>

\* Mutant: the message itself is not counted.
NoSpace_Uncounted(s) == connection_buffer_size(out) > Size

NoSpace(s) == connection_buffer_size(out) + Len(s) > Size

\* connection_put of message s; f is fds_out as connection_put_fd has left it.
\* What does not fit has to wait until the buffer is flushed.
connection_put(s, f) ==
    /\ want_flush' = TRUE
    /\ fds_out' = f
    /\ flushing' = TRUE
    /\ IF NoSpace(s)
       THEN job' = s /\ UNCHANGED <<out, sent>>
       ELSE /\ out' = connection_buffer_put(out, s)
            /\ sent' = (sent + Len(s)) % Numbers
            /\ UNCHANGED job

\* A message of n bytes, preceded by a descriptor if `fd'.
Message(kind, n, fd) ==
    /\ open /\ call = "idle"
    /\ fd => kind = "reply"
    /\ IF fd /\ connection_buffer_size(fds_out) >= MaxFds
       THEN Closed
       ELSE /\ call' = kind
            /\ connection_put(Numbered(n),
                  IF fd THEN connection_buffer_put(fds_out, <<sent>>) ELSE fds_out)
            /\ UNCHANGED <<interest, receiverVars, socket, open>>

InSocket == FoldLeft(LAMBDA n, chunk : n + Len(chunk.bytes), 0, socket)

\* EVENT_WRITABLE: what is left is flushed.
Writable ==
    /\ open /\ call = "idle"
    /\ interest /\ InSocket < Room
    /\ call' = "writable" /\ flushing' = TRUE
    /\ UNCHANGED <<job, out, fds_out, want_flush, interest, sent, receiverVars,
                   socket, open>>

\* Mutant: descriptors go along with the end of what is flushed.
Attached_Last(n) ==
    IF n = connection_buffer_size(out)
    THEN connection_buffer_copy(fds_out, connection_buffer_size(fds_out)) ELSE <<>>

\* build_cmsg: all descriptors go along with the first bytes that are sent.
Attached(n) == connection_buffer_copy(fds_out, connection_buffer_size(fds_out))

\* One sendmsg of connection_flush: the kernel takes n bytes.
FlushSend(n) ==
    LET iov == connection_buffer_get_iov(out)
    IN  /\ flushing
        /\ want_flush /\ connection_buffer_size(out) > 0
        /\ n <= Len(iov) /\ n <= Room - InSocket
        /\ socket' = Append(socket, [bytes |-> Loaded(out, SubSeq(iov, 1, n)),
                                     fds |-> Attached(n)])
        /\ fds_out' = IF Attached(n) = <<>> THEN fds_out
                      ELSE connection_buffer_close_fds(fds_out)
        /\ out' = connection_buffer_consume(out, n)
        /\ UNCHANGED <<call, flushing, job, want_flush, interest, sent,
                       receiverVars, open>>

\* connection_flush has sent everything.  connection_put goes on with its
\* message, or fails if it is longer than the buffer; else the call is over.
FlushDone ==
    /\ flushing
    /\ connection_buffer_size(out) = 0
    /\ \/ /\ job # <<>> /\ Len(job) <= Size
          /\ out' = connection_buffer_put(out, job)
          /\ sent' = (sent + Len(job)) % Numbers
          /\ job' = <<>>
          /\ want_flush' = TRUE
          /\ UNCHANGED <<call, flushing, fds_out, interest, receiverVars, socket,
                         open>>
       \/ /\ job # <<>> /\ Len(job) > Size
          /\ Closed
       \/ /\ job = <<>>
          /\ want_flush' = FALSE
          /\ call' = "idle" /\ flushing' = FALSE
          /\ interest' = (interest /\ call # "writable")
          /\ UNCHANGED <<job, out, fds_out, sent, receiverVars, socket, open>>

\* client_flush asks for EVENT_WRITABLE; client_send_enable_seat and
\* client_send_disable_seat do not.
Interested == interest \/ call = "reply"

\* sendmsg returns EAGAIN.  A request that cannot be sent at once is an error,
\* and so is an answer that cannot even be put; an event is dropped.
FlushFull ==
    /\ flushing
    /\ connection_buffer_size(out) > 0
    /\ InSocket = Room
    /\ IF call = "request" \/ (call = "reply" /\ job # <<>>)
       THEN Closed
       ELSE /\ call' = "idle" /\ flushing' = FALSE /\ job' = <<>>
            /\ interest' = Interested
            /\ UNCHANGED <<out, fds_out, want_flush, sent, receiverVars, socket,
                           open>>

\* The sender closes the connection for another reason.
Close == open /\ call = "idle" /\ Closed

-----------------------------------------------------------------------------
(* The receiver *)

\* decode_cmsg: all descriptors of a message fit, or they are closed.
FdsFit(fds) == connection_buffer_size(fds_in) + Len(fds) <= MaxFds

\* connection_read: recvmsg returns n bytes of what one sendmsg sent, and the
\* descriptors with the first of them.  If these do not fit, the receiver
\* gives the connection up.
connection_read(n) ==
    LET chunk == Head(socket)
        iov == connection_buffer_put_iov(in)
        rest == SubSeq(chunk.bytes, n + 1, Len(chunk.bytes))
    IN  /\ socket # <<>>
        /\ connection_buffer_size(in) < Size
        /\ n <= Len(iov) /\ n <= Len(chunk.bytes)
        /\ IF FdsFit(chunk.fds)
           THEN /\ fds_in' = connection_buffer_put(fds_in, chunk.fds)
                /\ in' = [Stored(in, iov, SubSeq(chunk.bytes, 1, n)) EXCEPT
                            !.head = Counted(in, @ + n)]
                /\ socket' = IF rest = <<>> THEN Tail(socket)
                             ELSE <<[bytes |-> rest, fds |-> <<>>]>> \o Tail(socket)
                /\ got' = <<>>
                /\ UNCHANGED <<senderVars, open>>
           ELSE /\ open' = FALSE
                /\ fds_in' = connection_buffer_close_fds(fds_in)
                /\ in' = connection_buffer_consume(in, connection_buffer_size(in))
                /\ socket' = <<>>
                /\ got' = <<>>
                /\ call' = "idle" /\ flushing' = FALSE /\ job' = <<>>
                /\ out' = connection_buffer_consume(out, connection_buffer_size(out))
                /\ fds_out' = connection_buffer_close_fds(fds_out)
                /\ want_flush' = FALSE /\ interest' = FALSE
                /\ UNCHANGED sent

connection_get(n) ==
    /\ n <= connection_buffer_size(in)
    /\ got' = connection_buffer_copy(in, n)
    /\ in' = connection_buffer_consume(in, n)
    /\ UNCHANGED <<senderVars, fds_in, socket, open>>

\* The header of a message that is not complete is given back.
connection_restore ==
    /\ got # <<>>
    /\ in' = connection_buffer_restore(in, Len(got))
    /\ got' = <<>>
    /\ UNCHANGED <<senderVars, fds_in, socket, open>>

connection_get_fd ==
    /\ connection_buffer_size(fds_in) > 0
    /\ fds_in' = connection_buffer_consume(fds_in, 1)
    /\ UNCHANGED <<senderVars, in, got, socket, open>>

Flush == (\E n \in 1 .. Size : FlushSend(n)) \/ FlushDone \/ FlushFull
Read == \E n \in 1 .. Size : connection_read(n)
Get == \E n \in 1 .. Size : connection_get(n)

Next ==
    \/ \E kind \in Kinds, n \in Lengths, fd \in Carrying : Message(kind, n, fd)
    \/ Writable
    \/ Flush
    \/ Close
    \/ Read
    \/ Get
    \/ connection_restore
    \/ connection_get_fd

Spec == Init /\ [][Next]_vars

-----------------------------------------------------------------------------
(* Properties *)

SocketBytes == FlattenSeq([i \in DOMAIN socket |-> socket[i].bytes])
SocketFds == FlattenSeq([i \in DOMAIN socket |-> socket[i].fds])

\* Every variable keeps its type, and no buffer holds more than its size.
TypeOK ==
    /\ call \in {"idle", "reply", "event", "request", "writable"}
    /\ flushing \in BOOLEAN /\ job \in Seq(Byte)
    /\ out \in Buffer(Size) /\ connection_buffer_size(out) <= Size
    /\ fds_out \in Buffer(MaxFds) /\ connection_buffer_size(fds_out) <= MaxFds
    /\ in \in Buffer(Size) /\ connection_buffer_size(in) <= Size
    /\ fds_in \in Buffer(MaxFds) /\ connection_buffer_size(fds_in) <= MaxFds
    /\ want_flush \in BOOLEAN /\ interest \in BOOLEAN
    /\ \A i \in DOMAIN socket : socket[i].bytes \in Seq(Byte) \ {<<>>}
    /\ InSocket <= Room
    /\ got \in Seq(Byte)
    /\ open \in BOOLEAN
    /\ sent \in Byte

Abstract == INSTANCE Stream WITH
    stream <- Contents(in) \o SocketBytes \o Contents(out),
    fds <- Contents(fds_in) \o SocketFds \o Contents(fds_out)

\* The connection is a stream: through two ring buffers, split sends and reads
\* and counters that wrap around, what connection_get and connection_get_fd
\* return is what was put, in order, each once.
IsStream == Abstract!StreamSpec

\* A descriptor arrives no later than the message it belongs to: where the
\* receiver has the first byte of the message, connection_get_fd finds it.
FdsFirst ==
    \A b \in ToSet(Contents(in)) : b \notin ToSet(SocketFds \o Contents(fds_out))

=============================================================================
