------------------------------- MODULE Stream -------------------------------
(***************************************************************************)
(* What one direction of a connection promises: the bytes that were put    *)
(* are got in order, each once, unless the connection breaks; so are the   *)
(* file descriptors.  Bytes are numbered as they are put, modulo Numbers,  *)
(* so that a lost, repeated or misplaced byte shows.  A descriptor bears   *)
(* the number of the byte that it is sent ahead of.                        *)
(***************************************************************************)
EXTENDS Integers, Sequences, SequencesExt

CONSTANT Numbers

VARIABLES
    sent,     \* the number of the next byte
    stream,   \* bytes put and not got
    fds,      \* descriptors put and not got
    got,      \* the bytes got last, as long as they can be given back
    open

streamVars == <<sent, stream, fds, got, open>>

Numbered(from, n) == [i \in 1 .. n |-> (from + i - 1) % Numbers]

StreamInit ==
    /\ sent = 0
    /\ stream = <<>>
    /\ fds = <<>>
    /\ got = <<>>
    /\ open = TRUE

\* As many bytes are put as the numbers have grown by.
Put == stream' = stream \o Numbered(sent, (sent' - sent) % Numbers)

Send ==
    /\ open /\ sent' # sent
    /\ UNCHANGED <<got, open>> /\ Put /\ UNCHANGED fds

SendFd ==
    /\ open
    /\ UNCHANGED <<sent, got, open>>
    /\ fds' = Append(fds, sent) /\ UNCHANGED stream

\* A message that has a descriptor and needs no flush is put in one step.
SendBoth ==
    /\ open /\ sent' # sent
    /\ UNCHANGED <<got, open>> /\ Put /\ fds' = Append(fds, sent)

Receive ==
    /\ got' # <<>>
    /\ UNCHANGED <<sent, open>>
    /\ stream = got' \o stream' /\ UNCHANGED fds

\* Bytes got can be given back until more are read.
Unreceive ==
    /\ got # <<>> /\ got' = <<>>
    /\ UNCHANGED <<sent, open>>
    /\ stream' = got \o stream /\ UNCHANGED fds

Forget ==
    /\ got # <<>> /\ got' = <<>>
    /\ UNCHANGED <<sent, open>> /\ UNCHANGED <<stream, fds>>

ReceiveFd ==
    /\ UNCHANGED <<sent, got, open>>
    /\ fds # <<>> /\ fds' = Tail(fds)
    /\ UNCHANGED stream

\* The connection breaks: what was put last may be lost.
Break ==
    /\ ~open'
    /\ got' \in {got, <<>>}
    /\ UNCHANGED sent
    /\ IsPrefix(stream', stream) /\ IsPrefix(fds', fds)

StreamNext ==
    \/ Send \/ SendFd \/ SendBoth
    \/ Receive
    \/ Unreceive
    \/ Forget
    \/ ReceiveFd
    \/ Break

StreamSpec == StreamInit /\ [][StreamNext]_streamVars

=============================================================================
