------------------------------- MODULE Poller -------------------------------
(***************************************************************************)
(* seatd's event loop.  One thread runs poller_poll over and over; its     *)
(* callbacks, and the code between two polls, add, update and destroy      *)
(* event sources.  Signals interrupt the thread between any two steps.     *)
(*                                                                         *)
(* Sources are removed from the two lists by regenerate only, at the start *)
(* of a poll, and inserted at the head.  So an iteration of dispatch keeps *)
(* its place if it is counted from the end of the list, as `todo' does.    *)
(***************************************************************************)
EXTENDS Integers, Sequences, FiniteSets, SequencesExt

CONSTANTS
    Source,      \* memory for struct event_source_fd, reused once freed
    SigSource,   \* memory for struct event_source_signal
    NoSource,    \* in pollfds: the pipe of the signal handler
    Signal,
    Mask         \* the masks a source may have: sets of events

Event == UNION Mask

ASSUME PollerAssumption == NoSource \notin Source /\ Mask # {}

VARIABLES
    pc,          \* where the thread is
    todo,        \* in dispatch: sources from the current one to the last
    fds,         \* poller->fds
    source,      \* the struct event_source_fd of the sources that are listed
    signals,     \* poller->signals
    sigsource,   \* the struct event_source_signal
    pollfds,
    fd_event_sources,
    dirty,
    pipe,        \* signal_fds: there are bytes to read
    handlers,    \* signals whose handler is signal_handler
    ready,       \* kernel: events that hold on the descriptor of a source
    due          \* history: signal sources that owe a callback to a signal

fdVars == <<fds, source, fd_event_sources>>
signalVars == <<signals, sigsource, handlers>>
vars == <<pc, todo, fdVars, signalVars, dirty, pollfds, pipe, ready, due>>

FdSource == [mask : Mask, killed : BOOLEAN, pollfd_idx : Int]
SignalSource == [signal : Signal, raised : BOOLEAN, killed : BOOLEAN]

\* An entry of pollfds; src says whose descriptor it holds.
PollFd == [src : Source \cup {NoSource}, events : SUBSET Event,
           revents : SUBSET Event]

\* Memory e is allocated and holds v; the sources `gone' are freed.
Allocated(f, e, v) == [d \in DOMAIN f \cup {e} |-> IF d = e THEN v ELSE f[d]]
Freed(f, gone) == [d \in DOMAIN f \ gone |-> f[d]]

\* poller_init.
Init ==
    /\ pc = "out"
    /\ todo = 0
    /\ fds = <<>> /\ source = <<>>
    /\ signals = <<>> /\ sigsource = <<>>
    /\ pollfds = <<>>
    /\ fd_event_sources = 1
    /\ dirty = TRUE
    /\ pipe = FALSE
    /\ handlers = {}
    /\ ready = [s \in Source |-> {}]
    /\ due = {}

-----------------------------------------------------------------------------
(* Operations, called from callbacks or between two polls *)

Calling == pc \in {"out", "signal_func", "fd_func"}

\* Mutant: pollfd_idx is left as calloc made it.
NewSource_Zero(mask) == [mask |-> mask, killed |-> FALSE, pollfd_idx |-> 0]

NewSource(mask) == [mask |-> mask, killed |-> FALSE, pollfd_idx |-> -1]

poller_add_fd(s, mask) ==
    /\ Calling
    /\ s \notin DOMAIN source
    /\ source' = Allocated(source, s, NewSource(mask))
    /\ fds' = <<s>> \o fds
    /\ fd_event_sources' = fd_event_sources + 1
    /\ dirty' = TRUE
    /\ UNCHANGED <<pc, todo, signalVars, pollfds, pipe, ready, due>>

\* Mutant: the source is counted until it is freed.
CountedOut_Late == fd_event_sources

CountedOut == fd_event_sources - 1

\* The caller closes the descriptor along with the source.
event_source_fd_destroy(s) ==
    /\ Calling
    /\ s \in DOMAIN source /\ ~source[s].killed
    /\ source' = [source EXCEPT ![s].killed = TRUE]
    /\ fd_event_sources' = CountedOut
    /\ dirty' = TRUE
    /\ ready' = [ready EXCEPT ![s] = {}]
    /\ UNCHANGED <<pc, todo, fds, signalVars, pollfds, pipe, due>>

\* Mutant: only the source changes.
MaskUpdated_Clean == dirty

MaskUpdated == TRUE

event_source_fd_update(s, mask) ==
    /\ Calling
    /\ s \in DOMAIN source /\ ~source[s].killed
    /\ source' = [source EXCEPT ![s].mask = mask]
    /\ dirty' = MaskUpdated
    /\ UNCHANGED <<pc, todo, fds, fd_event_sources, signalVars, pollfds, pipe,
                   ready, due>>

poller_add_signal(x, sig) ==
    /\ Calling
    /\ x \notin DOMAIN sigsource
    /\ sigsource' = Allocated(sigsource, x,
            [signal |-> sig, raised |-> FALSE, killed |-> FALSE])
    /\ signals' = <<x>> \o signals
    /\ handlers' = handlers \cup {sig}
    /\ UNCHANGED <<pc, todo, fdVars, dirty, pollfds, pipe, ready, due>>

\* The source that is destroyed is one of those that are counted, so the
\* handler of its signal stays.
event_source_signal_destroy(x) ==
    LET same == {y \in DOMAIN sigsource : /\ sigsource[y].signal = sigsource[x].signal
                                          /\ ~sigsource[y].killed}
    IN  /\ Calling
        /\ x \in DOMAIN sigsource /\ ~sigsource[x].killed
        /\ handlers' = IF same = {} THEN handlers \ {sigsource[x].signal}
                                    ELSE handlers
        /\ sigsource' = [sigsource EXCEPT ![x].killed = TRUE]
        /\ dirty' = TRUE
        /\ due' = due \ {x}
        /\ UNCHANGED <<pc, todo, fdVars, signals, pollfds, pipe, ready>>

-----------------------------------------------------------------------------
(* poller_poll *)

\* Mutant: killed sources are freed, but left in the list.
Alive_All(f, list) == list

Alive(f, list) == SelectSeq(list, LAMBDA e : ~f[e].killed)
Killed(f) == {e \in DOMAIN f : f[e].killed}

\* regenerate: killed sources are freed, and every other source gets the entry
\* of pollfds that has its place in the list.  Entry 0 is the pipe.  Entries
\* that are no longer needed stay behind the others.
regenerate ==
    LET alive == Alive(source, fds)
        size == IF fd_event_sources > Cardinality(DOMAIN pollfds)
                THEN fd_event_sources ELSE Cardinality(DOMAIN pollfds)
        index(s) == CHOOSE i \in DOMAIN alive : alive[i] = s
    IN  /\ fds' = alive
        /\ source' = [s \in DOMAIN source \ Killed(source) |->
                        [source[s] EXCEPT !.pollfd_idx = index(s)]]
        /\ pollfds' = [i \in 0 .. size - 1 |->
                IF i = 0
                THEN [src |-> NoSource, events |-> {}, revents |-> {}]
                ELSE IF i <= Len(alive)
                THEN [src |-> alive[i], events |-> source[alive[i]].mask,
                      revents |-> {}]
                ELSE pollfds[i]]
        /\ signals' = Alive(sigsource, signals)
        /\ sigsource' = Freed(sigsource, Killed(sigsource))

\* The thread enters poll(), with the list of descriptors brought up to date.
Poll ==
    /\ pc = "out"
    /\ pc' = "poll"
    /\ \/ dirty /\ regenerate
       \/ ~dirty /\ UNCHANGED <<fds, source, pollfds, signals, sigsource>>
    /\ dirty' = FALSE
    /\ UNCHANGED <<todo, fd_event_sources, handlers, pipe, ready, due>>

\* The events poll() reports on entry i.
Reported(i) == IF i = 0 THEN {} ELSE ready[pollfds[i].src] \cap pollfds[i].events

\* poll() returns when an event holds on one of its entries; EINTR only means
\* that it is called again.  With a byte in the pipe, the signals come first.
PollReturns ==
    /\ pc = "poll"
    /\ pipe \/ \E i \in 0 .. fd_event_sources - 1 : Reported(i) # {}
    /\ pollfds' = [i \in DOMAIN pollfds |->
            IF i < fd_event_sources THEN [pollfds[i] EXCEPT !.revents = Reported(i)]
            ELSE pollfds[i]]
    /\ \/ pipe /\ pc' = "drain" /\ UNCHANGED todo
       \/ ~pipe /\ pc' = "fds" /\ todo' = Len(fds)
    /\ UNCHANGED <<fdVars, signalVars, dirty, pipe, ready, due>>

\* dispatch empties the pipe before it looks at the signals.
Drain ==
    /\ pc = "drain"
    /\ pipe' = FALSE
    /\ pc' = "signals"
    /\ todo' = Len(signals)
    /\ UNCHANGED <<fdVars, signalVars, dirty, pollfds, ready, due>>

\* The element that the iteration of dispatch over list has reached.
Current(list) == list[Len(list) - todo + 1]

DispatchSignal ==
    LET x == Current(signals)
        calls == sigsource[x].raised /\ ~sigsource[x].killed
    IN  /\ pc = "signals"
        /\ \/ todo = 0 /\ pc' = "fds" /\ todo' = Len(fds) /\ UNCHANGED due
           \/ /\ todo > 0 /\ calls
              /\ pc' = "signal_func" /\ due' = due \ {x} /\ UNCHANGED todo
           \/ /\ todo > 0 /\ ~calls
              /\ todo' = todo - 1 /\ UNCHANGED <<pc, due>>
        /\ UNCHANGED <<fdVars, signalVars, dirty, pollfds, pipe, ready>>

\* The callback of a signal returns, and only then is `raised' reset.
SignalReturns ==
    /\ pc = "signal_func"
    /\ sigsource' = [sigsource EXCEPT ![Current(signals)].raised = FALSE]
    /\ pc' = "signals"
    /\ todo' = todo - 1
    /\ UNCHANGED <<fdVars, signals, handlers, dirty, pollfds, pipe, ready, due>>

DispatchFd ==
    LET s == Current(fds)
        idx == source[s].pollfd_idx
        calls == idx # -1 /\ ~source[s].killed /\ pollfds[idx].revents # {}
    IN  /\ pc = "fds"
        /\ \/ todo = 0 /\ pc' = "out" /\ UNCHANGED todo
           \/ todo > 0 /\ calls /\ pc' = "fd_func" /\ UNCHANGED todo
           \/ todo > 0 /\ ~calls /\ todo' = todo - 1 /\ UNCHANGED pc
        /\ UNCHANGED <<fdVars, signalVars, dirty, pollfds, pipe, ready, due>>

\* Mutant: one descriptor is served per poll.
FdReturns_One ==
    /\ pc = "fd_func"
    /\ \E left \in {{}, ready[Current(fds)]} :
          ready' = [ready EXCEPT ![Current(fds)] = left]
    /\ pc' = "out"
    /\ todo' = 0
    /\ UNCHANGED <<fdVars, signalVars, dirty, pollfds, pipe, due>>

\* The callback of a descriptor returns; it may have dealt with the events.
FdReturns ==
    /\ pc = "fd_func"
    /\ \E left \in {{}, ready[Current(fds)]} :
          ready' = [ready EXCEPT ![Current(fds)] = left]
    /\ pc' = "fds"
    /\ todo' = todo - 1
    /\ UNCHANGED <<fdVars, signalVars, dirty, pollfds, pipe, due>>

\* poller_finish frees all sources and resets the handlers of those in the list.
poller_finish ==
    /\ pc = "out"
    /\ pc' = "done"
    /\ fds' = <<>> /\ source' = <<>> /\ signals' = <<>> /\ sigsource' = <<>>
    /\ handlers' = handlers \ {sigsource[x].signal : x \in DOMAIN sigsource}
    /\ pollfds' = <<>>
    /\ due' = {}
    /\ UNCHANGED <<todo, fd_event_sources, dirty, pipe, ready>>

-----------------------------------------------------------------------------
(* Signals and descriptors *)

\* Mutant: the pipe is written only while the thread sleeps.
Written_Asleep == pipe \/ pc = "poll"

Written == TRUE

\* signal_handler interrupts the thread.
signal_handler(sig) ==
    /\ pc # "done"
    /\ sig \in handlers
    /\ sigsource' = [x \in DOMAIN sigsource |->
            IF sigsource[x].signal = sig THEN [sigsource[x] EXCEPT !.raised = TRUE]
                                         ELSE sigsource[x]]
    /\ pipe' = Written
    /\ due' = due \cup {x \in DOMAIN sigsource : /\ sigsource[x].signal = sig
                                                 /\ ~sigsource[x].killed}
    /\ UNCHANGED <<pc, todo, fdVars, signals, handlers, dirty, pollfds, ready>>

\* An event begins to hold on the descriptor of a source.
Readied(s, e) ==
    /\ pc # "done"
    /\ s \in DOMAIN source /\ ~source[s].killed /\ e \notin ready[s]
    /\ ready' = [ready EXCEPT ![s] = @ \cup {e}]
    /\ UNCHANGED <<pc, todo, fdVars, signalVars, dirty, pollfds, pipe, due>>

Step ==
    \/ Poll \/ PollReturns \/ Drain
    \/ DispatchSignal \/ SignalReturns
    \/ DispatchFd \/ FdReturns

Operation ==
    \/ \E s \in Source, mask \in Mask : \/ poller_add_fd(s, mask)
                                        \/ event_source_fd_update(s, mask)
    \/ \E s \in Source : event_source_fd_destroy(s)
    \/ \E x \in SigSource, sig \in Signal : poller_add_signal(x, sig)
    \/ \E x \in SigSource : event_source_signal_destroy(x)

Next ==
    \/ Step
    \/ Operation
    \/ poller_finish
    \/ \E sig \in Signal : signal_handler(sig)
    \/ \E s \in Source, e \in Event : Readied(s, e)

Spec == Init /\ [][Next]_vars

\* main calls poller_poll as long as it runs, and callbacks return.
FairSpec == Spec /\ WF_vars(Step)

-----------------------------------------------------------------------------
(* Properties *)

\* Every variable keeps its type, and a source is in a list exactly as long as
\* its memory is allocated.
TypeOK ==
    /\ pc \in {"out", "poll", "drain", "signals", "signal_func", "fds", "fd_func",
               "done"}
    /\ DOMAIN source \subseteq Source /\ DOMAIN sigsource \subseteq SigSource
    /\ \A s \in DOMAIN source : source[s] \in FdSource
    /\ \A x \in DOMAIN sigsource : sigsource[x] \in SignalSource
    /\ ToSet(fds) = DOMAIN source /\ IsInjective(fds)
    /\ ToSet(signals) = DOMAIN sigsource /\ IsInjective(signals)
    /\ todo \in 0 .. (IF pc \in {"signals", "signal_func"} THEN Len(signals)
                      ELSE IF pc \in {"fds", "fd_func"} THEN Len(fds) ELSE 0)
    /\ \A i \in DOMAIN pollfds : i \in Nat /\ pollfds[i] \in PollFd
    /\ fd_event_sources \in Nat
    /\ dirty \in BOOLEAN /\ pipe \in BOOLEAN
    /\ handlers \subseteq Signal
    /\ ready \in [Source -> SUBSET Event]
    /\ due \subseteq DOMAIN sigsource

\* What regenerate asserts (idx == fd_event_sources): the counter is the number
\* of live sources and the pipe, however they are added and destroyed.
CountMatches ==
    pc # "done" =>
        fd_event_sources = 1 + Cardinality(DOMAIN source \ Killed(source))

\* dispatch reads the result of a source from the entry of that very source, in
\* range, although sources are added and destroyed between poll() and dispatch.
IndexMatches ==
    \A s \in DOMAIN source :
        LET idx == source[s].pollfd_idx IN
        idx # -1 => idx \in DOMAIN pollfds /\ pollfds[idx].src = s

\* poll() waits for all live sources, with the masks they have now, and for
\* nothing else: changes are "effective on the next poll".
PollsCurrent ==
    pc = "poll" =>
        /\ Killed(source) = {}
        /\ \A s \in DOMAIN source : \E i \in 1 .. fd_event_sources - 1 :
              pollfds[i].src = s /\ pollfds[i].events = source[s].mask
        /\ \A i \in 1 .. fd_event_sources - 1 : pollfds[i].src \in DOMAIN source

\* The thread does not go to sleep on a signal: when it enters poll(), or waits
\* there, and a signal is raised, the pipe has a byte.
NoLostWakeup ==
    pc \in {"out", "poll"} =>
        \A x \in DOMAIN sigsource : sigsource[x].raised /\ ~sigsource[x].killed => pipe

\* A source on which an event holds gets its callback, unless it is destroyed,
\* its mask changes or the event is gone, whatever other sources do.
FdServed ==
    \A s \in Source :
        (s \in DOMAIN source /\ ~source[s].killed /\ ready[s] \cap source[s].mask # {})
        ~> \/ pc = "fd_func" /\ Current(fds) = s
           \/ pc = "done" \/ s \notin DOMAIN source
           \/ source[s].killed \/ ready[s] \cap source[s].mask = {}

(* What comments say, and the code does not keep *)

\* seat_vt_release "is called when a VT release signal is received": a callback
\* begins after every signal.
SignalHandled == \A x \in SigSource : x \in due ~> x \notin due

=============================================================================
