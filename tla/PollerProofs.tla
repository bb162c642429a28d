---------------------------- MODULE PollerProofs ----------------------------
(***************************************************************************)
(* The count of event sources, for every set of sources, masks and signals:*)
(* what regenerate asserts before it uses the array of descriptors.        *)
(***************************************************************************)
EXTENDS Poller, FiniteSetTheorems, TLAPS

\* The sources that take part in the next poll.
Live == DOMAIN source \ Killed(source)

\* The struct of every listed source, as far as the count needs it.
Structs ==
    /\ source = [s \in DOMAIN source |-> source[s]]
    /\ \A s \in DOMAIN source :
          /\ source[s] = [mask |-> source[s].mask, killed |-> source[s].killed,
                          pollfd_idx |-> source[s].pollfd_idx]
          /\ source[s].killed \in BOOLEAN

\* The inductive invariant.
CountInv ==
    /\ Structs
    /\ IsFiniteSet(Live)
    /\ fd_event_sources \in Int
    /\ CountMatches

\* It holds after poller_init, which counts the pipe.
LEMMA CountInit == Init => CountInv
<1> SUFFICES ASSUME Init PROVE CountInv
  OBVIOUS
<1>1. DOMAIN source = {} /\ Live = {}
  BY DEF Init, Live, Killed
<1>2. Structs
  BY <1>1 DEF Init, Structs
<1> QED
  BY <1>1, <1>2, FS_EmptySet DEF Init, CountInv, CountMatches, Live

\* A new source is live, and counted.
LEMMA CountAdded ==
  ASSUME CountInv, NEW s \in Source, NEW mask \in Mask, poller_add_fd(s, mask)
  PROVE  CountInv'
<1> USE DEF poller_add_fd, Allocated, NewSource
<1>1. Structs'
  BY Zenon DEF CountInv, Structs
<1>2. Live' = Live \cup {s} /\ s \notin Live
  BY DEF CountInv, Structs, Live, Killed
<1>3. IsFiniteSet(Live') /\ Cardinality(Live') = Cardinality(Live) + 1
  BY <1>2, FS_AddElement DEF CountInv
<1>4. Cardinality(Live) \in Nat
  BY FS_CardinalityType DEF CountInv
<1> QED
  BY <1>1, <1>3, <1>4 DEF CountInv, CountMatches, Live, Calling

\* A destroyed source is no longer live, and no longer counted; its memory
\* stays until regenerate.
LEMMA CountDestroyed ==
  ASSUME CountInv, NEW s \in Source, event_source_fd_destroy(s)
  PROVE  CountInv'
<1> USE DEF event_source_fd_destroy, CountedOut
<1>1. Structs'
  BY Zenon DEF CountInv, Structs
<1>2. Live' = Live \ {s} /\ s \in Live
  BY DEF CountInv, Structs, Live, Killed
<1>3. IsFiniteSet(Live') /\ Cardinality(Live') = Cardinality(Live) - 1
  BY <1>2, FS_RemoveElement DEF CountInv
<1>4. Cardinality(Live) \in Nat
  BY FS_CardinalityType DEF CountInv
<1> QED
  BY <1>1, <1>3, <1>4 DEF CountInv, CountMatches, Live, Calling

\* A new mask changes neither.
LEMMA CountUpdated ==
  ASSUME CountInv, NEW s \in Source, NEW mask \in Mask,
         event_source_fd_update(s, mask)
  PROVE  CountInv'
<1> USE DEF event_source_fd_update
<1>1. Structs'
  <2>1. DOMAIN source' = DOMAIN source
    BY DEF CountInv, Structs
  <2>2. source' = [t \in DOMAIN source' |-> source'[t]]
    BY Zenon DEF CountInv, Structs
  <2>3. source'[s] = [mask |-> mask, killed |-> source[s].killed,
                      pollfd_idx |-> source[s].pollfd_idx]
    BY DEF CountInv, Structs
  <2>4. ASSUME NEW t \in DOMAIN source, t # s PROVE source'[t] = source[t]
    BY <2>4 DEF CountInv, Structs
  <2> QED
    BY <2>1, <2>2, <2>3, <2>4 DEF CountInv, Structs
<1>2. Live' = Live
  BY DEF CountInv, Structs, Live, Killed
<1> QED
  BY <1>1, <1>2, Zenon DEF CountInv, CountMatches, Live

\* regenerate frees exactly the sources that are not live.
LEMMA CountPolled ==
  ASSUME CountInv, Poll
  PROVE  CountInv'
<1>1. CASE dirty
  <2>1. PICK index : source' = [s \in DOMAIN source \ Killed(source) |->
                                  [source[s] EXCEPT !.pollfd_idx = index[s]]]
    <3> DEFINE alive == Alive(source, fds)
               place(s) == CHOOSE i \in DOMAIN alive : alive[i] = s
               index == [s \in DOMAIN source \ Killed(source) |-> place(s)]
    <3>1. source' = [s \in DOMAIN source \ Killed(source) |->
                        [source[s] EXCEPT !.pollfd_idx = place(s)]]
      BY <1>1, Zenon DEF Poll, regenerate
    <3> HIDE DEF place
    <3>2. source' = [s \in DOMAIN source \ Killed(source) |->
                        [source[s] EXCEPT !.pollfd_idx = index[s]]]
      BY <3>1
    <3> HIDE DEF index
    <3> QED
      BY <3>2, Zenon
  <2>2. Structs'
    BY <2>1 DEF CountInv, Structs
  <2>3. Live' = Live
    BY <2>1 DEF CountInv, Structs, Live, Killed
  <2> QED
    BY <2>2, <2>3 DEF CountInv, CountMatches, Live, Poll
<1>2. CASE ~dirty
  BY <1>2 DEF Poll, CountInv, CountMatches, Structs, Live, Killed
<1> QED
  BY <1>1, <1>2

\* Nothing else touches the sources or the count.
LEMMA CountKept ==
  ASSUME CountInv,
         UNCHANGED <<source, fd_event_sources>>, pc' = "done" \/ pc # "done"
  PROVE  CountInv'
BY DEF CountInv, CountMatches, Structs, Live, Killed

\* Every step of the thread and of the world keeps the invariant.
LEMMA CountNext == CountInv /\ [Next]_vars => CountInv'
<1> SUFFICES ASSUME CountInv, [Next]_vars PROVE CountInv'
  OBVIOUS
<1> DEFINE Same == UNCHANGED <<source, fd_event_sources>>
                   /\ (pc' = "done" \/ pc # "done")
<1>1. ASSUME NEW s \in Source, NEW mask \in Mask,
             poller_add_fd(s, mask) \/ event_source_fd_update(s, mask)
      PROVE  CountInv'
  BY <1>1, CountAdded, CountUpdated
<1>2. ASSUME NEW s \in Source, event_source_fd_destroy(s) PROVE CountInv'
  BY <1>2, CountDestroyed
<1>3. CASE Poll
  BY <1>3, CountPolled
<1>4. CASE PollReturns \/ Drain \/ DispatchSignal \/ SignalReturns
           \/ DispatchFd \/ FdReturns
  <2>1. Same
    BY <1>4 DEF PollReturns, Drain, DispatchSignal, SignalReturns, DispatchFd,
      FdReturns, fdVars
  <2> QED
    BY <2>1, CountKept
<1>5. CASE \E x \in SigSource, sig \in Signal : poller_add_signal(x, sig)
  <2>1. Same
    BY <1>5 DEF poller_add_signal, Calling, fdVars
  <2> QED
    BY <2>1, CountKept
<1>6. CASE \E x \in SigSource : event_source_signal_destroy(x)
  <2>1. Same
    BY <1>6 DEF event_source_signal_destroy, Calling, fdVars
  <2> QED
    BY <2>1, CountKept
<1>7. CASE \/ \E sig \in Signal : signal_handler(sig)
           \/ \E s \in Source, e \in Event : Readied(s, e)
  <2>1. Same
    BY <1>7 DEF signal_handler, Readied, fdVars
  <2> QED
    BY <2>1, CountKept
<1>8. CASE poller_finish
  <2>1. Structs' /\ Live' = {}
    BY <1>8 DEF poller_finish, Structs, Live, Killed
  <2> QED
    BY <1>8, <2>1, FS_EmptySet DEF poller_finish, CountInv, CountMatches
<1>9. CASE UNCHANGED vars
  BY <1>9 DEF vars, fdVars, CountInv, CountMatches, Structs, Live, Killed
<1> QED
  BY <1>1, <1>2, <1>3, <1>4, <1>5, <1>6, <1>7, <1>8, <1>9, SMTT(30)
    DEF Next, Step, Operation

\* The assertion of regenerate, idx == fd_event_sources, cannot fail, however
\* many sources are added and destroyed between two polls and inside callbacks.
THEOREM CountMatchesHolds == Spec => []CountMatches
<1>1. CountInv => CountMatches
  BY DEF CountInv
<1> QED
  BY <1>1, CountInit, CountNext, PTL DEF Spec

=============================================================================
