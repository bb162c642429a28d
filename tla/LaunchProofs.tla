---------------------------- MODULE LaunchProofs ----------------------------
(* Theorems about Launch, for every set of launchers. *)
EXTENDS Launch, TLAPS

-----------------------------------------------------------------------------

\* It holds at first: nothing runs.
LEMMA InitIInv == Init => IInv
  BY LaunchAssumption, Zenon
  DEF Init, IInv, TypeOK, Owns, Bound, Alive, Asked, Handed

\* Every step of seatd, from execve to its exit, keeps the invariant.
LEMMA SeatdStep ==
  ASSUME IInv, NEW l \in Launcher, Seatd(l)
  PROVE  IInv'
<1> USE LaunchAssumption DEF IInv, TypeOK, Bound, Alive, Move, Advance, fileVars
<1>1. CASE Check(l)
  <2>1. TypeOK'
    BY <1>1 DEF Check, Refuses
  <2>2. Owns'
    BY <1>1 DEF Check, Refuses, Owns
  <2>3. Asked'
    BY <1>1 DEF Check, Refuses, Asked
  <2>4. Handed'
    BY <1>1 DEF Check, Refuses, Owns, Asked, Handed
  <2> QED
    BY <2>1, <2>2, <2>3, <2>4
<1>2. CASE server_init(l)
  <2>1. TypeOK'
    BY <1>2 DEF server_init
  <2>2. Owns'
    BY <1>2 DEF server_init, Owns
  <2>3. Asked'
    BY <1>2 DEF server_init, Asked
  <2>4. Handed'
    BY <1>2 DEF server_init, Owns, Asked, Handed
  <2> QED
    BY <2>1, <2>2, <2>3, <2>4
<1>3. CASE BindFails(l)
  <2>1. TypeOK'
    BY <1>3 DEF BindFails
  <2>2. Owns'
    BY <1>3 DEF BindFails, Owns
  <2>3. Asked'
    BY <1>3 DEF BindFails, Asked
  <2>4. Handed'
    BY <1>3 DEF BindFails, Owns, Asked, Handed
  <2> QED
    BY <2>1, <2>2, <2>3, <2>4
<1>4. CASE bind(l)
  <2>1. TypeOK'
    BY <1>4, Zenon DEF bind
  <2>2. Owns'
    BY <1>4 DEF bind, Owns
  <2>3. Asked'
    BY <1>4 DEF bind, Asked
  <2>4. Handed'
    BY <1>4 DEF bind, Owns, Asked, Handed
  <2> QED
    BY <2>1, <2>2, <2>3, <2>4
<1>5. CASE listen(l)
  <2>1. TypeOK'
    BY <1>5 DEF listen
  <2>2. Owns'
    BY <1>5 DEF listen, Owns
  <2>3. Asked'
    BY <1>5 DEF listen, Asked
  <2>4. Handed'
    BY <1>5 DEF listen, Owns, Asked, Handed
  <2> QED
    BY <2>1, <2>2, <2>3, <2>4
<1>6. CASE Notify(l)
  <2>1. TypeOK'
    BY <1>6, Zenon DEF Notify
  <2>2. Owns'
    BY <1>6 DEF Notify, Owns
  <2>3. Asked'
    BY <1>6 DEF Notify, Asked
  <2>4. Handed'
    BY <1>6 DEF Notify, Owns, Asked, Handed
  <2> QED
    BY <2>1, <2>2, <2>3, <2>4
<1>7. CASE Stop(l)
  <2>1. TypeOK'
    BY <1>7 DEF Stop
  <2>2. Owns'
    BY <1>7 DEF Stop, Owns
  <2>3. Asked'
    BY <1>7 DEF Stop, Asked
  <2>4. Handed'
    BY <1>7 DEF Stop, Owns, Asked, Handed
  <2> QED
    BY <2>1, <2>2, <2>3, <2>4
<1>8. CASE Unlink(l)
  <2>1. TypeOK'
    BY <1>8 DEF Unlink
  <2>2. Owns'
    BY <1>8 DEF Unlink, Owns
  <2>3. Asked'
    BY <1>8 DEF Unlink, Asked
  <2>4. Handed'
    BY <1>8 DEF Unlink, Owns, Asked, Handed
  <2> QED
    BY <2>1, <2>2, <2>3, <2>4
<1> QED
  BY <1>1, <1>2, <1>3, <1>4, <1>5, <1>6, <1>7, <1>8 DEF Seatd

\* So does every step of seatd-launch: what it hands over is its own file.
LEMMA LauncherStep ==
  ASSUME IInv, NEW l \in Launcher, SeatdLaunch(l)
  PROVE  IInv'
<1> USE LaunchAssumption DEF IInv, TypeOK, Bound, Alive, Move, Advance, fileVars
<1>1. CASE WaitExited(l)
  <2>1. TypeOK'
    BY <1>1 DEF WaitExited, GiveUp, kill
  <2>2. Owns'
    BY <1>1 DEF WaitExited, GiveUp, kill, Owns
  <2>3. Asked'
    BY <1>1 DEF WaitExited, GiveUp, kill, Asked
  <2>4. Handed'
    BY <1>1 DEF WaitExited, GiveUp, kill, Owns, Asked, Handed
  <2> QED
    BY <2>1, <2>2, <2>3, <2>4
<1>2. CASE Ready(l)
  <2>1. TypeOK'
    BY <1>2 DEF Ready
  <2>2. Owns'
    BY <1>2 DEF Ready, Owns
  <2>3. Asked'
    BY <1>2 DEF Ready, Asked
  <2>4. Handed'
    BY <1>2 DEF Ready, Owns, Asked, Handed
  <2> QED
    BY <2>1, <2>2, <2>3, <2>4
<1>3. CASE chown(l)
  <2>1. TypeOK'
    BY <1>3, Zenon DEF chown, GiveUp, kill
  <2>2. Owns'
    BY <1>3 DEF chown, GiveUp, kill, Owns
  <2>3. Asked'
    BY <1>3 DEF chown, GiveUp, kill, Asked
  <2>4. Handed'
    BY <1>3 DEF chown, GiveUp, kill, Owns, Asked, Handed
  <2> QED
    BY <2>1, <2>2, <2>3, <2>4
<1>4. CASE chmod(l)
  <2>1. TypeOK'
    BY <1>4, Zenon DEF chmod, GiveUp, kill
  <2>2. Owns'
    BY <1>4 DEF chmod, GiveUp, kill, Owns
  <2>3. Asked'
    BY <1>4 DEF chmod, GiveUp, kill, Asked
  <2>4. Handed'
    BY <1>4 DEF chmod, GiveUp, kill, Owns, Asked, Handed
  <2> QED
    BY <2>1, <2>2, <2>3, <2>4
<1>5. CASE Fork(l)
  <2>1. TypeOK'
    BY <1>5, Zenon DEF Fork, GiveUp, kill
  <2>2. Owns'
    BY <1>5 DEF Fork, GiveUp, kill, Owns
  <2>3. Asked'
    BY <1>5 DEF Fork, GiveUp, kill, Asked
  <2>4. Handed'
    BY <1>5 DEF Fork, GiveUp, kill, Owns, Asked, Handed
  <2> QED
    BY <2>1, <2>2, <2>3, <2>4
<1>6. CASE Watched(l)
  <2>1. TypeOK'
    BY <1>6 DEF Watched, GiveUp, kill
  <2>2. Owns'
    BY <1>6 DEF Watched, GiveUp, kill, Owns
  <2>3. Asked'
    BY <1>6 DEF Watched, GiveUp, kill, Asked
  <2>4. Handed'
    BY <1>6 DEF Watched, GiveUp, kill, Owns, Asked, Handed
  <2> QED
    BY <2>1, <2>2, <2>3, <2>4
<1> QED
  BY <1>1, <1>2, <1>3, <1>4, <1>5, <1>6 DEF SeatdLaunch

\* So do new runs, failures, the end of a target and interrupts.
LEMMA OtherStep ==
  ASSUME IInv, NEW l \in Launcher,
         Run(l) \/ Fail(l) \/ WaitFails(l) \/ TargetExits(l) \/ Interrupt(l)
  PROVE  IInv'
<1> USE LaunchAssumption DEF IInv, TypeOK, Bound, Alive, Move, Advance, fileVars
<1>1. CASE Run(l)
  <2>1. TypeOK'
    BY <1>1 DEF Run
  <2>2. Owns'
    BY <1>1 DEF Run, Owns
  <2>3. Asked'
    BY <1>1 DEF Run, Asked
  <2>4. Handed'
    BY <1>1 DEF Run, Owns, Asked, Handed
  <2> QED
    BY <2>1, <2>2, <2>3, <2>4
<1>2. CASE Fail(l)
  <2>1. TypeOK'
    BY <1>2 DEF Fail
  <2>2. Owns'
    BY <1>2 DEF Fail, Owns
  <2>3. Asked'
    BY <1>2 DEF Fail, Asked
  <2>4. Handed'
    BY <1>2 DEF Fail, Owns, Asked, Handed
  <2> QED
    BY <2>1, <2>2, <2>3, <2>4
<1>3. CASE WaitFails(l)
  <2>1. TypeOK'
    BY <1>3, Zenon DEF WaitFails, GiveUp, kill
  <2>2. Owns'
    BY <1>3 DEF WaitFails, GiveUp, kill, Owns
  <2>3. Asked'
    BY <1>3 DEF WaitFails, GiveUp, kill, Asked
  <2>4. Handed'
    BY <1>3 DEF WaitFails, GiveUp, kill, Owns, Asked, Handed
  <2> QED
    BY <2>1, <2>2, <2>3, <2>4
<1>4. CASE TargetExits(l)
  <2>1. TypeOK'
    BY <1>4 DEF TargetExits
  <2>2. Owns'
    BY <1>4 DEF TargetExits, Owns
  <2>3. Asked'
    BY <1>4 DEF TargetExits, Asked
  <2>4. Handed'
    BY <1>4 DEF TargetExits, Owns, Asked, Handed
  <2> QED
    BY <2>1, <2>2, <2>3, <2>4
<1>5. CASE Interrupt(l)
  <2>1. TypeOK'
    BY <1>5 DEF Interrupt, kill
  <2>2. Owns'
    BY <1>5 DEF Interrupt, kill, Owns
  <2>3. Asked'
    BY <1>5 DEF Interrupt, kill, Asked
  <2>4. Handed'
    BY <1>5 DEF Interrupt, kill, Owns, Asked, Handed
  <2> QED
    BY <2>1, <2>2, <2>3, <2>4
<1> QED
  BY <1>1, <1>2, <1>3, <1>4, <1>5

-----------------------------------------------------------------------------

\* The invariant is inductive.
THEOREM LaunchInvariance == Spec => []IInv
<1>1. IInv /\ [Next]_vars => IInv'
  <2> SUFFICES ASSUME IInv, [Next]_vars PROVE IInv'
    OBVIOUS
  <2>1. CASE Next
    BY <2>1, SeatdStep, LauncherStep, OtherStep DEF Next
  <2>2. CASE UNCHANGED vars
    BY <2>2 DEF vars, fileVars, IInv, TypeOK, Owns, Bound, Alive, Asked, Handed
  <2> QED
    BY <2>1, <2>2
<1> QED
  BY <1>1, InitIInv, PTL DEF Spec

\* A seatd that serves is the one at the path, however many instances were
\* started beside it.
THEOREM ServesOwnPathHolds == Spec => []ServesOwnPath
<1>1. IInv => ServesOwnPath
  BY DEF IInv, Owns, Bound, ServesOwnPath
<1> QED
  BY <1>1, LaunchInvariance, PTL

\* The target of every launcher has its own seatd's socket to itself.
THEOREM TargetServedHolds == Spec => []TargetServed
<1>1. IInv => TargetServed
  BY DEF IInv, Owns, Bound, Handed, TargetServed
<1> QED
  BY <1>1, LaunchInvariance, PTL

\* No instance removes a file that it did not make: it removes the path only
\* after it has bound it, and until then nobody else can have bound it.
THEOREM OwnUnlinkHolds == Spec => OwnUnlink
<1> DEFINE Kept ==
      /\ \A l \in Launcher : file = l /\ file' # l => seatd[l] = "unlink"
      /\ file = Foreign => file' = Foreign
<1>1. ASSUME IInv, NEW k \in Launcher, Seatd(k) PROVE Kept
  <2> USE LaunchAssumption DEF Move, fileVars
  <2>1. CASE Check(k)
    BY <2>1 DEF Check, Refuses
  <2>2. CASE bind(k)
    BY <2>2 DEF bind
  <2>3. CASE Unlink(k)
    BY <1>1, <2>3 DEF Unlink, IInv, Owns, Bound
  <2>4. CASE \/ server_init(k) \/ BindFails(k) \/ listen(k) \/ Notify(k)
             \/ Stop(k)
    BY <2>4 DEF server_init, BindFails, listen, Notify, Stop
  <2> QED
    BY <1>1, <2>1, <2>2, <2>3, <2>4 DEF Seatd
<1>2. ASSUME NEW k \in Launcher,
             \/ SeatdLaunch(k) \/ Run(k) \/ Fail(k) \/ WaitFails(k)
             \/ TargetExits(k) \/ Interrupt(k)
      PROVE  UNCHANGED file
  BY <1>2 DEF SeatdLaunch, WaitExited, Ready, chown, chmod, Fork, Watched,
    GiveUp, Run, Fail, WaitFails, TargetExits, Interrupt, fileVars
<1>3. IInv /\ [Next]_vars => [Kept]_vars
  BY <1>1, <1>2 DEF Next
<1> QED
  BY <1>3, LaunchInvariance, PTL DEF Spec, OwnUnlink

=============================================================================
