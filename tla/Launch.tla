------------------------------- MODULE Launch -------------------------------
(***************************************************************************)
(* seatd-launch and the start and end of the seatd it runs.  Every         *)
(* launcher starts its own seatd, waits for a byte on a pipe, hands the    *)
(* socket file over to its user, runs the target and at last terminates    *)
(* its seatd.  All of them use the same socket path, so the instances meet *)
(* there: the module is about what they do to each other's file.           *)
(*                                                                         *)
(* seatd runs with -z, as seatd-launch runs it.  A signal that comes       *)
(* before server_init has installed the handlers kills it; afterwards it   *)
(* waits for the loop.  A write to the pipe of a launcher that is gone     *)
(* raises SIGPIPE, which seatd does not handle.                            *)
(***************************************************************************)
EXTENDS Naturals

CONSTANTS
    Launcher,       \* runs of seatd-launch, each of a user of its own
    Absent,         \* no file at the socket path
    Foreign,        \* a file that no instance of this module has made
    Root

ASSUME LaunchAssumption ==
    /\ Absent \notin Launcher /\ Foreign \notin Launcher /\ Absent # Foreign
    /\ Root \notin Launcher

VARIABLES
    launcher,       \* where seatd-launch is
    seatd,          \* where its seatd is
    term,           \* SIGTERM or SIGINT is pending in seatd
    notified,       \* the readiness byte has been written
    target,         \* "none", "running" or "exited"
    file,           \* whose socket is at the path: of an instance, or none
    owner, private, \* the file's user, and whether its mode is 0700
    failed          \* some seatd stopped without being asked to

fileVars == <<file, owner, private>>
vars == <<launcher, seatd, term, notified, target, fileVars, failed>>

Init ==
    /\ launcher = [l \in Launcher |-> "none"]
    /\ seatd = [l \in Launcher |-> "none"]
    /\ term = [l \in Launcher |-> FALSE]
    /\ notified = [l \in Launcher |-> FALSE]
    /\ target = [l \in Launcher |-> "none"]
    /\ file \in {Absent, Foreign} /\ owner = Root /\ private = FALSE
    /\ failed = FALSE

Move(l, from, to) == seatd[l] = from /\ seatd' = [seatd EXCEPT ![l] = to]
Advance(l, from, to) ==
    launcher[l] = from /\ launcher' = [launcher EXCEPT ![l] = to]

\* A signal to seatd: it is fatal until the handlers are installed.
kill(l) ==
    /\ seatd' = IF seatd[l] \in {"exec", "init"}
                THEN [seatd EXCEPT ![l] = "exited"] ELSE seatd
    /\ term' = [term EXCEPT ![l] = seatd[l] \notin {"exec", "init", "exited"}]

-----------------------------------------------------------------------------
(* seatd, from execve to its exit *)

\* Mutant: a file that is in the way is removed, as without -z.
Refuses_Never == FALSE

\* A file at the path: an instance is running, or has left its socket behind.
Refuses == file # Absent

\* execve, the options and lstat.
Check(l) ==
    /\ \/ Refuses /\ Move(l, "exec", "exited") /\ UNCHANGED fileVars
       \/ Move(l, "exec", "exited") /\ UNCHANGED fileVars    \* no executable
       \/ /\ ~Refuses /\ Move(l, "exec", "init")
          /\ file' = Absent /\ UNCHANGED <<owner, private>>
    /\ UNCHANGED <<launcher, term, notified, target, failed>>

\* The handlers of the signals are installed, or seatd exits.
server_init(l) ==
    /\ Move(l, "init", "bind") \/ Move(l, "init", "exited")
    /\ UNCHANGED <<launcher, term, notified, target, fileVars, failed>>

\* Mutant: the path of a socket that could not be bound is removed.
BindFails_Unlinks(l) ==
    /\ Move(l, "bind", "unlink")
    /\ UNCHANGED <<launcher, term, notified, target, fileVars, failed>>

\* bind fails, also because the path is taken by now: no file is removed.
BindFails(l) ==
    /\ Move(l, "bind", "exited")
    /\ UNCHANGED <<launcher, term, notified, target, fileVars, failed>>

bind(l) ==
    /\ file = Absent /\ Move(l, "bind", "listen")
    /\ file' = l /\ owner' = Root /\ private' = FALSE
    /\ UNCHANGED <<launcher, term, notified, target, failed>>

\* listen: when it fails the socket file stays; when the poller cannot take
\* the socket it is removed.
listen(l) ==
    /\ \/ Move(l, "listen", "notify")
       \/ Move(l, "listen", "exited")
       \/ Move(l, "listen", "unlink")
    /\ UNCHANGED <<launcher, term, notified, target, fileVars, failed>>

\* The byte that tells the launcher, and the end of a seatd whose launcher
\* does not listen any more.
Notify(l) ==
    /\ \/ /\ launcher[l] # "done" /\ Move(l, "notify", "serve")
          /\ notified' = [notified EXCEPT ![l] = TRUE]
       \/ /\ launcher[l] = "done" /\ Move(l, "notify", "exited")
          /\ UNCHANGED notified
    /\ UNCHANGED <<launcher, term, target, fileVars, failed>>

\* server_handle_kill ends the loop.
Stop(l) ==
    /\ term[l] /\ Move(l, "serve", "unlink")
    /\ UNCHANGED <<launcher, term, notified, target, fileVars, failed>>

\* poller_poll fails, or the server's socket has an error.
Fail(l) ==
    /\ Move(l, "serve", "unlink") /\ failed' = TRUE
    /\ UNCHANGED <<launcher, term, notified, target, fileVars>>

\* Mutant: the socket file is left.
Unlink_Skipped(l) ==
    /\ Move(l, "unlink", "exited")
    /\ UNCHANGED <<launcher, term, notified, target, fileVars, failed>>

\* The path is removed, whatever is there, and server_finish.
Unlink(l) ==
    /\ Move(l, "unlink", "exited")
    /\ file' = Absent
    /\ UNCHANGED <<launcher, term, notified, target, owner, private, failed>>

-----------------------------------------------------------------------------
(* seatd-launch *)

\* The pipe and the fork of seatd.  A run starts when nothing of an earlier
\* run of the same user is left but, perhaps, the file.
Run(l) ==
    /\ launcher[l] \in {"none", "done"} /\ seatd[l] \in {"none", "exited"}
    /\ target[l] # "running"
    /\ launcher' = [launcher EXCEPT ![l] = "wait"]
    /\ seatd' = [seatd EXCEPT ![l] = "exec"]
    /\ term' = [term EXCEPT ![l] = FALSE]
    /\ notified' = [notified EXCEPT ![l] = FALSE]
    /\ target' = [target EXCEPT ![l] = "none"]
    /\ UNCHANGED <<fileVars, failed>>

\* error_seatd.
GiveUp(l, from) ==
    /\ Advance(l, from, "done") /\ kill(l)
    /\ UNCHANGED <<notified, target, fileVars, failed>>

\* Mutant: only the pipe is watched.
WaitExited_Never(l) == FALSE /\ UNCHANGED vars

\* The loop before the target: waitpid finds that seatd has exited.
WaitExited(l) == seatd[l] = "exited" /\ GiveUp(l, "wait")

\* waitpid, poll or read fails; so may the waitpid for the target.
WaitFails(l) == GiveUp(l, "wait") \/ GiveUp(l, "watch")

\* Mutant: the launcher goes on without the byte.
Ready_Early(l) ==
    /\ Advance(l, "wait", "chown")
    /\ UNCHANGED <<seatd, term, notified, target, fileVars, failed>>

Ready(l) ==
    /\ notified[l] /\ Advance(l, "wait", "chown")
    /\ UNCHANGED <<seatd, term, notified, target, fileVars, failed>>

chown(l) ==
    \/ /\ file # Absent /\ Advance(l, "chown", "chmod") /\ owner' = l
       /\ UNCHANGED <<seatd, term, notified, target, file, private, failed>>
    \/ GiveUp(l, "chown")

chmod(l) ==
    \/ /\ file # Absent /\ Advance(l, "chmod", "fork") /\ private' = TRUE
       /\ UNCHANGED <<seatd, term, notified, target, file, owner, failed>>
    \/ GiveUp(l, "chmod")

\* setgid, setuid and the fork of the target.
Fork(l) ==
    \/ /\ Advance(l, "fork", "watch")
       /\ target' = [target EXCEPT ![l] = "running"]
       /\ UNCHANGED <<seatd, term, notified, fileVars, failed>>
    \/ GiveUp(l, "fork")

\* waitpid returns the target; seatd is terminated.
Watched(l) == target[l] = "exited" /\ GiveUp(l, "watch")

TargetExits(l) ==
    /\ target[l] = "running" /\ target' = [target EXCEPT ![l] = "exited"]
    /\ UNCHANGED <<launcher, seatd, term, notified, fileVars, failed>>

\* SIGINT from the terminal reaches the launcher, its seatd and the target,
\* which may ignore it.
Interrupt(l) ==
    /\ launcher[l] \notin {"none", "done"}
    /\ launcher' = [launcher EXCEPT ![l] = "done"] /\ kill(l)
    /\ target' \in {target, [target EXCEPT ![l] =
                                IF @ = "running" THEN "exited" ELSE @]}
    /\ UNCHANGED <<notified, fileVars, failed>>

-----------------------------------------------------------------------------

Seatd(l) ==
    \/ Check(l) \/ server_init(l) \/ BindFails(l) \/ bind(l) \/ listen(l)
    \/ Notify(l) \/ Stop(l) \/ Unlink(l)

SeatdLaunch(l) ==
    \/ WaitExited(l) \/ Ready(l) \/ chown(l) \/ chmod(l) \/ Fork(l)
    \/ Watched(l)

Next ==
    \E l \in Launcher :
        \/ Seatd(l) \/ SeatdLaunch(l) \/ Run(l) \/ Fail(l) \/ WaitFails(l)
        \/ TargetExits(l) \/ Interrupt(l)

Spec == Init /\ [][Next]_vars

\* Both programs run when they can; nobody promises that a target ends.
FairSpec ==
    Spec /\ \A l \in Launcher : WF_vars(Seatd(l)) /\ WF_vars(SeatdLaunch(l))

-----------------------------------------------------------------------------
(* Properties *)

\* Every variable has a value of its type.
TypeOK ==
    /\ launcher \in [Launcher -> {"none", "wait", "chown", "chmod", "fork",
                                  "watch", "done"}]
    /\ seatd \in [Launcher -> {"none", "exec", "init", "bind", "listen",
                               "notify", "serve", "unlink", "exited"}]
    /\ term \in [Launcher -> BOOLEAN] /\ notified \in [Launcher -> BOOLEAN]
    /\ target \in [Launcher -> {"none", "running", "exited"}]
    /\ file \in Launcher \cup {Absent, Foreign}
    /\ owner \in Launcher \cup {Root}
    /\ private \in BOOLEAN /\ failed \in BOOLEAN

\* An instance that has bound the path and not left it owns the file.
Bound == {"listen", "notify", "serve", "unlink"}
Owns == \A l \in Launcher : seatd[l] \in Bound => file = l

\* The launcher has not ended.
Alive(l) == launcher[l] \notin {"none", "done"}

\* Nobody has asked the seatd of a running launcher to stop; the byte says
\* that it has served, and it goes on unless it stopped by itself.
Asked ==
    \A l \in Launcher :
        /\ Alive(l) => ~term[l]
        /\ notified[l] => seatd[l] \in {"serve", "unlink", "exited"}
        /\ Alive(l) /\ notified[l] /\ ~failed => seatd[l] = "serve"
        /\ launcher[l] \in {"chown", "chmod", "fork", "watch"} => notified[l]

\* What has been handed over is kept, by whom it was handed to.
Handed ==
    \A l \in Launcher :
        /\ target[l] = "running" => launcher[l] \in {"watch", "done"}
        /\ ~failed /\ seatd[l] = "serve" =>
            /\ launcher[l] \in {"chmod", "fork", "watch"} => owner = l
            /\ launcher[l] \in {"fork", "watch"} => private
            /\ target[l] = "running" => owner = l /\ private

\* The inductive invariant: the file, the signals and the byte keep every
\* launcher and its seatd in step.
IInv == TypeOK /\ Owns /\ Asked /\ Handed

\* A seatd that serves can be reached: the socket at the path is its own, and
\* no other instance has removed or replaced it.
ServesOwnPath == \A l \in Launcher : seatd[l] = "serve" => file = l

\* A target that runs beside its seatd has the socket for itself: the file is
\* of its own seatd, belongs to its user and is closed to others.  (When a
\* seatd stopped by itself its launcher may hand over the file of the next
\* instance.)
TargetServed ==
    \A l \in Launcher :
        target[l] = "running" /\ seatd[l] = "serve" /\ ~failed =>
            file = l /\ owner = l /\ private

\* A socket file is removed only by the instance that made it, at its end; a
\* file of anybody else stays (seatd -z: "We do not unlink files to protect
\* against multiple instances").
OwnUnlink ==
    [][/\ \A l \in Launcher : file = l /\ file' # l => seatd[l] = "unlink"
       /\ file = Foreign => file' = Foreign]_vars

\* seatd does not outlive its launcher ("Once the specified command
\* terminates, the seatd instance is also terminated."), and one that served
\* removes its socket first.
Terminated ==
    \A l \in Launcher :
        /\ launcher[l] = "done" ~> seatd[l] = "exited"
        /\ seatd[l] = "serve" /\ launcher[l] = "done" ~>
               seatd[l] = "exited" /\ file # l

\* The wait for seatd ends, whether seatd starts or exits prematurely.
WaitEnds == \A l \in Launcher : launcher[l] = "wait" ~> launcher[l] # "wait"

=============================================================================
