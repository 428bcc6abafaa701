---------------------------- MODULE UnixListener ----------------------------
(***************************************************************************)
(* net::UnixListener: how a daemon takes over a socket path and gives it   *)
(* back.                                                                   *)
(*                                                                         *)
(* Every system call of bind() and close() is a step of its own, since     *)
(* another process may act on the path between two of them.  The path is   *)
(* one directory entry: empty, a socket of a live process, or debris whose *)
(* socket nobody holds.                                                    *)
(***************************************************************************)
CONSTANTS
    Daemons,    \* processes started on the one path
    NoFile,     \* the path does not exist
    Debris      \* it names a socket nobody holds any more

VARIABLES
    file,       \* what the path names: NoFile, Debris, or the daemon whose socket it is
    step        \* daemon -> the next call of bind() or close() it makes

listenerVars == <<file, step>>

Positions == {"down", "access", "probe", "unlink", "bind", "listen", "unlink_failed",
              "close_failed", "up", "unlink_closed"}

Goto(d, next) == step' = [step EXCEPT ![d] = next]

\* connect() to the path finds somebody listening.
Answers == file \in Daemons /\ step[file] = "up"

\* The socket of d is closed; an entry that names it becomes debris.
Abandoned(d) == IF file = d THEN Debris ELSE file

-----------------------------------------------------------------------------
(* UnixListener::bind *)

Start(d) == step[d] = "down" /\ Goto(d, "access") /\ UNCHANGED file

Access(d) ==
    /\ step[d] = "access"
    /\ Goto(d, IF file = NoFile THEN "bind" ELSE "probe")
    /\ UNCHANGED file

\* ECONNREFUSED: the entry is stale.
ProbeRefused(d) ==
    /\ step[d] = "probe"
    /\ file # NoFile /\ ~Answers
    /\ Goto(d, "unlink")
    /\ UNCHANGED file

\* Somebody accepts, the entry is gone, connect() fails in any other way, or there
\* is no descriptor for the probe: bind() throws.
ProbeThrows(d) == step[d] = "probe" /\ Goto(d, "down") /\ UNCHANGED file

\* Removes whatever the path names by now; ENOENT is no error.
Unlink(d) ==
    /\ step[d] = "unlink"
    /\ file' = NoFile
    /\ Goto(d, "bind")

\* Any other error, such as debris of another user in a sticky directory.
UnlinkThrows(d) ==
    /\ step[d] = "unlink" /\ file # NoFile
    /\ Goto(d, "down")
    /\ UNCHANGED file

Bind(d) ==
    /\ step[d] = "bind"
    /\ file = NoFile
    /\ file' = d
    /\ Goto(d, "listen")

\* EADDRINUSE or another error of bind(), or socket() before it found no descriptor.
BindThrows(d) == step[d] = "bind" /\ Goto(d, "down") /\ UNCHANGED file

Listen(d) == step[d] = "listen" /\ Goto(d, "up") /\ UNCHANGED file

\* listen() fails: unlink the path, then the Fd closes as the exception leaves.  A
\* process is taken to be able to remove the entry it has made itself.
ListenFails(d) == step[d] = "listen" /\ Goto(d, "unlink_failed") /\ UNCHANGED file

ListenFailedUnlink(d) ==
    /\ step[d] = "unlink_failed"
    /\ file' = NoFile
    /\ Goto(d, "close_failed")

ListenFailedClose(d) ==
    /\ step[d] = "close_failed"
    /\ file' = Abandoned(d)
    /\ Goto(d, "down")

-----------------------------------------------------------------------------
(* UnixListener::close *)

CloseFd(d) ==
    /\ step[d] = "up"
    /\ file' = Abandoned(d)
    /\ Goto(d, "unlink_closed")

\* Mutant: the descriptor is closed and the path forgotten, not unlinked.
CloseKeepingFile(d) == step[d] = "unlink_closed" /\ Goto(d, "down") /\ UNCHANGED file

CloseUnlink(d) ==
    /\ step[d] = "unlink_closed"
    /\ file' = NoFile
    /\ Goto(d, "down")

\* The process dies wherever it is; the kernel closes its socket.
Killed(d) ==
    /\ step[d] # "down"
    /\ file' = Abandoned(d)
    /\ Goto(d, "down")

-----------------------------------------------------------------------------
ListenerInit ==
    /\ file \in {NoFile, Debris}
    /\ step = [d \in Daemons |-> "down"]

BindStep(d) ==
    \/ Access(d) \/ ProbeRefused(d) \/ Unlink(d) \/ Bind(d) \/ Listen(d)
    \/ ListenFailedUnlink(d) \/ ListenFailedClose(d)

BindFails(d) == ProbeThrows(d) \/ UnlinkThrows(d) \/ BindThrows(d) \/ ListenFails(d)

ListenerNext ==
    \E d \in Daemons :
        \/ Start(d) \/ BindStep(d) \/ BindFails(d)
        \/ CloseFd(d) \/ CloseUnlink(d) \/ Killed(d)

ListenerSpec == ListenerInit /\ [][ListenerNext]_listenerVars

\* What the comment on socket_file_is_stale() promises: a daemon that really is
\* running keeps its address, so no start or stop of another daemon leaves it
\* listening at a path that no longer leads to it.
NobodyInvisible == \A d \in Daemons : step[d] = "up" => file = d
=============================================================================
