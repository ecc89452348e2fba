-------------------------- MODULE DaemonLifecycle --------------------------
(***************************************************************************)
(* The daemon of one container tag (daemon_runtime.rs, daemon/ipc.rs), the *)
(* files it keeps in the cache directory, and the commands that start and  *)
(* stop it (cmd/mount.rs, cmd/unmount.rs).  Every process is used once.    *)
(* Of the push queue only what the drain asks is here: is there a row.     *)
(***************************************************************************)
EXTENDS Naturals, FiniteSets

CONSTANTS
  Daemon,    \* processes that may become daemons of the tag
  Command,   \* runs of `smfs mount' and `smfs unmount'
  None,
  Hazards    \* what else may happen, see below

(* "kill": a daemon dies without cleaning up.  "nobind": the IPC server    *)
(* cannot bind its socket.  "busy": a file system cannot be unmounted.     *)
(* "foreground": `smfs mount --foreground' beside a living daemon.         *)
(* "together": commands run at the same time.  "window": commands reach a  *)
(* daemon whose socket is bound and that does not wait yet, or is about to *)
(* remove its last files.  "slow": a daemon takes longer to stop than      *)
(* `smfs unmount' waits.                                                   *)
ASSUME DaemonAssumption ==
  /\ None \notin Daemon \cup Command
  /\ Hazards \subseteq
       {"kill", "nobind", "busy", "foreground", "together", "window", "slow"}

VARIABLES
  daemon,   \* where each process is in `run'
  ipc,      \* its IPC server, a task of its own
  mount,    \* its file system: served, or left in the mount table
  socket,   \* the process that bound the file sockets/<tag>.sock
  pidfile,  \* the process that pids/<tag>.pid names
  startup,  \* the process that wrote startup/<tag>.json
  marker,   \* there is an entry for the tag in the .smfs file
  pending,  \* there are rows in the push_queue
  cmd       \* the commands

vars == <<daemon, ipc, mount, socket, pidfile, startup, marker, pending, cmd>>
files == <<socket, pidfile, startup, marker>>

NoCmd == [kind |-> "none", pc |-> "idle", child |-> None]
Ended == {"mounted", "refused", "failed", "unmounted", "unreachable"}
States == {"unborn", "starting", "spawned", "up", "waiting", "draining", "stopping",
           "released", "nopid", "exited", "dead"}

DaemonTypeOK ==
  /\ daemon \in [Daemon -> States]
  /\ ipc \in [Daemon -> {"none", "spawned", "serving", "failed", "ended"}]
  /\ mount \in [Daemon -> {"none", "live", "left"}]
  /\ {socket, pidfile, startup} \subseteq Daemon \cup {None}
  /\ marker \in BOOLEAN /\ pending \in BOOLEAN
  /\ cmd \in [Command -> [kind : {"none", "mount", "unmount", "force"},
                          pc : {"idle", "clean", "spawn", "ping", "foreground",
                                "polling", "forcing"} \cup Ended,
                          child : Daemon \cup {None}]]

Init ==
  /\ daemon = [d \in Daemon |-> "unborn"]
  /\ ipc = [d \in Daemon |-> "none"]
  /\ mount = [d \in Daemon |-> "none"]
  /\ socket = None /\ pidfile = None /\ startup = None
  /\ marker = FALSE /\ pending = FALSE
  /\ cmd = [c \in Command |-> NoCmd]

Alive(d) == d # None /\ daemon[d] \notin {"unborn", "exited", "dead"}
Living == {d \in Daemon : Alive(d)}
Goto(d, s) == daemon' = [daemon EXCEPT ![d] = s]

(* The process ends where it is; what it had mounted may stay in the mount *)
(* table, where nobody serves it.                                          *)
Die(d) ==
  /\ Goto(d, "dead")
  /\ \E m \in {"none", "left"} :
       mount' = [mount EXCEPT ![d] = IF @ = "live" THEN m ELSE @]

(* The answers of a server that has bound its socket.                      *)
Serving(d) ==
  /\ d # None /\ ipc[d] = "serving"
  /\ daemon[d] \in {"waiting", "draining"} \cup
       IF "window" \in Hazards THEN {"spawned", "up"} ELSE {}
-----------------------------------------------------------------------------
(* The daemon, up to the wait for a signal or a request.                   *)

(* The handle's unmount and the `umount' after it: their results are       *)
(* ignored.  Where the first has succeeded the second may find what an     *)
(* earlier process left at the path.                                       *)
Unmount(d) ==
  \/ \E others \in SUBSET {e \in Daemon : mount[e] # "none"} :
       mount' = [e \in Daemon |-> IF e \in others \cup {d} THEN "none" ELSE mount[e]]
  \/ /\ "busy" \in Hazards
     /\ mount' = [mount EXCEPT ![d] = IF @ = "live" THEN "left" ELSE @]

(* Cache, API client, first pull, mount, pid file and last report may each *)
(* fail: run returns the error, and only the mount handle cleans up.       *)
StartFails(d) ==
  /\ daemon[d] \in {"starting", "spawned", "up"}
  /\ Goto(d, "dead")
  /\ IF mount[d] = "live" THEN Unmount(d) ELSE UNCHANGED mount
  /\ UNCHANGED <<ipc, files, pending, cmd>>

MountFs(d) ==
  /\ daemon[d] = "starting" /\ mount[d] = "none"
  /\ mount' = [mount EXCEPT ![d] = "live"]
  /\ startup' = d
  /\ UNCHANGED <<daemon, ipc, socket, pidfile, marker, pending, cmd>>

(* serve becomes a task of its own; run goes on to the pid file.           *)
SpawnServe(d) ==
  /\ daemon[d] = "starting" /\ mount[d] = "live"
  /\ Goto(d, "spawned")
  /\ ipc' = [ipc EXCEPT ![d] = "spawned"]
  /\ UNCHANGED <<mount, files, pending, cmd>>

WritePid(d) ==
  /\ daemon[d] = "spawned"
  /\ Goto(d, "up")
  /\ pidfile' = d
  /\ startup' = d
  /\ UNCHANGED <<ipc, mount, socket, marker, pending, cmd>>

Wait(d) ==
  /\ daemon[d] = "up"
  /\ Goto(d, "waiting")
  /\ UNCHANGED <<ipc, mount, files, pending, cmd>>

Signal(d) ==
  /\ daemon[d] = "waiting"
  /\ Goto(d, "draining")
  /\ UNCHANGED <<ipc, mount, files, pending, cmd>>

(* serve replaces whatever socket it finds.  Nobody waits for it, and its  *)
(* error is only logged.                                                   *)
Unbound(d) ==
  /\ ipc[d] = "spawned" /\ daemon[d] \in {"spawned", "up", "waiting", "draining"}
  /\ UNCHANGED <<daemon, mount, pidfile, startup, marker, pending, cmd>>

Bind(d) ==
  /\ Unbound(d)
  /\ ipc' = [ipc EXCEPT ![d] = "serving"]
  /\ socket' = d

BindFails(d) ==
  /\ "nobind" \in Hazards /\ Unbound(d)
  /\ ipc' = [ipc EXCEPT ![d] = "failed"]
  /\ socket' \in {None, socket}
-----------------------------------------------------------------------------
(* The daemon, from the request on.                                        *)

(* Slip: the loop waits for an empty queue, however long. *)
DrainForever(d) ==
  /\ daemon[d] = "draining" /\ ~pending
  /\ Goto(d, "stopping")
  /\ ipc' = [ipc EXCEPT ![d] = "ended"]
  /\ socket' = IF ipc[d] = "failed" THEN socket ELSE None
  /\ UNCHANGED <<mount, pidfile, startup, marker, pending, cmd>>

(* The queue is empty or the drain timeout is over: the loops are told to  *)
(* end, and serve removes the socket at its path.                          *)
Drain(d) ==
  /\ daemon[d] = "draining"
  /\ Goto(d, "stopping")
  /\ ipc' = [ipc EXCEPT ![d] = "ended"]
  /\ socket' = IF ipc[d] = "failed" THEN socket ELSE None
  /\ UNCHANGED <<mount, pidfile, startup, marker, pending, cmd>>

(* Slip: the file system is left to the end of the process. *)
ReleaseLater(d) ==
  /\ daemon[d] = "stopping"
  /\ Goto(d, "released")
  /\ UNCHANGED <<ipc, mount, files, pending, cmd>>

Release(d) ==
  /\ daemon[d] = "stopping"
  /\ Goto(d, "released")
  /\ Unmount(d)
  /\ UNCHANGED <<ipc, files, pending, cmd>>

(* Slip: the pid file is left behind. *)
CleanUpKeepsPid(d) ==
  /\ daemon[d] = "released"
  /\ marker' = FALSE
  /\ Goto(d, "nopid")
  /\ UNCHANGED <<ipc, mount, socket, pidfile, startup, pending, cmd>>

CleanUp(d) ==
  /\ daemon[d] = "released"
  /\ pidfile' = None
  /\ marker' = FALSE
  /\ Goto(d, "nopid")
  /\ UNCHANGED <<ipc, mount, socket, startup, pending, cmd>>

Exit(d) ==
  /\ daemon[d] = "nopid"
  /\ Goto(d, "exited")
  /\ socket' = None /\ startup' = None
  /\ UNCHANGED <<ipc, mount, pidfile, marker, pending, cmd>>

Kill(d) ==
  /\ "kill" \in Hazards /\ Alive(d)
  /\ Die(d)
  /\ UNCHANGED <<ipc, files, pending, cmd>>

(* Users write where a file system is served; the push worker empties the  *)
(* queue or does not, for rows may be poisoned or nobody's.                *)
QueueChanges ==
  /\ \E d \in Daemon : mount[d] = "live" \/ (pending /\ Alive(d))
  /\ pending' = ~pending
  /\ UNCHANGED <<daemon, ipc, mount, files, cmd>>
-----------------------------------------------------------------------------
(* The commands.                                                           *)

MayStart(c) ==
  /\ cmd[c] = NoCmd
  /\ "together" \in Hazards \/ \A e \in Command : cmd[e].pc \in Ended \cup {"idle"}
  /\ "window" \in Hazards \/ \A d \in Daemon : daemon[d] # "nopid"

Step(c, kind, pc, child) == cmd' = [cmd EXCEPT ![c] = [kind |-> kind, pc |-> pc, child |-> child]]

Unborn == {d \in Daemon : daemon[d] = "unborn"}  \* bound: processes left

(* The first steps of a process: startup file and marker.                  *)
Start(d) ==
  /\ Goto(d, "starting")
  /\ startup' = d
  /\ marker' = TRUE

(* --foreground becomes the daemon without a look at the pid file.         *)
MountForeground(c) ==
  /\ MayStart(c)
  /\ Living = {} \/ "foreground" \in Hazards
  /\ \E d \in Unborn : Step(c, "mount", "foreground", d) /\ Start(d)
  /\ UNCHANGED <<ipc, mount, socket, pidfile, pending>>

(* Its user reads "mounted at" or the error.                               *)
ForegroundReady(c) ==
  /\ cmd[c].pc = "foreground"
  /\ daemon[cmd[c].child] \notin {"starting", "spawned", "up"}
  /\ Step(c, "mount", IF daemon[cmd[c].child] = "dead" THEN "failed" ELSE "mounted",
          cmd[c].child)
  /\ UNCHANGED <<daemon, ipc, mount, files, pending>>

(* Slip: the socket is asked instead of the pid file. *)
MountCheckSocket(c) ==
  /\ MayStart(c) /\ Unborn # {}
  /\ Step(c, "mount", IF Serving(socket) THEN "refused" ELSE "clean", None)
  /\ UNCHANGED <<daemon, ipc, mount, files, pending>>

MountCheck(c) ==
  /\ MayStart(c) /\ Unborn # {}
  /\ Step(c, "mount", IF Alive(pidfile) THEN "refused" ELSE "clean", None)
  /\ UNCHANGED <<daemon, ipc, mount, files, pending>>

(* cleanup_stale, then the startup file goes in any case.                  *)
MountClean(c) ==
  /\ cmd[c].pc = "clean"
  /\ Step(c, "mount", "spawn", None)
  /\ IF Alive(pidfile) THEN UNCHANGED <<pidfile, socket>>
     ELSE pidfile' = None /\ socket' = None
  /\ startup' = None
  /\ UNCHANGED <<daemon, ipc, mount, marker, pending>>

MountSpawn(c) ==
  /\ cmd[c].pc = "spawn"
  /\ \E d \in Unborn : Step(c, "mount", "ping", d) /\ Start(d)
  /\ UNCHANGED <<ipc, mount, socket, pidfile, pending>>

(* Slip: a socket file counts as an answer. *)
PongOfFile(c) ==
  /\ cmd[c].pc = "ping" /\ socket # None
  /\ Step(c, "mount", "mounted", cmd[c].child)
  /\ startup' = None
  /\ UNCHANGED <<daemon, ipc, mount, socket, pidfile, marker, pending>>

(* Whoever answers at the socket, the mount is taken to be live.           *)
MountPong(c) ==
  /\ cmd[c].pc = "ping" /\ Serving(socket)
  /\ Step(c, "mount", "mounted", cmd[c].child)
  /\ startup' = None
  /\ UNCHANGED <<daemon, ipc, mount, socket, pidfile, marker, pending>>

(* No progress for the startup timeout: the child is killed.  A daemon     *)
(* that waits without a socket makes none.                                 *)
MountGivesUp(c) ==
  /\ cmd[c].pc = "ping"
  /\ \/ daemon[cmd[c].child] = "starting" /\ "kill" \in Hazards
     \/ daemon[cmd[c].child] = "waiting" /\ ipc[cmd[c].child] = "failed"
  /\ Step(c, "mount", "failed", cmd[c].child)
  /\ Die(cmd[c].child)
  /\ UNCHANGED <<ipc, files, pending>>

MountChildDied(c) ==
  /\ cmd[c].pc = "ping" /\ ~Alive(cmd[c].child)
  /\ Step(c, "mount", "failed", cmd[c].child)
  /\ UNCHANGED <<daemon, ipc, mount, files, pending>>

(* notify_waiters: only a daemon that waits hears of the request; the      *)
(* answer is an acknowledgement all the same.  Without an answer --force   *)
(* goes on.                                                                *)
UnmountSend(c) ==
  /\ MayStart(c)
  /\ \E kind \in {"unmount", "force"} :
       IF Serving(socket)
       THEN /\ Step(c, kind, "polling", None)
            /\ daemon' = IF daemon[socket] = "waiting"
                         THEN [daemon EXCEPT ![socket] = "draining"] ELSE daemon
       ELSE /\ Step(c, kind, IF kind = "force" THEN "forcing" ELSE "unreachable", None)
            /\ UNCHANGED daemon
  /\ UNCHANGED <<ipc, mount, files, pending>>

Stopping(d) == d # None /\ daemon[d] \in {"draining", "stopping", "released"}

(* "PID file gone", its process gone, or 45 seconds are over, as they will *)
(* be for a process that was not told to stop.  --force then unmounts the  *)
(* path, if it knows one, and ignores the result.                          *)
UnmountDone(c) ==
  /\ cmd[c].pc \in {"polling", "forcing"}
  /\ ~Stopping(pidfile) \/ "slow" \in Hazards
  /\ Step(c, cmd[c].kind, "unmounted", None)
  /\ \/ UNCHANGED mount
     \/ /\ cmd[c].kind = "force"
        /\ \E d \in Daemon : mount' = [mount EXCEPT ![d] = "none"]
  /\ UNCHANGED <<daemon, ipc, files, pending>>
-----------------------------------------------------------------------------
Run(d) ==
  \/ StartFails(d) \/ MountFs(d) \/ SpawnServe(d) \/ WritePid(d) \/ Wait(d)
  \/ Drain(d) \/ Release(d) \/ CleanUp(d) \/ Exit(d)

Serve(d) == Bind(d) \/ BindFails(d)

Continue(c) ==
  \/ MountClean(c) \/ MountSpawn(c) \/ MountPong(c) \/ MountGivesUp(c)
  \/ MountChildDied(c) \/ ForegroundReady(c) \/ UnmountDone(c)

Next ==
  \/ \E d \in Daemon : Run(d) \/ Serve(d) \/ Signal(d) \/ Kill(d)
  \/ QueueChanges
  \/ \E c \in Command :
       MountForeground(c) \/ MountCheck(c) \/ UnmountSend(c) \/ Continue(c)

Spec == Init /\ [][Next]_vars

(* Processes and their tasks run; users and the push worker need not do    *)
(* anything.                                                               *)
Fairness ==
  /\ \A d \in Daemon : WF_vars(Run(d)) /\ WF_vars(Serve(d))
  /\ \A c \in Command : WF_vars(Continue(c))

FairSpec == Spec /\ Fairness
-----------------------------------------------------------------------------
(* Two daemons would push the same queue twice (mount.rs: "Refuse if       *)
(* another daemon already owns this tag").  --foreground does not look:    *)
(* the invariant fails under "foreground".                                 *)
OneOwner == Cardinality(Living) <= 1

(* `smfs unmount' and the next `smfs mount' find the daemon that waits for *)
(* them, whatever earlier daemons left behind or still remove: its pid     *)
(* file names it, and nothing but its own failure to bind keeps its socket *)
(* from leading to it.                                                     *)
WaitingIsReachable ==
  \A d \in Daemon : daemon[d] = "waiting" =>
    /\ pidfile = d
    /\ ipc[d] \in {"spawned", "serving", "failed"}
    /\ ipc[d] = "serving" => socket = d

(* When `smfs unmount' says "unmounted" for a daemon that took its request *)
(* (unmount.rs: "PID file gone -> daemon finished cleanup"), no process    *)
(* serves the file system any more.  What may be left is an entry of the   *)
(* mount table whose daemon was killed or could not unmount it.            *)
UnmountedIsGone ==
  [][\A c \in Command : cmd[c].pc = "polling" /\ cmd'[c].pc = "unmounted" =>
       \A d \in Daemon : mount[d] # "live"]_vars

(* `smfs mount' says "mounted" when there is a file system at its path     *)
(* (mount.rs: "once it responds, we know the mount is live").              *)
MountedIsLive ==
  [][\A c \in Command : cmd[c].pc = "ping" /\ cmd'[c].pc = "mounted" =>
       \E d \in Daemon : mount[d] = "live" /\ Alive(d)]_vars

(* Daemons that ended in order leave no file of theirs behind and serve    *)
(* nothing, and a file system is left in the mount table only where a      *)
(* process was killed or an unmount failed.                                *)
NothingLeft ==
  /\ DaemonTypeOK
  /\ (\A d \in Daemon : daemon[d] \in {"unborn", "exited"}) =>
       /\ pidfile = None /\ socket = None /\ startup = None /\ ~marker
       /\ \A d \in Daemon :
            mount[d] = "none" \/ (mount[d] = "left" /\ "busy" \in Hazards)

(* Every command ends, after whatever crash, with whatever in the queue    *)
(* and with a daemon that has no socket.                                   *)
CommandsEnd ==
  \A c \in Command : cmd[c].pc \notin Ended \cup {"idle"} ~> cmd[c].pc \in Ended
=============================================================================
