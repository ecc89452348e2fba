----------------------- MODULE DaemonLifecycleProofs -----------------------
(***************************************************************************)
(* Theorems about DaemonLifecycle, for any number of processes and         *)
(* commands.                                                               *)
(***************************************************************************)
EXTENDS DaemonLifecycle, FiniteSetTheorems, TLAPS

Mounting == {"starting", "spawned", "up", "waiting", "draining", "stopping"}
Binding  == {"spawned", "up", "waiting", "draining"}
Naming   == {"up", "waiting", "draining", "stopping", "released"}

(* What a file names has not been given up: a daemon clears each file in   *)
(* the step with which it leaves the states that keep it, and the socket   *)
(* only if it had bound one.  A file system is served by a daemon that has *)
(* not reached its unmount, and left behind by a dead one or a failure.    *)
FilesKept ==
  /\ \A d \in Daemon : mount[d] = "live" => daemon[d] \in Mounting
  /\ \A d \in Daemon : mount[d] = "left" => daemon[d] = "dead" \/ "busy" \in Hazards
  /\ socket # None => daemon[socket] \in Binding \cup {"dead"} /\ ipc[socket] = "serving"
  /\ pidfile # None => daemon[pidfile] \in Naming \cup {"dead"}
  /\ startup # None => daemon[startup] \notin {"unborn", "exited"}
  /\ marker => \E d \in Daemon : daemon[d] \notin {"unborn", "nopid", "exited"}
  /\ \A c \in Command : cmd[c].pc \in {"ping", "foreground"} => cmd[c].child \in Daemon

LeftInv == DaemonTypeOK /\ FilesKept

(* The commands take turns, and a command that starts a daemon finds none: *)
(* what lives is the child it waits for, or is named by the pid file, or   *)
(* has nothing left to do but remove its last files.                       *)
Busy(c) == cmd[c].pc \in {"clean", "spawn", "ping", "foreground", "polling", "forcing"}
Awaited(d) == \E c \in Command : cmd[c].pc \in {"ping", "foreground"} /\ cmd[c].child = d

Turns ==
  /\ \A c, e \in Command : Busy(c) /\ Busy(e) => c = e
  /\ \A c \in Command : cmd[c].pc \in {"clean", "spawn"} => Living = {}
  /\ \A c \in Command : cmd[c].pc \in {"ping", "foreground"} =>
       cmd[c].child # None /\ Living \subseteq {cmd[c].child}
  /\ \A c \in Command, d \in Daemon : cmd[c].pc = "polling" =>
       daemon[d] \notin {"starting", "spawned", "up", "waiting"}

Owner ==
  /\ \A d, e \in Living : d = e
  /\ \A d \in Daemon :
       /\ daemon[d] \in {"starting", "spawned", "up"} => Awaited(d)
       /\ Awaited(d) /\ daemon[d] \in Mounting \ {"starting"} => mount[d] = "live"
       /\ daemon[d] \in Binding => ipc[d] \in {"spawned", "serving", "failed"}
       /\ daemon[d] \in Binding /\ ipc[d] = "serving" => socket = d
       /\ daemon[d] \in Naming => pidfile = d

TagInv == LeftInv /\ Turns /\ Owner
-----------------------------------------------------------------------------
(***************************************************************************)
(* Types, and what the files name.                                         *)
(***************************************************************************)
LEMMA InitLeft == Init => LeftInv
<1> SUFFICES ASSUME Init PROVE LeftInv
  OBVIOUS
<1>1. cmd \in [Command -> [kind : {"none", "mount", "unmount", "force"},
                          pc : {"idle", "clean", "spawn", "ping", "foreground",
                                "polling", "forcing"} \cup Ended,
                          child : Daemon \cup {None}]]
  BY DEF Init, NoCmd
<1>2. DaemonTypeOK
  BY <1>1 DEF Init, DaemonTypeOK, States
<1>3. FilesKept
  BY DEF Init, FilesKept, NoCmd
<1> QED
  BY <1>2, <1>3 DEF LeftInv

(* Unmounting serves nothing anew.                                         *)
LEMMA UnmountKeeps ==
  ASSUME DaemonTypeOK, NEW d \in Daemon, Unmount(d)
  PROVE  /\ mount' \in [Daemon -> {"none", "live", "left"}]
         /\ mount'[d] # "live"
         /\ \A e \in Daemon : mount'[e] = "live" => mount[e] = "live"
         /\ \A e \in Daemon : mount'[e] = "left" => mount[e] = "left" \/ "busy" \in Hazards
BY DEF Unmount, DaemonTypeOK

LEMMA DieKeeps ==
  ASSUME DaemonTypeOK, NEW d \in Daemon, Die(d)
  PROVE  /\ mount' \in [Daemon -> {"none", "live", "left"}]
         /\ mount'[d] # "live"
         /\ \A e \in Daemon : e # d => mount'[e] = mount[e]
         /\ daemon' = [daemon EXCEPT ![d] = "dead"]
BY DEF Die, Goto, DaemonTypeOK

(* A step of a daemon's run changes no command.                            *)
LEMMA RunLeft ==
  ASSUME LeftInv, NEW d \in Daemon, Run(d)
  PROVE  LeftInv'
<1> USE DaemonAssumption DEF LeftInv, DaemonTypeOK, FilesKept, States, files, Goto
<1>1. CASE StartFails(d)
  <2>1. CASE mount[d] = "live"
    BY <1>1, <2>1, UnmountKeeps DEF StartFails, Mounting, Binding, Naming
  <2>2. CASE mount[d] # "live"
    BY <1>1, <2>2 DEF StartFails, Mounting, Binding, Naming
  <2> QED
    BY <2>1, <2>2
<1>2. CASE MountFs(d)
  BY <1>2 DEF MountFs, Mounting
<1>3. CASE SpawnServe(d)
  BY <1>3 DEF SpawnServe, Mounting, Binding, Naming
<1>4. CASE WritePid(d)
  BY <1>4 DEF WritePid, Mounting, Binding, Naming
<1>5. CASE Wait(d)
  BY <1>5 DEF Wait, Mounting, Binding, Naming
<1>6. CASE Drain(d)
  BY <1>6 DEF Drain, Mounting, Binding, Naming
<1>7. CASE Release(d)
  BY <1>7, UnmountKeeps DEF Release, Mounting, Binding, Naming
<1>8. CASE CleanUp(d)
  BY <1>8 DEF CleanUp, Mounting, Binding, Naming
<1>9. CASE Exit(d)
  BY <1>9 DEF Exit, Mounting, Binding, Naming
<1> QED
  BY <1>1, <1>2, <1>3, <1>4, <1>5, <1>6, <1>7, <1>8, <1>9 DEF Run

LEMMA ServeLeft ==
  ASSUME LeftInv, NEW d \in Daemon, Serve(d) \/ Signal(d) \/ Kill(d)
  PROVE  LeftInv'
<1> USE DaemonAssumption DEF LeftInv, DaemonTypeOK, FilesKept, States, files
<1>1. CASE Bind(d)
  BY <1>1 DEF Bind, Unbound, Binding
<1>2. CASE BindFails(d)
  BY <1>2 DEF BindFails, Unbound, Binding
<1>3. CASE Signal(d)
  BY <1>3 DEF Signal, Goto, Mounting, Binding, Naming
<1>4. CASE Kill(d)
  BY <1>4, DieKeeps DEF Kill, Alive, Mounting, Binding, Naming
<1> QED
  BY <1>1, <1>2, <1>3, <1>4 DEF Serve

LEMMA QueueLeft ==
  ASSUME LeftInv, QueueChanges
  PROVE  LeftInv'
BY DEF LeftInv, DaemonTypeOK, FilesKept, QueueChanges, files

LEMMA CommandLeft ==
  ASSUME LeftInv, NEW c \in Command,
         MountForeground(c) \/ MountCheck(c) \/ UnmountSend(c) \/ Continue(c)
  PROVE  LeftInv'
<1> USE DaemonAssumption DEF LeftInv, DaemonTypeOK, FilesKept, States, files, Step, Ended
<1>1. CASE MountCheck(c)
  BY <1>1 DEF MountCheck
<1>2. CASE UnmountSend(c)
  <2>1. daemon' \in [Daemon -> States] /\ cmd' \in [Command -> [kind : {"none", "mount", "unmount", "force"},
                          pc : {"idle", "clean", "spawn", "ping", "foreground",
                                "polling", "forcing"} \cup Ended,
                          child : Daemon \cup {None}]]
    BY <1>2 DEF UnmountSend
  <2>2. \A d \in Daemon : daemon'[d] = daemon[d]
            \/ (daemon[d] = "waiting" /\ daemon'[d] = "draining")
    BY <1>2 DEF UnmountSend
  <2> QED
    BY <1>2, <2>1, <2>2 DEF UnmountSend, Mounting, Binding, Naming
<1>3. CASE MountClean(c)
  BY <1>3 DEF MountClean
<1>4. CASE MountSpawn(c) \/ MountForeground(c)
  <2>1. PICK d \in Unborn, pc \in {"ping", "foreground"} :
          Step(c, "mount", pc, d) /\ Start(d)
    BY <1>4 DEF MountSpawn, MountForeground
  <2>2. UNCHANGED <<ipc, mount, socket, pidfile, pending>>
    BY <1>4 DEF MountSpawn, MountForeground
  <2> QED
    BY <2>1, <2>2 DEF Start, Goto, Unborn, Mounting, Binding, Naming
<1>5. CASE MountPong(c)
  BY <1>5 DEF MountPong
<1>6. CASE MountGivesUp(c)
  <2>1. cmd[c].child \in Daemon
    BY <1>6 DEF MountGivesUp
  <2> QED
    BY <1>6, <2>1, DieKeeps DEF MountGivesUp, Mounting, Binding, Naming
<1>7. CASE MountChildDied(c) \/ ForegroundReady(c)
  BY <1>7 DEF MountChildDied, ForegroundReady
<1>8. CASE UnmountDone(c)
  BY <1>8 DEF UnmountDone
<1> QED
  BY <1>1, <1>2, <1>3, <1>4, <1>5, <1>6, <1>7, <1>8 DEF Continue

LEMMA StepLeft == LeftInv /\ [Next]_vars => LeftInv'
<1> SUFFICES ASSUME LeftInv, [Next]_vars PROVE LeftInv'
  OBVIOUS
<1>1. CASE UNCHANGED vars
  BY <1>1 DEF vars, LeftInv, DaemonTypeOK, FilesKept
<1> QED
  BY <1>1, QueueLeft, RunLeft, ServeLeft, CommandLeft DEF Next

LEMMA LeftInvHolds == Spec => []LeftInv
BY InitLeft, StepLeft, PTL DEF Spec

(* A process that reaches the end of run leaves no socket, no pid or       *)
(* startup file and no marker behind and serves nothing, whatever was      *)
(* killed, however commands overlap, with or without --foreground, a       *)
(* socket or a free mountpoint (daemon_runtime.rs, run; daemon/ipc.rs,     *)
(* serve): what is left over is a killed daemon's, or a mount that two     *)
(* umounts could not remove.                                               *)
THEOREM OrderlyEndsClean == Spec => []NothingLeft
<1>1. LeftInv => NothingLeft
  BY DEF LeftInv, FilesKept, NothingLeft, DaemonTypeOK, Mounting, Binding, Naming
<1> QED
  BY <1>1, LeftInvHolds, PTL
-----------------------------------------------------------------------------
(***************************************************************************)
(* One daemon at a time.  The commands that change nothing but themselves  *)
(* and the daemon's own steps are treated together.                        *)
(***************************************************************************)
LEMMA InitTag == Init => TagInv
BY InitLeft DEF Init, TagInv, Turns, Owner, Busy, Living, Alive, NoCmd, Mounting, Binding,
                Naming

(* Under "together" and "window" commands meet daemons half started or     *)
(* half ended, under "foreground" a daemon starts beside another; without  *)
(* them each command finds the tag at rest.                                *)
InTurn == Hazards \cap {"together", "window", "foreground"} = {}

LEMMA ServingWaits ==
  ASSUME InTurn, NEW d, Serving(d)
  PROVE  d # None /\ ipc[d] = "serving" /\ daemon[d] \in {"waiting", "draining"}
BY DEF InTurn, Serving

LEMMA StepTag ==
  ASSUME InTurn, TagInv, [Next]_vars
  PROVE  TagInv'
<1> USE DaemonAssumption DEF TagInv, Turns, Owner, Busy, Living, Alive, Awaited, files,
        Mounting, Binding, Naming
<1>0. LeftInv' /\ DaemonTypeOK
  BY StepLeft DEF LeftInv
<1> HIDE DEF LeftInv
<1>1. ASSUME NEW d \in Daemon, StartFails(d)
      PROVE  TagInv'
  BY <1>0, <1>1 DEF StartFails, Goto, DaemonTypeOK, States
<1>2. ASSUME NEW d \in Daemon,
             MountFs(d) \/ SpawnServe(d) \/ WritePid(d) \/ Wait(d) \/ Bind(d) \/ BindFails(d)
      PROVE  TagInv'
  BY <1>0, <1>2
  DEF MountFs, SpawnServe, WritePid, Wait, Bind, BindFails, Unbound, Goto, DaemonTypeOK, States
<1>3. ASSUME NEW d \in Daemon, Signal(d) \/ Drain(d) \/ Release(d) \/ CleanUp(d) \/ Exit(d)
      PROVE  TagInv'
  BY <1>0, <1>3 DEF Signal, Drain, Release, CleanUp, Exit, Goto, DaemonTypeOK, States
<1>4. ASSUME NEW d \in Daemon, Kill(d)
      PROVE  TagInv'
  BY <1>0, <1>4, DieKeeps DEF Kill, DaemonTypeOK, States
<1>5. CASE QueueChanges
  BY <1>0, <1>5 DEF QueueChanges
<1>6. ASSUME NEW c \in Command, MountCheck(c)
      PROVE  TagInv'
  BY <1>0, <1>6 DEF MountCheck, MayStart, Step, InTurn, DaemonTypeOK, Ended, States, NoCmd
<1>7. ASSUME NEW c \in Command, MountForeground(c)
      PROVE  TagInv'
  <2>1. PICK d \in Unborn : Step(c, "mount", "foreground", d) /\ Start(d)
    BY <1>7 DEF MountForeground
  <2>2. Living = {} /\ \A e \in Command : ~Busy(e)
    BY <1>7 DEF MountForeground, MayStart, InTurn, Ended
  <2>3. UNCHANGED <<ipc, mount, socket, pidfile>>
    BY <1>7 DEF MountForeground
  <2>4. Living' = {d}
    BY <1>0, <2>1, <2>2 DEF Start, Goto, Unborn, DaemonTypeOK, States
  <2> QED
    BY <1>0, <2>1, <2>2, <2>3, <2>4 DEF Start, Goto, Unborn, Step, DaemonTypeOK, States
<1>8. ASSUME NEW c \in Command, UnmountSend(c)
      PROVE  TagInv'
  BY <1>0, <1>8, ServingWaits
  DEF UnmountSend, MayStart, Step, InTurn, DaemonTypeOK, Ended, States, NoCmd
<1>9. ASSUME NEW c \in Command, MountClean(c) \/ MountSpawn(c)
      PROVE  TagInv'
  <2>1. CASE MountClean(c)
    BY <1>0, <2>1 DEF MountClean, Step, DaemonTypeOK, States
  <2>2. CASE MountSpawn(c)
    <3>1. PICK d \in Unborn : Step(c, "mount", "ping", d) /\ Start(d)
      BY <2>2 DEF MountSpawn
    <3>2. Living = {} /\ Busy(c) /\ UNCHANGED <<ipc, mount, socket, pidfile>>
      BY <2>2 DEF MountSpawn
    <3>3. Living' = {d}
      BY <1>0, <3>1, <3>2 DEF Start, Goto, Unborn, DaemonTypeOK, States
    <3> QED
      BY <1>0, <3>1, <3>2, <3>3 DEF Start, Goto, Unborn, Step, DaemonTypeOK, States
  <2> QED
    BY <1>9, <2>1, <2>2
<1>10. ASSUME NEW c \in Command, MountPong(c)
      PROVE  TagInv'
  BY <1>0, <1>10, ServingWaits DEF MountPong, Step, DaemonTypeOK, States
<1>11. ASSUME NEW c \in Command, MountGivesUp(c)
      PROVE  TagInv'
  <2>1. cmd[c].child \in Daemon
    BY <1>0, <1>11 DEF MountGivesUp, DaemonTypeOK
  <2> QED
    BY <1>0, <1>11, <2>1, DieKeeps DEF MountGivesUp, Step, DaemonTypeOK, States
<1>12. ASSUME NEW c \in Command, MountChildDied(c) \/ ForegroundReady(c)
      PROVE  TagInv'
  BY <1>0, <1>12 DEF MountChildDied, ForegroundReady, Step, DaemonTypeOK, States
<1>13. ASSUME NEW c \in Command, UnmountDone(c)
      PROVE  TagInv'
  BY <1>0, <1>13 DEF UnmountDone, Step, DaemonTypeOK, States
<1>14. CASE UNCHANGED vars
  BY <1>0, <1>14 DEF vars
<1> QED
  BY <1>1, <1>2, <1>3, <1>4, <1>5, <1>6, <1>7, <1>8, <1>9, <1>10, <1>11, <1>12, <1>13, <1>14
  DEF Next, Run, Serve, Continue

LEMMA TagInvHolds ==
  ASSUME InTurn
  PROVE  Spec => []TagInv
<1>1. TagInv /\ [Next]_vars => TagInv'
  BY StepTag
<1> QED
  BY <1>1, InitTag, PTL DEF Spec

(* At most one daemon of a tag lives (mount.rs: "Refuse if another daemon  *)
(* already owns this tag"), with daemons killed at any point, daemons      *)
(* without a socket, and commands that give up early, as long as the       *)
(* commands take turns and --foreground is used only where none lives:     *)
(* that branch of mount.rs does not look.                                  *)
THEOREM OnlyOneLives ==
  ASSUME InTurn
  PROVE  Spec => []OneOwner
<1>1. TagInv => OneOwner
  <2> SUFFICES ASSUME TagInv PROVE OneOwner
    OBVIOUS
  <2>1. CASE Living = {}
    BY <2>1, FS_EmptySet DEF OneOwner
  <2>2. CASE Living # {}
    <3>0. PICK d : d \in Living
      BY <2>2
    <3>1. Living = {d}
      BY <3>0 DEF TagInv, Owner
    <3> QED
      BY <3>1, FS_Singleton DEF OneOwner
  <2> QED
    BY <2>1, <2>2
<1> QED
  BY <1>1, TagInvHolds, PTL

(* The daemon that waits for a command has its pid file and, once its IPC  *)
(* server has bound it, its socket, whatever its predecessors left behind  *)
(* or cleaned up late.                                                     *)
THEOREM WaitingIsFound ==
  ASSUME InTurn
  PROVE  Spec => []WaitingIsReachable
<1>1. TagInv => WaitingIsReachable
  BY DEF TagInv, Owner, WaitingIsReachable, Binding, Naming
<1> QED
  BY <1>1, TagInvHolds, PTL

(* Only a command's own steps change what it answers.                      *)
LEMMA CommandAnswers ==
  ASSUME [Next]_vars, NEW c \in Command, cmd'[c] # cmd[c]
  PROVE  \E e \in Command : MountForeground(e) \/ MountCheck(e) \/ UnmountSend(e) \/ Continue(e)
<1>1. ASSUME NEW d \in Daemon, Run(d) \/ Serve(d) \/ Signal(d) \/ Kill(d)
      PROVE  cmd' = cmd
  BY <1>1 DEF Run, StartFails, MountFs, SpawnServe, WritePid, Wait, Drain, Release, CleanUp,
              Exit, Serve, Bind, BindFails, Unbound, Signal, Kill
<1> QED
  BY <1>1 DEF Next, QueueChanges, vars

(* What makes a command report success.                                    *)
LEMMA AnswerFromPong ==
  ASSUME LeftInv, [Next]_vars, NEW c \in Command,
         cmd[c].pc = "ping", cmd'[c].pc = "mounted"
  PROVE  Serving(socket) /\ cmd[c].child # None
<1> USE DEF LeftInv, DaemonTypeOK, Step
<1>1. PICK e \in Command :
        MountForeground(e) \/ MountCheck(e) \/ UnmountSend(e) \/ Continue(e)
  BY CommandAnswers
<1>2. CASE MountPong(e)
  <2>1. Serving(socket) /\ e = c
    BY <1>2 DEF MountPong
  <2> QED
    BY <2>1, DaemonAssumption DEF FilesKept
<1>3. CASE MountForeground(e) \/ MountCheck(e) \/ UnmountSend(e)
  BY <1>3 DEF MountForeground, MountCheck, UnmountSend, MayStart, NoCmd
<1>4. CASE MountClean(e) \/ MountSpawn(e) \/ MountGivesUp(e) \/ MountChildDied(e)
             \/ ForegroundReady(e) \/ UnmountDone(e)
  BY <1>4 DEF MountClean, MountSpawn, MountGivesUp, MountChildDied, ForegroundReady, UnmountDone
<1> QED
  BY <1>1, <1>2, <1>3, <1>4 DEF Continue

LEMMA EndOfPolling ==
  ASSUME LeftInv, [Next]_vars, "slow" \notin Hazards, NEW c \in Command,
         cmd[c].pc = "polling", cmd'[c].pc = "unmounted"
  PROVE  ~Stopping(pidfile)
<1> USE DEF LeftInv, DaemonTypeOK, Step
<1>1. PICK e \in Command :
        MountForeground(e) \/ MountCheck(e) \/ UnmountSend(e) \/ Continue(e)
  BY CommandAnswers
<1>2. CASE UnmountDone(e)
  BY <1>2 DEF UnmountDone
<1>3. CASE MountForeground(e) \/ MountCheck(e) \/ UnmountSend(e)
  BY <1>3 DEF MountForeground, MountCheck, UnmountSend, MayStart, NoCmd
<1>4. CASE MountClean(e) \/ MountSpawn(e) \/ MountPong(e) \/ MountGivesUp(e)
             \/ MountChildDied(e) \/ ForegroundReady(e)
  BY <1>4 DEF MountClean, MountSpawn, MountPong, MountGivesUp, MountChildDied, ForegroundReady
<1> QED
  BY <1>1, <1>2, <1>3, <1>4 DEF Continue

(* A mount that reports success has a live file system at its path.        *)
THEOREM MountTellsTheTruth ==
  ASSUME InTurn
  PROVE  Spec => MountedIsLive
<1> DEFINE A == \A c \in Command : cmd[c].pc = "ping" /\ cmd'[c].pc = "mounted" =>
                  \E d \in Daemon : mount[d] = "live" /\ Alive(d)
<1>1. TagInv /\ [Next]_vars => [A]_vars
  <2> SUFFICES ASSUME TagInv, [Next]_vars, NEW c \in Command,
                      cmd[c].pc = "ping", cmd'[c].pc = "mounted"
               PROVE  \E d \in Daemon : mount[d] = "live" /\ Alive(d)
    OBVIOUS
  <2>1. Serving(socket)
    BY AnswerFromPong DEF TagInv
  <2>2. socket \in Daemon /\ daemon[socket] \in {"waiting", "draining"} /\ Alive(socket)
    BY <2>1, ServingWaits, DaemonAssumption DEF TagInv, LeftInv, DaemonTypeOK, Alive
  <2>3. cmd[c].child = socket
    BY <2>2 DEF TagInv, Turns, Living
  <2>4. mount[socket] = "live"
    BY <2>2, <2>3 DEF TagInv, Owner, Awaited, Mounting
  <2> QED
    BY <2>2, <2>4
<1> QED
  BY <1>1, TagInvHolds, PTL DEF Spec, MountedIsLive

(* When an unmount that a daemon acknowledged reports success, nobody      *)
(* serves the file system, with daemons killed, drains that time out and   *)
(* umounts that fail, as long as the daemon ends within the time that the  *)
(* command waits.                                                          *)
THEOREM UnmountTellsTheTruth ==
  ASSUME InTurn, "slow" \notin Hazards
  PROVE  Spec => UnmountedIsGone
<1> DEFINE A == \A c \in Command : cmd[c].pc = "polling" /\ cmd'[c].pc = "unmounted" =>
                  \A d \in Daemon : mount[d] # "live"
<1>1. TagInv /\ [Next]_vars => [A]_vars
  <2> SUFFICES ASSUME TagInv, [Next]_vars, NEW c \in Command,
                      cmd[c].pc = "polling", cmd'[c].pc = "unmounted",
                      NEW d \in Daemon, mount[d] = "live"
               PROVE  FALSE
    OBVIOUS
  <2>1. ~Stopping(pidfile)
    BY EndOfPolling DEF TagInv
  <2>2. daemon[d] \in {"draining", "stopping"}
    BY DEF TagInv, Turns, LeftInv, FilesKept, Mounting
  <2>3. pidfile = d
    BY <2>2 DEF TagInv, Owner, Naming
  <2> QED
    BY <2>1, <2>2, <2>3, DaemonAssumption DEF Stopping
<1> QED
  BY <1>1, TagInvHolds, PTL DEF Spec, UnmountedIsGone

(* Only a killed daemon or a failed umount leaves a file system in the     *)
(* mount table that nobody serves: with UnmountTellsTheTruth, where        *)
(* neither happens an unmount that reports success has removed it.         *)
THEOREM LeftByFailure ==
  Spec => [](\A d \in Daemon : mount[d] = "left" => daemon[d] = "dead" \/ "busy" \in Hazards)
<1>1. LeftInv => \A d \in Daemon : mount[d] = "left" => daemon[d] = "dead" \/ "busy" \in Hazards
  BY DEF LeftInv, FilesKept
<1> QED
  BY <1>1, LeftInvHolds, PTL
=============================================================================
