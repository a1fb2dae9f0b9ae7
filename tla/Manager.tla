------------------------------ MODULE Manager ------------------------------
(***************************************************************************)
(* One solbuild process from the moment Manager.Build, Chroot, Index or    *)
(* Update has installed its signal handler (builder/manager.go).  Two      *)
(* goroutines: main executes the script of its operation (module Package)  *)
(* and then the deferred Cleanup; sig waits for a signal, marks the        *)
(* manager cancelled, runs Cleanup and exits the process.  They share the  *)
(* Manager's fields, some of them under m.lock, and the state the kernel   *)
(* keeps for the process: mounts, child processes, files.                  *)
(***************************************************************************)
EXTENDS Package, FiniteSets

CONSTANTS
    Confs,      \* the configurations to consider
    Envs        \* the environments to consider

(***************************************************************************)
(* signal: "none"; "longtask", one signal, while a command runs that does  *)
(* not end by itself any more; "any", one signal, anytime.  strays: the    *)
(* shell of a chroot may leave a process behind.  faults: bound on steps   *)
(* that fail by themselves.                                                *)
(***************************************************************************)
Env == [signal : {"none", "longtask", "any"}, strays : BOOLEAN, faults : Nat]

ASSUME ConfAssumption == Confs \subseteq Conf
ASSUME EnvAssumption == Envs \subseteq Env
ASSUME FiniteAssumption == IsFiniteSet(Sources) /\ IsFiniteSet(Caches)

VARIABLES
    conf,       \* the configuration of this run
    env,        \* the environment of this run
    pos,        \* main's position in its script
    err,        \* the error a "check" step is to return
    pc,         \* where each goroutine is
    mlock,      \* the goroutine that has m.lock, or "nobody"
    cancelled,  \* m.cancelled
    didStart,   \* m.didStart
    activePID,  \* m.activePID: 0, or the position of the "start" of a command
    dbusActive, \* m.pkgManager.dbusActive
    lockfile,   \* the lock file of the root, see LockStates
    mounts,     \* the mount points of the build root in use
    live,       \* the processes alive in the build root
    cmd,        \* the position of the "start" of the last command
    dbusPid,    \* whether the D-BUS pid file exists in the root
    jailed,     \* whether ChrootShell has moved the process into the build root
    offline,    \* whether DropNetworking has taken the network from a thread
    cmdNet,     \* whether the last command was started with the network
    exited,     \* whether the process is gone
    faults      \* steps that failed by themselves

vars == <<conf, env, pos, err, pc, mlock, cancelled, didStart, activePID, dbusActive,
          lockfile, mounts, live, cmd, dbusPid, jailed, offline, cmdNet, exited, faults>>

Goroutine == {"main", "sig"}

\* idle: sig has no signal yet.  run: main in its script.  cancel: sig in
\* SetCancelled.  done: Cleanup has returned.  The rest: Cleanup.
CleanupPC == {"cleanup", "stop1", "dead1", "stop2", "dead2", "cache", "kill", "murder",
              "deactivate", "murder2", "unmount", "unlock", "release"}
PC == {"idle", "run", "cancel", "done"} \cup CleanupPC

\* none: not opened.  open: opened.  held: locked.  removed: unlocked and
\* removed.  stale: unlocked, but the file could not be removed.
LockStates == {"none", "open", "held", "removed", "stale"}

MountPoints ==
    {"tmpfs", "img", "union", "dev", "dev/pts", "proc", "sys", "dev/shm", "pkgcache",
     "repo", "hostRepo", "root", "root/proc"} \cup Sources \cup Caches

Processes == {"cmd", "helper", "dbus", "sccache", "stray"}

\* The scripts, computed once.
Scripts == [c \in Confs |-> ManagerScript(c)]
Script == Scripts[conf]

TypeOK ==
    /\ conf \in Confs /\ env \in Envs
    /\ pos \in 1..(Len(Script) + 1)
    /\ err \in BOOLEAN
    /\ pc \in [Goroutine -> PC]
    /\ mlock \in Goroutine \cup {"nobody"}
    /\ cancelled \in BOOLEAN /\ didStart \in BOOLEAN /\ dbusActive \in BOOLEAN
    /\ activePID \in 0..Len(Script) /\ cmd \in 0..Len(Script)
    /\ lockfile \in LockStates
    /\ mounts \subseteq MountPoints
    /\ live \subseteq Processes
    /\ dbusPid \in BOOLEAN /\ jailed \in BOOLEAN /\ exited \in BOOLEAN
    /\ offline \in BOOLEAN /\ cmdNet \in BOOLEAN
    /\ faults \in 0..env.faults

Init ==
    /\ conf \in Confs
    /\ env \in Envs
    /\ pos = 1
    /\ err = FALSE
    /\ pc = [g \in Goroutine |-> IF g = "main" THEN "run" ELSE "idle"]
    /\ mlock = "nobody"
    /\ cancelled = FALSE
    /\ didStart = FALSE
    /\ activePID = 0
    /\ dbusActive = FALSE
    /\ lockfile = "none"
    /\ mounts = {}
    /\ live = {}
    /\ cmd = 0
    /\ dbusPid = FALSE
    /\ jailed = FALSE
    /\ offline = FALSE
    /\ cmdNet = FALSE
    /\ exited = FALSE
    /\ faults = 0

-----------------------------------------------------------------------------
(***************************************************************************)
(* How main moves through its script                                       *)
(***************************************************************************)
Goto(g, l) == pc' = [pc EXCEPT ![g] = l]

\* Main is about to execute a step op.
At(op) == ~exited /\ pc["main"] = "run" /\ pos <= Len(Script) /\ Script[pos].op = op

Ok == pos' = pos + 1 /\ UNCHANGED <<pc, err, faults>>

\* The step fails: its error is returned, which runs the deferred Cleanup, or
\* swallowed, or kept.
Fail ==
    /\ err' = (err \/ Script[pos].keep)
    /\ IF Script[pos].onErr = 0
       THEN Goto("main", "cleanup") /\ UNCHANGED pos
       ELSE pos' = pos + Script[pos].onErr /\ UNCHANGED pc

\* Something fails by itself.
Fault == faults < env.faults /\ faults' = faults + 1

Err == Fault /\ Fail

given == <<conf, env>>
manVars == <<mlock, cancelled, didStart, activePID, dbusActive, lockfile>>
netVars == <<offline, cmdNet>>
sysVars == <<mounts, live, cmd, dbusPid, jailed, netVars>>

-----------------------------------------------------------------------------
(***************************************************************************)
(* The steps of a script                                                   *)
(***************************************************************************)
Io_ ==
    /\ At("io")
    /\ Ok \/ Err
    /\ UNCHANGED <<given, manVars, sysVars, exited>>

\* NewLockFile; m.lockfile is set.
NewLock ==
    /\ At("newlock")
    /\ \/ Ok /\ lockfile' = "open"
       \/ Err /\ UNCHANGED lockfile
    /\ UNCHANGED <<given, mlock, cancelled, didStart, activePID, dbusActive, sysVars, exited>>

\* m.lockfile.Lock, as module LockFile has it: it may be refused, or fail
\* after the flock is taken.
Lock ==
    /\ At("lock")
    /\ \/ Ok /\ lockfile' = "held"
       \/ Err /\ lockfile' \in {"open", "held"}
    /\ UNCHANGED <<given, mlock, cancelled, didStart, activePID, dbusActive, sysVars, exited>>

Started ==
    /\ At("started")
    /\ Ok
    /\ didStart' = TRUE
    /\ UNCHANGED <<given, mlock, cancelled, activePID, dbusActive, lockfile, sysVars, exited>>

\* GetProfile takes m.lock and gives it back.
GetProfile ==
    /\ At("locked")
    /\ mlock = "nobody"
    /\ Ok
    /\ UNCHANGED <<given, manVars, sysVars, exited>>

\* MountManager.Mount and BindMount.
DoMount ==
    /\ At("mount")
    /\ \/ Ok /\ mounts' = mounts \cup {Script[pos].arg}
       \/ Err /\ UNCHANGED mounts
    /\ UNCHANGED <<given, manVars, live, cmd, dbusPid, jailed, netVars, exited>>

\* EnsureEopkgLayout removes /run, and with it the pid file of D-BUS.
EnsureEopkgLayout ==
    /\ At("layout")
    /\ \/ Ok /\ dbusPid' = FALSE
       \/ Err /\ dbusPid' \in {dbusPid, FALSE}
    /\ UNCHANGED <<given, manVars, mounts, live, cmd, jailed, netVars, exited>>

\* EopkgManager.Init removes a pid file of D-BUS.
RemoveDbusPid ==
    /\ At("rmpid")
    /\ \/ Ok /\ dbusPid' = FALSE
       \/ Err /\ UNCHANGED dbusPid
    /\ UNCHANGED <<given, manVars, mounts, live, cmd, jailed, netVars, exited>>

\* The directory commands are run in.
Root == IF conf.op = "update" THEN "root" ELSE "union"

\* DropNetworking: unshare(CLONE_NEWNET) for the thread main runs on now.
Unshare ==
    /\ At("unshare")
    /\ \/ Ok /\ offline' = TRUE
       \/ Err /\ UNCHANGED offline
    /\ UNCHANGED <<given, manVars, mounts, live, cmd, dbusPid, jailed, cmdNet, exited>>

\* Whether the thread a goroutine runs on is one without the network: nothing
\* locks the goroutine to the thread that called unshare.
OnThread == {offline, FALSE}

\* exec.Command(...).Start, which forks from the thread of the goroutine.  A
\* command in a root that is not there ends at once.
StartCommand ==
    /\ At("start")
    /\ \/ /\ Ok
          /\ cmd' = pos
          /\ live' = IF Root \in mounts THEN live \cup {"cmd"} ELSE live
          /\ \E off \in OnThread : cmdNet' = ~off
       \/ Err /\ UNCHANGED <<cmd, live, cmdNet>>
    /\ UNCHANGED <<given, manVars, mounts, dbusPid, jailed, offline, exited>>

\* SetActivePID(c.Process.Pid)
NotifyPID ==
    /\ At("notify")
    /\ mlock = "nobody"
    /\ activePID' = cmd
    /\ Ok
    /\ UNCHANGED <<given, mlock, cancelled, didStart, dbusActive, lockfile, sysVars, exited>>

\* SetActivePID(0)
SetActivePID0 ==
    /\ At("reset")
    /\ mlock = "nobody"
    /\ activePID' = 0
    /\ Ok
    /\ UNCHANGED <<given, mlock, cancelled, didStart, dbusActive, lockfile, sysVars, exited>>

\* dbus-daemon --system forks the daemon, which writes its pid file.
DbusForks ==
    /\ ~exited
    /\ "cmd" \in live
    /\ "dbus" \notin live
    /\ Script[cmd].arg = "dbus-daemon"
    /\ live' = live \cup {"dbus"}
    /\ dbusPid' = TRUE
    /\ UNCHANGED <<given, pos, err, pc, manVars, mounts, cmd, jailed, netVars, exited, faults>>

\* A session whose commands do not end by themselves between the signal and the
\* kill.  With env.signal = "any" they may.
LongTask == env.signal = "longtask" /\ pc["sig"] # "idle"

\* Wait returns: the command succeeded, failed, or was killed.
Wait ==
    /\ At("wait")
    /\ \/ /\ "cmd" \in live
          /\ ~LongTask
          /\ \/ /\ Script[cmd].arg = "dbus-daemon" => "dbus" \in live
                /\ Ok
                /\ \/ live' = live \ {"cmd"}
                   \/ /\ env.strays /\ Script[cmd].arg = "shell"
                      /\ live' = (live \ {"cmd"}) \cup {"stray"}
             \/ Err /\ live' = live \ {"cmd"}
       \/ "cmd" \notin live /\ Fail /\ UNCHANGED <<live, faults>>
    /\ UNCHANGED <<given, manVars, mounts, cmd, dbusPid, jailed, netVars, exited>>

\* return err, of an error kept since.
Check ==
    /\ At("check")
    /\ IF err THEN Fail /\ UNCHANGED faults ELSE Ok
    /\ UNCHANGED <<given, manVars, sysVars, exited>>

\* A command of libosdev starts, and ends.
HelperStarts ==
    /\ At("helper")
    /\ \/ Ok /\ live' = IF Root \in mounts THEN live \cup {"helper"} ELSE live
       \/ Err /\ UNCHANGED live
    /\ UNCHANGED <<given, manVars, mounts, cmd, dbusPid, jailed, netVars, exited>>

\* sccache --start-server leaves the server behind.
HelperEnds ==
    /\ At("helped")
    /\ \/ /\ "helper" \in live
          /\ Ok
          /\ live' = (live \ {"helper"})
                         \cup (IF Script[pos].arg = "sccache" THEN {"sccache"} ELSE {})
       \/ "helper" \in live /\ Err /\ live' = live \ {"helper"}
       \/ "helper" \notin live /\ Fail /\ UNCHANGED <<live, faults>>
    /\ UNCHANGED <<given, manVars, mounts, cmd, dbusPid, jailed, netVars, exited>>

\* StartDBUS has succeeded: dbusActive = true
DbusUp ==
    /\ At("dbusup")
    /\ Ok
    /\ dbusActive' = TRUE
    /\ UNCHANGED <<given, mlock, cancelled, didStart, activePID, lockfile, sysVars, exited>>

\* StopDBUS: nothing to do, or the pid file is opened, or it is not there.
DbusOpen ==
    /\ At("dbusopen")
    /\ \/ ~dbusActive /\ pos' = pos + 2 /\ UNCHANGED <<pc, err, faults>>
       \/ dbusActive /\ dbusPid /\ Ok
       \/ dbusActive /\ ~dbusPid /\ Fail /\ UNCHANGED faults
       \/ dbusActive /\ dbusPid /\ Err
    /\ UNCHANGED <<given, manVars, sysVars, exited>>

\* The rest of StopDBUS: kill -9, and whatever came of it the deferred removal
\* of the pid file.
DbusKill ==
    /\ At("dbuskill")
    /\ \/ "dbus" \in live /\ Ok /\ live' = live \ {"dbus"}
       \/ "dbus" \in live /\ Err /\ UNCHANGED live
       \/ "dbus" \notin live /\ Fail /\ UNCHANGED <<live, faults>>
    /\ dbusPid' = FALSE
    /\ dbusActive' = FALSE
    /\ UNCHANGED <<given, mlock, cancelled, didStart, activePID, lockfile, mounts, cmd,
                   jailed, netVars, exited>>

\* ChrootShell changes the root of the process, and goes back.  A call that
\* fails leaves it inside: its working directory is the build root already.
ChrootSelf ==
    /\ At("jail") \/ At("unjail")
    /\ \/ Ok /\ jailed' = (Script[pos].op = "jail")
       \/ Err /\ jailed' = TRUE
    /\ UNCHANGED <<given, manVars, mounts, live, cmd, dbusPid, netVars, exited>>

\* The script is over: the deferred Cleanup.
Return ==
    /\ ~exited /\ pc["main"] = "run" /\ pos > Len(Script)
    /\ Goto("main", "cleanup")
    /\ UNCHANGED <<given, pos, err, manVars, sysVars, exited, faults>>

RunScript ==
    \/ Io_ \/ NewLock \/ Lock \/ Started \/ GetProfile \/ DoMount \/ EnsureEopkgLayout
    \/ RemoveDbusPid \/ Unshare \/ StartCommand \/ NotifyPID \/ SetActivePID0 \/ Wait \/ Check
    \/ HelperStarts \/ HelperEnds \/ DbusUp \/ DbusOpen \/ DbusKill \/ ChrootSelf
    \/ Return

-----------------------------------------------------------------------------
(***************************************************************************)
(* Cleanup, by either goroutine                                            *)
(***************************************************************************)
\* Whether a goroutine finds the paths of the build root below its own root.
\* The root ChrootShell changes is that of one thread and the threads made
\* from it; which thread a goroutine runs on is up to the Go scheduler.  With
\* only the working directory inside, every goroutine finds the paths.
SeesJail == {jailed, FALSE}

\* Processes that keep the root from being unmounted.
RootInUse == live # {} \/ jailed

\* MountManager.UnmountAll, innermost mounts first.  Under a root that is in
\* use everything but the root itself goes.
Unmounted == IF RootInUse THEN mounts \cap {"tmpfs", Root} ELSE {}

\* Commands that leave the top directory of the root.
Elsewhere == {"cd; index", "cd; index repo", "cd; abi-wizard", "shell"}

\* What MurderDeathKill leaves alive: it looks at the working directory of
\* every process and spares those that are below the top of the root.
Murdered ==
    IF cmd # 0 /\ Script[cmd].arg \in Elsewhere THEN live \cap {"cmd", "stray"}
    ELSE live \cap {"stray"}

Cleaning(g, from, to) == ~exited /\ pc[g] = from /\ Goto(g, to)

\* Mutant: m.lock is taken for the kills only, not for the whole of Cleanup.
MutEnterCleanupUnlocked(g) ==
    /\ ~exited /\ pc[g] = "cleanup"
    /\ Goto(g, IF didStart THEN "stop1" ELSE "done")
    /\ UNCHANGED <<given, pos, err, manVars, sysVars, exited, faults>>

\* Cleanup does nothing unless doLock succeeded, and else waits for m.lock.
EnterCleanup(g) ==
    /\ ~exited /\ pc[g] = "cleanup"
    /\ \/ ~didStart /\ Goto(g, "done") /\ UNCHANGED mlock
       \/ didStart /\ mlock = "nobody" /\ Goto(g, "stop1") /\ mlock' = g
    /\ UNCHANGED <<given, pos, err, cancelled, didStart, activePID, dbusActive, lockfile,
                   sysVars, exited, faults>>

\* StopDBUS, called by Cleanup and again by EopkgManager.Cleanup, which both
\* drop its error: it opens the pid file if there is a daemon to stop.
OpenDbusPid(g, from, dead, next) ==
    /\ ~exited /\ pc[g] = from
    /\ \/ /\ \E in \in SeesJail :
                Goto(g, IF dbusActive /\ dbusPid /\ ~in THEN dead ELSE next)
          /\ UNCHANGED faults
       \/ dbusActive /\ Fault /\ Goto(g, next)
    /\ UNCHANGED <<given, pos, err, manVars, sysVars, exited>>

KillDbus(g, dead, next) ==
    /\ Cleaning(g, dead, next)
    /\ \/ live' = live \ {"dbus"} /\ UNCHANGED faults
       \/ Fault /\ UNCHANGED live
    /\ dbusPid' = FALSE
    /\ dbusActive' = FALSE
    /\ UNCHANGED <<given, pos, err, mlock, cancelled, didStart, activePID, lockfile, mounts,
                   cmd, jailed, netVars, exited>>

\* EopkgManager.Cleanup unmounts the package cache.
UnmountCache(g) ==
    /\ Cleaning(g, "cache", "kill")
    /\ \E in \in SeesJail : mounts' = IF in THEN mounts ELSE mounts \ {"pkgcache"}
    /\ UNCHANGED <<given, pos, err, manVars, live, cmd, dbusPid, jailed, netVars, exited, faults>>

\* Mutant: the PID is cleared before it is used.
MutKillActive(g) ==
    /\ Cleaning(g, "kill", "murder")
    /\ activePID' = 0
    /\ UNCHANGED <<given, pos, err, mlock, cancelled, didStart, dbusActive, lockfile, live, mounts,
                   cmd, dbusPid, jailed, netVars, exited, faults>>

\* SIGKILL to the process group of the active PID.
KillActive(g) ==
    /\ Cleaning(g, "kill", "murder")
    /\ live' = IF activePID # 0 /\ activePID = cmd THEN live \ {"cmd"} ELSE live
    /\ activePID' = 0
    /\ UNCHANGED <<given, pos, err, mlock, cancelled, didStart, dbusActive, lockfile, mounts,
                   cmd, dbusPid, jailed, netVars, exited, faults>>

MurderDeathKill(g, from, to) ==
    /\ Cleaning(g, from, to)
    /\ \E in \in SeesJail : live' = IF in THEN live ELSE Murdered
    /\ UNCHANGED <<given, pos, err, manVars, mounts, cmd, dbusPid, jailed, netVars, exited, faults>>

\* Package.DeactivateRoot, in all operations but update: MurderDeathKill and
\* then Overlay.Unmount, whose own list of mounts is part of what the
\* UnmountAll that follows takes down.
Deactivate(g) ==
    /\ Cleaning(g, "deactivate", "murder2")
    /\ \E in \in SeesJail :
          IF in \/ conf.op = "update" THEN UNCHANGED <<live, mounts>>
          ELSE /\ live' = Murdered
               /\ mounts' = IF Murdered = {} /\ ~jailed THEN {}
                            ELSE mounts \cap {"tmpfs", Root}
    /\ UNCHANGED <<given, pos, err, manVars, cmd, dbusPid, jailed, netVars, exited, faults>>

\* Mutant: Cleanup relies on DeactivateRoot for the unmounting.
MutUnmountAllSkipped(g) ==
    /\ Cleaning(g, "unmount", "unlock")
    /\ UNCHANGED <<given, pos, err, manVars, sysVars, exited, faults>>

UnmountAll(g) ==
    /\ Cleaning(g, "unmount", "unlock")
    /\ \E in \in SeesJail : mounts' = IF in THEN mounts ELSE Unmounted
    /\ UNCHANGED <<given, pos, err, manVars, live, cmd, dbusPid, jailed, netVars, exited, faults>>

\* lockfile.Unlock by descriptor, lockfile.Clean by path.
UnlockFile(g) ==
    /\ Cleaning(g, "unlock", "release")
    /\ \E in \in SeesJail : lockfile' = IF in THEN "stale" ELSE "removed"
    /\ UNCHANGED <<given, pos, err, mlock, cancelled, didStart, activePID, dbusActive, sysVars,
                   exited, faults>>

\* The deferred m.lock.Unlock.
LeaveCleanup(g) ==
    /\ Cleaning(g, "release", "done")
    /\ mlock' = "nobody"
    /\ UNCHANGED <<given, pos, err, cancelled, didStart, activePID, dbusActive, lockfile,
                   sysVars, exited, faults>>

Cleanup(g) ==
    \/ EnterCleanup(g)
    \/ OpenDbusPid(g, "stop1", "dead1", "stop2") \/ KillDbus(g, "dead1", "stop2")
    \/ OpenDbusPid(g, "stop2", "dead2", "cache") \/ KillDbus(g, "dead2", "cache")
    \/ UnmountCache(g) \/ KillActive(g) \/ MurderDeathKill(g, "murder", "deactivate")
    \/ Deactivate(g) \/ MurderDeathKill(g, "murder2", "unmount") \/ UnmountAll(g)
    \/ UnlockFile(g) \/ LeaveCleanup(g)

-----------------------------------------------------------------------------
(***************************************************************************)
(* The signal goroutine of SigIntCleanup, and the end of the process       *)
(***************************************************************************)
\* SIGINT or SIGTERM.
Interrupt ==
    /\ ~exited /\ pc["sig"] = "idle"
    /\ \/ env.signal = "any"
       \/ env.signal = "longtask" /\ At("wait") /\ "cmd" \in live
    /\ Goto("sig", "cancel")
    /\ UNCHANGED <<given, pos, err, manVars, sysVars, exited, faults>>

\* Mutant: m.lock is not given back.
MutSetCancelledKeepsLock ==
    /\ Cleaning("sig", "cancel", "cleanup")
    /\ mlock = "nobody"
    /\ cancelled' = TRUE
    /\ mlock' = "sig"
    /\ UNCHANGED <<given, pos, err, didStart, activePID, dbusActive, lockfile, sysVars,
                   exited, faults>>

SetCancelled ==
    /\ Cleaning("sig", "cancel", "cleanup")
    /\ mlock = "nobody"
    /\ cancelled' = TRUE
    /\ UNCHANGED <<given, pos, err, mlock, didStart, activePID, dbusActive, lockfile, sysVars,
                   exited, faults>>

\* main returns to the command line, which ends the process; os.Exit(1) of
\* sig does.  The kernel drops the flock; mounts and children stay.
Exit(g) ==
    /\ ~exited /\ pc[g] = "done"
    /\ exited' = TRUE
    /\ lockfile' = IF lockfile = "held" THEN "stale" ELSE lockfile
    /\ UNCHANGED <<given, pos, err, pc, mlock, cancelled, didStart, activePID, dbusActive,
                   sysVars, faults>>

MainStep == RunScript \/ Cleanup("main") \/ Exit("main")
SigStep == SetCancelled \/ Cleanup("sig") \/ Exit("sig")

Next == MainStep \/ SigStep \/ Interrupt \/ DbusForks

\* Runnable goroutines run, and commands end; nothing makes a signal come.
Spec == Init /\ [][Next]_vars
            /\ WF_vars(MainStep) /\ WF_vars(SigStep) /\ WF_vars(DbusForks)

-----------------------------------------------------------------------------
(***************************************************************************)
(* Properties                                                              *)
(***************************************************************************)
\* Cleanup "ensures all cleaning is handled": when the process is gone nothing
\* of the root is mounted, nothing runs in it and the lock file is removed, if
\* doLock succeeded, the process did not end inside the chroot, no shell left a
\* process behind, and the signal, if there was one, came while main waited for a
\* command other than a shell, which ran on until Cleanup killed it.  (A command
\* that ends by itself before that lets main go on under Cleanup, as in NoOrphans.)
CleanExit ==
    exited /\ didStart /\ ~jailed /\ env.signal # "any"
        /\ (conf.op = "chroot" => ~cancelled /\ ~env.strays)
        => mounts = {} /\ live = {} /\ lockfile = "removed"

\* StopDBUS finds the daemon by its pid file: until a Cleanup begins, the
\* daemon runs while dbusActive is set and EnsureEopkgLayout has not removed
\* the file.
DbusFindable ==
    dbusActive /\ (\A g \in Goroutine : pc[g] \in {"idle", "run", "cancel"}) =>
        dbusPid /\ "dbus" \in live

\* The session implements the promise of BuildRoot: root touched only under
\* the lock file, lock file given back only when the root is clean, and given
\* back in the end.  Sessions with a shell, and sessions that may get a signal
\* while main is not waiting or whose command may end by itself between the
\* signal and the kill, promise nothing of the kind.
Promising == conf.op # "chroot" /\ env.signal # "any"
Promise == INSTANCE BuildRoot WITH
    owned <- Promising /\ lockfile = "held",
    dirty <- Promising /\ (mounts # {} \/ live # {})
KeepsPromise == Promise!Spec

\* BindSources "will make the sources available to the chroot": a build command
\* runs with every source and, in a ypkg build, every cache bound, unless a step
\* before failed and its error was dropped, or the root is being torn down.
SourcesBound ==
    At("wait") /\ "cmd" \in live /\ Script[pos].arg = "build" /\ faults = 0
        /\ pc["sig"] \in {"idle", "cancel", "cleanup"}
        => Sources \cup (IF conf.type = "ypkg" THEN Caches ELSE {}) \subseteq mounts

\* Cleanup "takes an exclusive lock": the goroutine that is past the lock has
\* it, so the two teardowns of an interrupted session never overlap.
CleanupExclusive ==
    \A g \in Goroutine : pc[g] \in CleanupPC \ {"cleanup"} => mlock = g

\* A signal ends the process: the goroutines never wait for each other.
SignalEndsProcess == pc["sig"] = "cancel" ~> exited

\* "Still might have *something* alive in there, kill it with fire": after a
\* Cleanup that got to removing the lock file, no process in the root outlives
\* solbuild.
NoOrphans == exited /\ lockfile = "removed" => live = {}

\* "the tool will also disable all networking within the environment": the
\* build command of a package that may not network runs without it.
BuildOffline ==
    At("wait") /\ "cmd" \in live /\ Script[pos].arg = "build"
        /\ conf.type = "ypkg" /\ ~conf.net => ~cmdNet
=============================================================================
