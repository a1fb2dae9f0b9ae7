--------------------------- MODULE ManagerProofs ---------------------------
(***************************************************************************)
(* What holds of Manager for every configuration, whatever fails and       *)
(* whenever the signal comes.                                              *)
(*                                                                         *)
(* PackageProofs says what is known at each position of a script (Know).   *)
(* The invariant adds what the variables are where main is (Doing,         *)
(* Locking, Bus, Bound), and what is left of the root as a teardown goes   *)
(* on (Teardown).                                                          *)
(***************************************************************************)
EXTENDS PackageProofs

-----------------------------------------------------------------------------
(***************************************************************************)
(* The inductive invariant                                                 *)
(***************************************************************************)
Know(c) == CHOOSE f : Fits(c, f)

\* What is known where main is.
St == Know(conf)[pos]

\* The script has been left by no return yet.
Running == pc["main"] = "run"

\* The signal goroutine before and after the kill of the active command.
Early == {"cancel", "cleanup", "stop1", "dead1", "stop2", "dead2", "cache", "kill"}
Late == {"murder", "deactivate", "murder2", "unmount", "unlock", "release", "done"}

\* m.lock is somebody's only while that goroutine is in Cleanup: SetActivePID,
\* SetCancelled and GetProfile give it back in the step that takes it.
LockInv ==
    /\ DOMAIN pc = Goroutine
    /\ CleanupExclusive

\* Where the goroutines can be.
Places ==
    /\ pc["sig"] = "idle" \/ pc["sig"] \in Early \cup Late
    /\ pc["sig"] # "idle" => env.signal # "none"
    /\ pc["sig"] \notin {"idle", "cancel"} => cancelled
    /\ pc["main"] \notin {"idle", "cancel"}
    /\ exited => \E g \in Goroutine : pc[g] = "done"

\* A command or helper lives no longer than main is busy with it, and the
\* command can be told from activePID.
Doing ==
    /\ "cmd" \in live => Running /\ St.ph \in {"started", "notified"}
    /\ "helper" \in live => Running /\ St.ph = "helping"
    /\ "stray" \in live => env.strays /\ conf.op = "chroot"
    /\ Running /\ St.ph \in {"started", "notified"} =>
          /\ cmd # 0 /\ Script[cmd].arg = St.cmd
          /\ St.cmd = "shell" => conf.op = "chroot"
    /\ Running /\ St.ph = "notified" /\ pc["sig"] \notin Late => activePID = cmd
    /\ jailed => conf.op = "chroot"

\* The root is untouched before doLock is through.
Locking ==
    /\ didStart <=> St.lock = "started"
    /\ ~didStart => mounts = {} /\ live = {}
    /\ ~didStart /\ Running /\ ~exited => lockfile = St.lock
    /\ didStart => lockfile # "none" /\ lockfile # "open"
    /\ \A g \in Goroutine : pc[g] \in CleanupPC \ {"cleanup"} => didStart

Undisturbed == Running /\ pc["sig"] \in {"idle", "cancel", "cleanup"}

\* The daemon and its pid file while no Cleanup has begun.
Bus ==
    Undisturbed =>
        /\ dbusActive => St.dbus = "on"
        /\ St.dbus = "up" => dbusPid /\ "dbus" \in live
        /\ St.dbus = "on" => dbusActive /\ dbusPid /\ "dbus" \in live
        /\ St.dbus = "off" /\ St.cmd # "dbus-daemon" => "dbus" \notin live
        /\ St.dbus = "off" /\ "dbus" \in live => dbusPid

\* What is mounted while nothing has failed.
Bound == Undisturbed /\ faults = 0 => St.bound \subseteq mounts

\* The sessions of CleanExit: no signal but while main waits for a command that
\* is not a shell, and no process left behind by a shell.
Calm == env.signal # "any" /\ (conf.op = "chroot" => ~cancelled /\ ~env.strays)

\* Main waits for a command that is dead, or is on its way to its own Cleanup
\* with nothing on that way but file system work and the reset of the PID.
Stopped ==
    \/ ~Running
    \/ pos <= Len(Script) /\ Script[pos].op = "wait" /\ "cmd" \notin live
    \/ St.dbus = "tail"
    \/ /\ err /\ pos + 1 <= Len(Script) /\ Script[pos].op = "reset"
       /\ Script[pos + 1].op = "check" /\ Script[pos + 1].onErr = 0
    \/ err /\ pos <= Len(Script) /\ Script[pos].op = "check" /\ Script[pos].onErr = 0

\* What a goroutine has torn down when it is so far in Cleanup.
Torn(g) ==
    didStart /\ ~jailed =>
        /\ pc[g] \in Late \ {"murder"} => live = {}
        /\ pc[g] \in {"unlock", "release", "done"} => mounts = {}
        /\ pc[g] \in {"release", "done"} => lockfile = "removed"

Teardown ==
    Calm =>
        /\ pc["sig"] \in Early =>
              Running /\ pos <= Len(Script) /\ Script[pos].op = "wait" /\ "cmd" \in live
        /\ pc["sig"] \in Late => Stopped
        /\ \A g \in Goroutine : Torn(g)
        /\ didStart /\ lockfile # "held" =>
              \E g \in Goroutine : pc[g] \in {"release", "done"}

IndInv == TypeOK /\ Places /\ Doing /\ Locking /\ Bus /\ Bound /\ Teardown

-----------------------------------------------------------------------------
(***************************************************************************)
(* Moves of main                                                           *)
(***************************************************************************)
\* The script and what is known of it are those of the configuration.
LEMMA ScriptIs ==
    ASSUME conf \in Confs
    PROVE  Script = ManagerScript(conf) /\ Fits(conf, Know(conf)) /\ Len(Script) \in Nat
<1>1. conf \in Conf
  BY ConfAssumption
<1>2. Script = ManagerScript(conf)
  BY DEF Script, Scripts
<1>3. Fits(conf, Know(conf))
  BY <1>1, ScriptsFit DEF Know
<1>4. PICK X : Script \in Seq(X)
  BY <1>2, <1>3 DEF Fits, Typed
<1> QED BY <1>2, <1>3, <1>4

\* Both are the same after any step.
LEMMA ScriptStays ==
    ASSUME conf' = conf
    PROVE  Script' = Script /\ Know(conf)' = Know(conf) /\ (pos' = pos => St' = St)
BY DEF Script, St

\* What a step of the script does.
LEMMA StepFacts ==
    ASSUME conf \in Confs, pos \in 1..Len(Script)
    PROVE  /\ IsStep(Script[pos]) /\ Follows(conf, Script[pos], St, Know(conf)[pos + 1])
           /\ Script[pos].onErr # 0 => Lands(conf, Script, Know(conf), pos)
BY ScriptIs DEF Fits, Typed, St

\* A step succeeds.
LEMMA OkMoves ==
    ASSUME conf \in Confs, pos \in 1..(Len(Script) + 1), pos <= Len(Script), Ok, conf' = conf
    PROVE  /\ pos' \in 1..(Len(Script) + 1) /\ pc' = pc /\ err' = err /\ faults' = faults
           /\ IsStep(Script[pos]) /\ Follows(conf, Script[pos], St, St')
<1>1. Len(Script) \in Nat
  BY ScriptIs
<1>2. pos \in 1..Len(Script)
  BY <1>1
<1>3. St' = Know(conf)[pos + 1]
  BY DEF Ok, St
<1> QED BY <1>1, <1>2, <1>3, StepFacts DEF Ok

\* A step fails.
LEMMA FailMoves ==
    ASSUME conf \in Confs, pos \in 1..(Len(Script) + 1), pos <= Len(Script), Fail, conf' = conf
    PROVE  /\ pos' \in 1..(Len(Script) + 1) /\ IsStep(Script[pos])
           /\ Follows(conf, Script[pos], St, Know(conf)[pos + 1])
           /\ err' = (err \/ Script[pos].keep)
           /\ \/ /\ Script[pos].onErr = 0 /\ pos' = pos /\ St' = St
                 /\ pc' = [pc EXCEPT !["main"] = "cleanup"]
              \/ /\ Script[pos].onErr # 0 /\ pos' = pos + Script[pos].onErr /\ pc' = pc
                 /\ Lands(conf, Script, Know(conf), pos) /\ St' = Know(conf)[pos']
                 /\ Landed(St, St')
<1>1. Len(Script) \in Nat
  BY ScriptIs
<1>2. pos \in 1..Len(Script)
  BY <1>1
<1>3. /\ IsStep(Script[pos]) /\ Follows(conf, Script[pos], St, Know(conf)[pos + 1])
      /\ Script[pos].onErr # 0 => Lands(conf, Script, Know(conf), pos)
  BY <1>2, StepFacts
<1>4. err' = (err \/ Script[pos].keep)
  BY DEF Fail
<1>5. CASE Script[pos].onErr = 0
  <2>1. pos' = pos /\ pc' = [pc EXCEPT !["main"] = "cleanup"]
    BY <1>5 DEF Fail, Goto
  <2>2. St' = St
    BY <2>1 DEF St
  <2> QED BY <1>3, <1>4, <1>5, <2>1, <2>2
<1>6. CASE Script[pos].onErr # 0
  <2>1. pos' = pos + Script[pos].onErr /\ pc' = pc
    BY <1>6 DEF Fail
  <2>2. Lands(conf, Script, Know(conf), pos)
    BY <1>3, <1>6
  <2>3. St' = Know(conf)[pos']
    BY DEF St
  <2>4. Script[pos].onErr \in Nat
    BY <1>3 DEF IsStep
  <2>5. pos' <= Len(Script) + 1 /\ Landed(St, St')
    BY <2>1, <2>2, <2>3 DEF Lands, Landed, St
  <2>6. pos' \in 1..(Len(Script) + 1)
    BY <1>1, <1>2, <2>1, <2>4, <2>5
  <2> QED BY <1>3, <1>4, <1>6, <2>1, <2>2, <2>3, <2>5, <2>6
<1> QED BY <1>5, <1>6

\* StopDBUS is two steps; the second leaves no daemon.
Skips ==
    LET y == Know(conf)[pos + 2]
    IN  /\ pos + 2 \in 1..(Len(Script) + 1)
        /\ y.lock = St.lock /\ y.ph = "none" /\ y.cmd = "" /\ y.dbus = "off"
        /\ y.bound = St.bound

\* Where main is when StopDBUS has nothing to kill: past both of its steps.
LEMMA DbusSkips ==
    ASSUME conf \in Confs, pos \in 1..(Len(Script) + 1), pos <= Len(Script),
           Script[pos].op = "dbusopen"
    PROVE  Skips /\ St.ph = "none" /\ St.cmd = "" /\ St.lock = "started"
<1> DEFINE f == Know(conf)
           x == f[pos]
           y == f[pos + 1]
           z == f[pos + 2]
<1>1. Len(Script) \in Nat /\ pos \in 1..Len(Script)
  BY ScriptIs
<1>2. Follows(conf, Script[pos], x, y)
  BY <1>1, StepFacts DEF St
<1> HIDE DEF f
<1>3. /\ y.ph = "stopping" /\ y.lock = x.lock /\ y.bound = x.bound
      /\ x.ph = "none" /\ x.cmd = "" /\ x.lock = "started"
  BY <1>2 DEF Follows, FollowsPhase, FollowsLock, FollowsMounts, LockOps
<1>4. f[Len(Script) + 1].ph = "none"
  BY ScriptIs DEF Fits, f
<1>5. pos + 1 # Len(Script) + 1
  BY <1>3, <1>4
<1>6. pos + 1 \in 1..Len(Script) /\ pos + 2 \in 1..(Len(Script) + 1) /\ (pos + 1) + 1 = pos + 2
  BY <1>1, <1>5
<1>7. IsStep(Script[pos + 1]) /\ Follows(conf, Script[pos + 1], y, z)
  BY <1>6, ScriptIs DEF Fits, Typed, f
<1>8. Script[pos + 1].op = "dbuskill"
  BY <1>3, <1>7 DEF Follows, FollowsPhase, PhaseOps
<1>9. z.ph = "none" /\ z.lock = y.lock /\ z.bound = y.bound /\ z.cmd = "" /\ z.dbus = "off"
  BY <1>7, <1>8 DEF Follows, FollowsPhase, FollowsLock, FollowsMounts, FollowsDbus, LockOps
<1> QED BY <1>3, <1>6, <1>9 DEF Skips, St, f

-----------------------------------------------------------------------------
(***************************************************************************)
(* Types                                                                   *)
(***************************************************************************)
\* The part of TypeOK that a move of main changes, and the rest.
Moved ==
    /\ pos \in 1..(Len(Script) + 1) /\ err \in BOOLEAN
    /\ pc \in [Goroutine -> PC] /\ faults \in 0..env.faults
Rest_ ==
    /\ mlock \in Goroutine \cup {"nobody"}
    /\ cancelled \in BOOLEAN /\ didStart \in BOOLEAN /\ dbusActive \in BOOLEAN
    /\ activePID \in 0..Len(Script) /\ cmd \in 0..Len(Script)
    /\ lockfile \in LockStates
    /\ mounts \subseteq MountPoints
    /\ live \subseteq Processes
    /\ dbusPid \in BOOLEAN /\ jailed \in BOOLEAN /\ exited \in BOOLEAN
    /\ offline \in BOOLEAN /\ cmdNet \in BOOLEAN

\* They make up TypeOK.
LEMMA TypeParts == TypeOK <=> conf \in Confs /\ env \in Envs /\ Moved /\ Rest_
BY DEF TypeOK, Moved, Rest_

\* And again after a step.
LEMMA TypeAgain ==
    ASSUME TypeOK, conf' = conf, env' = env, Moved', Rest_'
    PROVE  TypeOK'
BY DEF TypeOK, Moved, Rest_

\* A goroutine that goes to a place of the code.
LEMMA GotoType ==
    ASSUME pc \in [Goroutine -> PC], NEW g \in Goroutine, NEW l \in PC,
           pc' = [pc EXCEPT ![g] = l]
    PROVE  /\ pc' \in [Goroutine -> PC] /\ pc'[g] = l
           /\ \A h \in Goroutine : h # g => pc'[h] = pc[h]
OBVIOUS

\* The bound on faults.
LEMMA FaultType ==
    ASSUME env \in Envs, faults \in 0..env.faults, Fault
    PROVE  faults' \in 0..env.faults /\ faults' # 0 /\ env.faults \in Nat
<1>1. env.faults \in Nat
  BY EnvAssumption DEF Env
<1> QED BY <1>1 DEF Fault

\* A step of main keeps the types of what Ok and Fail change.
LEMMA MovedStep ==
    ASSUME TypeOK, conf' = conf, env' = env, pos <= Len(Script),
           Ok \/ Err \/ (Fail /\ faults' = faults)
    PROVE  Moved'
<1>0. conf \in Confs /\ env \in Envs /\ Moved
  BY TypeParts
<1>1. Script' = Script
  BY ScriptStays
<1>2. CASE Ok
  BY <1>0, <1>1, <1>2, OkMoves DEF Moved
<1>3. ASSUME Fail, faults' \in 0..env.faults PROVE Moved'
  <2>1. /\ pos' \in 1..(Len(Script) + 1) /\ IsStep(Script[pos])
        /\ err' = (err \/ Script[pos].keep)
        /\ pc' = pc \/ pc' = [pc EXCEPT !["main"] = "cleanup"]
    BY <1>0, <1>3, FailMoves DEF Moved
  <2>2. err' \in BOOLEAN
    BY <1>0, <2>1 DEF Moved, IsStep
  <2>3. pc' \in [Goroutine -> PC]
    BY <1>0, <2>1 DEF Moved, Goroutine, PC, CleanupPC
  <2> QED BY <1>1, <1>3, <2>1, <2>2, <2>3 DEF Moved
<1>4. CASE Err
  BY <1>0, <1>3, <1>4, FaultType DEF Err, Moved
<1>5. CASE Fail /\ faults' = faults
  BY <1>0, <1>3, <1>5 DEF Moved
<1> QED BY <1>2, <1>4, <1>5

\* Steps that leave the other variables keep their types.
LEMMA RestStays ==
    ASSUME Rest_, conf' = conf, UNCHANGED <<manVars, sysVars, exited>>
    PROVE  Rest_'
BY ScriptStays DEF Rest_, manVars, sysVars, netVars

\* TypeOK, for the steps of the script.
LEMMA ScriptTypes ==
    ASSUME TypeOK, RunScript
    PROVE  TypeOK'
<1>0. conf \in Confs /\ env \in Envs /\ Moved /\ Rest_
  BY TypeParts
<1>1. conf' = conf /\ env' = env
  BY DEF RunScript, Io_, NewLock, Lock, Started, GetProfile, DoMount, EnsureEopkgLayout,
         RemoveDbusPid, Unshare, StartCommand, NotifyPID, SetActivePID0, Wait, Check,
         HelperStarts, HelperEnds, DbusUp, DbusOpen, DbusKill, ChrootSelf, Return, given
<1>2. Script' = Script /\ Len(Script) \in Nat
  BY <1>0, <1>1, ScriptStays, ScriptIs
<1> USE DEF At
<1>3. CASE Io_ \/ GetProfile \/ Check
  <2>1. Moved'
    BY <1>1, <1>3, MovedStep DEF Io_, GetProfile, Check
  <2>2. Rest_'
    BY <1>0, <1>1, <1>3, RestStays DEF Io_, GetProfile, Check
  <2> QED BY <1>1, <2>1, <2>2, TypeAgain
<1>4. CASE NewLock \/ Lock \/ Started
  <2>1. Moved'
    BY <1>1, <1>4, MovedStep DEF NewLock, Lock, Started
  <2>2. Rest_'
    BY <1>0, <1>2, <1>4 DEF NewLock, Lock, Started, Rest_, LockStates, sysVars, netVars
  <2> QED BY <1>1, <2>1, <2>2, TypeAgain
<1>5. CASE DoMount
  <2>1. Moved'
    BY <1>1, <1>5, MovedStep DEF DoMount
  <2>2. mounts' \subseteq MountPoints
    <3>1. pos \in 1..Len(Script)
      BY <1>0, <1>2, <1>5 DEF DoMount, Moved
    <3>2. Script[pos].arg \in MountPoints
      BY <1>0, <1>5, <3>1, StepFacts DEF DoMount, Follows, FollowsMounts
    <3> QED BY <1>0, <1>5, <3>2 DEF DoMount, Rest_
  <2>3. Rest_'
    BY <1>0, <1>2, <1>5, <2>2 DEF DoMount, Rest_, manVars, netVars
  <2> QED BY <1>1, <2>1, <2>3, TypeAgain
<1>6. CASE EnsureEopkgLayout \/ RemoveDbusPid
  <2>1. Moved'
    BY <1>1, <1>6, MovedStep DEF EnsureEopkgLayout, RemoveDbusPid
  <2>2. dbusPid' \in BOOLEAN
    BY <1>0, <1>6 DEF EnsureEopkgLayout, RemoveDbusPid, Rest_
  <2>3. Rest_'
    BY <1>0, <1>2, <1>6, <2>2 DEF EnsureEopkgLayout, RemoveDbusPid, Rest_, manVars, netVars
  <2> QED BY <1>1, <2>1, <2>3, TypeAgain
<1>7. CASE Unshare
  <2>1. Moved'
    BY <1>1, <1>7, MovedStep DEF Unshare
  <2>2. offline' \in BOOLEAN
    BY <1>0, <1>7 DEF Unshare, Rest_
  <2>3. Rest_'
    BY <1>0, <1>2, <1>7, <2>2 DEF Unshare, Rest_, manVars
  <2> QED BY <1>1, <2>1, <2>3, TypeAgain
<1>8. CASE StartCommand
  <2>1. Moved'
    BY <1>1, <1>8, MovedStep DEF StartCommand
  <2>2. cmdNet' \in BOOLEAN
    BY <1>0, <1>8 DEF StartCommand, Rest_
  <2>3. cmd' \in 0..Len(Script) /\ live' \subseteq Processes
    <3>1. pos \in 1..Len(Script)
      BY <1>0, <1>2, <1>8 DEF StartCommand, Moved
    <3>2. live' \subseteq Processes
      BY <1>0, <1>8 DEF StartCommand, Rest_, Processes
    <3>3. cmd' = pos \/ cmd' = cmd
      BY <1>8 DEF StartCommand
    <3> QED BY <1>0, <1>2, <3>1, <3>2, <3>3 DEF Rest_
  <2>4. Rest_'
    BY <1>0, <1>2, <1>8, <2>2, <2>3 DEF StartCommand, Rest_, manVars
  <2> QED BY <1>1, <2>1, <2>4, TypeAgain
<1>9. CASE NotifyPID \/ SetActivePID0
  <2>1. Moved'
    BY <1>1, <1>9, MovedStep DEF NotifyPID, SetActivePID0
  <2>2. activePID' \in 0..Len(Script)
    BY <1>0, <1>2, <1>9 DEF NotifyPID, SetActivePID0, Rest_
  <2>3. Rest_'
    BY <1>0, <1>2, <1>9, <2>2 DEF NotifyPID, SetActivePID0, Rest_, sysVars, netVars
  <2> QED BY <1>1, <2>1, <2>3, TypeAgain
<1>10. CASE Wait \/ HelperStarts \/ HelperEnds
  <2>1. Moved'
    BY <1>1, <1>10, MovedStep DEF Wait, HelperStarts, HelperEnds
  <2>2. live' \subseteq Processes
    BY <1>0, <1>10 DEF Wait, HelperStarts, HelperEnds, Rest_, Processes
  <2>3. Rest_'
    BY <1>0, <1>2, <1>10, <2>2 DEF Wait, HelperStarts, HelperEnds, Rest_, manVars, netVars
  <2> QED BY <1>1, <2>1, <2>3, TypeAgain
<1>11. CASE DbusUp \/ DbusKill
  <2>1. Moved'
    BY <1>1, <1>11, MovedStep DEF DbusUp, DbusKill
  <2>2. dbusActive' \in BOOLEAN /\ dbusPid' \in BOOLEAN
    BY <1>0, <1>11 DEF DbusUp, DbusKill, Rest_, sysVars
  <2>3. live' \subseteq Processes
    BY <1>0, <1>11 DEF DbusUp, DbusKill, Rest_, sysVars
  <2>4. Rest_'
    BY <1>0, <1>2, <1>11, <2>2, <2>3 DEF DbusUp, DbusKill, Rest_, sysVars, netVars
  <2> QED BY <1>1, <2>1, <2>4, TypeAgain
<1>12. CASE DbusOpen
  <2>1. Rest_'
    BY <1>0, <1>1, <1>12, RestStays DEF DbusOpen
  <2>2. CASE pos' = pos + 2 /\ UNCHANGED <<pc, err, faults>>
    <3>1. Skips
      BY <1>0, <1>12, <2>2, DbusSkips DEF DbusOpen, Moved
    <3> QED BY <1>0, <1>1, <1>2, <2>1, <2>2, <3>1, TypeAgain DEF Moved, Skips
  <2>3. CASE Ok \/ Err \/ (Fail /\ faults' = faults)
    BY <1>0, <1>1, <1>12, <2>1, <2>3, MovedStep, TypeAgain DEF DbusOpen
  <2> QED BY <1>12, <2>2, <2>3 DEF DbusOpen
<1>13. CASE ChrootSelf
  <2>1. Moved'
    BY <1>1, <1>13, MovedStep DEF ChrootSelf
  <2>2. jailed' \in BOOLEAN
    BY <1>0, <1>13 DEF ChrootSelf, Rest_
  <2>3. Rest_'
    BY <1>0, <1>2, <1>13, <2>2 DEF ChrootSelf, Rest_, manVars, netVars
  <2> QED BY <1>1, <2>1, <2>3, TypeAgain
<1>14. CASE Return
  <2>1. Rest_'
    BY <1>0, <1>1, <1>14, RestStays DEF Return
  <2>2. pc' \in [Goroutine -> PC]
    BY <1>0, <1>14, GotoType DEF Return, Goto, Moved, Goroutine, PC, CleanupPC
  <2>3. Moved'
    BY <1>0, <1>1, <1>2, <1>14, <2>2 DEF Return, Moved
  <2> QED BY <1>1, <2>1, <2>3, TypeAgain
<1> QED
  BY <1>3, <1>4, <1>5, <1>6, <1>7, <1>8, <1>9, <1>10, <1>11, <1>12, <1>13, <1>14
  DEF RunScript

\* TypeOK, for the steps of Cleanup.
LEMMA CleanupTypes ==
    ASSUME TypeOK, NEW g \in Goroutine, Cleanup(g)
    PROVE  TypeOK'
<1>0. conf \in Confs /\ env \in Envs /\ Moved /\ Rest_
  BY TypeParts
<1>1. conf' = conf /\ env' = env /\ pos' = pos /\ err' = err
  BY DEF Cleanup, EnterCleanup, OpenDbusPid, KillDbus, UnmountCache, KillActive,
         MurderDeathKill, Deactivate, UnmountAll, UnlockFile, LeaveCleanup, given
<1>2. Script' = Script /\ Len(Script) \in Nat
  BY <1>0, <1>1, ScriptStays, ScriptIs
<1>3. faults' \in 0..env.faults
  BY <1>0, FaultType
  DEF Moved, Cleanup, EnterCleanup, OpenDbusPid, KillDbus, UnmountCache, KillActive,
      MurderDeathKill, Deactivate, UnmountAll, UnlockFile, LeaveCleanup
<1>4. ASSUME NEW l \in PC, Goto(g, l) PROVE Moved'
  BY <1>0, <1>1, <1>2, <1>3, <1>4, GotoType DEF Moved, Goto
<1> USE DEF Cleaning
<1>5. CASE EnterCleanup(g)
  <2>1. Moved'
    BY <1>4, <1>5 DEF EnterCleanup, PC, CleanupPC
  <2>2. Rest_'
    BY <1>0, <1>2, <1>5 DEF EnterCleanup, Rest_, sysVars, netVars
  <2> QED BY <1>1, <2>1, <2>2, TypeAgain
<1>6. CASE OpenDbusPid(g, "stop1", "dead1", "stop2") \/ OpenDbusPid(g, "stop2", "dead2", "cache")
  <2>1. \E l \in {"dead1", "dead2", "stop2", "cache"} : Goto(g, l)
    BY <1>6 DEF OpenDbusPid
  <2>2. Moved'
    BY <1>4, <2>1 DEF PC, CleanupPC
  <2>3. Rest_'
    BY <1>0, <1>1, <1>6, RestStays DEF OpenDbusPid
  <2> QED BY <1>1, <2>2, <2>3, TypeAgain
<1>7. CASE KillDbus(g, "dead1", "stop2") \/ KillDbus(g, "dead2", "cache")
  <2>1. Moved'
    BY <1>4, <1>7 DEF KillDbus, PC, CleanupPC
  <2>2. live' \subseteq Processes
    BY <1>0, <1>7 DEF KillDbus, Rest_
  <2>3. Rest_'
    BY <1>0, <1>2, <1>7, <2>2 DEF KillDbus, Rest_, netVars
  <2> QED BY <1>1, <2>1, <2>3, TypeAgain
<1>8. CASE UnmountCache(g) \/ UnmountAll(g)
  <2>1. Moved'
    BY <1>4, <1>8 DEF UnmountCache, UnmountAll, PC, CleanupPC
  <2>2. mounts' \subseteq MountPoints
    BY <1>0, <1>8 DEF UnmountCache, UnmountAll, Unmounted, Rest_
  <2>3. Rest_'
    BY <1>0, <1>2, <1>8, <2>2 DEF UnmountCache, UnmountAll, Rest_, manVars, netVars
  <2> QED BY <1>1, <2>1, <2>3, TypeAgain
<1>9. CASE KillActive(g)
  <2>1. Moved'
    BY <1>4, <1>9 DEF KillActive, PC, CleanupPC
  <2>2. live' \subseteq Processes /\ activePID' \in 0..Len(Script)
    BY <1>0, <1>2, <1>9 DEF KillActive, Rest_
  <2>3. Rest_'
    BY <1>0, <1>2, <1>9, <2>2 DEF KillActive, Rest_, netVars
  <2> QED BY <1>1, <2>1, <2>3, TypeAgain
<1>10. CASE MurderDeathKill(g, "murder", "deactivate") \/ MurderDeathKill(g, "murder2", "unmount")
  <2>1. Moved'
    BY <1>4, <1>10 DEF MurderDeathKill, PC, CleanupPC
  <2>2. live' \subseteq Processes
    BY <1>0, <1>10 DEF MurderDeathKill, Murdered, Rest_
  <2>3. Rest_'
    BY <1>0, <1>2, <1>10, <2>2 DEF MurderDeathKill, Rest_, manVars, netVars
  <2> QED BY <1>1, <2>1, <2>3, TypeAgain
<1>11. CASE Deactivate(g)
  <2>1. Moved'
    BY <1>4, <1>11 DEF Deactivate, PC, CleanupPC
  <2>2. live' \subseteq Processes /\ mounts' \subseteq MountPoints
    BY <1>0, <1>11 DEF Deactivate, Murdered, Rest_
  <2>3. Rest_'
    BY <1>0, <1>2, <1>11, <2>2 DEF Deactivate, Rest_, manVars, netVars
  <2> QED BY <1>1, <2>1, <2>3, TypeAgain
<1>12. CASE UnlockFile(g) \/ LeaveCleanup(g)
  <2>1. Moved'
    BY <1>4, <1>12 DEF UnlockFile, LeaveCleanup, PC, CleanupPC
  <2>2. Rest_'
    BY <1>0, <1>2, <1>12 DEF UnlockFile, LeaveCleanup, Rest_, LockStates, sysVars, netVars
  <2> QED BY <1>1, <2>1, <2>2, TypeAgain
<1> QED
  BY <1>5, <1>6, <1>7, <1>8, <1>9, <1>10, <1>11, <1>12 DEF Cleanup

\* Every step keeps TypeOK.
LEMMA TypeStep ==
    ASSUME TypeOK, [Next]_vars
    PROVE  TypeOK'
<1>0. conf \in Confs /\ env \in Envs /\ Moved /\ Rest_
  BY TypeParts
<1>1. CASE SetCancelled \/ Interrupt
  <2>1. /\ conf' = conf /\ env' = env /\ pos' = pos /\ err' = err /\ faults' = faults
        /\ pc' = [pc EXCEPT !["sig"] = "cleanup"] \/ pc' = [pc EXCEPT !["sig"] = "cancel"]
    BY <1>1 DEF SetCancelled, Interrupt, Cleaning, Goto, given
  <2>2. Script' = Script
    BY <2>1, ScriptStays
  <2>3. Moved'
    BY <1>0, <2>1, <2>2 DEF Moved, Goroutine, PC, CleanupPC
  <2>4. Rest_'
    BY <1>0, <1>1, <2>2 DEF SetCancelled, Interrupt, Rest_, manVars, sysVars, netVars
  <2> QED BY <2>1, <2>3, <2>4, TypeAgain
<1>2. ASSUME NEW g \in Goroutine, Exit(g) PROVE TypeOK'
  <2>1. /\ conf' = conf /\ env' = env /\ pos' = pos /\ err' = err /\ faults' = faults
        /\ pc' = pc
    BY <1>2 DEF Exit, given
  <2>2. Script' = Script
    BY <2>1, ScriptStays
  <2>3. Rest_'
    BY <1>0, <1>2, <2>2 DEF Exit, Rest_, LockStates, sysVars, netVars
  <2> QED BY <1>0, <2>1, <2>2, <2>3, TypeAgain DEF Moved
<1>3. CASE DbusForks
  <2>1. /\ conf' = conf /\ env' = env /\ pos' = pos /\ err' = err /\ faults' = faults
        /\ pc' = pc
    BY <1>3 DEF DbusForks, given
  <2>2. Script' = Script
    BY <2>1, ScriptStays
  <2>3. Rest_'
    BY <1>0, <1>3, <2>2 DEF DbusForks, Rest_, Processes, manVars, netVars
  <2> QED BY <1>0, <2>1, <2>2, <2>3, TypeAgain DEF Moved
<1>4. CASE UNCHANGED vars
  <2>1. Script' = Script
    BY <1>4, ScriptStays DEF vars
  <2> QED BY <1>4, <2>1 DEF vars, TypeOK
<1> QED
  BY <1>1, <1>2, <1>3, <1>4, ScriptTypes, CleanupTypes
  DEF Next, MainStep, SigStep, Goroutine

-----------------------------------------------------------------------------
(***************************************************************************)
(* m.lock, and where the goroutines are                                    *)
(***************************************************************************)
\* No step of the script touches m.lock, or brings a goroutine into Cleanup
\* past the lock.
LEMMA ScriptKeepsLock ==
    ASSUME RunScript
    PROVE  mlock' = mlock /\ (UNCHANGED pc \/ pc' = [pc EXCEPT !["main"] = "cleanup"])
<1> USE DEF Ok, Err, Fail, Fault, Goto, manVars
<1>1. CASE Io_ \/ NewLock \/ Lock \/ Started \/ GetProfile
  BY <1>1 DEF Io_, NewLock, Lock, Started, GetProfile
<1>2. CASE DoMount \/ EnsureEopkgLayout \/ RemoveDbusPid
  BY <1>2 DEF DoMount, EnsureEopkgLayout, RemoveDbusPid
<1>3. CASE Unshare \/ StartCommand \/ NotifyPID \/ SetActivePID0
  BY <1>3 DEF Unshare, StartCommand, NotifyPID, SetActivePID0
<1>4. CASE Wait \/ Check
  BY <1>4 DEF Wait, Check
<1>5. CASE HelperStarts \/ HelperEnds
  BY <1>5 DEF HelperStarts, HelperEnds
<1>6. CASE DbusUp \/ DbusOpen \/ DbusKill
  BY <1>6 DEF DbusUp, DbusOpen, DbusKill
<1>7. CASE ChrootSelf \/ Return
  BY <1>7 DEF ChrootSelf, Return
<1> QED
  BY <1>1, <1>2, <1>3, <1>4, <1>5, <1>6, <1>7 DEF RunScript

\* One step of Cleanup.
LEMMA CleanupKeepsLock ==
    ASSUME LockInv, NEW g \in Goroutine, Cleanup(g)
    PROVE  LockInv'
<1> USE DEF LockInv, CleanupExclusive, CleanupPC, Goroutine, Goto, manVars
<1>1. CASE EnterCleanup(g)
  BY <1>1 DEF EnterCleanup
<1>2. ASSUME NEW from \in {"stop1", "stop2"}, NEW dead \in {"dead1", "dead2"},
             NEW next \in {"stop2", "cache"}, OpenDbusPid(g, from, dead, next)
      PROVE  LockInv'
  <2>1. mlock' = mlock /\ pc[g] = from /\ mlock = g
    BY <1>2 DEF OpenDbusPid
  <2>2. \E l \in {dead, next} : pc' = [pc EXCEPT ![g] = l]
    BY <1>2 DEF OpenDbusPid
  <2> QED BY <2>1, <2>2
<1>3. ASSUME NEW from \in CleanupPC \ {"cleanup"}, NEW to \in CleanupPC \ {"cleanup"},
             Cleaning(g, from, to), mlock' = mlock
      PROVE  LockInv'
  BY <1>3 DEF Cleaning
<1>4. CASE KillDbus(g, "dead1", "stop2") \/ KillDbus(g, "dead2", "cache")
  BY <1>3, <1>4 DEF KillDbus
<1>5. CASE UnmountCache(g) \/ KillActive(g) \/ Deactivate(g)
  BY <1>3, <1>5 DEF UnmountCache, KillActive, Deactivate
<1>6. CASE MurderDeathKill(g, "murder", "deactivate")
           \/ MurderDeathKill(g, "murder2", "unmount")
  BY <1>3, <1>6 DEF MurderDeathKill
<1>7. CASE UnmountAll(g) \/ UnlockFile(g)
  BY <1>3, <1>7 DEF UnmountAll, UnlockFile
<1>8. CASE LeaveCleanup(g)
  BY <1>8 DEF LeaveCleanup, Cleaning
<1> QED
  BY <1>1, <1>2, <1>4, <1>5, <1>6, <1>7, <1>8 DEF Cleanup

\* The deferred Cleanup and the Cleanup of the signal goroutine exclude each
\* other, for every operation, any number of failures and any signal.
THEOREM CleanupIsExclusive == Spec => []CleanupExclusive
<1>1. Init => LockInv
  BY DEF Init, LockInv, CleanupExclusive, CleanupPC, Goroutine
<1>2. LockInv /\ [Next]_vars => LockInv'
  <2> SUFFICES ASSUME LockInv, [Next]_vars PROVE LockInv'
    OBVIOUS
  <2> USE DEF LockInv, CleanupExclusive, CleanupPC, Goroutine, Goto, manVars
  <2>1. CASE RunScript
    BY <2>1, ScriptKeepsLock
  <2>2. ASSUME NEW g \in Goroutine, Cleanup(g) PROVE LockInv'
    BY <2>2, CleanupKeepsLock
  <2>3. ASSUME NEW g \in Goroutine, Exit(g) PROVE LockInv'
    BY <2>3 DEF Exit
  <2>4. CASE SetCancelled
    BY <2>4 DEF SetCancelled, Cleaning
  <2>5. CASE Interrupt
    BY <2>5 DEF Interrupt
  <2>6. CASE DbusForks
    BY <2>6 DEF DbusForks
  <2>7. CASE UNCHANGED vars
    BY <2>7 DEF vars
  <2> QED
    BY <2>1, <2>2, <2>3, <2>4, <2>5, <2>6, <2>7 DEF Next, MainStep, SigStep
<1>3. LockInv => CleanupExclusive
  BY DEF LockInv
<1> QED BY <1>1, <1>2, <1>3, PTL DEF Spec

\* What no step of the script changes.
LEMMA ScriptFrame ==
    ASSUME TypeOK, RunScript
    PROVE  /\ ~exited /\ exited' = exited /\ Running
           /\ conf' = conf /\ env' = env /\ Script' = Script /\ Know(conf') = Know(conf)
           /\ cancelled' = cancelled
           /\ pc'["sig"] = pc["sig"] /\ pc'["main"] \in {"run", "cleanup"}
<1>1. conf' = conf /\ env' = env /\ exited' = exited /\ cancelled' = cancelled
  BY DEF RunScript, Io_, NewLock, Lock, Started, GetProfile, DoMount, EnsureEopkgLayout,
         RemoveDbusPid, Unshare, StartCommand, NotifyPID, SetActivePID0, Wait, Check,
         HelperStarts, HelperEnds, DbusUp, DbusOpen, DbusKill, ChrootSelf, Return, given, manVars
<1>2. ~exited /\ Running
  BY DEF RunScript, Io_, NewLock, Lock, Started, GetProfile, DoMount, EnsureEopkgLayout,
         RemoveDbusPid, Unshare, StartCommand, NotifyPID, SetActivePID0, Wait, Check,
         HelperStarts, HelperEnds, DbusUp, DbusOpen, DbusKill, ChrootSelf, Return, At, Running
<1>3. pc \in [Goroutine -> PC]
  BY DEF TypeOK
<1>4. pc' = pc \/ pc' = [pc EXCEPT !["main"] = "cleanup"]
  BY ScriptKeepsLock
<1>5. pc'["sig"] = pc["sig"] /\ pc'["main"] \in {"run", "cleanup"}
  BY <1>2, <1>3, <1>4 DEF Goroutine, Running
<1> QED BY <1>1, <1>2, <1>5, ScriptStays

\* What no step of Cleanup changes.
LEMMA CleanupFrame ==
    ASSUME TypeOK, NEW g \in Goroutine, Cleanup(g)
    PROVE  /\ ~exited /\ exited' = exited
           /\ conf' = conf /\ env' = env /\ Script' = Script /\ Know(conf') = Know(conf)
           /\ pos' = pos /\ St' = St /\ err' = err
           /\ cancelled' = cancelled /\ didStart' = didStart /\ jailed' = jailed /\ cmd' = cmd
           /\ live' \subseteq live /\ mounts' \subseteq mounts
           /\ pc[g] \in CleanupPC
           /\ \A h \in Goroutine : h # g => pc'[h] = pc[h]
<1> USE DEF Cleanup, EnterCleanup, OpenDbusPid, KillDbus, UnmountCache, KillActive,
         MurderDeathKill, Deactivate, UnmountAll, UnlockFile, LeaveCleanup, Cleaning
<1>1. /\ conf' = conf /\ env' = env /\ exited' = exited /\ cancelled' = cancelled
      /\ pos' = pos /\ err' = err /\ didStart' = didStart /\ jailed' = jailed /\ cmd' = cmd
  BY DEF given, manVars, sysVars
<1>2. ~exited /\ pc[g] \in CleanupPC
  BY DEF CleanupPC
<1>3. live' \subseteq live /\ mounts' \subseteq mounts
  BY DEF sysVars, Murdered, Unmounted
<1>4. pc \in [Goroutine -> PC]
  BY DEF TypeOK
<1>5. \E l : pc' = [pc EXCEPT ![g] = l]
  BY DEF Goto
<1>6. \A h \in Goroutine : h # g => pc'[h] = pc[h]
  BY <1>4, <1>5
<1> QED BY <1>1, <1>2, <1>3, <1>6, ScriptStays

\* Where Cleanup goes.
LEMMA CleanupGoes ==
    ASSUME TypeOK, NEW g \in Goroutine, Cleanup(g)
    PROVE  \/ pc[g] = "cleanup" /\ ~didStart /\ pc'[g] = "done"
           \/ pc[g] = "cleanup" /\ didStart /\ pc'[g] = "stop1"
           \/ pc[g] \in Early \ {"cancel", "cleanup", "kill"} /\ pc'[g] \in Early \ {"cancel", "cleanup"}
           \/ pc[g] = "kill" /\ pc'[g] = "murder"
           \/ <<pc[g], pc'[g]>> \in {<<"murder", "deactivate">>, <<"deactivate", "murder2">>,
                   <<"murder2", "unmount">>, <<"unmount", "unlock">>, <<"unlock", "release">>,
                   <<"release", "done">>}
<1>1. pc \in [Goroutine -> PC]
  BY DEF TypeOK
<1> USE DEF Cleaning, Goto
<1>2. CASE EnterCleanup(g)
  BY <1>1, <1>2 DEF EnterCleanup
<1>3. CASE OpenDbusPid(g, "stop1", "dead1", "stop2") \/ OpenDbusPid(g, "stop2", "dead2", "cache")
  <2>1. pc[g] \in {"stop1", "stop2"}
    BY <1>3 DEF OpenDbusPid
  <2>2. \E l \in {"dead1", "dead2", "stop2", "cache"} : pc' = [pc EXCEPT ![g] = l]
    BY <1>3 DEF OpenDbusPid
  <2> QED BY <1>1, <2>1, <2>2 DEF Early
<1>4. CASE KillDbus(g, "dead1", "stop2") \/ KillDbus(g, "dead2", "cache")
  BY <1>1, <1>4 DEF KillDbus, Early
<1>5. CASE UnmountCache(g)
  BY <1>1, <1>5 DEF UnmountCache, Early
<1>6. CASE KillActive(g) \/ Deactivate(g) \/ UnmountAll(g) \/ UnlockFile(g) \/ LeaveCleanup(g)
  BY <1>1, <1>6 DEF KillActive, Deactivate, UnmountAll, UnlockFile, LeaveCleanup
<1>7. CASE MurderDeathKill(g, "murder", "deactivate") \/ MurderDeathKill(g, "murder2", "unmount")
  BY <1>1, <1>7 DEF MurderDeathKill
<1> QED
  BY <1>2, <1>3, <1>4, <1>5, <1>6, <1>7 DEF Cleanup

\* Every step keeps Places.
LEMMA PlacesStep ==
    ASSUME TypeOK, Places, [Next]_vars
    PROVE  Places'
<1>1. pc \in [Goroutine -> PC]
  BY DEF TypeOK
<1>2. CASE RunScript
  BY <1>2, ScriptFrame DEF Places
<1>3. ASSUME NEW g \in Goroutine, Cleanup(g) PROVE Places'
  <2>1. /\ ~exited' /\ env' = env /\ cancelled' = cancelled
        /\ \A h \in Goroutine : h # g => pc'[h] = pc[h]
        /\ pc[g] \in CleanupPC
    BY <1>3, CleanupFrame
  <2>2. pc'[g] \in (Early \cup Late) \ {"cancel"}
    BY <1>3, CleanupGoes DEF Early, Late
  <2>3. CASE g = "main"
    BY <2>1, <2>2, <2>3 DEF Places, Goroutine, Early, Late
  <2>4. CASE g = "sig"
    BY <2>1, <2>2, <2>4 DEF Places, Goroutine, Early, Late, CleanupPC
  <2> QED BY <2>3, <2>4 DEF Goroutine
<1>4. CASE SetCancelled
  <2>1. /\ ~exited' /\ env' = env /\ cancelled' /\ pc["sig"] = "cancel"
        /\ pc'["sig"] = "cleanup" /\ pc'["main"] = pc["main"]
    BY <1>1, <1>4 DEF SetCancelled, Cleaning, Goto, given, Goroutine
  <2> QED BY <2>1 DEF Places, Early
<1>5. CASE Interrupt
  <2>1. /\ ~exited' /\ env' = env /\ env.signal # "none"
        /\ pc'["sig"] = "cancel" /\ pc'["main"] = pc["main"]
    BY <1>1, <1>5 DEF Interrupt, Goto, given, Goroutine
  <2> QED BY <2>1 DEF Places, Early
<1>6. ASSUME NEW g \in Goroutine, Exit(g) PROVE Places'
  BY <1>6 DEF Exit, Places, given
<1>7. CASE DbusForks
  BY <1>7 DEF DbusForks, Places, given, manVars
<1>8. CASE UNCHANGED vars
  BY <1>8 DEF vars, Places
<1> QED
  BY <1>2, <1>3, <1>4, <1>5, <1>6, <1>7, <1>8 DEF Next, MainStep, SigStep, Goroutine

-----------------------------------------------------------------------------
(***************************************************************************)
(* What main is busy with                                                  *)
(***************************************************************************)
BusyOps == {"start", "notify", "wait", "helper", "helped"}

\* Main is busy with no command and no helper, and is not after the step.
LEMMA IdleMoves ==
    ASSUME TypeOK, conf' = conf, NEW op, At(op), op \notin BusyOps,
           Ok \/ Fail \/ (op = "dbusopen" /\ pos' = pos + 2 /\ pc' = pc)
    PROVE  /\ St.ph \in {"none", "stopping"}
           /\ Running' => St'.ph \in {"none", "stopping"}
<1>1. conf \in Confs /\ pos \in 1..(Len(Script) + 1) /\ pos <= Len(Script) /\ Script[pos].op = op
  BY DEF TypeOK, At
<1>2. Len(Script) \in Nat /\ pos \in 1..Len(Script)
  BY <1>1, ScriptIs
<1>3. IsStep(Script[pos]) /\ Follows(conf, Script[pos], St, Know(conf)[pos + 1])
  BY <1>1, <1>2, StepFacts
<1>4. St.ph \in {"none", "stopping"} /\ Know(conf)[pos + 1].ph \in {"none", "stopping"}
  BY <1>1, <1>3 DEF Follows, FollowsPhase, PhaseOps, BusyOps, IsStep, Ops
<1>5. CASE Ok
  <2>1. St' = Know(conf)[pos + 1]
    BY <1>5 DEF Ok, St
  <2> QED BY <1>4, <2>1
<1>6. CASE Fail
  <2>1. \/ pc' = [pc EXCEPT !["main"] = "cleanup"]
        \/ Landed(St, St')
    BY <1>1, <1>6, FailMoves
  <2>2. pc \in [Goroutine -> PC]
    BY DEF TypeOK
  <2>3. Running' => Landed(St, St')
    BY <2>1, <2>2 DEF Running, Goroutine
  <2> QED BY <1>4, <2>3 DEF Landed
<1>7. CASE op = "dbusopen" /\ pos' = pos + 2
  <2>1. Skips
    BY <1>1, <1>7, DbusSkips
  <2>2. St' = Know(conf)[pos + 2]
    BY <1>7 DEF St
  <2> QED BY <1>4, <2>1, <2>2 DEF Skips
<1> QED BY <1>5, <1>6, <1>7

\* Then nothing of Doing is touched.
LEMMA DoingIdle ==
    ASSUME TypeOK, Doing, conf' = conf, env' = env,
           St.ph \in {"none", "stopping"}, Running' => St'.ph \in {"none", "stopping"},
           live' \subseteq live, jailed' => conf.op = "chroot"
    PROVE  Doing'
BY DEF Doing

\* Doing, for the steps of the script.
LEMMA DoingScript ==
    ASSUME TypeOK, Doing, RunScript
    PROVE  Doing'
<1>0. /\ conf' = conf /\ env' = env /\ Script' = Script /\ Running
      /\ conf \in Confs /\ pos \in 1..(Len(Script) + 1) /\ Len(Script) \in Nat
      /\ pc \in [Goroutine -> PC]
  BY ScriptFrame, ScriptIs DEF TypeOK
<1>1. ASSUME NEW op, At(op), op \notin BusyOps,
             Ok \/ Fail \/ (op = "dbusopen" /\ pos' = pos + 2 /\ pc' = pc),
             live' \subseteq live, jailed' => conf.op = "chroot"
      PROVE  Doing'
  BY <1>0, <1>1, IdleMoves, DoingIdle
<1>2. jailed => conf.op = "chroot"
  BY DEF Doing
<1> USE DEF Err, BusyOps, manVars, sysVars
<1>3. CASE Io_ \/ NewLock \/ Lock \/ Started \/ GetProfile \/ DoMount
  BY <1>1, <1>2, <1>3 DEF Io_, NewLock, Lock, Started, GetProfile, DoMount
<1>4. CASE EnsureEopkgLayout \/ RemoveDbusPid
  <2>1. At("layout") \/ At("rmpid")
    BY <1>4 DEF EnsureEopkgLayout, RemoveDbusPid
  <2>2. Ok \/ Fail
    BY <1>4 DEF EnsureEopkgLayout, RemoveDbusPid
  <2>3. live' = live /\ jailed' = jailed
    BY <1>4 DEF EnsureEopkgLayout, RemoveDbusPid
  <2> QED BY <1>1, <1>2, <2>1, <2>2, <2>3
<1>14. CASE Unshare
  BY <1>1, <1>2, <1>14 DEF Unshare
<1>15. CASE SetActivePID0
  BY <1>1, <1>2, <1>15 DEF SetActivePID0
<1>13. CASE Check
  BY <1>1, <1>2, <1>13 DEF Check
<1>5. CASE DbusUp \/ DbusOpen \/ DbusKill
  BY <1>1, <1>2, <1>5 DEF DbusUp, DbusOpen, DbusKill
<1>6. CASE ChrootSelf
  <2>1. PICK op \in {"jail", "unjail"} : At(op)
    BY <1>6 DEF ChrootSelf
  <2>2. Script[pos].op = op /\ pos \in 1..Len(Script)
    BY <1>0, <2>1 DEF At
  <2>3. conf.op = "chroot"
    BY <1>0, <2>2, StepFacts DEF Follows, FollowsMounts
  <2> QED BY <1>1, <1>6, <2>1, <2>3 DEF ChrootSelf
<1>7. CASE Return
  <2>1. pos = Len(Script) + 1 /\ pos' = pos
    BY <1>0, <1>7 DEF Return
  <2>2. St.ph = "none" /\ St' = St
    BY <1>0, <2>1, ScriptIs, ScriptStays DEF Fits, St
  <2>3. live' = live /\ jailed' = jailed
    BY <1>7 DEF Return
  <2> QED BY <1>0, <1>2, <2>2, <2>3, DoingIdle
<1> DEFINE st == Script[pos]
           y == Know(conf)[pos + 1]
<1>8. ASSUME pos <= Len(Script)
      PROVE  /\ Follows(conf, st, St, y)
             /\ Ok => St' = y /\ Running' /\ pc' = pc
             /\ Fail => ~Running' \/ (Landed(St, St') /\ pc' = pc)
  <2>1. pos \in 1..Len(Script)
    BY <1>0, <1>8
  <2>2. Follows(conf, st, St, y)
    BY <1>0, <2>1, StepFacts
  <2>3. Ok => St' = y /\ Running' /\ pc' = pc
    BY <1>0 DEF Ok, St, Running
  <2>4. Fail => \/ pc' = [pc EXCEPT !["main"] = "cleanup"]
                \/ Landed(St, St') /\ pc' = pc
    BY <1>0, <1>8, FailMoves
  <2>5. Fail => ~Running' \/ (Landed(St, St') /\ pc' = pc)
    BY <1>0, <2>4 DEF Running, Goroutine
  <2> QED BY <2>2, <2>3, <2>5
<1> HIDE DEF st, y
<1>9. CASE StartCommand
  <2>1. At("start") /\ jailed' = jailed
    BY <1>9 DEF StartCommand
  <2>2. pos <= Len(Script) /\ st.op = "start"
    BY <2>1 DEF At, st
  <2>3. /\ St.ph = "none" /\ y.ph = "started" /\ y.cmd = st.arg
        /\ st.arg = "shell" => conf.op = "chroot"
    BY <1>8, <2>2 DEF Follows, FollowsPhase, FollowsMounts
  <2>4. CASE Ok /\ cmd' = pos /\ live' \subseteq live \cup {"cmd"}
    <3>1. pos # 0
      BY <1>0
    <3>2. Script'[cmd'].arg = St'.cmd /\ cmd' # 0
      BY <1>0, <1>8, <2>2, <2>3, <2>4, <3>1 DEF st
    <3> QED BY <1>0, <1>8, <2>1, <2>2, <2>3, <2>4, <3>2 DEF Doing
  <2>5. CASE Fail /\ live' = live
    <3>1. Running' => St'.ph = "none"
      BY <1>8, <2>2, <2>5 DEF Landed
    <3> QED BY <1>0, <1>2, <2>1, <2>3, <2>5, <3>1, DoingIdle
  <2> QED BY <1>9, <2>4, <2>5 DEF StartCommand
<1>10. CASE NotifyPID
  <2>1. At("notify") /\ jailed' = jailed /\ live' = live /\ cmd' = cmd /\ activePID' = cmd /\ Ok
    BY <1>10 DEF NotifyPID
  <2>2. pos <= Len(Script) /\ st.op = "notify"
    BY <2>1 DEF At, st
  <2>3. St.ph = "started" /\ y.ph = "notified" /\ y.cmd = St.cmd
    BY <1>8, <2>2 DEF Follows, FollowsPhase
  <2>4. cmd # 0 /\ Script[cmd].arg = St.cmd /\ (St.cmd = "shell" => conf.op = "chroot")
    BY <1>0, <2>3 DEF Doing
  <2> QED BY <1>0, <1>8, <2>1, <2>2, <2>3, <2>4 DEF Doing
<1>11. CASE Wait
  <2>1. At("wait") /\ jailed' = jailed /\ cmd' = cmd
    BY <1>11 DEF Wait
  <2>2. pos <= Len(Script) /\ st.op = "wait"
    BY <2>1 DEF At, st
  <2>3. St.ph = "notified" /\ y.ph = "none"
    BY <1>8, <2>2 DEF Follows, FollowsPhase
  <2>4. Script[cmd].arg = St.cmd /\ (St.cmd = "shell" => conf.op = "chroot")
    BY <1>0, <2>3 DEF Doing
  <2>5. Running' => St'.ph = "none"
    <3>1. Ok \/ Fail
      BY <1>11 DEF Wait
    <3> QED BY <1>8, <2>2, <2>3, <3>1 DEF Landed
  <2>6. "cmd" \notin live' /\ ("helper" \in live' => "helper" \in live)
    BY <1>11 DEF Wait
  <2>7. "stray" \in live' => "stray" \in live \/ (env.strays /\ conf.op = "chroot")
    BY <1>11, <2>4 DEF Wait
  <2>8. "helper" \notin live'
    BY <2>3, <2>6 DEF Doing
  <2> QED BY <1>0, <2>1, <2>5, <2>6, <2>7, <2>8 DEF Doing
<1>12. CASE HelperStarts \/ HelperEnds
  <2>1. At("helper") \/ At("helped")
    BY <1>12 DEF HelperStarts, HelperEnds
  <2>2. jailed' = jailed
    BY <1>12 DEF HelperStarts, HelperEnds
  <2>3. pos <= Len(Script) /\ st.op \in {"helper", "helped"}
    BY <2>1 DEF At, st
  <2>4. /\ st.op = "helper" => St.ph = "none" /\ y.ph = "helping"
        /\ st.op = "helped" => St.ph = "helping" /\ y.ph = "none"
    BY <1>8, <2>3 DEF Follows, FollowsPhase
  <2>5. "cmd" \notin live
    BY <2>3, <2>4 DEF Doing
  <2>6. CASE HelperStarts /\ Ok
    <3>1. At("helper") /\ live' \subseteq live \cup {"helper"}
      BY <2>6 DEF HelperStarts
    <3>2. St' = y /\ Running' /\ y.ph = "helping"
      BY <1>8, <2>3, <2>4, <2>6, <3>1 DEF At, st
    <3> QED BY <1>0, <2>2, <2>5, <3>1, <3>2 DEF Doing
  <2>7. CASE HelperStarts /\ Fail /\ live' = live
    <3>1. st.op = "helper"
      BY <2>7 DEF HelperStarts, At, st
    <3>2. Running' => St'.ph = "none"
      BY <1>8, <2>3, <2>7 DEF Landed
    <3> QED BY <1>0, <1>2, <2>2, <2>4, <2>7, <3>1, <3>2, DoingIdle
  <2>8. CASE HelperEnds
    <3>1. st.op = "helped" /\ (Ok \/ Fail)
      BY <2>8 DEF HelperEnds, At, st
    <3>2. Running' => St'.ph = "none"
      BY <1>8, <2>3, <2>4, <3>1 DEF Landed
    <3>3. "helper" \notin live' /\ "cmd" \notin live' /\ ("stray" \in live' => "stray" \in live)
      BY <2>5, <2>8 DEF HelperEnds
    <3> QED BY <1>0, <2>2, <3>2, <3>3 DEF Doing
  <2> QED BY <1>12, <2>6, <2>7, <2>8 DEF HelperStarts
<1> QED
  BY <1>3, <1>4, <1>5, <1>6, <1>7, <1>9, <1>10, <1>11, <1>12, <1>13,
     <1>14, <1>15
  DEF RunScript

\* Every step keeps Doing: Cleanup kills, and a signal changes no command.
LEMMA DoingStep ==
    ASSUME TypeOK, Places, Doing, [Next]_vars
    PROVE  Doing'
<1>0. pc \in [Goroutine -> PC]
  BY DEF TypeOK
<1>1. CASE RunScript
  BY <1>1, DoingScript
<1>2. ASSUME NEW g \in Goroutine, Cleanup(g) PROVE Doing'
  <2>1. /\ conf' = conf /\ env' = env /\ Script' = Script /\ St' = St
        /\ jailed' = jailed /\ cmd' = cmd /\ live' \subseteq live
        /\ pc[g] \in CleanupPC /\ \A h \in Goroutine : h # g => pc'[h] = pc[h]
    BY <1>2, CleanupFrame
  <2>2. pc'["main"] # "run" \/ (g = "sig" /\ Running /\ Running')
    <3>1. CASE g = "main"
      BY <1>2, <3>1, CleanupGoes DEF Early, Late
    <3>2. CASE g = "sig"
      BY <2>1, <3>2 DEF Running, Goroutine
    <3> QED BY <3>1, <3>2 DEF Goroutine
  <2>3. g = "sig" /\ pc'["sig"] \notin Late => activePID' = activePID /\ pc["sig"] \notin Late
    <3>1. pc[g] # "kill" => activePID' = activePID
      BY <1>2 DEF Cleanup, EnterCleanup, OpenDbusPid, KillDbus, UnmountCache, KillActive,
         MurderDeathKill, Deactivate, UnmountAll, UnlockFile, LeaveCleanup, Cleaning, manVars
    <3> QED BY <1>2, <3>1, CleanupGoes DEF Early, Late
  <2>4. pc["main"] # "run" \/ Running
    BY DEF Running
  <2>5. Running' => Running /\ g = "sig"
    BY <2>2 DEF Running
  <2>6. Running => g = "sig"
    BY <2>1 DEF Running, CleanupPC, Goroutine
  <2>7. Running => Running'
    BY <2>1, <2>6 DEF Running, Goroutine
  <2> QED BY <2>1, <2>3, <2>5, <2>7 DEF Doing
<1>3. CASE SetCancelled \/ Interrupt
  <2>1. /\ conf' = conf /\ env' = env /\ pos' = pos /\ live' = live /\ jailed' = jailed
        /\ cmd' = cmd /\ activePID' = activePID /\ pc["sig"] \in {"idle", "cancel"}
    BY <1>3 DEF SetCancelled, Interrupt, Cleaning, given, manVars, sysVars
  <2>2. pc'["main"] = pc["main"]
    BY <1>0, <1>3 DEF SetCancelled, Interrupt, Cleaning, Goto, Goroutine
  <2>3. Script' = Script /\ St' = St
    BY <2>1, ScriptStays
  <2>4. Running' = Running
    BY <2>2 DEF Running
  <2> QED BY <2>1, <2>3, <2>4 DEF Doing, Late
<1>4. ASSUME NEW g \in Goroutine, Exit(g) PROVE Doing'
  <2>1. /\ conf' = conf /\ env' = env /\ pos' = pos /\ live' = live /\ jailed' = jailed
        /\ cmd' = cmd /\ activePID' = activePID /\ pc' = pc
    BY <1>4 DEF Exit, given, sysVars
  <2>2. Script' = Script /\ St' = St /\ Running' = Running
    BY <2>1, ScriptStays DEF Running
  <2> QED BY <2>1, <2>2 DEF Doing
<1>5. CASE DbusForks
  <2>1. /\ conf' = conf /\ env' = env /\ pos' = pos /\ live' = live \cup {"dbus"} /\ jailed' = jailed
        /\ cmd' = cmd /\ activePID' = activePID /\ pc' = pc
    BY <1>5 DEF DbusForks, given, manVars
  <2>2. Script' = Script /\ St' = St /\ Running' = Running
    BY <2>1, ScriptStays DEF Running
  <2> QED BY <2>1, <2>2 DEF Doing
<1>6. CASE UNCHANGED vars
  <2>1. /\ conf' = conf /\ env' = env /\ pos' = pos /\ live' = live /\ jailed' = jailed
        /\ cmd' = cmd /\ activePID' = activePID /\ pc' = pc
    BY <1>6 DEF vars
  <2>2. Script' = Script /\ St' = St /\ Running' = Running
    BY <2>1, ScriptStays DEF Running
  <2> QED BY <2>1, <2>2 DEF Doing
<1> QED
  BY <1>1, <1>2, <1>3, <1>4, <1>5, <1>6 DEF Next, MainStep, SigStep, Goroutine

-----------------------------------------------------------------------------
(***************************************************************************)
(* doLock                                                                  *)
(***************************************************************************)
\* A step of the script that has nothing to do with the lock file.
LEMMA LockingPlain ==
    ASSUME TypeOK, Locking, conf' = conf, NEW op \in Ops \ LockOps, At(op),
           Ok \/ Fail \/ (op = "dbusopen" /\ pos' = pos + 2 /\ pc' = pc),
           didStart' = didStart, lockfile' = lockfile, exited' = exited,
           op = "io" => mounts' = mounts /\ live' = live
    PROVE  Locking'
<1>1. conf \in Confs /\ pos \in 1..(Len(Script) + 1) /\ pos <= Len(Script) /\ Script[pos].op = op
  BY DEF TypeOK, At
<1>2. Len(Script) \in Nat /\ pos \in 1..Len(Script)
  BY <1>1, ScriptIs
<1>3. Follows(conf, Script[pos], St, Know(conf)[pos + 1])
  BY <1>1, <1>2, StepFacts
<1>4. /\ Know(conf)[pos + 1].lock = St.lock
      /\ op # "io" => St.lock = "started"
  BY <1>1, <1>3 DEF Follows, FollowsLock
<1>5. pc \in [Goroutine -> PC] /\ Running /\ ~exited
  BY DEF TypeOK, At, Running
<1>6. St'.lock = St.lock /\ \A g \in Goroutine : pc'[g] \in CleanupPC \ {"cleanup"} => pc[g] = pc'[g]
  <2>1. CASE Ok
    <3>1. St' = Know(conf)[pos + 1] /\ pc' = pc
      BY <2>1 DEF Ok, St
    <3> QED BY <1>4, <3>1
  <2>2. CASE Fail
    <3>1. \/ pc' = [pc EXCEPT !["main"] = "cleanup"] /\ St' = St
          \/ Landed(St, St') /\ pc' = pc
      BY <1>1, <2>2, FailMoves
    <3> QED BY <1>5, <3>1 DEF Landed, Goroutine
  <2>3. CASE op = "dbusopen" /\ pos' = pos + 2 /\ pc' = pc
    <3>1. Skips
      BY <1>1, <2>3, DbusSkips
    <3>2. St' = Know(conf)[pos + 2]
      BY <2>3 DEF St
    <3> QED BY <2>3, <3>1, <3>2 DEF Skips
  <2> QED BY <2>1, <2>2, <2>3
<1>7. didStart \/ (mounts' = mounts /\ live' = live)
  BY <1>4 DEF Locking
<1> QED BY <1>5, <1>6, <1>7 DEF Locking

\* Locking, for the steps of the script: only doLock has to do with the file.
LEMMA LockingScript ==
    ASSUME TypeOK, Locking, RunScript
    PROVE  Locking'
<1>0. /\ conf' = conf /\ env' = env /\ Script' = Script /\ Running /\ ~exited /\ exited' = exited
      /\ conf \in Confs /\ pos \in 1..(Len(Script) + 1) /\ Len(Script) \in Nat
      /\ pc \in [Goroutine -> PC]
  BY ScriptFrame, ScriptIs DEF TypeOK
<1>1. ASSUME NEW op \in Ops \ LockOps, At(op),
             Ok \/ Fail \/ (op = "dbusopen" /\ pos' = pos + 2 /\ pc' = pc),
             didStart' = didStart, lockfile' = lockfile,
             op = "io" => mounts' = mounts /\ live' = live
      PROVE  Locking'
  BY <1>0, <1>1, LockingPlain
<1>2. CASE Io_ \/ GetProfile \/ DoMount
  BY <1>1, <1>2 DEF Io_, GetProfile, DoMount, Ops, LockOps, manVars, sysVars, Err
<1>3. CASE EnsureEopkgLayout \/ RemoveDbusPid
  <2>1. At("layout") \/ At("rmpid")
    BY <1>3 DEF EnsureEopkgLayout, RemoveDbusPid
  <2>2. Ok \/ Fail
    BY <1>3 DEF EnsureEopkgLayout, RemoveDbusPid, Err
  <2>3. didStart' = didStart /\ lockfile' = lockfile
    BY <1>3 DEF EnsureEopkgLayout, RemoveDbusPid, manVars
  <2> QED BY <1>1, <2>1, <2>2, <2>3 DEF Ops, LockOps
<1>4. CASE Unshare \/ SetActivePID0
  BY <1>1, <1>4 DEF Unshare, SetActivePID0, Ops, LockOps, manVars, Err
<1>5. CASE StartCommand
  <2>1. At("start") /\ (Ok \/ Fail) /\ didStart' = didStart /\ lockfile' = lockfile
    BY <1>5 DEF StartCommand, manVars, Err
  <2> QED BY <1>1, <2>1 DEF Ops, LockOps
<1>6. CASE NotifyPID \/ Check
  <2>1. At("notify") \/ At("check")
    BY <1>6 DEF NotifyPID, Check
  <2>2. (Ok \/ Fail) /\ didStart' = didStart /\ lockfile' = lockfile
    BY <1>6 DEF NotifyPID, Check, manVars
  <2> QED BY <1>1, <2>1, <2>2 DEF Ops, LockOps
<1>7. CASE Wait
  <2>1. At("wait") /\ (Ok \/ Fail) /\ didStart' = didStart /\ lockfile' = lockfile
    BY <1>7 DEF Wait, manVars, Err
  <2> QED BY <1>1, <2>1 DEF Ops, LockOps
<1>8. CASE HelperStarts \/ HelperEnds
  <2>1. At("helper") \/ At("helped")
    BY <1>8 DEF HelperStarts, HelperEnds
  <2>2. (Ok \/ Fail) /\ didStart' = didStart /\ lockfile' = lockfile
    BY <1>8 DEF HelperStarts, HelperEnds, manVars, Err
  <2> QED BY <1>1, <2>1, <2>2 DEF Ops, LockOps
<1>9. CASE DbusUp \/ DbusKill
  <2>1. At("dbusup") \/ At("dbuskill")
    BY <1>9 DEF DbusUp, DbusKill
  <2>2. (Ok \/ Fail) /\ didStart' = didStart /\ lockfile' = lockfile
    BY <1>9 DEF DbusUp, DbusKill, Err
  <2> QED BY <1>1, <2>1, <2>2 DEF Ops, LockOps
<1>10. CASE DbusOpen
  <2>1. At("dbusopen") /\ didStart' = didStart /\ lockfile' = lockfile
    BY <1>10 DEF DbusOpen, manVars
  <2>2. Ok \/ Fail \/ (pos' = pos + 2 /\ pc' = pc)
    BY <1>10 DEF DbusOpen, Err
  <2> QED BY <1>1, <2>1, <2>2 DEF Ops, LockOps
<1>11. CASE ChrootSelf
  <2>1. At("jail") \/ At("unjail")
    BY <1>11 DEF ChrootSelf
  <2>2. (Ok \/ Fail) /\ didStart' = didStart /\ lockfile' = lockfile
    BY <1>11 DEF ChrootSelf, manVars, Err
  <2> QED BY <1>1, <2>1, <2>2 DEF Ops, LockOps
<1>12. CASE Return
  <2>1. /\ pos' = pos /\ pc' = [pc EXCEPT !["main"] = "cleanup"] /\ didStart' = didStart
        /\ lockfile' = lockfile /\ mounts' = mounts /\ live' = live
    BY <1>12 DEF Return, Goto, manVars, sysVars
  <2>2. St' = St
    BY <1>0, <2>1, ScriptStays
  <2>3. ~Running' /\ \A g \in Goroutine : pc'[g] \in CleanupPC \ {"cleanup"} => pc[g] = pc'[g]
    BY <1>0, <2>1 DEF Running, Goroutine
  <2> QED BY <2>1, <2>2, <2>3 DEF Locking
<1> DEFINE st == Script[pos]
           y == Know(conf)[pos + 1]
<1>13. ASSUME NEW op \in LockOps, At(op)
       PROVE  /\ st.op = op /\ st.onErr = 0 /\ FollowsLock(st, St, y)
              /\ Ok => St' = y /\ Running' /\ pc' = pc
              /\ Fail => St' = St /\ ~Running'
                         /\ \A g \in Goroutine : pc'[g] \in CleanupPC \ {"cleanup"} => pc[g] = pc'[g]
  <2>1. pos \in 1..Len(Script) /\ pos <= Len(Script) /\ st.op = op
    BY <1>0, <1>13 DEF At
  <2>2. FollowsLock(st, St, y) /\ st.onErr = 0
    BY <1>0, <2>1, StepFacts DEF Follows, FollowsLock
  <2>3. Ok => St' = y /\ Running' /\ pc' = pc
    BY <1>0 DEF Ok, St, Running
  <2>4. Fail => pc' = [pc EXCEPT !["main"] = "cleanup"] /\ St' = St
    BY <1>0, <2>1, <2>2, FailMoves
  <2>5. Fail => ~Running' /\ \A g \in Goroutine : pc'[g] \in CleanupPC \ {"cleanup"} => pc[g] = pc'[g]
    BY <1>0, <2>4 DEF Running, Goroutine
  <2> QED BY <2>1, <2>2, <2>3, <2>4, <2>5
<1> HIDE DEF st, y
<1>14. CASE NewLock
  <2>1. /\ At("newlock") /\ didStart' = didStart /\ mounts' = mounts /\ live' = live
        /\ (Ok /\ lockfile' = "open") \/ (Fail /\ lockfile' = lockfile)
    BY <1>14 DEF NewLock, Err, sysVars
  <2>2. St.lock = "none" /\ y.lock = "open"
    BY <1>13, <2>1 DEF FollowsLock, LockOps
  <2> QED BY <1>0, <1>13, <2>1, <2>2 DEF Locking, LockOps
<1>15. CASE Lock
  <2>1. /\ At("lock") /\ didStart' = didStart /\ mounts' = mounts /\ live' = live
        /\ (Ok /\ lockfile' = "held") \/ Fail
    BY <1>15 DEF Lock, Err, sysVars
  <2>2. St.lock = "open" /\ y.lock = "held"
    BY <1>13, <2>1 DEF FollowsLock, LockOps
  <2> QED BY <1>0, <1>13, <2>1, <2>2 DEF Locking, LockOps
<1>16. CASE Started
  <2>1. /\ At("started") /\ didStart' = TRUE /\ lockfile' = lockfile /\ Ok
    BY <1>16 DEF Started
  <2>2. St.lock = "held" /\ y.lock = "started"
    BY <1>13, <2>1 DEF FollowsLock, LockOps
  <2>3. lockfile = "held"
    BY <1>0, <2>2 DEF Locking
  <2> QED BY <1>0, <1>13, <2>1, <2>2, <2>3 DEF Locking, LockOps
<1> QED
  BY <1>2, <1>3, <1>4, <1>5, <1>6, <1>7, <1>8, <1>9, <1>10, <1>11, <1>12, <1>14, <1>15,
     <1>16 DEF RunScript

\* Every step keeps Locking.
LEMMA LockingStep ==
    ASSUME TypeOK, Places, Locking, [Next]_vars
    PROVE  Locking'
<1>0. pc \in [Goroutine -> PC]
  BY DEF TypeOK
<1>1. CASE RunScript
  BY <1>1, LockingScript
<1>2. ASSUME NEW g \in Goroutine, Cleanup(g) PROVE Locking'
  <2>1. /\ St' = St /\ didStart' = didStart /\ live' \subseteq live /\ mounts' \subseteq mounts
        /\ exited' = exited
        /\ pc[g] \in CleanupPC /\ \A h \in Goroutine : h # g => pc'[h] = pc[h]
    BY <1>2, CleanupFrame
  <2>2. lockfile' = lockfile \/ (pc[g] = "unlock" /\ lockfile' \in {"stale", "removed"})
    BY <1>2 DEF Cleanup, EnterCleanup, OpenDbusPid, KillDbus, UnmountCache, KillActive,
         MurderDeathKill, Deactivate, UnmountAll, UnlockFile, LeaveCleanup, Cleaning, manVars
  <2>3. \A h \in Goroutine : pc'[h] \in CleanupPC \ {"cleanup"} => didStart
    <3>1. pc'[g] \in CleanupPC \ {"cleanup"} => didStart
      <4>1. CASE pc[g] = "cleanup"
        BY <1>2, <4>1, CleanupGoes DEF CleanupPC, Early
      <4>2. CASE pc[g] # "cleanup"
        BY <2>1, <4>2 DEF Locking
      <4> QED BY <4>1, <4>2
    <3> QED BY <2>1, <3>1 DEF Locking
  <2>4. Running' => Running
    BY <1>2, <2>1, CleanupGoes DEF Running, Early, Goroutine
  <2>5. pc[g] = "unlock" => didStart
    BY DEF Locking, CleanupPC
  <2> QED BY <2>1, <2>2, <2>3, <2>4, <2>5 DEF Locking
<1>3. CASE SetCancelled \/ Interrupt
  <2>1. /\ conf' = conf /\ pos' = pos /\ live' = live /\ mounts' = mounts /\ didStart' = didStart
        /\ lockfile' = lockfile /\ exited' = exited
    BY <1>3 DEF SetCancelled, Interrupt, given, manVars, sysVars
  <2>2. pc'["main"] = pc["main"] /\ pc'["sig"] \in {"cancel", "cleanup"}
    BY <1>0, <1>3 DEF SetCancelled, Interrupt, Cleaning, Goto, Goroutine
  <2>3. St' = St
    BY <2>1, ScriptStays
  <2> QED BY <2>1, <2>2, <2>3 DEF Locking, Running, Goroutine, CleanupPC
<1>4. ASSUME NEW g \in Goroutine, Exit(g) PROVE Locking'
  <2>1. /\ conf' = conf /\ pos' = pos /\ live' = live /\ mounts' = mounts /\ didStart' = didStart
        /\ pc' = pc /\ exited' /\ lockfile' = IF lockfile = "held" THEN "stale" ELSE lockfile
    BY <1>4 DEF Exit, given, sysVars
  <2>2. St' = St
    BY <2>1, ScriptStays
  <2> QED BY <2>1, <2>2 DEF Locking
<1>5. CASE DbusForks
  <2>1. /\ conf' = conf /\ pos' = pos /\ mounts' = mounts /\ didStart' = didStart
        /\ pc' = pc /\ lockfile' = lockfile /\ exited' = exited /\ live # {}
    BY <1>5 DEF DbusForks, given, manVars
  <2>2. St' = St
    BY <2>1, ScriptStays
  <2> QED BY <2>1, <2>2 DEF Locking, Running
<1>6. CASE UNCHANGED vars
  <2>1. /\ conf' = conf /\ pos' = pos /\ live' = live /\ mounts' = mounts /\ didStart' = didStart
        /\ pc' = pc /\ lockfile' = lockfile /\ exited' = exited
    BY <1>6 DEF vars
  <2>2. St' = St
    BY <2>1, ScriptStays
  <2> QED BY <2>1, <2>2 DEF Locking, Running
<1> QED
  BY <1>1, <1>2, <1>3, <1>4, <1>5, <1>6 DEF Next, MainStep, SigStep, Goroutine

-----------------------------------------------------------------------------
(***************************************************************************)
(* D-BUS and the mounts, while no Cleanup has begun                        *)
(***************************************************************************)
\* A step of the script that has nothing to do with the daemon.
LEMMA BusPlain ==
    ASSUME TypeOK, Bus, conf' = conf, NEW op \in Ops, At(op), Ok \/ Fail,
           op \notin {"dbusup", "dbusopen", "dbuskill", "layout", "rmpid"},
           ~(op = "wait" /\ Script[pos].arg = "dbus-daemon"),
           op = "notify" => Ok,
           dbusActive' = dbusActive, dbusPid' = dbusPid,
           "dbus" \in live' <=> "dbus" \in live
    PROVE  Bus'
<1>1. conf \in Confs /\ pos \in 1..(Len(Script) + 1) /\ pos <= Len(Script) /\ Script[pos].op = op
  BY DEF TypeOK, At
<1>2. Len(Script) \in Nat /\ pos \in 1..Len(Script)
  BY <1>1, ScriptIs
<1> DEFINE st == Script[pos]
           y == Know(conf)[pos + 1]
<1>3. Follows(conf, st, St, y)
  BY <1>1, <1>2, StepFacts
<1>4. y.dbus = St.dbus \/ (St.dbus = "off" /\ y.dbus = "tail")
  BY <1>1, <1>3 DEF Follows, FollowsDbus
<1>5. St.cmd # "dbus-daemon" \/ (op = "notify" /\ y.cmd = St.cmd)
  BY <1>1, <1>3 DEF Follows, FollowsPhase
<1>6. pc \in [Goroutine -> PC]
  BY DEF TypeOK
<1> HIDE DEF st, y
<1>7. Running /\ (Running' => pc' = pc /\ (St'.dbus = St.dbus \/ (St.dbus = "off" /\ St'.dbus = "tail")))
  <2>1. CASE Ok
    <3>1. St' = y /\ pc' = pc
      BY <2>1 DEF Ok, St, y
    <3> QED BY <1>4, <3>1 DEF At, Running
  <2>2. CASE Fail
    <3>1. \/ pc' = [pc EXCEPT !["main"] = "cleanup"]
          \/ Landed(St, St') /\ pc' = pc
      BY <1>1, <2>2, FailMoves
    <3> QED BY <1>6, <3>1 DEF Landed, Goroutine, Running, At
  <2> QED BY <2>1, <2>2
<1>8. Undisturbed' => Undisturbed /\ (St'.dbus = St.dbus \/ (St.dbus = "off" /\ St'.dbus = "tail"))
  BY <1>7 DEF Undisturbed, Running
<1>9. St.cmd # "dbus-daemon" \/ St'.cmd = St.cmd
  <2>1. CASE op = "notify"
    <3>1. St' = y
      BY <2>1 DEF Ok, St, y
    <3> QED BY <1>5, <3>1
  <2> QED BY <1>5, <2>1
<1> QED BY <1>8, <1>9 DEF Bus

\* Bus, for the steps of the script.
LEMMA BusScript ==
    ASSUME TypeOK, Doing, Bus, RunScript
    PROVE  Bus'
<1>0. /\ conf' = conf /\ env' = env /\ Script' = Script /\ Running /\ pc'["sig"] = pc["sig"]
      /\ conf \in Confs /\ pos \in 1..(Len(Script) + 1) /\ Len(Script) \in Nat
      /\ pc \in [Goroutine -> PC]
  BY ScriptFrame, ScriptIs DEF TypeOK
<1>1. ASSUME NEW op \in Ops, At(op), Ok \/ Fail,
             op \notin {"dbusup", "dbusopen", "dbuskill", "layout", "rmpid"},
             ~(op = "wait" /\ Script[pos].arg = "dbus-daemon"), op = "notify" => Ok,
             dbusActive' = dbusActive, dbusPid' = dbusPid, "dbus" \in live' <=> "dbus" \in live
      PROVE  Bus'
  BY <1>0, <1>1, BusPlain
<1>2. CASE Io_ \/ NewLock \/ Lock
  BY <1>1, <1>2 DEF Io_, NewLock, Lock, Ops, manVars, sysVars, Err
<1>3. CASE Started \/ GetProfile \/ DoMount
  BY <1>1, <1>3 DEF Started, GetProfile, DoMount, Ops, manVars, sysVars, Err
<1>4. CASE Unshare \/ SetActivePID0 \/ NotifyPID
  BY <1>1, <1>4 DEF Unshare, SetActivePID0, NotifyPID, Ops, manVars, sysVars, Err
<1>5. CASE StartCommand
  <2>1. At("start") /\ (Ok \/ Fail) /\ dbusActive' = dbusActive /\ dbusPid' = dbusPid
    BY <1>5 DEF StartCommand, manVars, Err
  <2>2. "dbus" \in live' <=> "dbus" \in live
    BY <1>5 DEF StartCommand
  <2> QED BY <1>1, <2>1, <2>2 DEF Ops
<1>6. CASE Check
  <2>1. At("check") /\ (Ok \/ Fail) /\ dbusActive' = dbusActive /\ dbusPid' = dbusPid /\ live' = live
    BY <1>6 DEF Check, manVars, sysVars
  <2> QED BY <1>1, <2>1 DEF Ops
<1>7. CASE HelperStarts \/ HelperEnds
  <2>1. At("helper") \/ At("helped")
    BY <1>7 DEF HelperStarts, HelperEnds
  <2>2. (Ok \/ Fail) /\ dbusActive' = dbusActive /\ dbusPid' = dbusPid
    BY <1>7 DEF HelperStarts, HelperEnds, manVars, Err
  <2>3. "dbus" \in live' <=> "dbus" \in live
    BY <1>7 DEF HelperStarts, HelperEnds
  <2> QED BY <1>1, <2>1, <2>2, <2>3 DEF Ops
<1>8. CASE ChrootSelf
  <2>1. At("jail") \/ At("unjail")
    BY <1>8 DEF ChrootSelf
  <2>2. (Ok \/ Fail) /\ dbusActive' = dbusActive /\ dbusPid' = dbusPid /\ live' = live
    BY <1>8 DEF ChrootSelf, manVars, Err
  <2> QED BY <1>1, <2>1, <2>2 DEF Ops
<1>9. CASE Return
  <2>1. ~Running'
    BY <1>0, <1>9 DEF Return, Goto, Running, Goroutine
  <2> QED BY <2>1 DEF Bus, Undisturbed
<1> DEFINE st == Script[pos]
           y == Know(conf)[pos + 1]
<1>10. ASSUME NEW op, At(op)
       PROVE  /\ st.op = op /\ Follows(conf, st, St, y)
              /\ Ok => St' = y /\ (Undisturbed' => Undisturbed)
              /\ Fail => \/ ~Undisturbed'
                         \/ Landed(St, St') /\ (Undisturbed' => Undisturbed) /\ st.onErr # 0
  <2>1. pos \in 1..Len(Script) /\ pos <= Len(Script) /\ st.op = op
    BY <1>0, <1>10 DEF At
  <2>2. Follows(conf, st, St, y)
    BY <1>0, <2>1, StepFacts
  <2>3. Ok => St' = y
    BY <1>0 DEF Ok, St
  <2>4. Undisturbed' => Undisturbed
    BY <1>0 DEF Undisturbed, Running
  <2>5. Fail => \/ pc' = [pc EXCEPT !["main"] = "cleanup"]
                \/ Landed(St, St') /\ st.onErr # 0
    BY <1>0, <2>1, FailMoves
  <2>6. Fail => ~Undisturbed' \/ (Landed(St, St') /\ st.onErr # 0)
    BY <1>0, <2>5 DEF Running, Undisturbed, Goroutine
  <2> QED BY <2>1, <2>2, <2>3, <2>4, <2>6
<1> HIDE DEF st, y
<1>11. CASE EnsureEopkgLayout \/ RemoveDbusPid
  <2>1. PICK op \in {"layout", "rmpid"} : At(op)
    BY <1>11 DEF EnsureEopkgLayout, RemoveDbusPid
  <2>2. (Ok \/ Fail)
    BY <1>11 DEF EnsureEopkgLayout, RemoveDbusPid, Err
  <2>3. dbusActive' = dbusActive /\ live' = live
    BY <1>11 DEF EnsureEopkgLayout, RemoveDbusPid, manVars
  <2>4. St.dbus = "off" /\ St.cmd = "" /\ y.dbus \in {"off", "tail"}
    BY <1>10, <2>1 DEF Follows, FollowsDbus, FollowsPhase
  <2>5. Undisturbed' => Undisturbed /\ St'.dbus \in {"off", "tail"}
    BY <1>10, <2>1, <2>2, <2>4 DEF Landed
  <2>6. Undisturbed => ~dbusActive /\ "dbus" \notin live
    BY <2>4 DEF Bus
  <2> QED BY <2>3, <2>5, <2>6 DEF Bus
<1>12. CASE Wait
  <2>1. At("wait") /\ (Ok \/ Fail) /\ dbusActive' = dbusActive /\ dbusPid' = dbusPid
    BY <1>12 DEF Wait, manVars, Err
  <2>2. "dbus" \in live' <=> "dbus" \in live
    BY <1>12 DEF Wait
  <2>3. CASE st.arg # "dbus-daemon"
    BY <1>1, <2>1, <2>2, <2>3 DEF Ops, st
  <2>4. CASE st.arg = "dbus-daemon"
    <3>1. /\ St.dbus = "off" /\ y.dbus = "up" /\ st.onErr = 0
          /\ St.ph = "notified" /\ St.cmd = "dbus-daemon"
      BY <1>10, <2>1, <2>4 DEF Follows, FollowsDbus, FollowsPhase
    <3>2. Script[cmd].arg = "dbus-daemon"
      BY <1>0, <3>1 DEF Doing
    <3>3. Undisturbed' => Undisturbed /\ St'.dbus = "up" /\ Ok
      BY <1>10, <2>1, <3>1
    <3>4. ASSUME ~Fail PROVE "dbus" \in live
      BY <1>12, <3>2, <3>4 DEF Wait, Err
    <3>5. Fail => ~Undisturbed'
      BY <1>10, <2>1, <3>1
    <3>6. Undisturbed => ~dbusActive /\ ("dbus" \in live => dbusPid)
      BY <3>1 DEF Bus
    <3> QED BY <2>1, <2>2, <3>3, <3>4, <3>5, <3>6 DEF Bus
  <2> QED BY <2>3, <2>4
<1>13. CASE DbusUp
  <2>1. At("dbusup") /\ Ok /\ dbusActive' /\ dbusPid' = dbusPid /\ live' = live
    BY <1>13 DEF DbusUp, sysVars
  <2>2. St.dbus = "up" /\ y.dbus = "on"
    BY <1>10, <2>1 DEF Follows, FollowsDbus
  <2> QED BY <1>10, <2>1, <2>2 DEF Bus
<1>14. CASE DbusOpen
  <2>1. At("dbusopen") /\ dbusActive' = dbusActive /\ dbusPid' = dbusPid /\ live' = live
    BY <1>14 DEF DbusOpen, manVars, sysVars
  <2>2. St.dbus = "on" /\ y.dbus = "on" /\ st.onErr = 0
    BY <1>10, <2>1 DEF Follows, FollowsDbus
  <2>3. CASE Ok
    BY <1>10, <2>1, <2>2, <2>3 DEF Bus
  <2>4. CASE Fail
    BY <1>10, <2>1, <2>2, <2>4 DEF Bus
  <2>5. CASE ~dbusActive /\ UNCHANGED pc
    <3>1. ~Undisturbed
      BY <2>2, <2>5 DEF Bus
    <3> QED BY <2>5, <3>1 DEF Bus, Undisturbed, Running
  <2> QED BY <1>14, <2>3, <2>4, <2>5 DEF DbusOpen, Err
<1>15. CASE DbusKill
  <2>1. At("dbuskill") /\ ~dbusActive'
    BY <1>15 DEF DbusKill
  <2>2. (Ok /\ live' = live \ {"dbus"}) \/ Fail
    BY <1>15 DEF DbusKill, Err
  <2>3. St.dbus = "on" /\ y.dbus = "off" /\ st.onErr = 0
    BY <1>10, <2>1 DEF Follows, FollowsDbus
  <2> QED BY <1>10, <2>1, <2>2, <2>3 DEF Bus
<1> QED
  BY <1>2, <1>3, <1>4, <1>5, <1>6, <1>7, <1>8, <1>9, <1>11, <1>12, <1>13, <1>14, <1>15
  DEF RunScript

\* Every step keeps Bus.
LEMMA BusStep ==
    ASSUME TypeOK, Places, Doing, Bus, [Next]_vars
    PROVE  Bus'
<1>0. pc \in [Goroutine -> PC]
  BY DEF TypeOK
<1>1. CASE RunScript
  BY <1>1, BusScript
<1>2. ASSUME NEW g \in Goroutine, Cleanup(g) PROVE Bus'
  <2>1. pc'[g] \notin {"idle", "cancel", "cleanup", "run"}
    BY <1>2, CleanupGoes DEF Early
  <2> QED BY <2>1 DEF Bus, Undisturbed, Running, Goroutine
<1>3. CASE SetCancelled \/ Interrupt
  <2>1. /\ conf' = conf /\ pos' = pos /\ live' = live /\ dbusActive' = dbusActive
        /\ dbusPid' = dbusPid /\ pc["sig"] \in {"idle", "cancel"}
    BY <1>3 DEF SetCancelled, Interrupt, Cleaning, given, manVars, sysVars
  <2>2. pc'["main"] = pc["main"]
    BY <1>0, <1>3 DEF SetCancelled, Interrupt, Cleaning, Goto, Goroutine
  <2>3. St' = St /\ (Undisturbed' => Undisturbed)
    BY <2>1, <2>2, ScriptStays DEF Undisturbed, Running
  <2> QED BY <2>1, <2>3 DEF Bus
<1>4. ASSUME NEW g \in Goroutine, Exit(g) PROVE Bus'
  <2>1. /\ conf' = conf /\ pos' = pos /\ live' = live /\ dbusActive' = dbusActive
        /\ dbusPid' = dbusPid /\ pc' = pc
    BY <1>4 DEF Exit, given, sysVars
  <2>2. St' = St /\ (Undisturbed' => Undisturbed)
    BY <2>1, ScriptStays DEF Undisturbed, Running
  <2> QED BY <2>1, <2>2 DEF Bus
<1>5. CASE DbusForks
  <2>1. /\ conf' = conf /\ pos' = pos /\ live' = live \cup {"dbus"} /\ dbusActive' = dbusActive
        /\ dbusPid' /\ pc' = pc /\ "cmd" \in live /\ Script[cmd].arg = "dbus-daemon"
    BY <1>5 DEF DbusForks, given, manVars
  <2>2. St' = St /\ (Undisturbed' => Undisturbed)
    BY <2>1, ScriptStays DEF Undisturbed, Running
  <2>3. St.cmd = "dbus-daemon"
    BY <2>1 DEF Doing
  <2> QED BY <2>1, <2>2, <2>3 DEF Bus
<1>6. CASE UNCHANGED vars
  <2>1. /\ conf' = conf /\ pos' = pos /\ live' = live /\ dbusActive' = dbusActive
        /\ dbusPid' = dbusPid /\ pc' = pc
    BY <1>6 DEF vars
  <2>2. St' = St /\ (Undisturbed' => Undisturbed)
    BY <2>1, ScriptStays DEF Undisturbed, Running
  <2> QED BY <2>1, <2>2 DEF Bus
<1> QED
  BY <1>1, <1>2, <1>3, <1>4, <1>5, <1>6 DEF Next, MainStep, SigStep, Goroutine

\* A step of the script that fails by itself, or succeeds.
LEMMA BoundPlain ==
    ASSUME TypeOK, Bound, conf' = conf, env' = env, NEW op \in Ops, At(op), Ok \/ Err,
           op # "mount", mounts' = mounts
    PROVE  Bound'
<1>1. /\ conf \in Confs /\ pos \in 1..(Len(Script) + 1) /\ pos <= Len(Script) /\ Script[pos].op = op
      /\ env \in Envs /\ faults \in 0..env.faults
  BY DEF TypeOK, At
<1>2. Len(Script) \in Nat /\ pos \in 1..Len(Script)
  BY <1>1, ScriptIs
<1>3. CASE Ok
  <2>1. St' = Know(conf)[pos + 1] /\ pc' = pc /\ faults' = faults
    BY <1>3 DEF Ok, St
  <2>2. Follows(conf, Script[pos], St, St')
    BY <1>1, <1>2, <2>1, StepFacts
  <2>3. St'.bound = St.bound
    BY <1>1, <2>2 DEF Follows, FollowsMounts
  <2> QED BY <2>1, <2>3 DEF Bound, Undisturbed, Running
<1>4. CASE Err
  BY <1>1, <1>4, FaultType DEF Err, Bound
<1> QED BY <1>3, <1>4

\* Bound, for the steps of the script.
LEMMA BoundScript ==
    ASSUME TypeOK, Bound, RunScript
    PROVE  Bound'
<1>0. /\ conf' = conf /\ env' = env /\ Script' = Script /\ Running /\ pc'["sig"] = pc["sig"]
      /\ conf \in Confs /\ pos \in 1..(Len(Script) + 1) /\ Len(Script) \in Nat
      /\ pc \in [Goroutine -> PC] /\ env \in Envs /\ faults \in 0..env.faults
  BY ScriptFrame, ScriptIs DEF TypeOK
<1>1. ASSUME NEW op \in Ops, At(op), Ok \/ Err, op # "mount", mounts' = mounts
      PROVE  Bound'
  BY <1>0, <1>1, BoundPlain
<1>2. CASE Io_ \/ NewLock \/ Lock
  BY <1>1, <1>2 DEF Io_, NewLock, Lock, Ops, sysVars
<1>3. CASE Started \/ GetProfile
  BY <1>1, <1>3 DEF Started, GetProfile, Ops, sysVars
<1>4. CASE EnsureEopkgLayout \/ RemoveDbusPid
  <2>1. At("layout") \/ At("rmpid")
    BY <1>4 DEF EnsureEopkgLayout, RemoveDbusPid
  <2>2. (Ok \/ Err) /\ mounts' = mounts
    BY <1>4 DEF EnsureEopkgLayout, RemoveDbusPid
  <2> QED BY <1>1, <2>1, <2>2 DEF Ops
<1>5. CASE Unshare \/ SetActivePID0 \/ NotifyPID
  BY <1>1, <1>5 DEF Unshare, SetActivePID0, NotifyPID, Ops, sysVars
<1>6. CASE StartCommand \/ DbusUp
  <2>1. At("start") \/ At("dbusup")
    BY <1>6 DEF StartCommand, DbusUp
  <2>2. (Ok \/ Err) /\ mounts' = mounts
    BY <1>6 DEF StartCommand, DbusUp, sysVars
  <2> QED BY <1>1, <2>1, <2>2 DEF Ops
<1>7. CASE ChrootSelf
  <2>1. At("jail") \/ At("unjail")
    BY <1>7 DEF ChrootSelf
  <2>2. (Ok \/ Err) /\ mounts' = mounts
    BY <1>7 DEF ChrootSelf
  <2> QED BY <1>1, <2>1, <2>2 DEF Ops
<1>8. CASE HelperStarts
  BY <1>1, <1>8 DEF HelperStarts, Ops
<1>9. CASE Return
  <2>1. ~Running'
    BY <1>0, <1>9 DEF Return, Goto, Running, Goroutine
  <2> QED BY <2>1 DEF Bound, Undisturbed
<1>10. ASSUME NEW op \in {"wait", "helped", "check", "dbusopen", "dbuskill"}, At(op),
              Fail, faults' = faults, mounts' = mounts
       PROVE  Bound'
  <2>1. pos \in 1..Len(Script) /\ pos <= Len(Script) /\ Script[pos].op = op
    BY <1>0, <1>10 DEF At
  <2>2. \/ Script[pos].onErr = 0 /\ pc' = [pc EXCEPT !["main"] = "cleanup"]
        \/ /\ Script[pos].onErr # 0 /\ pos' = pos + Script[pos].onErr /\ pc' = pc
           /\ Lands(conf, Script, Know(conf), pos) /\ St' = Know(conf)[pos']
    BY <1>0, <1>10, <2>1, FailMoves
  <2>3. op \in {"dbusopen", "dbuskill"} => Script[pos].onErr = 0
    BY <1>0, <2>1, StepFacts DEF Follows, FollowsDbus
  <2>4. CASE Script[pos].onErr = 0
    BY <1>0, <2>2, <2>4 DEF Bound, Undisturbed, Running, Goroutine
  <2>5. CASE Script[pos].onErr # 0
    <3>1. St'.bound = St.bound
      BY <2>1, <2>2, <2>3, <2>5 DEF Lands, St
    <3> QED BY <1>10, <2>2, <2>5, <3>1 DEF Bound, Undisturbed, Running
  <2> QED BY <2>4, <2>5
<1>11. CASE Wait \/ HelperEnds
  <2>1. PICK op \in {"wait", "helped"} : At(op)
    BY <1>11 DEF Wait, HelperEnds
  <2>2. (Ok \/ Err \/ (Fail /\ faults' = faults)) /\ mounts' = mounts
    BY <1>11 DEF Wait, HelperEnds
  <2> QED BY <1>1, <1>10, <2>1, <2>2 DEF Ops
<1>12. CASE Check \/ DbusKill
  <2>1. PICK op \in {"check", "dbuskill"} : At(op)
    BY <1>12 DEF Check, DbusKill
  <2>2. (Ok \/ Err \/ (Fail /\ faults' = faults)) /\ mounts' = mounts
    BY <1>12 DEF Check, DbusKill, sysVars
  <2> QED BY <1>1, <1>10, <2>1, <2>2 DEF Ops
<1>13. CASE DbusOpen
  <2>1. At("dbusopen") /\ mounts' = mounts
    BY <1>13 DEF DbusOpen, sysVars
  <2>2. CASE Ok \/ Err \/ (Fail /\ faults' = faults)
    BY <1>1, <1>10, <2>1, <2>2 DEF Ops
  <2>3. CASE pos' = pos + 2 /\ UNCHANGED <<pc, faults>>
    <3>1. Skips
      BY <1>0, <2>1, DbusSkips DEF At
    <3>2. St' = Know(conf)[pos + 2]
      BY <1>0, <2>3 DEF St
    <3> QED BY <2>1, <2>3, <3>1, <3>2 DEF Skips, Bound, Undisturbed, Running
  <2> QED BY <1>13, <2>2, <2>3 DEF DbusOpen
<1>14. CASE DoMount
  <2>1. At("mount") /\ ((Ok /\ mounts' = mounts \cup {Script[pos].arg}) \/ Err)
    BY <1>14 DEF DoMount
  <2>2. pos \in 1..Len(Script) /\ pos <= Len(Script) /\ Script[pos].op = "mount"
    BY <1>0, <2>1 DEF At
  <2>3. CASE Ok /\ mounts' = mounts \cup {Script[pos].arg}
    <3>1. St' = Know(conf)[pos + 1] /\ pc' = pc /\ faults' = faults
      BY <1>0, <2>3 DEF Ok, St
    <3>2. St'.bound = St.bound \cup {Script[pos].arg}
      BY <1>0, <2>2, <3>1, StepFacts DEF Follows, FollowsMounts
    <3> QED BY <2>3, <3>1, <3>2 DEF Bound, Undisturbed, Running
  <2>4. CASE Err
    BY <1>0, <2>4, FaultType DEF Err, Bound
  <2> QED BY <2>1, <2>3, <2>4
<1> QED
  BY <1>2, <1>3, <1>4, <1>5, <1>6, <1>7, <1>8, <1>9, <1>11, <1>12, <1>13, <1>14
  DEF RunScript

\* Every step keeps Bound.
LEMMA BoundStep ==
    ASSUME TypeOK, Places, Bound, [Next]_vars
    PROVE  Bound'
<1>0. pc \in [Goroutine -> PC]
  BY DEF TypeOK
<1>1. CASE RunScript
  BY <1>1, BoundScript
<1>2. ASSUME NEW g \in Goroutine, Cleanup(g) PROVE Bound'
  <2>1. pc'[g] \notin {"idle", "cancel", "cleanup", "run"}
    BY <1>2, CleanupGoes DEF Early
  <2> QED BY <2>1 DEF Bound, Undisturbed, Running, Goroutine
<1>3. CASE SetCancelled \/ Interrupt
  <2>1. /\ conf' = conf /\ pos' = pos /\ mounts' = mounts /\ faults' = faults
        /\ pc["sig"] \in {"idle", "cancel"}
    BY <1>3 DEF SetCancelled, Interrupt, Cleaning, given, manVars, sysVars
  <2>2. pc'["main"] = pc["main"]
    BY <1>0, <1>3 DEF SetCancelled, Interrupt, Cleaning, Goto, Goroutine
  <2>3. St' = St /\ (Undisturbed' => Undisturbed)
    BY <2>1, <2>2, ScriptStays DEF Undisturbed, Running
  <2> QED BY <2>1, <2>3 DEF Bound
<1>4. ASSUME conf' = conf, pos' = pos, mounts' = mounts, faults' = faults, pc' = pc
      PROVE  Bound'
  <2>1. St' = St /\ (Undisturbed' => Undisturbed)
    BY <1>4, ScriptStays DEF Undisturbed, Running
  <2> QED BY <1>4, <2>1 DEF Bound
<1>5. ASSUME NEW g \in Goroutine, Exit(g) PROVE Bound'
  BY <1>4, <1>5 DEF Exit, given, sysVars
<1>6. CASE DbusForks
  BY <1>4, <1>6 DEF DbusForks, given
<1>7. CASE UNCHANGED vars
  BY <1>4, <1>7 DEF vars
<1> QED
  BY <1>1, <1>2, <1>3, <1>5, <1>6, <1>7 DEF Next, MainStep, SigStep, Goroutine

-----------------------------------------------------------------------------
(***************************************************************************)
(* The teardown of a session that gets its signal while main waits         *)
(***************************************************************************)
\* Nothing of main lives when it is stopped.
LEMMA StoppedIdle ==
    ASSUME TypeOK, Doing, Stopped
    PROVE  "cmd" \notin live
<1>1. conf \in Confs /\ pos \in 1..(Len(Script) + 1) /\ Len(Script) \in Nat
  BY ScriptIs DEF TypeOK
<1>2. ASSUME pos <= Len(Script)
      PROVE  Follows(conf, Script[pos], St, Know(conf)[pos + 1])
  <2>1. pos \in 1..Len(Script)
    BY <1>1, <1>2
  <2> QED BY <1>1, <2>1, StepFacts
<1>3. CASE ~Running
  BY <1>3 DEF Doing
<1>4. CASE St.dbus = "tail"
  <2>1. CASE pos <= Len(Script)
    BY <1>2, <1>4, <2>1 DEF Follows, FollowsDbus, FollowsPhase, PhaseOps, Doing
  <2>2. CASE pos = Len(Script) + 1
    <3>1. St.ph = "none"
      BY <1>1, <2>2, ScriptIs DEF Fits, St
    <3> QED BY <3>1 DEF Doing
  <2> QED BY <1>1, <2>1, <2>2
<1>5. CASE pos <= Len(Script) /\ Script[pos].op \in {"reset", "check"}
  BY <1>2, <1>5 DEF Follows, FollowsPhase, PhaseOps, Doing
<1>6. CASE "cmd" \notin live
  BY <1>6
<1>7. CASE pos + 1 <= Len(Script) /\ Script[pos].op = "reset"
  BY <1>1, <1>5, <1>7
<1> QED BY <1>3, <1>4, <1>5, <1>6, <1>7 DEF Stopped

\* The signal of a calm session.
LEMMA CalmSignal ==
    ASSUME TypeOK, Places, Calm, pc["sig"] # "idle"
    PROVE  LongTask /\ (pc["sig"] # "cancel" => conf.op # "chroot")
<1>1. env.signal \in {"none", "longtask", "any"}
  BY EnvAssumption DEF TypeOK, Env
<1> QED BY <1>1 DEF Places, Calm, LongTask

\* While the command lives, main waits for it.
LEMMA EarlyStuck ==
    ASSUME TypeOK, Places, Teardown, Calm, pc["sig"] \in Early
    PROVE  ~RunScript
<1>1. /\ Running /\ pos <= Len(Script) /\ Script[pos].op = "wait" /\ "cmd" \in live /\ LongTask
  BY CalmSignal DEF Teardown, Early
<1>2. pos \in 1..(Len(Script) + 1) /\ Len(Script) \in Nat
  BY ScriptIs DEF TypeOK
<1>3. ~Wait
  BY <1>1 DEF Wait
<1>4. ~Return
  BY <1>1, <1>2 DEF Return
<1> QED
  BY <1>1, <1>3, <1>4
  DEF RunScript, Io_, NewLock, Lock, Started, GetProfile, DoMount, EnsureEopkgLayout,
      RemoveDbusPid, Unshare, StartCommand, NotifyPID, SetActivePID0, Check, HelperStarts,
      HelperEnds, DbusUp, DbusOpen, DbusKill, ChrootSelf, At

\* When it is dead, main goes to its own Cleanup and touches nothing.
LEMMA LateStopped ==
    ASSUME TypeOK, Places, Doing, Teardown, Calm, pc["sig"] \in Late, RunScript
    PROVE  /\ Stopped'
           /\ UNCHANGED <<live, mounts, lockfile, didStart, jailed>>
<1>0. /\ conf' = conf /\ Script' = Script /\ Know(conf') = Know(conf) /\ Running /\ ~exited
      /\ conf \in Confs /\ pos \in 1..(Len(Script) + 1) /\ Len(Script) \in Nat
      /\ pc \in [Goroutine -> PC] /\ err \in BOOLEAN
  BY ScriptFrame, ScriptIs DEF TypeOK
<1>1. Stopped /\ conf.op # "chroot" /\ "cmd" \notin live
  BY CalmSignal, StoppedIdle DEF Teardown, Late
<1>2. ASSUME pos <= Len(Script)
      PROVE  /\ pos \in 1..Len(Script) /\ IsStep(Script[pos])
             /\ Follows(conf, Script[pos], St, Know(conf)[pos + 1])
             /\ ~Return
             /\ Fail => err' = (err \/ Script[pos].keep)
             /\ Fail => \/ ~Running'
                        \/ /\ Script[pos].onErr # 0 /\ pos' = pos + Script[pos].onErr
                           /\ Lands(conf, Script, Know(conf), pos) /\ St' = Know(conf)[pos']
  <2>1. pos \in 1..Len(Script) /\ ~Return
    BY <1>0, <1>2 DEF Return
  <2>2. IsStep(Script[pos]) /\ Follows(conf, Script[pos], St, Know(conf)[pos + 1])
    BY <1>0, <2>1, StepFacts
  <2>3. Fail => /\ err' = (err \/ Script[pos].keep)
                /\ \/ pc' = [pc EXCEPT !["main"] = "cleanup"]
                   \/ /\ Script[pos].onErr # 0 /\ pos' = pos + Script[pos].onErr
                      /\ Lands(conf, Script, Know(conf), pos) /\ St' = Know(conf)[pos']
    BY <1>0, <1>2, FailMoves
  <2>4. pc' = [pc EXCEPT !["main"] = "cleanup"] => ~Running'
    BY <1>0 DEF Running, Goroutine
  <2> QED BY <2>1, <2>2, <2>3, <2>4
<1>3. ASSUME pos <= Len(Script), NEW op \in {"io", "reset", "wait", "check"}, Script[pos].op = op
      PROVE  /\ op = "io" => Io_
             /\ op = "reset" => SetActivePID0
             /\ op = "wait" => Wait
             /\ op = "check" => Check
  BY <1>2, <1>3
  DEF RunScript, Io_, NewLock, Lock, Started, GetProfile, DoMount, EnsureEopkgLayout,
      RemoveDbusPid, Unshare, StartCommand, NotifyPID, SetActivePID0, Wait, Check, HelperStarts,
      HelperEnds, DbusUp, DbusOpen, DbusKill, ChrootSelf, At
<1>4. CASE pos <= Len(Script) /\ Script[pos].op = "wait" /\ "cmd" \notin live
  <2>1. Wait
    BY <1>3, <1>4
  <2>2. Fail /\ UNCHANGED <<live, mounts, lockfile, didStart, jailed>>
    BY <1>4, <2>1 DEF Wait, manVars
  <2>3. CASE ~Running'
    BY <2>2, <2>3 DEF Stopped
  <2>4. CASE /\ Script[pos].onErr # 0 /\ pos' = pos + Script[pos].onErr
             /\ Lands(conf, Script, Know(conf), pos) /\ St' = Know(conf)[pos']
    <3>1. \/ St'.dbus = "tail"
          \/ /\ Script[pos].keep /\ pos' + 1 <= Len(Script)
             /\ Script[pos'].op = "reset" /\ Script[pos' + 1].op = "check"
             /\ Script[pos' + 1].onErr = 0
      BY <1>1, <1>4, <2>4 DEF Lands
    <3>2. CASE St'.dbus = "tail"
      BY <2>2, <3>2 DEF Stopped
    <3>3. CASE /\ Script[pos].keep /\ pos' + 1 <= Len(Script)
               /\ Script[pos'].op = "reset" /\ Script[pos' + 1].op = "check"
               /\ Script[pos' + 1].onErr = 0
      <4>1. err'
        BY <1>2, <1>4, <2>2, <3>3
      <4> QED BY <1>0, <2>2, <3>3, <4>1 DEF Stopped
    <3> QED BY <3>1, <3>2, <3>3
  <2> QED BY <1>2, <1>4, <2>2, <2>3, <2>4
<1>5. CASE St.dbus = "tail"
  <2>1. CASE pos <= Len(Script)
    <3>1. Script[pos].op \in {"io", "reset"} /\ Know(conf)[pos + 1].dbus = "tail"
      BY <1>2, <1>5, <2>1 DEF Follows, FollowsDbus
    <3>2. Io_ \/ SetActivePID0
      BY <1>3, <2>1, <3>1
    <3>3. UNCHANGED <<live, mounts, lockfile, didStart, jailed>>
      BY <3>2 DEF Io_, SetActivePID0, manVars, sysVars
    <3>4. CASE Ok
      <4>1. St' = Know(conf)[pos + 1]
        BY <1>0, <3>4 DEF Ok, St
      <4> QED BY <3>1, <3>3, <4>1 DEF Stopped
    <3>5. CASE Fail
      <4>1. ~Running' \/ St'.dbus = "tail"
        BY <1>2, <1>5, <2>1, <3>5 DEF Lands, Landed, St
      <4> QED BY <3>3, <4>1 DEF Stopped
    <3> QED BY <3>2, <3>4, <3>5 DEF Io_, SetActivePID0, Err
  <2>2. CASE pos > Len(Script)
    <3>1. Return
      <4>1. Return \/ \E op : At(op)
        BY DEF RunScript, Io_, NewLock, Lock, Started, GetProfile, DoMount, EnsureEopkgLayout,
               RemoveDbusPid, Unshare, StartCommand, NotifyPID, SetActivePID0, Wait, Check,
               HelperStarts, HelperEnds, DbusUp, DbusOpen, DbusKill, ChrootSelf
      <4>2. ~(pos <= Len(Script))
        BY <1>0, <2>2
      <4> QED BY <4>1, <4>2 DEF At
    <3>2. ~Running'
      BY <1>0, <3>1 DEF Return, Goto, Running, Goroutine
    <3> QED BY <3>1, <3>2 DEF Return, Stopped, manVars, sysVars
  <2> QED BY <1>0, <2>1, <2>2
<1>6. CASE /\ err /\ pos + 1 <= Len(Script) /\ Script[pos].op = "reset"
           /\ Script[pos + 1].op = "check" /\ Script[pos + 1].onErr = 0
  <2>1. pos <= Len(Script)
    BY <1>0, <1>6
  <2>2. SetActivePID0
    BY <1>3, <1>6, <2>1
  <2>3. Ok /\ UNCHANGED <<live, mounts, lockfile, didStart, jailed>>
    BY <2>2 DEF SetActivePID0, sysVars
  <2>4. pos' = pos + 1 /\ err'
    BY <1>6, <2>3 DEF Ok
  <2> QED BY <1>0, <1>6, <2>3, <2>4 DEF Stopped
<1>7. CASE err /\ pos <= Len(Script) /\ Script[pos].op = "check" /\ Script[pos].onErr = 0
  <2>1. Check
    BY <1>3, <1>7
  <2>2. Fail /\ UNCHANGED <<live, mounts, lockfile, didStart, jailed>>
    BY <1>7, <2>1 DEF Check, manVars, sysVars
  <2>3. ~Running'
    BY <1>2, <1>7, <2>2
  <2> QED BY <2>2, <2>3 DEF Stopped
<1> QED BY <1>0, <1>1, <1>4, <1>5, <1>6, <1>7 DEF Stopped

\* The lock file of a session that has started is given up by Cleanup alone.
LEMMA ScriptHolds ==
    ASSUME TypeOK, Locking, RunScript, didStart', lockfile' # "held"
    PROVE  didStart /\ lockfile = lockfile'
<1>0. /\ Running /\ ~exited /\ conf' = conf /\ conf \in Confs /\ Len(Script) \in Nat
      /\ pos \in 1..(Len(Script) + 1)
  BY ScriptFrame, ScriptIs DEF TypeOK
<1>1. ASSUME NEW op, At(op)
      PROVE  FollowsLock(Script[pos], St, Know(conf)[pos + 1]) /\ Script[pos].op = op
  <2>1. pos \in 1..Len(Script) /\ Script[pos].op = op
    BY <1>0, <1>1 DEF At
  <2> QED BY <1>0, <2>1, StepFacts DEF Follows
<1>2. CASE NewLock \/ Lock
  <2>1. PICK op \in {"newlock", "lock"} : At(op)
    BY <1>2 DEF NewLock, Lock
  <2>2. ~didStart
    BY <1>1, <2>1 DEF FollowsLock, Locking
  <2>3. didStart' = didStart
    BY <1>2 DEF NewLock, Lock
  <2> QED BY <2>2, <2>3
<1>3. CASE Started
  <2>1. At("started") /\ lockfile' = lockfile
    BY <1>3 DEF Started
  <2>2. St.lock = "held"
    BY <1>1, <2>1 DEF FollowsLock
  <2> QED BY <1>0, <2>1, <2>2 DEF Locking
<1>4. CASE ~NewLock /\ ~Lock /\ ~Started
  BY <1>4
  DEF RunScript, Io_, GetProfile, DoMount, EnsureEopkgLayout, RemoveDbusPid, Unshare,
      StartCommand, NotifyPID, SetActivePID0, Wait, Check, HelperStarts, HelperEnds, DbusUp,
      DbusOpen, DbusKill, ChrootSelf, Return, manVars
<1> QED BY <1>2, <1>3, <1>4

\* Teardown, for the steps of the script: what main still does after the kill
\* of its command mounts nothing and starts nothing.
LEMMA TeardownScript ==
    ASSUME TypeOK, Places, Doing, Locking, Teardown, RunScript
    PROVE  Teardown'
<1>0. /\ conf' = conf /\ env' = env /\ cancelled' = cancelled /\ Running
      /\ pc'["sig"] = pc["sig"] /\ pc'["main"] \in {"run", "cleanup"}
  BY ScriptFrame
<1> SUFFICES ASSUME Calm' PROVE Teardown'
  BY DEF Teardown
<1>1. Calm
  BY <1>0 DEF Calm
<1>2. pc["sig"] \notin Early
  BY <1>1, EarlyStuck
<1>3. Torn("main")'
  BY <1>0 DEF Torn, Late
<1>4. CASE pc["sig"] = "idle"
  <2>1. Torn("sig")'
    BY <1>0, <1>4 DEF Torn, Late
  <2>2. didStart /\ lockfile # "held" => FALSE
    BY <1>0, <1>1, <1>4 DEF Teardown, Running, Goroutine
  <2>3. didStart' /\ lockfile' # "held" => FALSE
    BY <2>2, ScriptHolds
  <2> QED BY <1>0, <1>3, <1>4, <2>1, <2>3 DEF Teardown, Early, Late, Goroutine
<1>5. CASE pc["sig"] \in Late
  <2>1. Stopped' /\ UNCHANGED <<live, mounts, lockfile, didStart, jailed>>
    BY <1>1, <1>5, LateStopped
  <2>2. Torn("sig")
    BY <1>1 DEF Teardown, Goroutine
  <2>3. Torn("sig")'
    BY <1>0, <2>1, <2>2 DEF Torn
  <2>4. didStart /\ lockfile # "held" => pc["sig"] \in {"release", "done"}
    BY <1>0, <1>1 DEF Teardown, Running, Goroutine
  <2>5. didStart' /\ lockfile' # "held" => \E g \in Goroutine : pc'[g] \in {"release", "done"}
    BY <1>0, <2>1, <2>4 DEF Goroutine
  <2> QED BY <1>0, <1>2, <1>3, <2>1, <2>3, <2>5 DEF Teardown, Goroutine
<1> QED BY <1>2, <1>4, <1>5 DEF Places

\* What Cleanup leaves of the root at each of its steps.
LEMMA CleanupTears ==
    ASSUME TypeOK, Places, Doing, Teardown, Calm, NEW g \in Goroutine, Cleanup(g),
           pc[g] \in Late => "cmd" \notin live
    PROVE  Torn(g)'
<1>0. /\ didStart' = didStart /\ jailed' = jailed /\ live' \subseteq live /\ mounts' \subseteq mounts
      /\ Torn(g)
  BY CleanupFrame DEF Teardown
<1> SUFFICES ASSUME didStart, ~jailed
             PROVE  /\ pc'[g] \in Late \ {"murder"} => live' = {}
                    /\ pc'[g] \in {"unlock", "release", "done"} => mounts' = {}
                    /\ pc'[g] \in {"release", "done"} => lockfile' = "removed"
  BY <1>0 DEF Torn
<1>1. \A in \in SeesJail : in = FALSE
  <2>1. jailed = FALSE
    BY DEF TypeOK
  <2> QED BY <2>1, Zenon DEF SeesJail
<1>2. FALSE \in SeesJail
  BY DEF SeesJail
<1>3. \/ pc'[g] \in Early \cup {"murder"}
      \/ <<pc[g], pc'[g]>> \in {<<"murder", "deactivate">>, <<"deactivate", "murder2">>,
                   <<"murder2", "unmount">>, <<"unmount", "unlock">>, <<"unlock", "release">>,
                   <<"release", "done">>}
  BY CleanupGoes DEF Early
<1>4. CASE pc'[g] \in Early \cup {"murder"}
  BY <1>4 DEF Early, Late
<1>5. CASE pc[g] = "murder" /\ pc'[g] = "deactivate"
  <2>1. MurderDeathKill(g, "murder", "deactivate")
    BY <1>5 DEF Cleanup, EnterCleanup, OpenDbusPid, KillDbus, UnmountCache, KillActive,
         MurderDeathKill, Deactivate, UnmountAll, UnlockFile, LeaveCleanup, Cleaning
  <2>2. live' = Murdered
    BY <1>1, <2>1 DEF MurderDeathKill
  <2>3. "cmd" \notin live /\ "stray" \notin live
    BY <1>5 DEF Late, Doing, Calm
  <2>4. live' = {}
    BY <2>2, <2>3 DEF Murdered
  <2> QED BY <1>5, <2>4
<1>6. CASE pc[g] \in Late \ {"murder"}
  <2>1. live = {} /\ live' = {}
    BY <1>0, <1>6 DEF Torn
  <2>2. pc[g] \in {"unlock", "release", "done"} => mounts' = {}
    BY <1>0 DEF Torn
  <2>3. pc[g] = "unmount" => mounts' = {}
    <3> SUFFICES ASSUME pc[g] = "unmount" PROVE mounts' = {}
      OBVIOUS
    <3>1. UnmountAll(g)
      BY DEF Cleanup, EnterCleanup, OpenDbusPid, KillDbus, UnmountCache, KillActive,
         MurderDeathKill, Deactivate, UnmountAll, UnlockFile, LeaveCleanup, Cleaning
    <3>2. mounts' = Unmounted
      BY <1>1, <3>1 DEF UnmountAll
    <3> QED BY <2>1, <3>2 DEF Unmounted, RootInUse
  <2>4. pc[g] = "unlock" => lockfile' = "removed"
    BY <1>1 DEF Cleanup, EnterCleanup, OpenDbusPid, KillDbus, UnmountCache, KillActive,
         MurderDeathKill, Deactivate, UnmountAll, UnlockFile, LeaveCleanup, Cleaning
  <2>5. pc[g] = "release" => lockfile' = lockfile
    BY DEF Cleanup, EnterCleanup, OpenDbusPid, KillDbus, UnmountCache, KillActive,
         MurderDeathKill, Deactivate, UnmountAll, UnlockFile, LeaveCleanup, Cleaning
  <2>6. pc[g] = "release" => lockfile = "removed"
    BY <1>0 DEF Torn
  <2> QED BY <1>3, <1>6, <2>1, <2>2, <2>3, <2>4, <2>5, <2>6 DEF Early
<1> QED BY <1>3, <1>4, <1>5, <1>6 DEF Late

\* Teardown, for the steps of Cleanup.
LEMMA TeardownCleanup ==
    ASSUME TypeOK, Places, Doing, Locking, Teardown, NEW g \in Goroutine, Cleanup(g)
    PROVE  Teardown'
<1>0. /\ conf' = conf /\ env' = env /\ cancelled' = cancelled /\ Script' = Script
      /\ pos' = pos /\ St' = St /\ err' = err /\ didStart' = didStart /\ jailed' = jailed
      /\ live' \subseteq live /\ mounts' \subseteq mounts /\ cmd' = cmd
      /\ pc[g] \in CleanupPC /\ \A h \in Goroutine : h # g => pc'[h] = pc[h]
  BY CleanupFrame
<1> SUFFICES ASSUME Calm' PROVE Teardown'
  BY DEF Teardown
<1>1. Calm
  BY <1>0 DEF Calm
<1>2. pc[g] \in Late \/ g = "main" => "cmd" \notin live
  <2>1. g = "main" => ~Running
    BY <1>0 DEF Running, CleanupPC
  <2>2. g = "sig" /\ pc[g] \in Late => "cmd" \notin live
    BY <1>1, StoppedIdle DEF Teardown
  <2> QED BY <2>1, <2>2 DEF Doing, Goroutine
<1>3. Torn(g)'
  BY <1>1, <1>2, CleanupTears
<1>4. lockfile' = lockfile \/ (pc[g] = "unlock" /\ pc'[g] = "release")
  <2>1. pc[g] # "unlock" => lockfile' = lockfile
    BY DEF Cleanup, EnterCleanup, OpenDbusPid, KillDbus, UnmountCache, KillActive,
         MurderDeathKill, Deactivate, UnmountAll, UnlockFile, LeaveCleanup, Cleaning, manVars
  <2>2. pc[g] = "unlock" => pc'[g] = "release"
    BY CleanupGoes DEF Early
  <2> QED BY <2>1, <2>2
<1>5. ASSUME NEW h \in Goroutine, h # g PROVE Torn(h)'
  <2>1. Torn(h) /\ pc'[h] = pc[h]
    BY <1>0, <1>1, <1>5 DEF Teardown
  <2>2. ~jailed /\ pc[g] = "unlock" => lockfile' = "removed"
    BY DEF SeesJail, Cleanup, EnterCleanup, OpenDbusPid, KillDbus, UnmountCache, KillActive,
         MurderDeathKill, Deactivate, UnmountAll, UnlockFile, LeaveCleanup, Cleaning
  <2> QED BY <1>0, <1>4, <2>1, <2>2 DEF Torn
<1>6. didStart' /\ lockfile' # "held" => \E h \in Goroutine : pc'[h] \in {"release", "done"}
  <2> SUFFICES ASSUME didStart, lockfile' # "held"
               PROVE  \E h \in Goroutine : pc'[h] \in {"release", "done"}
    BY <1>0
  <2>1. CASE pc'[g] = "release"
    BY <2>1
  <2>2. CASE lockfile' = lockfile
    <3>1. PICK h \in Goroutine : pc[h] \in {"release", "done"}
      BY <1>1, <2>2 DEF Teardown
    <3>2. pc'[h] \in {"release", "done"}
      <4>1. CASE h # g
        BY <1>0, <3>1, <4>1
      <4>2. CASE h = g
        BY <3>1, <4>2, CleanupGoes DEF Early
      <4> QED BY <4>1, <4>2
    <3> QED BY <3>2
  <2> QED BY <1>4, <2>1, <2>2
<1>7. CASE g = "main"
  <2>1. ~Running /\ ~Running'
    BY <1>0, <1>7, CleanupGoes DEF Running, CleanupPC, Early
  <2>2. pc["sig"] \notin Early /\ pc'["sig"] = pc["sig"]
    BY <1>0, <1>1, <1>7, <2>1 DEF Teardown, Goroutine
  <2> QED BY <1>3, <1>5, <1>6, <1>7, <2>1, <2>2 DEF Teardown, Stopped
<1>8. CASE g = "sig"
  <2>0. Running' = Running
    BY <1>0, <1>8 DEF Running, Goroutine
  <2>1. CASE pc["sig"] \in Early
    <3>1. Running /\ pos <= Len(Script) /\ Script[pos].op = "wait" /\ "cmd" \in live
      BY <1>1, <2>1 DEF Teardown
    <3>2. didStart
      BY <3>1 DEF Locking
    <3>3. CASE pc["sig"] = "kill"
      <4>1. KillActive("sig")
        BY <1>8, <3>3 DEF Cleanup, EnterCleanup, OpenDbusPid, KillDbus, UnmountCache, KillActive,
           MurderDeathKill, Deactivate, UnmountAll, UnlockFile, LeaveCleanup, Cleaning
      <4>2. pos \in 1..Len(Script) /\ conf \in Confs
        BY <3>1, ScriptIs DEF TypeOK
      <4>3. St.ph = "notified"
        BY <3>1, <4>2, StepFacts DEF Follows, FollowsPhase
      <4>4. activePID = cmd /\ cmd # 0
        BY <3>1, <3>3, <4>3 DEF Doing, Late
      <4>5. "cmd" \notin live'
        BY <4>1, <4>4 DEF KillActive
      <4>6. Stopped'
        BY <1>0, <3>1, <4>5 DEF Stopped
      <4>7. pc'["sig"] = "murder"
        BY <1>8, <3>3, CleanupGoes DEF Early
      <4> QED BY <1>3, <1>5, <1>6, <1>8, <4>6, <4>7 DEF Teardown, Early
    <3>4. CASE pc["sig"] # "kill"
      <4>1. pc'["sig"] \in Early
        BY <1>8, <2>1, <3>2, <3>4, CleanupGoes DEF Early
      <4>2. "cmd" \in live'
        BY <1>8, <2>1, <3>1, <3>4
        DEF Early, Cleanup, EnterCleanup, OpenDbusPid, KillDbus, UnmountCache, KillActive,
           MurderDeathKill, Deactivate, UnmountAll, UnlockFile, LeaveCleanup, Cleaning, sysVars
      <4> QED BY <1>0, <1>3, <1>5, <1>6, <2>0, <3>1, <4>1, <4>2 DEF Teardown, Early, Late
    <3> QED BY <3>3, <3>4
  <2>2. CASE pc["sig"] \in Late
    <3>1. Stopped /\ "cmd" \notin live'
      BY <1>0, <1>1, <1>2, <1>8, <2>2 DEF Teardown
    <3>2. Stopped'
      BY <1>0, <2>0, <3>1 DEF Stopped
    <3>3. pc'["sig"] \in Late
      BY <1>8, <2>2, CleanupGoes DEF Early, Late
    <3> QED BY <1>3, <1>5, <1>6, <3>2, <3>3 DEF Teardown, Early, Late
  <2> QED BY <1>0, <1>8, <2>1, <2>2 DEF Places, CleanupPC
<1> QED BY <1>7, <1>8 DEF Goroutine

\* Every step keeps Teardown.
LEMMA TeardownStep ==
    ASSUME TypeOK, Places, Doing, Locking, Teardown, [Next]_vars
    PROVE  Teardown'
<1>0. pc \in [Goroutine -> PC]
  BY DEF TypeOK
<1>1. CASE RunScript
  BY <1>1, TeardownScript
<1>2. ASSUME NEW g \in Goroutine, Cleanup(g) PROVE Teardown'
  BY <1>2, TeardownCleanup
<1>3. CASE SetCancelled
  <2>1. /\ conf' = conf /\ env' = env /\ pos' = pos /\ err' = err /\ live' = live /\ mounts' = mounts
        /\ didStart' = didStart /\ lockfile' = lockfile /\ jailed' = jailed /\ cancelled'
        /\ pc["sig"] = "cancel"
    BY <1>3 DEF SetCancelled, Cleaning, given, sysVars
  <2>2. pc'["sig"] = "cleanup" /\ pc'["main"] = pc["main"]
    BY <1>0, <1>3 DEF SetCancelled, Cleaning, Goto, Goroutine
  <2>3. Script' = Script /\ St' = St /\ Running' = Running
    BY <2>1, <2>2, ScriptStays DEF Running
  <2>4. Calm' => Calm
    BY <2>1 DEF Calm
  <2> QED BY <2>1, <2>2, <2>3, <2>4 DEF Teardown, Early, Late, Torn, Goroutine
<1>4. CASE Interrupt
  <2>1. /\ conf' = conf /\ env' = env /\ pos' = pos /\ err' = err /\ live' = live /\ mounts' = mounts
        /\ didStart' = didStart /\ lockfile' = lockfile /\ jailed' = jailed
        /\ cancelled' = cancelled /\ pc["sig"] = "idle"
    BY <1>4 DEF Interrupt, given, manVars, sysVars
  <2>2. pc'["sig"] = "cancel" /\ pc'["main"] = pc["main"]
    BY <1>0, <1>4 DEF Interrupt, Goto, Goroutine
  <2>3. Script' = Script /\ St' = St /\ Running' = Running
    BY <2>1, <2>2, ScriptStays DEF Running
  <2>4. Calm' => Calm
    BY <2>1 DEF Calm
  <2>5. Calm => Running /\ pos <= Len(Script) /\ Script[pos].op = "wait" /\ "cmd" \in live
    BY <1>4 DEF Interrupt, Calm, At, Running
  <2> QED BY <2>1, <2>2, <2>3, <2>4, <2>5 DEF Teardown, Early, Late, Torn, Goroutine
<1>5. ASSUME NEW g \in Goroutine, Exit(g) PROVE Teardown'
  <2>1. /\ conf' = conf /\ env' = env /\ pos' = pos /\ err' = err /\ live' = live /\ mounts' = mounts
        /\ didStart' = didStart /\ jailed' = jailed /\ cancelled' = cancelled /\ pc' = pc
        /\ pc[g] = "done" /\ (lockfile = "removed" => lockfile' = lockfile)
    BY <1>5 DEF Exit, given, sysVars
  <2>2. Script' = Script /\ St' = St /\ Running' = Running /\ (Stopped => Stopped')
    BY <2>1, ScriptStays DEF Running, Stopped
  <2>3. Calm' => Calm
    BY <2>1 DEF Calm
  <2>4. \A h \in Goroutine : Torn(h) => Torn(h)'
    BY <2>1 DEF Torn
  <2> QED BY <2>1, <2>2, <2>3, <2>4 DEF Teardown
<1>6. CASE DbusForks
  <2>1. /\ conf' = conf /\ env' = env /\ pos' = pos /\ mounts' = mounts
        /\ didStart' = didStart /\ jailed' = jailed /\ cancelled' = cancelled /\ pc' = pc
        /\ lockfile' = lockfile /\ "cmd" \in live /\ "cmd" \in live'
    BY <1>6 DEF DbusForks, given, manVars
  <2>2. Script' = Script /\ Running' = Running /\ Running
    BY <2>1, ScriptStays DEF Running, Doing
  <2>3. Calm' => Calm
    BY <2>1 DEF Calm
  <2>4. Calm => pc["sig"] \notin Late
    BY <2>1, StoppedIdle DEF Teardown
  <2>5. Calm => Torn("main")' /\ Torn("sig")'
    BY <2>1, <2>2, <2>4 DEF Torn, Running, Late
  <2> QED BY <2>1, <2>2, <2>3, <2>4, <2>5 DEF Teardown, Goroutine
<1>7. CASE UNCHANGED vars
  <2>1. /\ conf' = conf /\ env' = env /\ pos' = pos /\ err' = err /\ live' = live /\ mounts' = mounts
        /\ didStart' = didStart /\ jailed' = jailed /\ cancelled' = cancelled /\ pc' = pc
        /\ lockfile' = lockfile
    BY <1>7 DEF vars
  <2>2. Script' = Script /\ St' = St /\ Running' = Running /\ (Stopped => Stopped')
    BY <2>1, ScriptStays DEF Running, Stopped
  <2>3. (Calm' => Calm) /\ \A h \in Goroutine : Torn(h) => Torn(h)'
    BY <2>1 DEF Calm, Torn
  <2> QED BY <2>1, <2>2, <2>3 DEF Teardown
<1> QED
  BY <1>1, <1>2, <1>3, <1>4, <1>5, <1>6, <1>7 DEF Next, MainStep, SigStep, Goroutine

-----------------------------------------------------------------------------
(***************************************************************************)
(* The theorems                                                            *)
(***************************************************************************)
\* A session begins with an untouched root and nothing known.
LEMMA InitIndInv == Init => IndInv
<1> SUFFICES ASSUME Init PROVE IndInv
  OBVIOUS
<1>1. conf \in Confs /\ env \in Envs /\ Len(Script) \in Nat /\ env.faults \in Nat
  BY ScriptIs, EnvAssumption DEF Init, Env
<1>2. St = Begin
  BY <1>1, ScriptIs DEF Init, Fits, St
<1>3. /\ St.lock = "none" /\ St.ph = "none" /\ St.cmd = "" /\ St.dbus = "off" /\ St.bound = {}
  BY <1>2 DEF Begin
<1>4. pc["main"] = "run" /\ pc["sig"] = "idle" /\ pc \in [Goroutine -> PC]
  BY DEF Init, Goroutine, PC
<1>5. TypeOK
  <2>1. pos \in 1..(Len(Script) + 1) /\ activePID \in 0..Len(Script) /\ cmd \in 0..Len(Script)
    BY <1>1 DEF Init
  <2>2. faults \in 0..env.faults
    BY <1>1 DEF Init
  <2>3. lockfile \in LockStates /\ mounts \subseteq MountPoints /\ live \subseteq Processes
    BY DEF Init, LockStates
  <2> QED BY <1>1, <1>4, <2>1, <2>2, <2>3 DEF Init, TypeOK
<1>6. Places
  BY <1>4 DEF Init, Places
<1>7. Doing
  BY <1>3 DEF Init, Doing
<1>8. Locking
  BY <1>3, <1>4 DEF Init, Locking, Goroutine, CleanupPC
<1>9. Bus /\ Bound
  BY <1>3 DEF Init, Bus, Bound
<1>10. Teardown
  BY <1>4 DEF Init, Teardown, Torn, Early, Late, Goroutine
<1> QED BY <1>5, <1>6, <1>7, <1>8, <1>9, <1>10 DEF IndInv

\* The invariant is one.
THEOREM IndInvHolds == Spec => []IndInv
<1>1. IndInv /\ [Next]_vars => IndInv'
  BY TypeStep, PlacesStep, DoingStep, LockingStep, BusStep, BoundStep, TeardownStep DEF IndInv
<1> QED BY <1>1, InitIndInv, PTL DEF Spec

\* Every variable keeps its type; above all, main's jumps after an error that is
\* swallowed or kept never leave its script.
THEOREM TypeCorrect == Spec => []TypeOK
<1>1. IndInv => TypeOK
  BY DEF IndInv
<1> QED BY <1>1, IndInvHolds, PTL

\* When the process is gone its root is unmounted and empty and its lock file
\* removed, whatever failed on the way, for every configuration and any sources
\* and caches, under the conditions of CleanExit.
THEOREM CleansUp == Spec => []CleanExit
<1>1. IndInv => CleanExit
  <2> SUFFICES ASSUME IndInv, exited, didStart, ~jailed, env.signal # "any",
                      conf.op = "chroot" => ~cancelled /\ ~env.strays
               PROVE  mounts = {} /\ live = {} /\ lockfile = "removed"
    BY DEF CleanExit
  <2>1. Calm
    BY DEF Calm
  <2>2. PICK g \in Goroutine : pc[g] = "done"
    BY DEF IndInv, Places
  <2>3. Torn(g)
    BY <2>1 DEF IndInv, Teardown
  <2> QED BY <2>2, <2>3 DEF Torn, Late
<1> QED BY <1>1, IndInvHolds, PTL

\* While no Cleanup has begun, a daemon that dbusActive speaks of runs and has
\* its pid file, so that StopDBUS finds it.
THEOREM DbusIsFindable == Spec => []DbusFindable
<1>1. IndInv => DbusFindable
  <2> SUFFICES ASSUME IndInv, dbusActive,
                      \A g \in Goroutine : pc[g] \in {"idle", "run", "cancel"}
               PROVE  dbusPid /\ "dbus" \in live
    BY DEF DbusFindable
  <2>1. Undisturbed
    <3>1. pc["main"] \in {"idle", "run", "cancel"} /\ pc["sig"] \in {"idle", "run", "cancel"}
      BY DEF Goroutine
    <3>2. pc["main"] \notin {"idle", "cancel"} /\ pc["sig"] # "run"
      BY DEF IndInv, Places, Early, Late
    <3> QED BY <3>1, <3>2 DEF Undisturbed, Running
  <2> QED BY <2>1 DEF IndInv, Bus
<1> QED BY <1>1, IndInvHolds, PTL

\* A build command runs with all sources and, in a ypkg build, all caches bound.
THEOREM SourcesAreBound == Spec => []SourcesBound
<1>1. IndInv => SourcesBound
  <2> SUFFICES ASSUME IndInv, At("wait"), Script[pos].arg = "build", faults = 0,
                      pc["sig"] \in {"idle", "cancel", "cleanup"}
               PROVE  Wanted(conf) \subseteq mounts
    BY DEF SourcesBound, Wanted
  <2>1. conf \in Confs /\ pos \in 1..Len(Script) /\ Script[pos].op = "wait"
    BY ScriptIs DEF IndInv, TypeOK, At
  <2>2. Wanted(conf) \subseteq St.bound
    BY <2>1, StepFacts DEF Follows, FollowsMounts
  <2>3. St.bound \subseteq mounts
    BY DEF IndInv, Bound, Undisturbed, Running, At
  <2> QED BY <2>2, <2>3
<1> QED BY <1>1, IndInvHolds, PTL

-----------------------------------------------------------------------------
(***************************************************************************)
(* The promise of BuildRoot                                                *)
(***************************************************************************)
Owned == lockfile = "held"
Dirty == mounts # {} \/ live # {}

\* A session that promises is calm, and its process stays out of the chroot.
LEMMA PromisingCalm ==
    ASSUME IndInv, Promising
    PROVE  Calm /\ ~jailed
BY DEF IndInv, Promising, Calm, Doing

\* What a step of the script does to the lock file and the root.
LEMMA PromiseScript ==
    ASSUME IndInv, IndInv', Promising, RunScript
    PROVE  \/ Owned' = Owned /\ Dirty' = Dirty
           \/ Owned /\ Owned' = Owned
           \/ ~Owned /\ Owned' /\ Dirty' = Dirty
<1>1. Calm /\ Running /\ ~exited
  BY PromisingCalm, ScriptFrame DEF IndInv
<1>2. CASE ~didStart
  <2>1. ~Dirty
    BY <1>2 DEF IndInv, Locking, Dirty
  <2>2. ~Dirty'
    <3>1. CASE Started
      BY <2>1, <3>1 DEF Started, sysVars, Dirty
    <3>2. CASE ~Started
      <4>1. didStart' = didStart
        BY <3>2
        DEF RunScript, Io_, NewLock, Lock, GetProfile, DoMount, EnsureEopkgLayout,
            RemoveDbusPid, Unshare, StartCommand, NotifyPID, SetActivePID0, Wait, Check,
            HelperStarts, HelperEnds, DbusUp, DbusOpen, DbusKill, ChrootSelf, Return, manVars
      <4> QED BY <1>2, <4>1 DEF IndInv, Locking, Dirty
    <3> QED BY <3>1, <3>2
  <2>3. Owned => Owned'
    <3> SUFFICES ASSUME lockfile = "held" PROVE lockfile' = "held"
      BY DEF Owned
    <3>1. St.lock = "held"
      BY <1>1, <1>2 DEF IndInv, Locking
    <3>2. ~NewLock /\ ~Lock
      <4> SUFFICES ASSUME NEW op \in {"newlock", "lock"}, At(op) PROVE FALSE
        BY DEF NewLock, Lock
      <4>1. conf \in Confs /\ pos \in 1..Len(Script) /\ Script[pos].op = op
        BY ScriptIs DEF IndInv, TypeOK, At
      <4> QED BY <3>1, <4>1, StepFacts DEF Follows, FollowsLock
    <3> QED
      BY <3>2
      DEF RunScript, Io_, Started, GetProfile, DoMount, EnsureEopkgLayout, RemoveDbusPid,
          Unshare, StartCommand, NotifyPID, SetActivePID0, Wait, Check, HelperStarts,
          HelperEnds, DbusUp, DbusOpen, DbusKill, ChrootSelf, Return, manVars
  <2> QED BY <2>1, <2>2, <2>3 DEF Owned, Dirty
<1>3. CASE didStart
  <2>1. pc["sig"] \notin Early
    BY <1>1, EarlyStuck DEF IndInv
  <2>2. CASE pc["sig"] \in Late
    BY <1>1, <2>2, LateStopped DEF IndInv, Owned, Dirty
  <2>3. CASE pc["sig"] = "idle"
    <3>1. Owned
      BY <1>1, <1>3, <2>3 DEF IndInv, Teardown, Owned, Running, Goroutine
    <3>2. didStart'
      BY <1>3
      DEF RunScript, Io_, NewLock, Lock, Started, GetProfile, DoMount, EnsureEopkgLayout,
          RemoveDbusPid, Unshare, StartCommand, NotifyPID, SetActivePID0, Wait, Check,
          HelperStarts, HelperEnds, DbusUp, DbusOpen, DbusKill, ChrootSelf, Return, manVars
    <3>3. lockfile' # "held" => lockfile' = lockfile
      BY <3>2, ScriptHolds DEF IndInv
    <3> QED BY <3>1, <3>3 DEF Owned
  <2> QED BY <2>1, <2>2, <2>3 DEF IndInv, Places
<1> QED BY <1>2, <1>3

\* What a step of Cleanup does to them.
LEMMA PromiseCleanup ==
    ASSUME IndInv, Promising, NEW g \in Goroutine, Cleanup(g)
    PROVE  \/ Owned' = Owned /\ Dirty' = Dirty
           \/ Owned /\ Owned' = Owned
           \/ Owned /\ ~Dirty /\ ~Owned' /\ ~Dirty'
<1>1. Calm /\ ~jailed
  BY PromisingCalm
<1>2. live' \subseteq live /\ mounts' \subseteq mounts
  BY CleanupFrame DEF IndInv
<1>3. ~Dirty => ~Dirty'
  BY <1>2 DEF Dirty
<1>4. \A h \in Goroutine : Torn(h)
  BY <1>1 DEF IndInv, Teardown
<1>5. CASE ~didStart
  <2>1. ~Dirty
    BY <1>5 DEF IndInv, Locking, Dirty
  <2>2. pc[g] = "cleanup"
    <3>1. pc[g] \in CleanupPC
      BY CleanupFrame DEF IndInv
    <3> QED BY <1>5, <3>1 DEF IndInv, Locking
  <2>3. lockfile' = lockfile
    BY <2>2 DEF Cleanup, EnterCleanup, OpenDbusPid, KillDbus, UnmountCache, KillActive,
       MurderDeathKill, Deactivate, UnmountAll, UnlockFile, LeaveCleanup, Cleaning
  <2> QED BY <1>3, <2>1, <2>3 DEF Owned, Dirty
<1>6. CASE didStart /\ ~Owned
  <2>1. PICK h \in Goroutine : pc[h] \in {"release", "done"}
    BY <1>1, <1>6 DEF IndInv, Teardown, Owned
  <2>2. ~Dirty
    BY <1>1, <1>4, <1>6, <2>1 DEF Torn, Late, Dirty
  <2>3. ~Owned'
    BY <1>6 DEF Owned, Cleanup, EnterCleanup, OpenDbusPid, KillDbus, UnmountCache, KillActive,
       MurderDeathKill, Deactivate, UnmountAll, UnlockFile, LeaveCleanup, Cleaning, manVars
  <2> QED BY <1>3, <1>6, <2>2, <2>3 DEF Owned, Dirty
<1>7. CASE didStart /\ Owned
  <2>1. CASE pc[g] = "unlock"
    <3>1. ~Dirty
      BY <1>1, <1>4, <1>7, <2>1 DEF Torn, Late, Dirty
    <3> QED BY <1>3, <1>7, <3>1 DEF Owned, Dirty
  <2>2. CASE pc[g] # "unlock"
    <3>1. lockfile' = lockfile
      BY <2>2 DEF Cleanup, EnterCleanup, OpenDbusPid, KillDbus, UnmountCache, KillActive,
         MurderDeathKill, Deactivate, UnmountAll, UnlockFile, LeaveCleanup, Cleaning, manVars
    <3> QED BY <1>7, <3>1 DEF Owned
  <2> QED BY <2>1, <2>2
<1> QED BY <1>5, <1>6, <1>7

\* And what the other steps do.
LEMMA PromiseOthers ==
    ASSUME IndInv, Promising,
           SetCancelled \/ Interrupt \/ DbusForks \/ (\E g \in Goroutine : Exit(g))
               \/ UNCHANGED vars
    PROVE  \/ Owned' = Owned /\ Dirty' = Dirty
           \/ Owned /\ ~Dirty /\ ~Owned' /\ ~Dirty'
<1>1. CASE SetCancelled \/ Interrupt \/ UNCHANGED vars
  BY <1>1 DEF SetCancelled, Interrupt, vars, manVars, sysVars, Owned, Dirty
<1>2. CASE DbusForks
  BY <1>2 DEF DbusForks, manVars, Owned, Dirty
<1>3. ASSUME NEW g \in Goroutine, Exit(g)
      PROVE  \/ Owned' = Owned /\ Dirty' = Dirty
             \/ Owned /\ ~Dirty /\ ~Owned' /\ ~Dirty'
  <2>1. pc[g] = "done" /\ live' = live /\ mounts' = mounts
    BY <1>3 DEF Exit, sysVars
  <2>2. Owned => ~didStart
    BY <2>1, PromisingCalm DEF IndInv, Teardown, Torn, Owned
  <2>3. ~didStart => ~Dirty
    BY DEF IndInv, Locking, Dirty
  <2>4. lockfile' # "held" /\ (lockfile # "held" => lockfile' = lockfile)
    BY <1>3 DEF Exit
  <2> QED BY <2>1, <2>2, <2>3, <2>4 DEF Owned, Dirty
<1> QED BY <1>1, <1>2, <1>3

\* Every session implements the safety part of BuildRoot: the root is touched
\* only under the lock file, and the lock file is given back only when the root
\* is clean.
THEOREM SessionsPromise == Spec => Promise!Safety
<1>1. Init => Promise!Init
  BY DEF Init, Promise!Init
<1>2. IndInv /\ IndInv' /\ [Next]_vars => [Promise!Next]_(Promise!vars)
  <2> SUFFICES ASSUME IndInv, IndInv', [Next]_vars
               PROVE  [Promise!Next]_(Promise!vars)
    OBVIOUS
  <2>1. conf' = conf /\ env' = env
    BY DEF Next, MainStep, SigStep, vars, RunScript, Io_, NewLock, Lock, Started, GetProfile,
       DoMount, EnsureEopkgLayout, RemoveDbusPid, Unshare, StartCommand, NotifyPID,
       SetActivePID0, Wait, Check, HelperStarts, HelperEnds, DbusUp, DbusOpen, DbusKill,
       ChrootSelf, Return, Cleanup, EnterCleanup, OpenDbusPid, KillDbus, UnmountCache,
       KillActive, MurderDeathKill, Deactivate, UnmountAll, UnlockFile, LeaveCleanup,
       SetCancelled, Interrupt, DbusForks, Exit, given
  <2>2. Promising' = Promising
    BY <2>1 DEF Promising
  <2>3. CASE ~Promising
    BY <2>2, <2>3 DEF Promise!vars
  <2>4. CASE Promising
    <3>1. \/ Owned' = Owned /\ Dirty' = Dirty
          \/ Owned /\ Owned' = Owned
          \/ ~Owned /\ Owned' /\ Dirty' = Dirty
          \/ Owned /\ ~Dirty /\ ~Owned' /\ ~Dirty'
      <4>1. CASE RunScript
        BY <2>4, <4>1, PromiseScript
      <4>2. ASSUME NEW g \in Goroutine, Cleanup(g)
            PROVE  \/ Owned' = Owned /\ Dirty' = Dirty
                   \/ Owned /\ Owned' = Owned
                   \/ Owned /\ ~Dirty /\ ~Owned' /\ ~Dirty'
        BY <2>4, <4>2, PromiseCleanup
      <4>3. CASE SetCancelled \/ Interrupt \/ DbusForks \/ (\E g \in Goroutine : Exit(g))
                     \/ UNCHANGED vars
        BY <2>4, <4>3, PromiseOthers
      <4> QED BY <4>1, <4>2, <4>3 DEF Next, MainStep, SigStep, Goroutine
    <3> QED
      BY <2>2, <2>4, <3>1
      DEF Promise!Next, Promise!Acquire, Promise!Soil, Promise!Tidy, Promise!Release,
          Promise!vars, Owned, Dirty
  <2> QED BY <2>3, <2>4
<1> QED BY <1>1, <1>2, IndInvHolds, PTL DEF Spec, Promise!Safety
=============================================================================
