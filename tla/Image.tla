------------------------------- MODULE Image -------------------------------
(***************************************************************************)
(* The backing image of a profile (builder/main.go): init downloads and    *)
(* decompresses it (cli/init.go), update upgrades it in place              *)
(* (builder/update.go, AddBuildUser of builder/util.go), builds mount it   *)
(* as the lower layer of their root (builder/overlay.go), delete-cache -i  *)
(* removes it.  Only update takes a lock, one no other command takes.      *)
(*                                                                         *)
(* The .img.xz path names an inode; a run keeps the inode it opened.  What *)
(* an inode holds is the set of the parts of the image that are in place:  *)
(* an error page the server sent instead, or a hole, is none.              *)
(***************************************************************************)
EXTENDS Naturals

CONSTANTS
    Run,        \* the runs of solbuild init, each an index that may be reused
    Build,      \* the builds on the image
    Inode,      \* the inodes an .img.xz can get
    None,       \* no inode, no run
    Parts,      \* how many parts an image is read and written in
    MaxFaults   \* bound on failures, signals and runs of delete-cache

ASSUME PartsAssumption == Parts \in Nat \ {0}
ASSUME ImageNoneAssumption == None \notin Inode /\ None \notin Run
ASSUME ImageFaultAssumption == MaxFaults \in Nat

VARIABLES
    xz,       \* the inode ImagePathXZ names, or None
    data,     \* the parts each inode holds
    img,      \* the file at ImagePath: who made it and how many parts it has
    pc,       \* where each run of init is
    fd,       \* the inode a run writes, or its unxz reads
    off,      \* the part a run writes or its unxz reads next
    page,     \* whether the answer a run gets is an error page
    upd,      \* where the update is
    base,     \* the root file system in the image: version, build group, build user
    builds,   \* the builds that have the image mounted
    cut,      \* whether a download was cut off by a signal, or was an error page
    faults    \* what went wrong so far

initVars == <<xz, data, img, pc, fd, off, page, cut>>
vars == <<initVars, upd, base, builds, faults>>

InitPC == {"idle", "check", "fetched", "create", "get", "recv", "remove", "unxz",
           "target", "read"}
UpdPC == {"idle", "check", "mount", "upgrade", "passwd", "group", "user", "done", "lost"}

NoImg == [by |-> None, parts |-> 0]
Fresh == [ver |-> 0, group |-> FALSE, user |-> FALSE]

TypeOK ==
    /\ xz \in Inode \cup {None}
    /\ data \in [Inode -> SUBSET (1..Parts)]
    /\ img \in [by : Run \cup {None}, parts : 0..Parts]
    /\ pc \in [Run -> InitPC]
    /\ fd \in [Run -> Inode \cup {None}]
    /\ off \in [Run -> 1..(Parts + 1)]
    /\ page \in [Run -> BOOLEAN]
    /\ upd \in UpdPC
    /\ base \in [ver : 0..1, group : BOOLEAN, user : BOOLEAN]
    /\ builds \subseteq Build
    /\ cut \in BOOLEAN
    /\ faults \in 0..MaxFaults

Init ==
    /\ xz = None
    /\ data = [i \in Inode |-> {}]
    /\ img = NoImg
    /\ pc = [r \in Run |-> "idle"]
    /\ fd = [r \in Run |-> None]
    /\ off = [r \in Run |-> 1]
    /\ page = [r \in Run |-> FALSE]
    /\ upd = "idle"
    /\ base = Fresh
    /\ builds = {}
    /\ cut = FALSE
    /\ faults = 0

-----------------------------------------------------------------------------
(***************************************************************************)
(* Helpers                                                                 *)
(***************************************************************************)
Goto(r, l) == pc' = [pc EXCEPT ![r] = l]
Fault == faults < MaxFaults /\ faults' = faults + 1

\* A file is at ImagePath; a file is at ImagePathXZ.
IsInstalled == img # NoImg
IsFetched == xz # None

FreeInodes == {i \in Inode : i # xz /\ \A r \in Run : fd[r] # i}

\* The process ends; what it had open is closed.
Over(r) ==
    /\ Goto(r, "idle")
    /\ fd' = [fd EXCEPT ![r] = None]
    /\ off' = [off EXCEPT ![r] = 1]
    /\ page' = [page EXCEPT ![r] = FALSE]

At(r, l) == pc[r] = l /\ UNCHANGED <<upd, base, builds>>

-----------------------------------------------------------------------------
(***************************************************************************)
(* solbuild init: doInit and downloadImage                                 *)
(***************************************************************************)
InitStarts(r) ==
    /\ At(r, "idle")
    /\ Goto(r, "check")
    /\ UNCHANGED <<xz, data, img, fd, off, page, cut, faults>>

\* An image that is there, whole or not, is never made again.
CheckInstalled(r) ==
    /\ At(r, "check")
    /\ Goto(r, IF IsInstalled THEN "idle" ELSE "fetched")
    /\ UNCHANGED <<xz, data, img, fd, off, page, cut, faults>>

\* A download that is there, whole or not, is never made again.
CheckFetched(r) ==
    /\ At(r, "fetched")
    /\ Goto(r, IF IsFetched THEN "unxz" ELSE "create")
    /\ UNCHANGED <<xz, data, img, fd, off, page, cut, faults>>

\* os.Create: makes the file, or truncates the one another run has made since.
Create(r) ==
    /\ At(r, "create")
    /\ \E i \in IF xz = None THEN FreeInodes ELSE {xz} :
          /\ xz' = i
          /\ data' = [data EXCEPT ![i] = {}]
          /\ fd' = [fd EXCEPT ![r] = i]
    /\ Goto(r, "get")
    /\ UNCHANGED <<img, off, page, cut, faults>>

\* http.Get, whose status is not looked at.
Get(r) ==
    /\ At(r, "get")
    /\ \/ /\ Goto(r, "recv")
          /\ UNCHANGED <<page, cut, faults>>
       \/ /\ Fault
          /\ Goto(r, "recv")
          /\ page' = [page EXCEPT ![r] = TRUE]
          /\ cut' = TRUE
       \/ /\ Fault
          /\ Goto(r, "remove")
          /\ UNCHANGED <<page, cut>>
    /\ UNCHANGED <<xz, data, img, fd, off>>

\* Mutant: the end of the answer is noticed one round late.
MutReceivePastEnd(r) ==
    /\ At(r, "recv")
    /\ \/ /\ off[r] <= Parts + 1
          /\ data' = [data EXCEPT ![fd[r]] = @ \cup {off[r]}]
          /\ off' = [off EXCEPT ![r] = @ + 1]
          /\ UNCHANGED <<pc, fd, faults>>
       \/ /\ off[r] > Parts + 1
          /\ Goto(r, "unxz")
          /\ fd' = [fd EXCEPT ![r] = None]
          /\ off' = [off EXCEPT ![r] = 1]
          /\ UNCHANGED <<data, faults>>
    /\ UNCHANGED <<xz, img, page, cut>>

\* One round of the read loop: a part is written, the end is reached, or the
\* read or the write fails.
Receive(r) ==
    /\ At(r, "recv")
    /\ \/ /\ off[r] <= Parts
          /\ data' = [data EXCEPT ![fd[r]] = IF page[r] THEN @ \ {off[r]} ELSE @ \cup {off[r]}]
          /\ off' = [off EXCEPT ![r] = @ + 1]
          /\ UNCHANGED <<pc, fd, faults>>
       \/ /\ off[r] > Parts
          /\ Goto(r, "unxz")
          /\ fd' = [fd EXCEPT ![r] = None]
          /\ off' = [off EXCEPT ![r] = 1]
          /\ UNCHANGED <<data, faults>>
       \/ /\ off[r] <= Parts
          /\ Fault
          /\ Goto(r, "remove")
          /\ UNCHANGED <<data, fd, off>>
    /\ UNCHANGED <<xz, img, page, cut>>

\* Mutant: a download that failed is kept.
MutRemoveNothing(r) ==
    /\ At(r, "remove")
    /\ Over(r)
    /\ UNCHANGED <<xz, data, img, cut, faults>>

\* The deferred os.Remove, by path, whatever the path names now.
Remove(r) ==
    /\ At(r, "remove")
    /\ xz' = None
    /\ Over(r)
    /\ UNCHANGED <<data, img, cut, faults>>

-----------------------------------------------------------------------------
(***************************************************************************)
(* unxz, run by doInit: opens its source, makes a target that must not be  *)
(* there yet, and in the end removes one of the two, unless the path has   *)
(* come to name another file                                               *)
(***************************************************************************)
OpenXZ(r) ==
    /\ At(r, "unxz")
    /\ \/ xz = None /\ Over(r)
       \/ /\ xz # None
          /\ fd' = [fd EXCEPT ![r] = xz]
          /\ Goto(r, "target")
          /\ UNCHANGED <<off, page>>
    /\ UNCHANGED <<xz, data, img, cut, faults>>

MakeTarget(r) ==
    /\ At(r, "target")
    /\ \/ IsInstalled /\ Over(r) /\ UNCHANGED img
       \/ /\ ~IsInstalled
          /\ img' = [by |-> r, parts |-> 0]
          /\ Goto(r, "read")
          /\ UNCHANGED <<fd, off, page>>
    /\ UNCHANGED <<xz, data, cut, faults>>

\* What becomes of the image when its unxz gives up.
TargetRemoved(r) == IF img.by = r THEN NoImg ELSE img

\* A part is decompressed; the source ends early or is no archive; all is done.
Decompress(r) ==
    /\ At(r, "read")
    /\ \/ /\ off[r] \in data[fd[r]]
          /\ off' = [off EXCEPT ![r] = @ + 1]
          /\ img' = IF img.by = r THEN [img EXCEPT !.parts = off[r]] ELSE img
          /\ UNCHANGED <<xz, pc, fd, page>>
       \/ /\ off[r] \in (1..Parts) \ data[fd[r]]
          /\ img' = TargetRemoved(r)
          /\ Over(r)
          /\ UNCHANGED xz
       \/ /\ off[r] > Parts
          /\ xz' = IF xz = fd[r] THEN None ELSE xz
          /\ Over(r)
          /\ UNCHANGED img
    /\ UNCHANGED <<data, cut, faults>>

\* Mutant: the image is decompressed by the process itself, which leaves what
\* it has written when it ends.
MutInterruptKeepsTarget(r) ==
    /\ pc[r] # "idle"
    /\ Fault
    /\ Over(r)
    /\ cut' = (cut \/ pc[r] \in {"get", "recv", "remove"})
    /\ UNCHANGED <<xz, data, img, upd, base, builds>>

\* SIGINT from the terminal, or SIGTERM to the process group: init installs no
\* handler, so it ends without its deferred calls; unxz, which gets the signal
\* too, removes its target and ends.
Interrupt(r) ==
    /\ pc[r] # "idle"
    /\ Fault
    /\ Over(r)
    /\ img' = IF pc[r] = "read" THEN TargetRemoved(r) ELSE img
    /\ cut' = (cut \/ pc[r] \in {"get", "recv", "remove"})
    /\ UNCHANGED <<xz, data, upd, base, builds>>

-----------------------------------------------------------------------------
(***************************************************************************)
(* solbuild update: Manager.Update and BackingImage.Update                 *)
(***************************************************************************)
UpdateStarts ==
    /\ upd \in {"idle", "done"}
    /\ upd' = "check"
    /\ UNCHANGED <<initVars, base, builds, faults>>

\* Manager.Update refuses an image that is not installed.
UpdateChecks ==
    /\ upd = "check"
    /\ upd' = IF IsInstalled THEN "mount" ELSE "idle"
    /\ UNCHANGED <<initVars, base, builds, faults>>

\* The image is mounted read-write.  Half an image is no file system.
UpdateMounts ==
    /\ upd = "mount"
    /\ upd' = IF img.parts = Parts THEN "upgrade" ELSE "idle"
    /\ UNCHANGED <<initVars, base, builds, faults>>

\* EnsureEopkgLayout and updatePackages write to the image.
UpdateUpgrades ==
    /\ upd = "upgrade"
    /\ base' = [base EXCEPT !.ver = 1 - @]
    /\ upd' = "passwd"
    /\ UNCHANGED <<initVars, builds, faults>>

\* Mutant: the test for the user is dropped.
MutFindUserAlwaysAdds ==
    /\ upd = "passwd"
    /\ upd' = "group"
    /\ UNCHANGED <<initVars, base, builds, faults>>

\* AddBuildUser: nothing to do if the user is there.
FindUser ==
    /\ upd = "passwd"
    /\ upd' = IF base.user THEN "done" ELSE "group"
    /\ UNCHANGED <<initVars, base, builds, faults>>

\* AddGroup fails on a group that is there.
AddGroup ==
    /\ upd = "group"
    /\ upd' = IF base.group THEN "idle" ELSE "user"
    /\ base' = [base EXCEPT !.group = TRUE]
    /\ UNCHANGED <<initVars, builds, faults>>

AddUser ==
    /\ upd = "user"
    /\ base' = [base EXCEPT !.user = TRUE]
    /\ upd' = "done"
    /\ UNCHANGED <<initVars, builds, faults>>

\* A step fails or a signal comes: Cleanup unmounts the image.
UpdateFails ==
    /\ upd \in {"mount", "upgrade", "passwd", "group", "user"}
    /\ Fault
    /\ upd' = "idle"
    /\ UNCHANGED <<initVars, base, builds>>

\* The image was removed below the mount; the update ends on a file without a
\* name.
UpdateOfLost ==
    /\ upd = "lost"
    /\ upd' = "idle"
    /\ UNCHANGED <<initVars, base, builds, faults>>

-----------------------------------------------------------------------------
(***************************************************************************)
(* Builds, and delete-cache -i                                             *)
(***************************************************************************)
\* Overlay.Mount mounts the image read-only as the lower layer.
BuildMounts(b) ==
    /\ b \notin builds
    /\ img.parts = Parts
    /\ builds' = builds \cup {b}
    /\ UNCHANGED <<initVars, upd, base, faults>>

BuildUnmounts(b) ==
    /\ b \in builds
    /\ builds' = builds \ {b}
    /\ UNCHANGED <<initVars, upd, base, faults>>

\* Whoever has the image mounted is left with a file without a name; the next
\* image is a new one.
DeleteImages ==
    /\ Fault
    /\ xz' = None
    /\ img' = NoImg
    /\ base' = Fresh
    /\ builds' = {}
    /\ upd' = IF upd \in {"upgrade", "passwd", "group", "user"} THEN "lost" ELSE upd
    /\ UNCHANGED <<data, pc, fd, off, page, cut>>

-----------------------------------------------------------------------------
Step(r) ==
    \/ CheckInstalled(r) \/ CheckFetched(r) \/ Create(r) \/ Get(r) \/ Receive(r)
    \/ Remove(r) \/ OpenXZ(r) \/ MakeTarget(r) \/ Decompress(r)

UpdateStep ==
    \/ UpdateChecks \/ UpdateMounts \/ UpdateUpgrades \/ FindUser \/ AddGroup \/ AddUser
    \/ UpdateOfLost

Next ==
    \/ \E r \in Run : InitStarts(r) \/ Step(r) \/ Interrupt(r)
    \/ UpdateStarts \/ UpdateStep \/ UpdateFails
    \/ \E b \in Build : BuildMounts(b) \/ BuildUnmounts(b)
    \/ DeleteImages

\* A running command is scheduled; nothing makes anyone start one.
Spec == Init /\ [][Next]_vars /\ (\A r \in Run : WF_vars(Step(r))) /\ WF_vars(UpdateStep)

-----------------------------------------------------------------------------
(***************************************************************************)
(* Properties                                                              *)
(***************************************************************************)
\* IsInstalled asks only whether there is a file: as long as an unxz that does not
\* finish gets to remove its target, which SIGKILL and a power cut do not allow,
\* a file at ImagePath is a whole image or one its unxz is still writing.
InstalledIsWhole ==
    IsInstalled => img.parts = Parts \/ pc[img.by] = "read"

\* Runs of init that download to one file, fail and remove it under each other
\* do get the image in the end, as long as none of them was cut off by a signal
\* while it downloaded and none saved an error page.
ImageArrives ==
    []<>(\E r \in Run : pc[r] = "check") /\ []~cut => <>[](img.parts = Parts)

\* Updates that keep getting as far as the mount keep succeeding, unless one
\* ended between AddGroup and AddUser.
HalfUser == base.group /\ ~base.user /\ upd # "user"
UpdateGetsThrough ==
    []<>(upd = "mount") /\ <>[](img.parts = Parts) /\ []~HalfUser => []<>(upd = "done")

\* "a base image [...] is used as the bottom-most, read-only layer": the image
\* does not change under a build that has it mounted.
BaseReadOnly == [][builds \cap builds' # {} => base' = base]_vars
=============================================================================
