------------------------------ MODULE Package ------------------------------
(***************************************************************************)
(* What a solbuild operation does to its build root, as the sequence of    *)
(* the steps the code takes when none of them fails: Build (build.go),     *)
(* Chroot (chroot.go), Index (index.go) and BackingImage.Update            *)
(* (update.go), with the functions of overlay.go, eopkg.go, repos.go and   *)
(* util.go they call, inlined in call order.  Manager executes a sequence, *)
(* decides which steps fail, and goes where the code goes then.            *)
(*                                                                         *)
(* A step is a record: op, what is done (the actions of Manager say how);  *)
(* arg, the mount point or command; onErr, where the code goes when the    *)
(* step fails: 0 for "return err", n > 0 to go on n steps further, the     *)
(* error swallowed or, with keep, returned by a later "check".             *)
(***************************************************************************)
EXTENDS Naturals, Sequences, SequencesExt

CONSTANTS
    Sources,    \* the sources of the package, as the mount points they get
    Caches      \* the build caches of ypkg (builder.Caches), likewise

(***************************************************************************)
(* What the command line, the profile, the package and the image decide:   *)
(* user, the image has the build user; net, the package may network; repo, *)
(* the one repository the profile adds; remove, it removes one as well.    *)
(***************************************************************************)
Conf == [op : {"build", "chroot", "index", "update"},
         type : {"ypkg", "xml", "index"},
         tmpfs : BOOLEAN, user : BOOLEAN, net : BOOLEAN,
         ccache : BOOLEAN, abi : BOOLEAN,
         repo : {"none", "remote", "local", "autoindex"}, remove : BOOLEAN]

Ops == {"io", "layout", "rmpid", "mount", "start", "notify", "wait", "check",
        "reset", "helper", "helped", "dbusup", "dbusopen", "dbuskill",
        "jail", "unjail", "unshare", "newlock", "lock", "started", "locked"}

S(op, arg) == [op |-> op, arg |-> arg, onErr |-> 0, keep |-> FALSE]

\* A step whose error sends the code n steps on.
Swallow(s, n) == [s EXCEPT !.onErr = n]

Keep(s, n) == [s EXCEPT !.onErr = n, !.keep = TRUE]

\* File system work of no consequence for the properties, which may fail.
Io(what) == <<S("io", what)>>
Mount(point) == <<S("mount", point)>>

\* notif.SetActivePID(0)
ResetPID == <<S("reset", "")>>

\* A command run by libosdev, whose PID nobody is told.
Helper(what) == <<S("helper", what), S("helped", what)>>

-----------------------------------------------------------------------------
(***************************************************************************)
(* util.go                                                                 *)
(***************************************************************************)
\* Start, SetActivePID(c.Process.Pid), Wait.
ChrootExec(cmd) == <<S("start", cmd), S("notify", cmd), S("wait", cmd)>>

\* err := f(...); SetActivePID(0); return err, with steps those of f.
ThenReset(steps, what) ==
    [i \in DOMAIN steps |->
        IF steps[i].onErr = 0 THEN Keep(steps[i], Len(steps) + 1 - i) ELSE steps[i]]
            \o ResetPID \o <<S("check", what)>>

\* The error of the command is overwritten by those of the way back, and a
\* start that fails jumps there too.
ChrootShell ==
    Io("open / and chdir") \o <<S("jail", "")>> \o Io("chdir /")
        \o <<Swallow(S("start", "shell"), 3), S("notify", "shell"),
             Swallow(S("wait", "shell"), 1)>>
        \o Io("fchdir") \o <<S("unjail", "")>> \o Io("chdir back")

\* Whatever becomes of the server, the build goes on.
StartSccache ==
    <<Swallow(S("helper", "sccache"), 2), Swallow(S("helped", "sccache"), 1)>>

AddBuildUser(c) ==
    Io("passwd") \o (IF c.user THEN <<>> ELSE Helper("groupadd") \o Helper("useradd"))

-----------------------------------------------------------------------------
(***************************************************************************)
(* overlay.go                                                              *)
(***************************************************************************)
\* Mount.  When the directory for the tmpfs cannot be made it returns nil.
OverlayMount(c) ==
    LET root == Io("EnsureDirs") \o Mount("img") \o Mount("union")
                    \o <<S("layout", "")>>
    IN  IF c.tmpfs
        THEN <<Swallow(S("io", "mkdir tmpfs"), 2 + Len(root))>> \o Mount("tmpfs") \o root
        ELSE root

MountVFS ==
    Io("mkdir vfs") \o Mount("dev") \o Mount("dev/pts") \o Mount("proc")
        \o Mount("sys") \o Mount("dev/shm")

ActivateRoot(c) ==
    OverlayMount(c) \o (IF c.type = "ypkg" THEN AddBuildUser(c) ELSE <<>>) \o MountVFS

\* DropNetworking, then the loopback device.
DropNetworking(c) ==
    IF c.net THEN <<>> ELSE <<S("unshare", "")>> \o Helper("ip link")

-----------------------------------------------------------------------------
(***************************************************************************)
(* eopkg.go and repos.go                                                   *)
(***************************************************************************)
CopyHostAssets == Io("resolv.conf, eopkg.conf, ccache.conf")

EopkgInit ==
    <<S("rmpid", "")>> \o CopyHostAssets \o Io("cache dirs") \o Mount("pkgcache")

StartDBUS ==
    Io("run/dbus") \o ChrootExec("dbus-uuidgen") \o ResetPID
        \o ChrootExec("dbus-daemon") \o ResetPID \o <<S("dbusup", "")>>

StopDBUS == <<S("dbusopen", ""), S("dbuskill", "")>>

Upgrade == ChrootExec("upgrade") \o ResetPID \o ChrootExec("install requirements")

InstallComponent == ThenReset(ChrootExec("install system.devel"), "devel")

AddRepo == ResetPID \o ChrootExec("add-repo")
RemoveRepo == ResetPID \o ChrootExec("remove-repo")

AddLocalRepo(c) ==
    Io("repo dir") \o Mount("repo")
        \o (IF c.repo = "autoindex" THEN ThenReset(ChrootExec("cd; index repo"), "index") ELSE <<>>)
        \o AddRepo

ConfigureRepos(c) ==
    Io("GetRepos") \o (IF c.remove THEN RemoveRepo ELSE <<>>)
        \o CASE c.repo = "none" -> <<>>
             [] c.repo = "remote" -> AddRepo
             [] OTHER -> AddLocalRepo(c)

-----------------------------------------------------------------------------
(***************************************************************************)
(* build.go                                                                *)
(***************************************************************************)
CopyAssets == Io("package assets and history.xml")
FetchSources == Io("sources")
CreateDirs == Io("work, source and cache dirs")

\* BindSources.  When a bind target cannot be made it returns nil, and the
\* sources left, this one included, are not bound.
BindSources ==
    LET src == SetToSeq(Sources)
        n == Len(src)
    IN  FlattenSeq([i \in 1..n |->
            Io("source dir") \o <<Swallow(S("io", "bind target"), 2 + 3 * (n - i))>>
                \o Mount(src[i])])

\* Mutant: source and target of the bind mount are swapped.
MutBindCachesSwapped == Mount("cache of the host")

BindCaches == FlattenSeq([i \in 1..Len(SetToSeq(Caches)) |-> Mount(SetToSeq(Caches)[i])])

\* Mutant: D-BUS is left running for the build.
MutPrepYpkgKeepsDBUS ==
    Io("packager file") \o ChrootExec("ypkg-install-deps") \o ResetPID
        \o ChrootExec("chown") \o ResetPID

PrepYpkg ==
    Io("packager file") \o ChrootExec("ypkg-install-deps") \o ResetPID \o StopDBUS
        \o ChrootExec("chown") \o ResetPID

\* A report that fails is no failure, but its PID is then not reset here.
GenerateABIReport ==
    <<Swallow(S("start", "cd; abi-wizard"), 4), S("notify", "cd; abi-wizard"),
      Swallow(S("wait", "cd; abi-wizard"), 2)>> \o ResetPID

\* Mutant: the caches are bound only for a package that may use ccache.
MutBuildYpkgCachesOfCcache(c) ==
    PrepYpkg \o DropNetworking(c) \o BindSources \o <<S("layout", "")>>
        \o (IF c.ccache THEN BindCaches ELSE <<>>)
        \o CopyHostAssets \o (IF c.ccache THEN StartSccache ELSE <<>>)
        \o ChrootExec("build") \o (IF c.abi THEN GenerateABIReport ELSE <<>>) \o ResetPID

BuildYpkg(c) ==
    PrepYpkg \o DropNetworking(c) \o BindSources \o <<S("layout", "")>> \o BindCaches
        \o CopyHostAssets \o (IF c.ccache THEN StartSccache ELSE <<>>)
        \o ChrootExec("build") \o (IF c.abi THEN GenerateABIReport ELSE <<>>) \o ResetPID

BuildXML ==
    BindSources \o CopyHostAssets \o ChrootExec("build") \o ResetPID \o StopDBUS \o ResetPID

CollectAssets == Io("eopkg files")

PackageBuild(c) ==
    Io("CleanExisting") \o ActivateRoot(c) \o CopyAssets \o FetchSources
        \o EopkgInit \o StartDBUS \o ConfigureRepos(c) \o Upgrade \o InstallComponent
        \o CreateDirs \o (IF c.type = "ypkg" THEN BuildYpkg(c) ELSE BuildXML)
        \o CollectAssets

-----------------------------------------------------------------------------
(***************************************************************************)
(* chroot.go, index.go, update.go                                          *)
(***************************************************************************)
PackageChroot(c) ==
    ActivateRoot(c) \o (IF c.type = "ypkg" THEN DropNetworking(c) ELSE <<>>)
        \o ThenReset(ChrootShell, "shell")

\* The PID of the indexer is never reset.
PackageIndex(c) ==
    Io("CleanExisting") \o ActivateRoot(c) \o Io("bind target") \o Mount("hostRepo")
        \o ChrootExec("cd; index")

ImageUpdate(c) ==
    Io("root dir") \o Mount("root") \o <<S("layout", "")>> \o Mount("root/proc")
        \o EopkgInit \o StartDBUS \o Upgrade \o InstallComponent \o StopDBUS
        \o AddBuildUser(c)

-----------------------------------------------------------------------------
(***************************************************************************)
(* manager.go: Build, Chroot, Update and Index after SigIntCleanup          *)
(***************************************************************************)
\* NewLockFile, Lock, didStart = true.
DoLock == <<S("newlock", ""), S("lock", ""), S("started", "")>>

ManagerScript(c) ==
    CASE c.op = "build" -> Io("tmpfs size") \o DoLock \o <<S("locked", "GetProfile")>>
                               \o PackageBuild(c)
      [] c.op = "chroot" -> DoLock \o PackageChroot(c)
      [] c.op = "index" -> Io("tmpfs size") \o DoLock \o PackageIndex(c)
      [] OTHER -> DoLock \o ImageUpdate(c)

=============================================================================
