# A TLA+ model of solbuild

solbuild builds Solus packages in a throw-away root: an overlay over a
read-only image, with the package manager, a D-BUS daemon and the build running
in it. This directory holds TLA+ models of it, the TLC configurations that check
them, and proofs checked by TLAPS. Paths are relative to the repository;
`PROJECT.json` maps every definition to the lines it models.

## Inventory

| Component | State | Operations | Hard because | Correct when |
|---|---|---|---|---|
| Lock file (`builder/lockfile.go`) | path, inode, flock, PID in the file | NewLockFile, Lock, Unlock, Clean | sessions interleave between system calls; crashes leave the file; PIDs are reused | one session per root; a dead file blocks nobody |
| Manager (`builder/manager.go`) | lock, cancelled, didStart, activePID, lockfile | Build, Chroot, Index, Update, Cleanup, SigIntCleanup, SetActivePID, SetCancelled | two goroutines, one mutex; any step may fail; a signal at any moment | nothing mounted, alive or locked when the process is gone; the process ends |
| Build, chroot, index, update (`build.go`, `chroot.go`, `index.go`, `update.go`) | mounts, commands, files of the root | some forty steps in sequence | errors returned, kept or swallowed at every one | sources bound, daemon stopped, PID reset |
| Overlay (`overlay.go`) | mount points | Mount, MountVFS, Unmount | order of unmounts, busy mounts | mirrors what was mounted |
| Package manager (`eopkg.go`, `repos.go`) | dbusActive, pid file, cache mount | Init, StartDBUS, StopDBUS, Upgrade, repos | a daemon that outlives its command | the daemon can be found while it runs |
| Processes (`util.go`) | children of the root | ChrootExec, ChrootShell, MurderDeathKill, AddBuildUser | known to the manager only after they are started; chroot of the process itself | none outlives the session |
| Namespaces (`namespaces.go`) | namespaces of threads | ConfigureNamespace, DropNetworking | unshare is per thread, goroutines move | the build has no network |
| Source cache (`builder/source/`) | staging, hash directories, sha1 links | IsFetched, Fetch | shared by all builds, without a lock; broken downloads | a file has the hash it is filed under |
| Git sources (`source/git.go`) | one clone per URI | clone, fetch, switch, submodules, permissions | shared by all builds, without a lock; tags move | a build gets the commit its tag names, and can read it offline |
| Images (`builder/main.go`, `cli/init.go`, `update.go`) | .img.xz, .img, the root in it | init, update, mount by builds | two downloads to one path; signals; update beside builds | an installed image is whole; updates get through |
| History (`history.go`) | updates | scanUpdates, GetLastVersionTimestamp | map order, cut at ten | changelog and timestamp do not depend on the order |
| Setup (`cli/`, `manager.go`, `config.go`, `profile.go`, `pkg.go`) | configuration, profile, package, overlay | NewManager, setters, order of calls | a setter is heard only at its place; files are layered | what was asked for is in effect |
| User (`userinfo.go`) | ids, home, name, email | SetFromSudo, SetFromCurrent, packager files, git | fallbacks that fail half way | one account, one identity |
| Cache commands, logging, file helpers | none | delete-cache removes directories | takes no lock | a part of the components it removes from |

How they interact: a command line run makes one Manager, gives it configuration,
profile and package, and calls one operation. The operation takes the lock file
of the root, runs the steps of the package on overlay, package manager and
processes, which report PIDs back through `PidNotifier`, and defers Cleanup. A
signal makes a second goroutine run the same Cleanup and exit. Sessions of
different packages share the source cache, the image and the clones. The hazards
this leads to are listed in `PROJECT.json` with the lines where they bite.

## Modules

* `LockFile` – sessions on one lock path, one action per system call.
  `path`, `content`, `holder` are the kernel's; `pc`, `fd`, `seen` are a
  session's; a PID is its sequence of digits because `writePID` writes digits
  over digits (`Overwrite`). `owner` and `fd` of the Go struct are implied by
  `pc`; `conlock` is left out, no two goroutines lock at once. `others` are
  processes of the machine that may get the PID a session had; `DeleteCache`
  removes the path whoever holds it.
* `Package` – pure: `ManagerScript(c)` is the sequence of steps an operation
  takes in configuration `c`, the calls of build.go, overlay.go, eopkg.go,
  repos.go and util.go inlined in order. A step says what happens on error:
  return, go on, or keep the error for a later `check`. File system work
  without consequence for the properties is an `io` step that may fail.
* `Manager` – executes a script in goroutine `main`, with goroutine `sig`, the
  mutex `mlock`, and what the kernel keeps: `mounts`, `live`, `dbusPid`,
  `jailed`, `offline` (some thread has no network), `cmdNet`. `env` says what a session may meet:
  when a signal may come, how many steps may fail, whether a shell leaves
  processes. Every branch of Cleanup is an action either goroutine may take.
  `activePID` is the position of the start of a command, so that a stale PID
  can be told from the current one. `SeesJail` makes it a free choice whether a
  goroutine's paths resolve inside the chroot of `ChrootShell` (`jailed`, which a
  chroot that fails sets too, for the working directory is inside by then), and `OnThread`
  whether a command is started from the thread DropNetworking unshared: both
  calls change one thread and those made from it.
* `BuildRoot` – the abstract promise of a session: the root is touched only
  under the lock file, given back clean, and given back. `Manager` refines it
  with `owned` for `lockfile = "held"` and `dirty` for `mounts # {} \/ live # {}`;
  a session with a shell, and one that may get a signal at any time, maps to one
  that owns nothing and promises nothing.
* `SourceCache` – fetches of archives into the shared cache. A file has two
  parts so that it can be partial or mixed; its pair of parts is its hash.
  grab resumes a file, a `file://` copy truncates it; delete-cache removes
  entries at any time.
* `GitSource` – builds in one clone. `up` are the tags upstream, `refs` those of
  the clone, `head` what is checked out in it; `objs` are the commits whose files
  a switch has brought (the clone is blobless), `sealed` those that
  fixPermissions has not opened yet; `index` is git's index.lock, which refuses a
  second switch. A fetch or a clone is told the refs of the remote in one step
  (`heard`) and stores them in a later one, over whatever another git has stored
  since. `dir` numbers the clones that were at the path, so that a build that
  lost its directory can be told; `wreck` is a clone delete-cache has begun to
  remove, perhaps to stop half way. `seen` is history: the commits the tag of a
  build may have been told to name, from the start of its Fetch on or by a git
  that was under way then.
* `Image` – runs of init, the update, builds and delete-cache on one image. A
  run keeps the inode it created, so a download whose path was removed or
  created anew goes on in a file of its own or in a shared one; `data` has the
  parts an inode holds. `img` is the decompressed file and who makes it: unxz
  removes its own target when it fails. `base` is the root file system in it.
* `History` – a log of commits and the builds in between. A scan takes commits
  in any order (`todo`), keeps one per release, sorts, cuts and stamps; a log
  that cannot be read leaves a build without a history.
* `UserInfo`, `Setup` – a command from its flags to doLock. `BuildRun` and its
  siblings are the orders of calls; each step is an action that may fail where
  the code returns or panics. Contents of files are chosen when they are read, keys
  without a value and names like `..` among them. A build goes on into `GetUserInfo`.
* `MCLockFile`, `MCManager`, `MCSourceCache`, `MCSetup` – instances for TLC.
* `LockFileProofs`, `PackageProofs`, `ManagerProofs` (which builds on it),
  `SourceCacheProofs`, `GitSourceProofs`, `ImageProofs`, `HistoryProofs`,
  `SetupProofs` (with `UserInfo`) – theorems.

External, modelled from their use: libosdev's MountManager (`DoMount`,
`Unmounted`: everything but a busy root is unmounted), grab's resume and
checksum (`Size`, `Verify`), unxz (opens its source, refuses a target that
exists, removes the target on error or on a signal it can catch and the source on
success), git's clone, fetch and switch, dbus-daemon's fork, the kernel's PIDs and inodes. A process
sent SIGTERM by MurderDeathKill is taken to end before the unmount that follows:
Cleanup repeats the kill ten times.

## Runs

Passing:

| Run | Instance | Shows |
|---|---|---|
| `lock` | 2 sessions restarted for ever, 3 inodes, 2 PIDs, one a prefix of the other, a bystander, second cleanups, delete-cache, 2 faults | `ExclusiveOnFile`: per inode, the flock excludes. `PidLeadsFile`: the file of a working session starts with its PID. `SessionsGetThrough`: a dead lock file blocks nobody for good |
| `manager` | 8 configurations of all operations, 2 sources, 2 caches; 2 failing steps and perhaps a signal while a command runs, or 1 failing step, processes left by shells and a signal at any time | `CleanExit`: nothing left behind, whether main or the signal goroutine tears down. `DbusFindable`: until then the daemon runs and its pid file exists while dbusActive. `SourcesBound`: no build command without its sources, unless a step failed before. `CleanupExclusive`, `SignalEndsProcess`: the goroutines never wait for each other for ever. `KeepsPromise`: the operations without a shell refine `BuildRoot`, its liveness included |
| `cache` | 3 archives with names of their own, two of one contents, one not what its sha1 says, 7 inodes, 1 break or removal | `CacheAddressed`, `FetchedIsWanted`: a build gets what its package names. `GoodSourceArrives` |
| `image` | 2 runs of init, a build, the update, 2 inodes, an image in 2 parts, 2 faults | `InstalledIsWhole`: an image that is found, and that nobody is decompressing, is whole, as long as an unxz that does not finish gets to remove its target. `ImageArrives`: unless a download was cut off or was an error page, an image that is asked for again and again is there in the end. `UpdateGetsThrough`: updates keep succeeding, unless one ended with half a build user |
| `git` | 2 builds of any of 2 tags, 2 commits, 2 faults | `TagIsFresh`: never what an old clone happened to have. `FilesReadable`: whatever other builds switch the clone to. `SomeoneGetsThrough` |
| `history` | logs of up to 4 commits, 4 releases, 2 versions, 2 times, a changelog of 3 | `ChangelogIsRight`, `TimestampIsVersionChange`: in terms of the log, whatever the map order. `BumpsKeepTimestamp`: between two builds |
| `setup` | all command lines, lists of up to 2 vendor files and 1 system file out of three that set overlapping keys and a broken one | `ConfigIsMerged`, `OptionsTakeEffect`, `LockedIsUsable`, `SudoAsAWhole`, `OneIdentity` |

Violations, each a finding in `PROJECT.json` with the line it contradicts:

| Run | Property | What happens |
|---|---|---|
| `lock_unlink_race` | `MutualExclusion` | a path is removed under a session that has it open; two sessions in one root |
| `manager_orphans` | `NoOrphans` | main goes on during the teardown and starts a command |
| `manager_network` | `BuildOffline` | the build command is started from a thread that still has the network |
| `cache_same_name` | `CacheAddressed` | two archives of one name share a staging file |
| `image_update` | `BaseReadOnly` | the image changes under a build |

Why the bounds are enough. Every race found needs two or three sessions; a third
inode is one to have open, one that was removed and one that is new. A PID that
is a prefix of the other makes what is left of a longer one look like a PID. Two faults
let a step and one of the way back fail. The configurations take every branch of
the scripts between them; their steps are independent of the number of sources
and caches beyond two. Seven inodes are what three fetches can occupy (a file in
the cache and one in staging each, and one that was removed), so that a download
never waits for one. Three fetches with two parts give every order of open,
write, hash and rename. Two runs of init occupy two inodes at most, since a run
that creates the file takes the one at the path or a new one; two parts make an
image partial, mixed from two downloads, or with a hole. A moved tag, a failing
git and delete-cache count as faults of `git`: two of them interleave with two
builds in every order. Four commits against a changelog of three give releases
out of order, twice, at one time, and beyond the cut. Two vendor files and one
system file give a key set twice in one directory and in both. `MaxFaults`
bounds crashes, failed calls, signals and removals; `Restart` lets sessions come
back.

Fairness. A step of a session, a goroutine, a fetch, a run of init, an update or
a git that stays possible happens (the kernel and the Go scheduler run what is
runnable), and commands end. `LongTask` is no fairness but a restriction: in the
sessions of `CleanExit` and `KeepsPromise` that get a signal, the command main
waits for does not end by itself between the signal and the kill, which Wait
(`util.go:211`) does not rule out. If it does, main goes on under Cleanup, as in
the sessions with a signal at any time and in `manager_orphans`. Nothing makes a
session start, a signal come, a fault happen or anyone try again:
`SessionsGetThrough`, `GoodSourceArrives`, `ImageArrives`, `UpdateGetsThrough`
and `SomeoneGetsThrough` have the retries as their hypothesis. `manager` and
`setup` run with deadlock checking off because a process ends, and so do the
violation runs in which nothing is started again.

## Proofs

Every invariant of a passing run is a theorem of its specification, for every
value of the constants, and so is the safety part of the refinement. The
assumptions are those stated with the constants; where a theorem needs more it
says so. Each proof has an inductive invariant `IndInv`, one lemma per part of
it with a step per action, and ends with `PTL`.

* `LockFileProofs`: `TypeCorrect` and `Exclusion` from `TypeOK`, `HolderOwns` (a
  flock belongs to a session with that inode open, past flock), `OwnerHolds` (a
  session past flock holds its inode) and `FilesOpen`. `ExclusiveOnFile` alone
  says nothing about the holder of an inode, on which the next flock depends.
  `PidRecorded` adds that every file is empty or as long as some PID, and that
  the file of a working session starts with its PID; `OverwriteLeads` is the
  lemma about the write.
* `PackageProofs`: `ScriptsFit`. A script is checked like a program with types. A
  state says what is known when main is at a position if nothing tears the root
  down: how far doLock is, what main is in the middle of and with which command,
  whether D-BUS is off, up or on, and what is mounted if nothing failed. `Typed`
  says that every step leads from the state of its position to that of the next,
  and an error that is not returned (`Lands`) to the state of the position it
  goes to, which is never the middle of a command. `Cat` puts typed scripts one
  after the other, also over jumps; `Block` is a script from rest to rest that
  adds mounts. A lemma per function of the code then gives its block
  (`StartBlock`: D-BUS off to on; `PrepBlock`: on to off; `YpkgBlock`: the build
  command has what it wants), and `ThenResetBlock`, `ShellBlock` and
  `SourcesTypes` deal with kept errors, the shell and the jump out of
  BindSources. `BindSources` and `BindCaches` are concatenations over any finite
  number of sources and caches (`FiniteAssumption`); their lemmas go by the least
  counterexample, with `WFMin` of the library, which replaces induction.
* `ManagerProofs`: `CleanupIsExclusive` from the steps alone (`ScriptKeepsLock`,
  `CleanupKeepsLock`). The others from `IndInv`, which says what the variables
  are where main is according to `PackageProofs`: `Doing` (a command or helper
  lives no longer than main is busy with it, and `activePID` names it while main
  waits), `Locking` (nothing is touched before doLock is through), `Bus` and
  `Bound` (daemon, PID file and mounts, until a Cleanup begins), and `Teardown`:
  in a session where the signal came during a command other than a shell, after
  the kill main has nothing left but to fail, to reset the PID and to wait for
  m.lock (`Stopped`), so what the signal goroutine has taken down stays down
  (`Torn`). `CleanExit` says nothing of the way there; these parts do.
  `TypeCorrect`, `CleansUp`, `DbusIsFindable`, `SourcesAreBound`, and
  `SessionsPromise`: `Spec => Promise!Safety`, each step a step of `BuildRoot` or
  a stutter. They hold for all configurations, environments, sources and caches
  and any number of faults; the run has 8 configurations.
* `SourceCacheProofs`: `TypeCorrect` always; `CacheIsAddressed` and
  `FetchedIsRight`, for all fetches, blobs, inodes and faults, if no two fetches
  have archives of one name (`OwnNames`, what `cache_same_name` lacks). The
  invariant adds to `CacheAddressed` that staging, open and cached files are
  different inodes (`Apart`), that a staging file does not change after its
  fetch hashed it (`SumHolds`), which is what the unread move into the cache
  relies on, and that a link leads to the directory of the same contents.
* `ImageProofs`: `InstalledWhole` needs how far an image under way is (`Growing`:
  as far as its unxz has read), that a finished one is whole, and that a run has
  its file open and reads from the start.
* `GitSourceProofs`: `TagsAreFresh` and `FilesAreReadable` speak of builds that are
  done; `Freshness` follows the tag from upstream (`UpSeen`) through the gits that
  were told of it (`HeardSeen`) into the clone (`RefsSeen`) and the work tree
  (`GotSeen`), whoever fetched, and `Files` the objects of a commit from the
  switch to the open packs.
* `HistoryProofs`: `Scanned`, `Listed` and `Stamped` say what a build has at each of
  its stages in terms of the log: a release has as its place in the changelog its
  rank among the releases (`Ranks`, `ListIs`), and the timestamp is that of the
  commit at which the walk over equal versions ends (`WalkIs`). `LastBuild` keeps
  that commit for the build before, in terms of the log as it is now, so that a
  bump moves it by one place: that gives `BumpsKeep`. The lemmas about ranks go by
  least counterexample too.
* `SetupProofs`: each option is looked at once, at its own place in the script of a
  command, so the invariant says for each place what is in effect there.
  `MergedUpTo` is the loop over the configuration files: every key from the last
  file so far that sets it. `UserInv` adds to `SudoAsAWhole` and `OneIdentity` that
  nothing was taken from a file before one had both.

Only model-checked: liveness (`SessionsGetThrough`, `SignalEndsProcess`,
`GoodSourceArrives`, `ImageArrives`, `UpdateGetsThrough`, `SomeoneGetsThrough`,
and that of `KeepsPromise`), which is out of the prover's reach.

## Known limits of the code

What the models show beside the findings, and what the hypotheses of the
properties leave out:

* `writePID` does not truncate (`lockfile.go:179`): a PID over a longer one leaves
  digits of it, and the file names neither process. Clean does not clear `owner` and `fd`: a second Cleanup
  removes the path again (`lockfile.go:197`).
* BindSources returns nil when a bind target cannot be made (`build.go:109`); a
  build then runs without its sources.
* A signal during a chroot shell finds the process inside the root
  (`util.go:253`): the lock file and mounts are left. A process a shell left
  behind in a directory below the top of the root is spared by MurderDeathKill,
  which compares working directories: `CleanExit` makes no claim for such a session. The run had none without a signal at any
  time; the attempt to prove it for all environments showed the condition.
* A download of the image that is cut off by a signal, or an answer that is an
  error page (`cli/init.go:144`), leaves a file that IsFetched takes for the
  image; init fails until it is removed.
* An update that ends between AddGroup and AddUser (`util.go:334`) makes every
  later one fail.
* The eleventh release of one version moves the timestamp of a reproducible build,
  because the changelog is cut first (`history.go:289`). Commits of one release
  at one time with different versions leave it to the map order (`Determined`).
* The tests of the error of `user.Current` and `os.Hostname` are inverted
  (`userinfo.go:100`, `:226`). Without sudo a build is for the ids of root and the
  home of `$USERNAME`, though SetFromCurrent is to "set the UserInfo details from
  the current user" (`:95`); an account that is not found is dereferenced.
* A packager file or .gitconfig whose keys have no value ends the search with an
  empty name or email (`userinfo.go:150`), though GetUserInfo "finally comes up
  with a valid combination of name/email" (`:201`).
* `man/solbuild.conf.5.md:51` and `data/00_solbuild.conf:22` say an empty
  `tmpfs_size` is an unbounded tmpfs; Build and Index refuse one
  (`manager.go:389`). `index` takes its tmpfs from its flags, given or not, and
  ignores the configuration (`cli/index.go:93`), which is to "default the builder
  to using tmpfs" (`data/00_solbuild.conf:17`).
* Any package name that is not blank is joined to the path of the overlay
  (`pkg.go:241`, `overlay.go:64`): for `.` the overlay is the directory of the
  profile with all its overlays, for `..` the one above.
* Builds with sources from one repository switch one clone (`source/git.go:94`): a
  build may have the commit of another checked out, from before the clone is
  bound or later. `FilesReadable` says that it is a whole commit and that the
  build's own is there.
* An unxz killed by SIGKILL, by a power cut, or left running when solbuild alone
  gets a SIGTERM, is not modelled. The first two leave a partial image that
  IsInstalled accepts (`cli/init.go:122`).
* A git killed by SIGKILL leaves its index.lock and refuses every later switch
  (`source/git.go:94`). A delete-cache that stops half way leaves a clone that
  Fetch takes for one (`delete_cache.go:163`): `SomeoneGetsThrough` and
  `FilesReadable` leave such a clone out.
* If the chroot of ChrootShell fails, the working directory of solbuild stays in
  the root (`util.go:249`): the root is busy, and MurderDeathKill, which goes by
  working directories, sends SIGTERM to solbuild itself. `CleanExit` makes no claim
  for such a session; the SIGTERM is not modelled.
* Without a system bus a build dereferences a nil connection (`cli/build.go:158`).

## Not modelled

Decoding and writing of files (package.yml, pspec.xml, TOML, passwd, manifests,
history.xml), environment variables, copies of files, logging and wording: pure
conversions or I/O of libraries. The sizes delete-cache and show-cache add up.
Which mount namespace a mount is in. The entry checks of an operation (no
package, cancelled) come before any state changes. Sessions are composed only
through what they share, one module each: a product of `Manager` with `LockFile`
would repeat both without a new question, since a session touches the lock file
only in doLock and in the last step of Cleanup.

## Plan

All modules of the plan are written, and all invariants of the runs proved. Left:

1. What makes the violated properties hold, as theorems, like `OwnNames` for the
   source cache: `MutualExclusion` if nobody removes a path that is not its own
   inode's; `BuildOffline` if the command is started from the unshared thread;
   `NoOrphans` if the signal comes while main waits.
2. Action properties from the invariants at hand: what a Cleanup may never
   undo, and that an installed image is never replaced by a shorter one.
