-------------------------------- MODULE Setup --------------------------------
(***************************************************************************)
(* What build, chroot, index and update do before the root is worked in:   *)
(* the commands of cli/ with NewManager and the setters of                 *)
(* builder/manager.go, the configuration of builder/config.go, the profile *)
(* of builder/profile.go, the package file of builder/pkg.go and, for a    *)
(* build, the user of builder/userinfo.go.  One process, one goroutine; a  *)
(* file's content is chosen when it is read.                               *)
(***************************************************************************)
EXTENDS Naturals, Sequences, FiniteSetsExt, UserInfo

CONSTANTS
    ConfigFile,  \* for each sound configuration file, the keys it sets
    MaxVendor,   \* bound on the files in /usr/share/solbuild
    MaxSystem    \* bound on the files in /etc/solbuild

VARIABLES
    flags,      \* the command line
    usr, etc,   \* the .conf files of the two directories, in the order of Glob
    installed,  \* whether the image of the profile is installed
    step,       \* the position in the command's script
    failed,     \* whether the process has ended with an error
    loaded,     \* the number of configuration files decoded
    config,     \* Manager.Config
    path,       \* the kind of package file named or found
    profile,    \* Manager.profile
    pkg,        \* Manager.pkg
    history,    \* whether SetPackage looked for the history, and has it
    overlay     \* Manager.overlay

world == <<flags, usr, etc, installed>>
manager == <<config, profile, pkg, history, overlay>>
vars == <<world, step, failed, loaded, path, manager, userVars>>

-----------------------------------------------------------------------------
\* The sizes of a tmpfs: none, blanks, a number with a unit, and anything else.
Size == {"", " ", "8G", "lots"}
Images == {"main-x86_64", "unstable-x86_64"}
ProfileName == Images \cup {"local"}
Repos == {"Solus", "Local"}

Config == [default_profile : ProfileName, enable_history : BOOLEAN, enable_tmpfs : BOOLEAN,
           tmpfs_size : Size, overlay_root_dir : {"/var/cache/solbuild", "/srv"}]
Default == [default_profile |-> "main-x86_64", enable_history |-> FALSE,
            enable_tmpfs |-> FALSE, tmpfs_size |-> "",
            overlay_root_dir |-> "/var/cache/solbuild"]
Key == DOMAIN Default

ASSUME SetupAssumption ==
    /\ \A f \in DOMAIN ConfigFile :
          \E c \in Config : \A k \in DOMAIN ConfigFile[f] : k \in Key /\ ConfigFile[f][k] = c[k]
    /\ "broken" \notin DOMAIN ConfigFile
    /\ MaxVendor \in Nat /\ MaxSystem \in Nat

\* A list of files, sound and broken.
ConfigDir(n) == UNION {[1..m -> DOMAIN ConfigFile \cup {"broken"}] : m \in 0..n}

\* A flag that a command does not have is as if not given.
Flags ==
    {f \in [cmd : {"build", "chroot", "index", "update"}, profile : {"", "local"},
            tmpfs : BOOLEAN, memory : Size, history : BOOLEAN] :
        /\ f.cmd \in {"chroot", "update"} => ~f.tmpfs /\ f.memory = ""
        /\ f.cmd # "build" => ~f.history}

\* The content of a .profile file that decodes: its image, the repositories it
\* defines and those it adds.
ProfileFile == [image : Images \cup {"other"}, repos : SUBSET Repos,
                add : {{}, {"*"}, {"Solus"}, {"*", "Solus"}}]

\* The content of a package file that decodes.
PackageFile == [Name : {"", " ", ".", "..", "nano"}, Version : {"", "8.2"}, Release : {-1, 0, 1},
                sources : BOOLEAN]

Package == [type : {"ypkg", "legacy", "index"}, Name : {".", "..", "nano", "index"}]

\* An overlay; its directory is the path to it, "" where the path is shorter.
Overlay == [base : {"/var/cache/solbuild", "/srv"} \X (ProfileName \cup {""})
                      \X {"", "nano", "index"},
            tmpfs : BOOLEAN, size : Size]

\* The nil of each.
NoProfile == [Name |-> "", image |-> ""]
NoPackage == [type |-> "", Name |-> ""]
NoOverlay == [base |-> <<"", "", "">>, tmpfs |-> FALSE, size |-> ""]

IndexPackage == [type |-> "index", Name |-> "index"]

-----------------------------------------------------------------------------
\* Mutant: the options are dealt with before the manager has its package.
MutBuildRunTmpfsFirst ==
    <<"find", "root", "namespace", "config", "profile", "history", "load", "tmpfs",
      "package", "inhibit", "operate", "lock", "user">>

\* The order of BuildRun and the Build it ends with, and of the other commands.
BuildRun ==
    <<"find", "root", "namespace", "config", "profile", "history", "load", "package",
      "tmpfs", "inhibit", "operate", "lock", "user">>
ChrootRun ==
    <<"find", "root", "namespace", "config", "profile", "load", "package", "lock", "ready">>
IndexRun ==
    <<"root", "namespace", "config", "profile", "package", "tmpfs", "operate", "lock", "ready">>
UpdateRun == <<"root", "namespace", "config", "profile", "image", "lock", "ready">>

Script == [build |-> BuildRun, chroot |-> ChrootRun, index |-> IndexRun, update |-> UpdateRun]

At(op) == ~failed /\ Script[flags.cmd][step] = op
Locked == ~failed /\ Script[flags.cmd][step] \in {"user", "ready"}
Go == step' = step + 1 /\ UNCHANGED failed
Fail == failed' = TRUE /\ UNCHANGED <<step, manager>>

TypeOK ==
    /\ flags \in Flags
    /\ usr \in ConfigDir(MaxVendor) /\ etc \in ConfigDir(MaxSystem)
    /\ installed \in BOOLEAN
    /\ step \in DOMAIN Script[flags.cmd] /\ failed \in BOOLEAN
    /\ loaded \in 0..(Len(usr) + Len(etc))
    /\ config \in Config
    /\ path \in {"", "ypkg", "legacy"}
    /\ profile \in {NoProfile} \cup [Name : ProfileName, image : Images]
    /\ pkg \in {NoPackage} \cup Package
    /\ history \in {"off", "missing", "found"}
    /\ overlay \in {NoOverlay} \cup Overlay
    /\ UserTypeOK

Init ==
    /\ flags \in Flags
    /\ usr \in ConfigDir(MaxVendor) /\ etc \in ConfigDir(MaxSystem)
    /\ installed \in BOOLEAN
    /\ step = 1
    /\ failed = FALSE
    /\ loaded = 0
    /\ config = Default
    /\ path = ""
    /\ profile = NoProfile
    /\ pkg = NoPackage
    /\ history = "off"
    /\ overlay = NoOverlay
    /\ UserInit

-----------------------------------------------------------------------------
\* The file named on the command line, or FindLikelyArg: package.yml, else
\* pspec.xml, else none.
FindPackage ==
    /\ At("find")
    /\ \/ \E t \in {"ypkg", "legacy"} : path' = t /\ Go /\ UNCHANGED manager
       \/ Fail /\ UNCHANGED path
    /\ UNCHANGED <<world, loaded, userVars>>

\* Geteuid, and ConfigureNamespace with which NewManager begins.
Entitled ==
    /\ At("root") \/ At("namespace")
    /\ (Go /\ UNCHANGED manager) \/ Fail
    /\ UNCHANGED <<world, loaded, path, userVars>>

\* toml.Decode of a file onto what earlier files have set.
Decode(f, c) == [k \in Key |-> IF k \in DOMAIN ConfigFile[f] THEN ConfigFile[f][k] ELSE c[k]]

\* Mutant: the system's files are read before the vendor's.
MutConfigFilesEtcFirst == etc \o usr

\* The vendor's files are read before the system's.
ConfigFiles == usr \o etc

\* One turn of NewConfig's loop, or its end.
NewConfig ==
    /\ At("config")
    /\ IF loaded = Len(ConfigFiles)
       THEN Go /\ UNCHANGED <<loaded, manager>>
       ELSE LET f == ConfigFiles[loaded + 1] IN
            \/ f = "broken" /\ Fail /\ UNCHANGED loaded
            \/ /\ f # "broken"
               /\ config' = Decode(f, config)
               /\ loaded' = loaded + 1
               /\ UNCHANGED <<step, failed, profile, pkg, history, overlay>>
    /\ UNCHANGED <<world, path, userVars>>

\* NewProfileFromPath, of a file that decodes: a lone wildcard adds any repository.
SoundProfile(p) == p.add = {"*"} \/ p.add \subseteq p.repos

\* Mutant: any image will do.
MutSetProfileAnyImage ==
    /\ At("profile")
    /\ LET name == IF flags.profile = "" THEN config.default_profile ELSE flags.profile IN
       \/ Fail
       \/ \E p \in ProfileFile :
             /\ SoundProfile(p)
             /\ profile' = [Name |-> name, image |-> p.image]
             /\ Go /\ UNCHANGED <<config, pkg, history, overlay>>
    /\ UNCHANGED <<world, loaded, path, userVars>>

\* NewProfile takes the file of the first directory that has one, which may be
\* broken; the image must be one of ValidImages.
SetProfile ==
    /\ At("profile")
    /\ LET name == IF flags.profile = "" THEN config.default_profile ELSE flags.profile IN
       \/ Fail
       \/ \E p \in ProfileFile :
             /\ SoundProfile(p) /\ p.image \in Images
             /\ profile' = [Name |-> name, image |-> p.image]
             /\ Go /\ UNCHANGED <<config, pkg, history, overlay>>
    /\ UNCHANGED <<world, loaded, path, userVars>>

\* The history flag, which SetPackage will look at.
EnableHistory ==
    /\ At("history")
    /\ config' = [config EXCEPT !.enable_history = @ \/ flags.history]
    /\ Go
    /\ UNCHANGED <<world, loaded, path, profile, pkg, history, overlay, userVars>>

Trim(s) == IF s = " " THEN "" ELSE s

\* The tests of NewXMLPackage and NewYmlPackageFromBytes.
SoundPackage(p) == Trim(p.Name) # "" /\ Trim(p.Version) # "" /\ p.Release >= 0 /\ p.sources

\* NewPackage, the package not being the manager's yet.
NewPackage ==
    /\ At("load")
    /\ \/ Fail
       \/ \E p \in PackageFile :
             /\ SoundPackage(p)
             /\ pkg' = [type |-> path, Name |-> Trim(p.Name)]
             /\ Go /\ UNCHANGED <<config, profile, history, overlay>>
    /\ UNCHANGED <<world, loaded, path, userVars>>

\* filepath.Join of NewOverlay, which cleans the path.
Join(root, name, package) ==
    CASE package = "."  -> <<root, name, "">>
      [] package = ".." -> <<root, "", "">>
      [] OTHER          -> <<root, name, package>>

\* SetPackage looks for the image and for the git history of a ypkg build, where
\* only a repository that is there and cannot be opened is an error, and makes
\* the overlay.
SetPackage ==
    /\ At("package")
    /\ LET p == IF flags.cmd = "index" THEN IndexPackage ELSE pkg
           look == config.enable_history /\ p.type = "ypkg" IN
       \/ ~installed /\ Fail
       \/ installed /\ look /\ Fail
       \/ /\ installed
          /\ pkg' = p
          /\ history' \in IF look THEN {"missing", "found"} ELSE {"off"}
          /\ overlay' = [base |-> Join(config.overlay_root_dir, profile.Name, p.Name),
                         tmpfs |-> FALSE, size |-> ""]
          /\ Go /\ UNCHANGED <<config, profile>>
    /\ UNCHANGED <<world, loaded, path, userVars>>

-----------------------------------------------------------------------------
\* SetTmpfs does nothing before there is an overlay.
SetTmpfs(enable, size) ==
    /\ config' = IF overlay = NoOverlay THEN config
                 ELSE [config EXCEPT !.enable_tmpfs = enable, !.tmpfs_size = Trim(size)]
    /\ Go
    /\ UNCHANGED <<profile, pkg, history, overlay>>

\* The tmpfs flags of a build.
BuildTmpfs ==
    /\ At("tmpfs") /\ flags.cmd = "build"
    /\ \/ /\ flags.tmpfs
          /\ \/ flags.memory # "" /\ SetTmpfs(TRUE, flags.memory)
             \/ /\ flags.memory = "" /\ config.tmpfs_size # ""
                /\ SetTmpfs(TRUE, config.tmpfs_size)
             \/ flags.memory = "" /\ config.tmpfs_size = "" /\ Fail
       \/ /\ ~flags.tmpfs /\ flags.memory # "" /\ config.enable_tmpfs
          /\ SetTmpfs(TRUE, flags.memory)
       \/ /\ ~flags.tmpfs /\ (flags.memory = "" \/ ~config.enable_tmpfs)
          /\ Go /\ UNCHANGED manager
    /\ UNCHANGED <<world, loaded, path, userVars>>

\* Those of index, which replace what is configured.
IndexTmpfs ==
    /\ At("tmpfs") /\ flags.cmd = "index"
    /\ SetTmpfs(flags.tmpfs, flags.memory)
    /\ UNCHANGED <<world, loaded, path, userVars>>

\* The inhibitor lock.  The error of login.New is logged, and the connection it
\* did not make is used.
Inhibit ==
    /\ At("inhibit")
    /\ (Go /\ UNCHANGED manager) \/ Fail
    /\ UNCHANGED <<world, loaded, path, userVars>>

\* A number that ends in a unit.
ValidMemSize(s) == s = "8G"

\* Mutant: any size will do, if there is one.
MutSetOptionsAnySize ==
    /\ At("operate")
    /\ \/ config.enable_tmpfs /\ config.tmpfs_size = "" /\ Fail
       \/ /\ ~(config.enable_tmpfs /\ config.tmpfs_size = "")
          /\ overlay' = [overlay EXCEPT !.tmpfs = config.enable_tmpfs,
                                        !.size = config.tmpfs_size]
          /\ Go /\ UNCHANGED <<config, profile, pkg, history>>
    /\ UNCHANGED <<world, loaded, path, userVars>>

\* Build and Index set the options of the overlay and test its size.
SetOptions ==
    /\ At("operate")
    /\ \/ config.enable_tmpfs /\ ~ValidMemSize(config.tmpfs_size) /\ Fail
       \/ /\ config.enable_tmpfs => ValidMemSize(config.tmpfs_size)
          /\ overlay' = [overlay EXCEPT !.tmpfs = config.enable_tmpfs,
                                        !.size = config.tmpfs_size]
          /\ Go /\ UNCHANGED <<config, profile, pkg, history>>
    /\ UNCHANGED <<world, loaded, path, userVars>>

\* Update wants its image installed.
ImageInstalled ==
    /\ At("image")
    /\ IF installed THEN Go /\ UNCHANGED manager ELSE Fail
    /\ UNCHANGED <<world, loaded, path, userVars>>

\* doLock, of the overlay's lock file or of the image's.
DoLock ==
    /\ At("lock")
    /\ (Go /\ UNCHANGED manager) \/ Fail
    /\ UNCHANGED <<world, loaded, path, userVars>>

\* Package.Build begins with the user; a panic there ends the process.
BuildUser ==
    /\ At("user")
    /\ GetUserInfo
    /\ failed' = (upc' = "panic")
    /\ UNCHANGED <<world, step, loaded, path, manager>>

Next ==
    \/ FindPackage \/ Entitled \/ NewConfig \/ SetProfile \/ EnableHistory \/ NewPackage
    \/ SetPackage \/ BuildTmpfs \/ IndexTmpfs \/ Inhibit \/ SetOptions \/ ImageInstalled
    \/ DoLock \/ BuildUser

Spec == Init /\ [][Next]_vars

-----------------------------------------------------------------------------
\* What the files say of a key: the last of the system's that sets it, else the
\* last of the vendor's, else the default.
Merged(k) ==
    LET setters(dir) == {i \in DOMAIN dir : k \in DOMAIN ConfigFile[dir[i]]}
    IN  CASE setters(etc) # {} -> ConfigFile[etc[Max(setters(etc))]][k]
          [] setters(etc) = {} /\ setters(usr) # {} -> ConfigFile[usr[Max(setters(usr))]][k]
          [] OTHER -> Default[k]

\* A command goes on with the merged configuration: no broken file among those
\* of NewConfig, and every key as the last file that sets it says.
ConfigIsMerged ==
    At("profile") => /\ \A i \in DOMAIN usr : usr[i] # "broken"
                     /\ \A i \in DOMAIN etc : etc[i] # "broken"
                     /\ \A k \in Key : config[k] = Merged(k)

\* What the command line of a build or a chroot asks for, else the configuration,
\* is in effect in the root that is locked: SetPackage reads the history option
\* and SetTmpfs needs the overlay SetPackage makes, so each option has one place
\* where it is heard.  (Those of index replace the configured tmpfs, given or not.)
\* Every overlay is below the configured directory, though with a package named
\* .. it is that directory.
OptionsTakeEffect ==
    Locked =>
        /\ flags.cmd = "build" =>
              /\ overlay.tmpfs = (flags.tmpfs \/ Merged("enable_tmpfs"))
              /\ overlay.tmpfs => overlay.size = IF flags.memory # "" THEN flags.memory
                                                 ELSE Merged("tmpfs_size")
        /\ flags.cmd \in {"build", "chroot"} /\ pkg.type = "ypkg" =>
              (history # "off" <=> flags.history \/ Merged("enable_history"))
        /\ flags.cmd # "update" => overlay.base[1] = Merged("overlay_root_dir")

\* No root is locked that could not be used: the image is a known one and is
\* installed, and a tmpfs that has a size has one that mount understands.  (One
\* without a size, documented as unbounded, is refused.)
LockedIsUsable ==
    Locked =>
        /\ profile.image \in Images /\ installed
        /\ flags.cmd # "update" /\ overlay.tmpfs /\ overlay.size # "" =>
              ValidMemSize(overlay.size)
=============================================================================
