---------------------------- MODULE SetupProofs ----------------------------
(***************************************************************************)
(* What holds of Setup, with UserInfo, for any configuration files and any *)
(* number of them in each directory.                                       *)
(***************************************************************************)
EXTENDS Setup, TLAPS

Cmd == {"build", "chroot", "index", "update"}

\* What the command is at; where it stays if it fails.
Op == Script[flags.cmd][step]

\* What is past the configuration, the package and the options of the overlay.
Configured == {"profile", "history", "load", "image", "package", "tmpfs", "inhibit",
               "operate", "lock", "user", "ready"}
Packaged == {"tmpfs", "inhibit", "operate", "lock", "user", "ready"}
Optioned == {"lock", "user", "ready"}

\* Operation n comes after op, which is not the last of its command.
Follows(c, op, n) ==
    /\ op = "find" => n = "root"
    /\ op = "root" => n = "namespace"
    /\ op = "namespace" => n = "config"
    /\ op = "config" => n = "profile"
    /\ op = "profile" => /\ c = "build" => n = "history"
                         /\ c = "chroot" => n = "load"
                         /\ c = "index" => n = "package"
                         /\ c = "update" => n = "image"
    /\ op = "history" => n = "load"
    /\ op = "load" => n = "package"
    /\ op = "package" => n = IF c = "chroot" THEN "lock" ELSE "tmpfs"
    /\ op = "tmpfs" => n = IF c = "build" THEN "inhibit" ELSE "operate"
    /\ op = "inhibit" => n = "operate"
    /\ op = "operate" => n = "lock"
    /\ op = "image" => n = "lock"
    /\ op = "lock" => n = IF c = "build" THEN "user" ELSE "ready"

\* Only these commands have the operation.
Allowed(c, op) ==
    /\ op \in {"find", "load"} => c \in {"build", "chroot"}
    /\ op \in {"history", "inhibit", "user"} => c = "build"
    /\ op \in {"tmpfs", "operate"} => c \in {"build", "index"}
    /\ op = "package" => c # "update"
    /\ op = "image" => c = "update"

-----------------------------------------------------------------------------
(***************************************************************************)
(* The inductive invariant                                                 *)
(***************************************************************************)
\* The merged configuration, which nothing changes.
Wanted == [k \in Key |-> Merged(k)]

\* File i is the last of the first n that sets key k.
LastSetter(k, i, n) ==
    /\ i \in 1..n
    /\ k \in DOMAIN ConfigFile[ConfigFiles[i]]
    /\ \A j \in (i + 1)..n : k \notin DOMAIN ConfigFile[ConfigFiles[j]]

\* The first n files are sound, and c has each key from the last that sets it.
MergedUpTo(c, n) ==
    /\ \A i \in 1..n : ConfigFiles[i] # "broken"
    /\ \A k \in Key :
          \/ \E i \in 1..n : LastSetter(k, i, n) /\ c[k] = ConfigFile[ConfigFiles[i]][k]
          \/ /\ \A i \in 1..n : k \notin DOMAIN ConfigFile[ConfigFiles[i]]
             /\ c[k] = Default[k]

\* While the files are read, and when they all are.
Loading == Op \notin Configured => MergedUpTo(config, loaded)
Loaded == Op \in Configured => \A i \in 1..Len(ConfigFiles) : ConfigFiles[i] # "broken"

\* A key keeps its value until the option that replaces it was looked at.
Kept ==
    Op \in Configured =>
        /\ config.default_profile = Wanted.default_profile
        /\ config.overlay_root_dir = Wanted.overlay_root_dir
        /\ config.enable_history = IF Op \in {"profile", "history"}
                                   THEN Wanted.enable_history
                                   ELSE flags.history \/ Wanted.enable_history
        /\ Op \notin Packaged \ {"tmpfs"} =>
              /\ config.enable_tmpfs = Wanted.enable_tmpfs
              /\ config.tmpfs_size = Wanted.tmpfs_size

\* What the tmpfs flags have made of the configuration.
Asked ==
    Op \in Packaged \ {"tmpfs"} =>
        /\ flags.cmd = "build" =>
              /\ config.enable_tmpfs = (flags.tmpfs \/ Wanted.enable_tmpfs)
              /\ config.enable_tmpfs /\ ValidMemSize(config.tmpfs_size) =>
                    config.tmpfs_size = IF flags.memory # "" THEN flags.memory
                                        ELSE Wanted.tmpfs_size
        /\ flags.cmd = "index" => config.enable_tmpfs = flags.tmpfs

\* What is there when an operation needs it.
PathFound == flags.cmd \in {"build", "chroot"} /\ Op # "find" => path # ""
ProfileSet == Op \in Configured \ {"profile"} => profile # NoProfile
PackageRead ==
    flags.cmd \in {"build", "chroot"} /\ Op \in Packaged \cup {"package"} => pkg # NoPackage
ImageThere == Op \in Packaged => installed
OverlayMade ==
    flags.cmd # "update" /\ Op \in Packaged =>
        /\ overlay # NoOverlay
        /\ overlay.base[1] = Wanted.overlay_root_dir
HistoryRead ==
    flags.cmd \in {"build", "chroot"} /\ Op \in Packaged /\ pkg.type = "ypkg" =>
        (history # "off" <=> flags.history \/ Wanted.enable_history)
OverlaySet ==
    flags.cmd # "update" /\ Op \in Optioned =>
        IF flags.cmd = "chroot" THEN ~overlay.tmpfs
        ELSE /\ overlay.tmpfs = config.enable_tmpfs
             /\ overlay.tmpfs => overlay.size = config.tmpfs_size /\ ValidMemSize(overlay.size)

\* Each option is looked at once, at a place of its own in the script, so the
\* invariant says for every place what is in effect there.
Ready == PathFound /\ ProfileSet /\ PackageRead
Merging == Loading /\ Loaded /\ Kept
Options == Asked /\ ImageThere /\ OverlayMade /\ HistoryRead /\ OverlaySet

\* Of the user: sudo's account is used as a whole or not at all, and no file
\* has given a name or an email before one gives both.
SudoUnused == upc \in {"current", "panic"} => ~(Numeric(sudo) /\ sudo.known)
NothingTaken ==
    upc # "done" => user.Email = "" /\ user.Name \notin File
UserInv == SudoUnused /\ NothingTaken /\ SudoAsAWhole /\ OneIdentity

IndInv == TypeOK /\ Ready /\ Merging /\ Options /\ UserInv

-----------------------------------------------------------------------------
\* The scripts, seen from any of their positions.
LEMMA ScriptOrder ==
    ASSUME NEW c \in Cmd, NEW i \in DOMAIN Script[c]
    PROVE  /\ Script[c][i] \in Configured \cup {"find", "root", "namespace", "config"}
           /\ Allowed(c, Script[c][i])
           /\ Script[c][i] \notin {"user", "ready"} =>
                 i + 1 \in DOMAIN Script[c] /\ Follows(c, Script[c][i], Script[c][i + 1])
<1> USE DEF Configured, Allowed, Follows
<1>1. CASE c = "build"
  <2>1. Script[c] = BuildRun
    BY <1>1 DEF Script
  <2> QED BY <1>1, <2>1 DEF BuildRun
<1>2. CASE c = "chroot"
  <2>1. Script[c] = ChrootRun
    BY <1>2 DEF Script
  <2> QED BY <1>2, <2>1 DEF ChrootRun
<1>3. CASE c = "index"
  <2>1. Script[c] = IndexRun
    BY <1>3 DEF Script
  <2> QED BY <1>3, <2>1 DEF IndexRun
<1>4. CASE c = "update"
  <2>1. Script[c] = UpdateRun
    BY <1>4 DEF Script
  <2> QED BY <1>4, <2>1 DEF UpdateRun
<1> QED BY <1>1, <1>2, <1>3, <1>4 DEF Cmd

-----------------------------------------------------------------------------
(***************************************************************************)
(* The user                                                                *)
(***************************************************************************)
LEMMA UserInitInv == UserInit => UserTypeOK /\ UserInv
<1> SUFFICES ASSUME UserInit PROVE UserTypeOK /\ UserInv
  OBVIOUS
<1>1. UserTypeOK
  <2>1. sudo \in SudoEnv
    BY DEF UserInit, SudoEnv
  <2>2. user \in UserInfo
    BY DEF UserInit, UserInfo
  <2> QED BY <2>1, <2>2 DEF UserInit, UserTypeOK
<1>2. UserInv
  BY DEF UserInit, UserInv, SudoUnused, NothingTaken, SudoAsAWhole, OneIdentity, File, Packager
<1> QED BY <1>1, <1>2

\* Every step of GetUserInfo keeps the fields of the user in order.
LEMMA UserStep == UserTypeOK /\ UserInv /\ GetUserInfo => UserTypeOK' /\ UserInv'
<1> SUFFICES ASSUME UserTypeOK, UserInv, GetUserInfo PROVE UserTypeOK' /\ UserInv'
  OBVIOUS
<1> USE DEF UserTypeOK, UserInv, SudoUnused, NothingTaken, SudoAsAWhole, OneIdentity,
            File, Packager
<1>1. CASE SetFromSudo
  <2>1. PICK s \in SudoEnv, name \in {"", "account"} :
          /\ sudo' = s
          /\ \/ ~Numeric(s) /\ upc' = "current" /\ UNCHANGED user
             \/ /\ Numeric(s) /\ ~s.known
                /\ user' = [user EXCEPT !.UID = s.uid, !.GID = SudoGID(s)]
                /\ upc' = "current"
             \/ /\ Numeric(s) /\ s.known
                /\ user' = [user EXCEPT !.UID = s.uid, !.GID = SudoGID(s),
                                        !.HomeDir = "of the account", !.Name = name]
                /\ upc' = "config/solus"
    BY <1>1 DEF SetFromSudo
  <2>2. Numeric(s) => s.uid \in {"", "0", "1000"} /\ SudoGID(s) \in {"", "0", "100", "1000"}
    BY DEF Numeric, SudoGID, SudoEnv
  <2>3. user' \in UserInfo
    BY <2>1, <2>2 DEF UserInfo
  <2>4. user'.Email = user.Email /\ user'.Name \in {user.Name, "", "account"}
    BY <2>1 DEF UserInfo
  <2>5. Numeric(s) /\ s.known =>
           user'.UID = s.uid /\ user'.GID = SudoGID(s) /\ user'.HomeDir = "of the account"
    BY <2>1 DEF UserInfo
  <2>6. upc = "sudo"
    BY <1>1 DEF SetFromSudo
  <2> QED BY <2>1, <2>3, <2>4, <2>5, <2>6 DEF SudoGID, Numeric
<1>2. CASE SetFromCurrent
  <2>1. upc = "current" /\ UNCHANGED sudo
    BY <1>2 DEF SetFromCurrent
  <2>2. CASE upc' = "panic" /\ user' = [user EXCEPT !.UID = "0", !.GID = "0"]
    <3>1. user' \in UserInfo /\ user'.Email = user.Email /\ user'.Name = user.Name
      BY <2>2 DEF UserInfo
    <3> QED BY <2>1, <2>2, <3>1 DEF SudoGID, Numeric
  <2>3. ASSUME NEW name \in {"", "$USERNAME"},
               user' = [user EXCEPT !.UID = "0", !.GID = "0",
                                    !.HomeDir = "of $USERNAME", !.Name = name],
               upc' = "config/solus"
        PROVE  UserTypeOK' /\ UserInv'
    <3>1. user' \in UserInfo
      BY <2>3 DEF UserInfo
    <3>2. /\ user'.UID = "0" /\ user'.GID = "0" /\ user'.HomeDir = "of $USERNAME"
          /\ user'.Email = user.Email /\ user'.Name = name
      BY <2>3 DEF UserInfo
    <3> QED BY <2>1, <2>3, <3>1, <3>2 DEF SudoGID, Numeric
  <2> QED BY <1>2, <2>2, <2>3 DEF SetFromCurrent
<1>3. ASSUME NEW f \in File, TakeFrom(f) PROVE UserTypeOK' /\ UserInv'
  <2>1. upc = f /\ UNCHANGED sudo
    BY <1>3 DEF TakeFrom
  <2>2. ASSUME NEW name \in {"", f}, NEW email \in {"", f},
               user' = [user EXCEPT !.Name = name, !.Email = email], upc' = "done"
        PROVE  UserTypeOK' /\ UserInv'
    <3>1. user' \in UserInfo
      BY <2>2 DEF UserInfo
    <3>2. /\ user'.UID = user.UID /\ user'.GID = user.GID /\ user'.HomeDir = user.HomeDir
          /\ user'.Email = email /\ user'.Name = name
      BY <2>2 DEF UserInfo
    <3> QED BY <2>1, <2>2, <3>1, <3>2 DEF SudoGID, Numeric
  <2>3. CASE upc' = After[f] /\ UNCHANGED user
    <3>1. upc' \in {"solus", "evolveos", "gitconfig", "fallback"}
      BY <2>3 DEF After
    <3> QED BY <2>1, <2>3, <3>1 DEF SudoGID, Numeric
  <2>4. ASSUME NEW c \in Content,
               user' = [user EXCEPT
                          !.Name  = IF c \in {"empty name", "both empty"} THEN "" ELSE f,
                          !.Email = IF c \in {"empty email", "both empty"} THEN "" ELSE f],
               upc' = "done"
        PROVE  UserTypeOK' /\ UserInv'
    <3>1. /\ (IF c \in {"empty name", "both empty"} THEN "" ELSE f) \in {"", f}
          /\ (IF c \in {"empty email", "both empty"} THEN "" ELSE f) \in {"", f}
      OBVIOUS
    <3> QED BY <2>2, <2>4, <3>1
  <2> QED BY <1>3, <2>3, <2>4 DEF TakeFrom
<1>4. CASE Fallback
  <2>1. PICK email \in {"@host", "fallback"} :
          user' = [user EXCEPT !.Name = IF @ = "" THEN "fallback" ELSE @,
                               !.Email = IF @ = "" THEN email ELSE @]
    BY <1>4 DEF Fallback
  <2>2. upc = "fallback" /\ upc' = "done" /\ UNCHANGED sudo
    BY <1>4 DEF Fallback
  <2>3. user' \in UserInfo
    BY <2>1 DEF UserInfo
  <2>4. /\ user'.UID = user.UID /\ user'.GID = user.GID /\ user'.HomeDir = user.HomeDir
        /\ user'.Name = IF user.Name = "" THEN "fallback" ELSE user.Name
        /\ user'.Email = IF user.Email = "" THEN email ELSE user.Email
    BY <2>1 DEF UserInfo
  <2> QED BY <2>2, <2>3, <2>4 DEF SudoGID, Numeric
<1> QED BY <1>1, <1>2, <1>3, <1>4 DEF GetUserInfo, SetFromPackager, SetFromGit

-----------------------------------------------------------------------------
(***************************************************************************)
(* The configuration                                                       *)
(***************************************************************************)
\* A configuration is a value for every key.
LEMMA ConfigByKey ==
    ASSUME NEW c, c = [k \in Key |-> c[k]]
    PROVE  c \in Config <=>
             /\ c["default_profile"] \in ProfileName
             /\ c["enable_history"] \in BOOLEAN
             /\ c["enable_tmpfs"] \in BOOLEAN
             /\ c["tmpfs_size"] \in Size
             /\ c["overlay_root_dir"] \in {"/var/cache/solbuild", "/srv"}
  BY DEF Config, Key, Default

\* Its keys are those of Key.
LEMMA ConfigKeys ==
    ASSUME NEW c \in Config
    PROVE  c = [k \in Key |-> c[k]]
  BY DEF Config, Key, Default

\* A sound file decodes onto a configuration.
LEMMA DecodeType ==
    ASSUME NEW f \in DOMAIN ConfigFile, NEW c \in Config
    PROVE  Decode(f, c) \in Config
<1>1. PICK d \in Config : \A k \in DOMAIN ConfigFile[f] : ConfigFile[f][k] = d[k]
  BY SetupAssumption
<1>2. \A k \in Key : Decode(f, c)[k] \in {c[k], d[k]}
  BY <1>1 DEF Decode
<1>3. Decode(f, c) = [k \in Key |-> Decode(f, c)[k]]
  BY DEF Decode
<1>4. Key = {"default_profile", "enable_history", "enable_tmpfs", "tmpfs_size",
             "overlay_root_dir"}
  BY DEF Key, Default
<1> HIDE DEF Decode
<1> QED BY <1>2, <1>3, <1>4, ConfigByKey, ConfigKeys

\* The files of a directory are a list.
LEMMA DirIsSeq ==
    ASSUME NEW n \in Nat, NEW d \in ConfigDir(n)
    PROVE  d \in Seq(DOMAIN ConfigFile \cup {"broken"})
<1>1. PICK m \in 0..n : d \in [1..m -> DOMAIN ConfigFile \cup {"broken"}]
  BY DEF ConfigDir
<1> QED BY <1>1

\* The greatest number of a set, if it has one.
LEMMA MaxIs ==
    ASSUME NEW S \in SUBSET Nat, NEW m \in S, \A x \in S : x <= m
    PROVE  Max(S) = m
<1>1. Max(S) \in S /\ \A y \in S : Max(S) >= y
  BY DEF Max
<1>2. Max(S) <= m /\ Max(S) >= m /\ Max(S) \in Nat /\ m \in Nat
  BY <1>1
<1> QED BY <1>2

\* The files: those of the vendor, then those of the system.
LEMMA FilesInOrder ==
    ASSUME usr \in ConfigDir(MaxVendor), etc \in ConfigDir(MaxSystem)
    PROVE  /\ usr \in Seq(DOMAIN ConfigFile \cup {"broken"})
           /\ etc \in Seq(DOMAIN ConfigFile \cup {"broken"})
           /\ ConfigFiles \in Seq(DOMAIN ConfigFile \cup {"broken"})
           /\ Len(ConfigFiles) = Len(usr) + Len(etc)
           /\ \A i \in 1..Len(usr) : ConfigFiles[i] = usr[i]
           /\ \A i \in 1..Len(etc) : ConfigFiles[Len(usr) + i] = etc[i]
<1>1. /\ usr \in Seq(DOMAIN ConfigFile \cup {"broken"})
      /\ etc \in Seq(DOMAIN ConfigFile \cup {"broken"})
  BY DirIsSeq, SetupAssumption
<1> QED BY <1>1 DEF ConfigFiles

\* A turn of the loop of NewConfig: the next file is the last that sets its keys.
LEMMA DecodeMerges ==
    ASSUME usr \in ConfigDir(MaxVendor), etc \in ConfigDir(MaxSystem),
           NEW n \in Nat, n < Len(ConfigFiles), ConfigFiles[n + 1] # "broken",
           NEW c \in Config, MergedUpTo(c, n)
    PROVE  MergedUpTo(Decode(ConfigFiles[n + 1], c), n + 1)
<1> DEFINE f == ConfigFiles[n + 1]
           d == Decode(f, c)
<1>1. \A k \in Key : d[k] = IF k \in DOMAIN ConfigFile[f] THEN ConfigFile[f][k] ELSE c[k]
  BY DEF Decode
<1>2. \A i \in 1..(n + 1) : i \in 1..n \/ i = n + 1
  OBVIOUS
<1>3. \A i \in 1..(n + 1) : ConfigFiles[i] # "broken"
  BY <1>2 DEF MergedUpTo
<1> HIDE DEF d
<1>4. ASSUME NEW k \in Key, k \in DOMAIN ConfigFile[f]
      PROVE  LastSetter(k, n + 1, n + 1) /\ d[k] = ConfigFile[f][k]
  BY <1>1, <1>4 DEF LastSetter
<1>5. ASSUME NEW k \in Key, k \notin DOMAIN ConfigFile[f],
             NEW i \in 1..n, LastSetter(k, i, n), c[k] = ConfigFile[ConfigFiles[i]][k]
      PROVE  LastSetter(k, i, n + 1) /\ d[k] = ConfigFile[ConfigFiles[i]][k]
  <2>1. d[k] = c[k]
    BY <1>1, <1>5
  <2>2. \A j \in (i + 1)..(n + 1) : j \in (i + 1)..n \/ j = n + 1
    OBVIOUS
  <2> QED BY <1>5, <2>1, <2>2 DEF LastSetter
<1>6. ASSUME NEW k \in Key, k \notin DOMAIN ConfigFile[f],
             \A i \in 1..n : k \notin DOMAIN ConfigFile[ConfigFiles[i]], c[k] = Default[k]
      PROVE  /\ \A i \in 1..(n + 1) : k \notin DOMAIN ConfigFile[ConfigFiles[i]]
             /\ d[k] = Default[k]
  BY <1>1, <1>2, <1>6
<1>7. ASSUME NEW k \in Key
      PROVE  \/ \E i \in 1..(n + 1) :
                   LastSetter(k, i, n + 1) /\ d[k] = ConfigFile[ConfigFiles[i]][k]
             \/ /\ \A i \in 1..(n + 1) : k \notin DOMAIN ConfigFile[ConfigFiles[i]]
                /\ d[k] = Default[k]
  <2>1. CASE k \in DOMAIN ConfigFile[f]
    <3>1. n + 1 \in 1..(n + 1)
      OBVIOUS
    <3> QED BY <1>4, <2>1, <3>1
  <2>2. CASE k \notin DOMAIN ConfigFile[f]
    <3>1. \A i \in 1..n : i \in 1..(n + 1)
      OBVIOUS
    <3>2. \/ \E i \in 1..n : LastSetter(k, i, n) /\ c[k] = ConfigFile[ConfigFiles[i]][k]
          \/ /\ \A i \in 1..n : k \notin DOMAIN ConfigFile[ConfigFiles[i]]
             /\ c[k] = Default[k]
      BY DEF MergedUpTo
    <3> QED BY <1>5, <1>6, <2>2, <3>1, <3>2
  <2> QED BY <2>1, <2>2
<1> QED BY <1>3, <1>7 DEF MergedUpTo, d

\* A configuration merged from all files is what Merged asks for.
LEMMA MergedIsWanted ==
    ASSUME usr \in ConfigDir(MaxVendor), etc \in ConfigDir(MaxSystem),
           NEW c, MergedUpTo(c, Len(ConfigFiles))
    PROVE  \A k \in Key : c[k] = Merged(k)
<1> SUFFICES ASSUME NEW k \in Key PROVE c[k] = Merged(k)
  OBVIOUS
<1> DEFINE u == {i \in DOMAIN usr : k \in DOMAIN ConfigFile[usr[i]]}
           e == {i \in DOMAIN etc : k \in DOMAIN ConfigFile[etc[i]]}
<1>1. Merged(k) = CASE e # {} -> ConfigFile[etc[Max(e)]][k]
                    [] e = {} /\ u # {} -> ConfigFile[usr[Max(u)]][k]
                    [] OTHER -> Default[k]
  BY DEF Merged
<1>2. u \in SUBSET Nat /\ e \in SUBSET Nat
  BY FilesInOrder
<1>3. ASSUME NEW i \in 1..Len(ConfigFiles), LastSetter(k, i, Len(ConfigFiles)),
             c[k] = ConfigFile[ConfigFiles[i]][k]
      PROVE  c[k] = Merged(k)
  <2>1. CASE i > Len(usr)
    <3> DEFINE m == i - Len(usr)
    <3>0. m \in 1..Len(etc) /\ Len(usr) + m = i
      BY <2>1, FilesInOrder
    <3>1. m \in 1..Len(etc) /\ ConfigFiles[i] = etc[m]
      BY <3>0, FilesInOrder
    <3>2. m \in e
      BY <1>3, <3>1, FilesInOrder DEF LastSetter
    <3>3. \A x \in e : x <= m
      <4> SUFFICES ASSUME NEW x \in e, x > m PROVE FALSE
        BY <1>2, <3>1
      <4>1. x \in 1..Len(etc) /\ Len(usr) + x \in (i + 1)..Len(ConfigFiles)
        BY <2>1, FilesInOrder
      <4>2. ConfigFiles[Len(usr) + x] = etc[x]
        BY <4>1, FilesInOrder
      <4> QED BY <1>3, <4>1, <4>2 DEF LastSetter
    <3>4. Max(e) = m
      BY <1>2, <3>2, <3>3, MaxIs
    <3> QED BY <1>1, <1>3, <3>1, <3>2, <3>4
  <2>2. CASE i <= Len(usr)
    <3>1. i \in 1..Len(usr) /\ ConfigFiles[i] = usr[i]
      BY <2>2, FilesInOrder
    <3>2. i \in u
      BY <1>3, <3>1, FilesInOrder DEF LastSetter
    <3>3. \A x \in u : x <= i
      <4> SUFFICES ASSUME NEW x \in u, x > i PROVE FALSE
        BY <1>2, <3>1
      <4>1. x \in 1..Len(usr) /\ x \in (i + 1)..Len(ConfigFiles)
        BY FilesInOrder
      <4>2. ConfigFiles[x] = usr[x]
        BY <4>1, FilesInOrder
      <4> QED BY <1>3, <4>1, <4>2 DEF LastSetter
    <3>4. e = {}
      <4> SUFFICES ASSUME NEW x \in e PROVE FALSE
        OBVIOUS
      <4>1. x \in 1..Len(etc) /\ Len(usr) + x \in (i + 1)..Len(ConfigFiles)
        BY <2>2, FilesInOrder
      <4>2. ConfigFiles[Len(usr) + x] = etc[x]
        BY <4>1, FilesInOrder
      <4> QED BY <1>3, <4>1, <4>2 DEF LastSetter
    <3>5. Max(u) = i
      BY <1>2, <3>2, <3>3, MaxIs
    <3> QED BY <1>1, <1>3, <3>1, <3>2, <3>4, <3>5
  <2> QED BY <2>1, <2>2, FilesInOrder
<1>4. ASSUME \A i \in 1..Len(ConfigFiles) : k \notin DOMAIN ConfigFile[ConfigFiles[i]],
             c[k] = Default[k]
      PROVE  c[k] = Merged(k)
  <2>1. u = {}
    BY <1>4, FilesInOrder
  <2>2. e = {}
    <3> SUFFICES ASSUME NEW x \in e PROVE FALSE
      OBVIOUS
    <3>1. x \in 1..Len(etc) /\ Len(usr) + x \in 1..Len(ConfigFiles)
      BY FilesInOrder
    <3> QED BY <1>4, <3>1, FilesInOrder
  <2> QED BY <1>1, <1>4, <2>1, <2>2
<1> QED BY <1>3, <1>4 DEF MergedUpTo

-----------------------------------------------------------------------------
(***************************************************************************)
(* The commands                                                            *)
(***************************************************************************)
LEMMA OpAllowed ==
    ASSUME TypeOK
    PROVE  /\ flags.cmd \in Cmd
           /\ Op \in Configured \cup {"find", "root", "namespace", "config"}
           /\ Allowed(flags.cmd, Op)
<1>1. flags.cmd \in Cmd /\ step \in DOMAIN Script[flags.cmd]
  BY DEF TypeOK, Flags, Cmd
<1> QED BY <1>1, ScriptOrder DEF Op

\* Going on leads to the operation that follows.
LEMMA GoOp ==
    ASSUME TypeOK, Op \notin {"user", "ready"}, Go, UNCHANGED flags
    PROVE  step' \in DOMAIN Script[flags.cmd] /\ Follows(flags.cmd, Op, Op')
<1>1. flags.cmd \in Cmd /\ step \in DOMAIN Script[flags.cmd]
  BY DEF TypeOK, Flags, Cmd
<1>2. step' = step + 1
  BY DEF Go
<1> QED BY <1>1, <1>2, ScriptOrder DEF Op

\* Join leaves out what "." and ".." take away, and never the first part.
LEMMA JoinType ==
    ASSUME NEW root \in {"/var/cache/solbuild", "/srv"}, NEW name \in ProfileName,
           NEW package \in {".", "..", "nano", "index"}
    PROVE  Join(root, name, package)
             \in {"/var/cache/solbuild", "/srv"} \X (ProfileName \cup {""})
                   \X {"", "nano", "index"}
  BY DEF Join

LEMMA JoinFirst ==
    ASSUME NEW root, NEW name, NEW package
    PROVE  Join(root, name, package)[1] = root
  BY DEF Join

\* Every action but BuildUser leaves the world and the user alone, and goes on,
\* fails or stays; what it may change of the rest is its own.
LEMMA TypeStep == TypeOK /\ UserInv /\ Ready /\ Options /\ [Next]_vars => TypeOK'
<1> SUFFICES ASSUME TypeOK, UserInv, Ready, Options, [Next]_vars PROVE TypeOK'
  OBVIOUS
<1>0. flags.cmd \in Cmd
  BY OpAllowed
\* An action that changes the step, at most, and one field of the manager.
<1>1. ASSUME UNCHANGED <<world, userVars>>, step' \in DOMAIN Script[flags.cmd],
             failed' \in BOOLEAN,
             loaded' \in 0..(Len(usr) + Len(etc)),
             config' \in Config,
             path' \in {"", "ypkg", "legacy"},
             profile' \in {NoProfile} \cup [Name : ProfileName, image : Images],
             pkg' \in {NoPackage} \cup Package,
             history' \in {"off", "missing", "found"},
             overlay' \in {NoOverlay} \cup Overlay
      PROVE  TypeOK'
  BY <1>1 DEF TypeOK, UserTypeOK, world, userVars
<1>2. ASSUME NEW op, At(op), op \notin {"user", "ready"}, Go, UNCHANGED flags
      PROVE  step' \in DOMAIN Script[flags.cmd] /\ failed' \in BOOLEAN
  <2>1. Op \notin {"user", "ready"}
    BY <1>2 DEF At, Op
  <2>2. failed' \in BOOLEAN
    BY <1>2 DEF Go, TypeOK
  <2> QED BY <1>2, <2>1, <2>2, GoOp
<1>3. ASSUME Fail, UNCHANGED <<world, loaded, path, userVars>> PROVE TypeOK'
  <2>1. failed' \in BOOLEAN
    BY <1>3 DEF Fail
  <2> QED BY <1>3, <2>1 DEF Fail, TypeOK, UserTypeOK, world, userVars, manager
<1>4. ASSUME NEW op, At(op), op \notin {"user", "ready"}, Go,
             UNCHANGED <<world, loaded, path, manager, userVars>>
      PROVE  TypeOK'
  <2>1. step' \in DOMAIN Script[flags.cmd] /\ failed' \in BOOLEAN
    BY <1>2, <1>4 DEF world
  <2> QED BY <1>1, <1>4, <2>1 DEF TypeOK, manager
<1>5. CASE FindPackage
  <2>1. ASSUME NEW t \in {"ypkg", "legacy"}, path' = t, Go, UNCHANGED manager PROVE TypeOK'
    <3>1. step' \in DOMAIN Script[flags.cmd] /\ failed' \in BOOLEAN
      BY <1>2, <1>5, <2>1 DEF FindPackage, world
    <3> QED BY <1>1, <1>5, <2>1, <3>1 DEF FindPackage, TypeOK, manager
  <2> QED BY <1>3, <1>5, <2>1 DEF FindPackage
<1>6. CASE Entitled \/ Inhibit \/ DoLock
  <2>1. UNCHANGED <<world, loaded, path, userVars>> /\ ((Go /\ UNCHANGED manager) \/ Fail)
    BY <1>6 DEF Entitled, Inhibit, DoLock
  <2>2. PICK op \in {"root", "namespace", "inhibit", "lock"} : At(op)
    BY <1>6 DEF Entitled, Inhibit, DoLock
  <2> QED BY <1>3, <1>4, <2>1, <2>2
<1>7. CASE NewConfig
  <2>1. At("config") /\ UNCHANGED <<world, path, userVars>>
    BY <1>7 DEF NewConfig
  <2>2. CASE Go /\ UNCHANGED <<loaded, manager>>
    BY <1>4, <2>1, <2>2
  <2>3. CASE Fail /\ UNCHANGED loaded
    BY <1>3, <2>1, <2>3
  <2>4. CASE /\ loaded # Len(ConfigFiles)
             /\ ConfigFiles[loaded + 1] # "broken"
             /\ config' = Decode(ConfigFiles[loaded + 1], config)
             /\ loaded' = loaded + 1
             /\ UNCHANGED <<step, failed, profile, pkg, history, overlay>>
    <3>0. /\ usr \in ConfigDir(MaxVendor) /\ etc \in ConfigDir(MaxSystem)
          /\ loaded \in 0..(Len(usr) + Len(etc))
      BY DEF TypeOK
    <3>1. loaded' \in 0..(Len(usr) + Len(etc)) /\ loaded + 1 \in 1..Len(ConfigFiles)
      BY <2>4, <3>0, FilesInOrder
    <3>2. ConfigFiles[loaded + 1] \in DOMAIN ConfigFile
      BY <2>4, <3>0, <3>1, FilesInOrder
    <3>3. config' \in Config
      BY <2>4, <3>2, DecodeType DEF TypeOK
    <3> QED BY <1>1, <2>1, <2>4, <3>1, <3>3 DEF TypeOK
  <2> QED BY <1>7, <2>2, <2>3, <2>4 DEF NewConfig
<1>8. CASE SetProfile
  <2>1. /\ At("profile") /\ UNCHANGED <<world, loaded, path, userVars>>
    BY <1>8 DEF SetProfile
  <2>2. ASSUME NEW p \in ProfileFile, p.image \in Images,
               profile' = [Name |-> IF flags.profile = "" THEN config.default_profile
                                    ELSE flags.profile,
                           image |-> p.image],
               Go, UNCHANGED <<config, pkg, history, overlay>>
        PROVE  TypeOK'
    <3>1. step' \in DOMAIN Script[flags.cmd] /\ failed' \in BOOLEAN
      BY <1>2, <2>1, <2>2 DEF world
    <3>2. config.default_profile \in ProfileName /\ flags.profile \in {"", "local"}
      BY DEF TypeOK, Config, Flags
    <3>3. profile' \in [Name : ProfileName, image : Images]
      BY <2>2, <3>2 DEF ProfileName
    <3> QED BY <1>1, <2>1, <2>2, <3>1, <3>3 DEF TypeOK
  <2> QED BY <1>3, <1>8, <2>1, <2>2 DEF SetProfile
<1>9. CASE EnableHistory
  <2>1. /\ At("history") /\ Go
        /\ UNCHANGED <<world, loaded, path, profile, pkg, history, overlay, userVars>>
        /\ config' = [config EXCEPT !.enable_history = @ \/ flags.history]
    BY <1>9 DEF EnableHistory
  <2>2. config' \in Config
    BY <2>1 DEF TypeOK, Config
  <2>3. step' \in DOMAIN Script[flags.cmd] /\ failed' \in BOOLEAN
    BY <1>2, <2>1 DEF world
  <2> QED BY <1>1, <2>1, <2>2, <2>3 DEF TypeOK
<1>10. CASE NewPackage
  <2>1. At("load") /\ UNCHANGED <<world, loaded, path, userVars>>
    BY <1>10 DEF NewPackage
  <2>2. ASSUME NEW p \in PackageFile, SoundPackage(p),
               pkg' = [type |-> path, Name |-> Trim(p.Name)],
               Go, UNCHANGED <<config, profile, history, overlay>>
        PROVE  TypeOK'
    <3>1. step' \in DOMAIN Script[flags.cmd] /\ failed' \in BOOLEAN
      BY <1>2, <2>1, <2>2 DEF world
    <3>2. Trim(p.Name) \in {".", "..", "nano"}
      BY <2>2 DEF SoundPackage, PackageFile, Trim
    <3>3. path \in {"ypkg", "legacy"}
      BY <2>1, OpAllowed DEF At, Op, Allowed, Ready, PathFound, TypeOK
    <3>4. pkg' \in Package
      BY <2>2, <3>2, <3>3 DEF Package
    <3> QED BY <1>1, <2>1, <2>2, <3>1, <3>4 DEF TypeOK
  <2> QED BY <1>3, <1>10, <2>1, <2>2 DEF NewPackage
<1>11. CASE SetPackage
  <2> DEFINE p == IF flags.cmd = "index" THEN IndexPackage ELSE pkg
  <2>1. At("package") /\ UNCHANGED <<world, loaded, path, userVars>>
    BY <1>11 DEF SetPackage
  <2>2. CASE Fail
    BY <1>3, <2>1, <2>2
  <2>3. CASE /\ pkg' = p
             /\ history' \in {"off", "missing", "found"}
             /\ overlay' = [base |-> Join(config.overlay_root_dir, profile.Name, p.Name),
                            tmpfs |-> FALSE, size |-> ""]
             /\ Go /\ UNCHANGED <<config, profile>>
    <3>1. step' \in DOMAIN Script[flags.cmd] /\ failed' \in BOOLEAN
      BY <1>2, <2>1, <2>3 DEF world
    <3>2. p \in Package
      <4>1. IndexPackage \in Package
        BY DEF IndexPackage, Package
      <4> QED
        BY <1>0, <2>1, <4>1, OpAllowed
        DEF At, Op, Allowed, Ready, PackageRead, TypeOK, Cmd
    <3>3. config.overlay_root_dir \in {"/var/cache/solbuild", "/srv"}
      BY DEF TypeOK, Config
    <3>4. profile \in [Name : ProfileName, image : Images]
      BY <2>1 DEF At, Op, Ready, ProfileSet, TypeOK, Configured
    <3>5. profile.Name \in ProfileName
      BY <3>4
    <3>6. p.Name \in {".", "..", "nano", "index"}
      BY <3>2 DEF Package
    <3>7. Join(config.overlay_root_dir, profile.Name, p.Name)
            \in {"/var/cache/solbuild", "/srv"} \X (ProfileName \cup {""}) \X {"", "nano", "index"}
      <4> HIDE DEF p
      <4> QED BY <3>3, <3>5, <3>6, JoinType, Zenon
    <3>8. "" \in Size
      BY DEF Size
    <3>9. overlay' \in Overlay
      BY <2>3, <3>7, <3>8 DEF Overlay
    <3> HIDE DEF p
    <3> QED BY <1>1, <2>1, <2>3, <3>1, <3>2, <3>9 DEF TypeOK
  <2> QED BY <1>11, <2>2, <2>3 DEF SetPackage
<1>12. ASSUME NEW enable \in BOOLEAN, NEW size \in Size, At("tmpfs"),
              SetTmpfs(enable, size), UNCHANGED <<world, loaded, path, userVars>>
       PROVE  TypeOK'
  <2>1. step' \in DOMAIN Script[flags.cmd] /\ failed' \in BOOLEAN
    BY <1>2, <1>12 DEF world, SetTmpfs
  <2>2. Trim(size) \in Size
    BY DEF Trim, Size
  <2>3. config' \in Config
    BY <1>12, <2>2 DEF SetTmpfs, TypeOK, Config
  <2> QED BY <1>1, <1>12, <2>1, <2>3 DEF SetTmpfs, TypeOK
<1>13. flags.memory \in Size /\ flags.tmpfs \in BOOLEAN /\ config.tmpfs_size \in Size
  BY DEF TypeOK, Flags, Config
<1>14. CASE BuildTmpfs
  <2>1. At("tmpfs") /\ UNCHANGED <<world, loaded, path, userVars>>
    BY <1>14 DEF BuildTmpfs
  <2>2. \/ SetTmpfs(TRUE, flags.memory) \/ SetTmpfs(TRUE, config.tmpfs_size)
        \/ Fail \/ (Go /\ UNCHANGED manager)
    BY <1>14 DEF BuildTmpfs
  <2> QED BY <1>3, <1>4, <1>12, <1>13, <2>1, <2>2
<1>15. CASE IndexTmpfs
  BY <1>12, <1>13, <1>15 DEF IndexTmpfs
<1>16. CASE SetOptions
  <2>1. At("operate") /\ UNCHANGED <<world, loaded, path, userVars>>
    BY <1>16 DEF SetOptions
  <2>2. CASE Fail
    BY <1>3, <2>1, <2>2
  <2>3. CASE /\ overlay' = [overlay EXCEPT !.tmpfs = config.enable_tmpfs,
                                           !.size = config.tmpfs_size]
             /\ Go /\ UNCHANGED <<config, profile, pkg, history>>
    <3>1. step' \in DOMAIN Script[flags.cmd] /\ failed' \in BOOLEAN
      BY <1>2, <2>1, <2>3 DEF world
    <3>2. overlay \in Overlay
      BY <2>1, OpAllowed
      DEF At, Op, Allowed, Options, OverlayMade, Packaged, TypeOK
    <3>3. config.enable_tmpfs \in BOOLEAN
      BY DEF TypeOK, Config
    <3>4. overlay' \in Overlay
      BY <1>13, <2>3, <3>2, <3>3 DEF Overlay
    <3> QED BY <1>1, <2>1, <2>3, <3>1, <3>4 DEF TypeOK
  <2> QED BY <1>16, <2>2, <2>3 DEF SetOptions
<1>17. CASE ImageInstalled
  <2>1. At("image") /\ UNCHANGED <<world, loaded, path, userVars>>
    BY <1>17 DEF ImageInstalled
  <2> QED BY <1>3, <1>4, <1>17, <2>1 DEF ImageInstalled
<1>18. CASE BuildUser
  <2>1. /\ GetUserInfo /\ failed' = (upc' = "panic")
        /\ UNCHANGED <<world, step, loaded, path, manager>>
    BY <1>18 DEF BuildUser
  <2>2. UserTypeOK'
    BY <2>1, UserStep DEF TypeOK
  <2>3. failed' \in BOOLEAN
    BY <2>1
  <2> QED BY <2>1, <2>2, <2>3 DEF TypeOK, world, manager
<1>19. CASE UNCHANGED vars
  BY <1>19 DEF vars, TypeOK, UserTypeOK, world, userVars, manager
<1> QED
  BY <1>5, <1>6, <1>7, <1>8, <1>9, <1>10, <1>11, <1>14, <1>15, <1>16, <1>17, <1>18, <1>19
  DEF Next

-----------------------------------------------------------------------------
\* The files stay, and with them what they ask for.
LEMMA WorldSame ==
    ASSUME UNCHANGED world
    PROVE  UNCHANGED <<flags, installed, ConfigFiles, Wanted>>
<1>1. UNCHANGED <<flags, usr, etc, installed>>
  BY DEF world
<1> QED BY <1>1 DEF ConfigFiles, Wanted, Merged

\* A command that stays where it is keeps what it has.
LEMMA Stays ==
    ASSUME Ready, Merging, Options, UNCHANGED <<world, step, loaded, path, manager>>
    PROVE  Ready' /\ Merging' /\ Options'
<1>1. /\ UNCHANGED <<flags, installed, ConfigFiles, Wanted>>
      /\ UNCHANGED <<loaded, path, config, profile, pkg, history, overlay>>
  BY WorldSame DEF manager
<1>2. UNCHANGED Op
  BY <1>1 DEF Op
<1>3. Ready'
  BY <1>1, <1>2 DEF Ready, PathFound, ProfileSet, PackageRead
<1>4. Merging'
  BY <1>1, <1>2 DEF Merging, Loading, Loaded, Kept, MergedUpTo, LastSetter
<1>5. Options'
  BY <1>1, <1>2
  DEF Options, Asked, ImageThere, OverlayMade, HistoryRead, OverlaySet, ValidMemSize
<1> QED BY <1>3, <1>4, <1>5

\* What an operation needs is there when it is reached.
LEMMA ReadyStep == IndInv /\ [Next]_vars => Ready'
<1> SUFFICES ASSUME IndInv, [Next]_vars PROVE Ready'
  OBVIOUS
<1>0. /\ TypeOK /\ Ready /\ Merging /\ Options
      /\ flags.cmd \in Cmd /\ Allowed(flags.cmd, Op)
  BY OpAllowed DEF IndInv
<1>1. CASE UNCHANGED <<world, step, loaded, path, manager>>
  BY <1>0, <1>1, Stays
<1>2. ASSUME Fail, UNCHANGED <<world, loaded, path>> PROVE Ready'
  BY <1>1, <1>2 DEF Fail
\* An action that goes on from op.
<1>3. ASSUME NEW op, At(op), op \notin {"user", "ready"}, Go, UNCHANGED world
      PROVE  /\ Op = op /\ Follows(flags.cmd, op, Op') /\ UNCHANGED flags
             /\ Allowed(flags.cmd, op)
  <2>1. Op = op
    BY <1>3 DEF At, Op
  <2> QED BY <1>0, <1>3, <2>1, GoOp DEF world
<1> USE DEF Ready, PathFound, ProfileSet, PackageRead, Follows, Allowed, Configured,
            Packaged, Cmd
<1>4. CASE FindPackage
  <2>1. CASE \E t \in {"ypkg", "legacy"} : path' = t /\ Go /\ UNCHANGED manager
    <3>1. path' # "" /\ Go /\ At("find") /\ UNCHANGED <<world, profile, pkg>>
      BY <1>4, <2>1 DEF FindPackage, manager
    <3>2. Op = "find" /\ Op' = "root"
      BY <1>3, <3>1
    <3> QED BY <1>0, <3>1, <3>2
  <2> QED BY <1>2, <1>4, <2>1 DEF FindPackage
<1>5. ASSUME NEW op \in {"root", "namespace", "config", "inhibit", "lock", "image", "tmpfs",
                         "history", "operate"},
             At(op), Go, UNCHANGED <<world, path, profile, pkg>>
      PROVE  Ready'
  BY <1>0, <1>3, <1>5
<1>6. CASE Entitled \/ Inhibit \/ DoLock
  <2>1. UNCHANGED <<world, loaded, path>> /\ ((Go /\ UNCHANGED manager) \/ Fail)
    BY <1>6 DEF Entitled, Inhibit, DoLock
  <2>2. PICK op \in {"root", "namespace", "inhibit", "lock"} : At(op)
    BY <1>6 DEF Entitled, Inhibit, DoLock
  <2>3. CASE Fail
    BY <1>2, <2>1, <2>3
  <2>4. CASE Go /\ UNCHANGED manager
    BY <1>5, <2>1, <2>2, <2>4 DEF manager
  <2> QED BY <2>1, <2>3, <2>4
<1>7. CASE NewConfig
  <2>1. At("config") /\ UNCHANGED <<world, path>>
    BY <1>7 DEF NewConfig
  <2>2. CASE Go /\ UNCHANGED <<loaded, manager>>
    BY <1>5, <2>1, <2>2 DEF manager
  <2>3. CASE Fail /\ UNCHANGED loaded
    BY <1>2, <2>1, <2>3
  <2>4. CASE UNCHANGED <<step, profile, pkg>>
    BY <1>0, <2>1, <2>4 DEF Op, world
  <2> QED BY <1>7, <2>2, <2>3, <2>4 DEF NewConfig
<1>8. CASE SetProfile
  <2>1. At("profile") /\ UNCHANGED <<world, loaded, path>>
    BY <1>8 DEF SetProfile
  <2>2. ASSUME NEW p \in ProfileFile, NEW name, p.image \in Images,
               profile' = [Name |-> name, image |-> p.image],
               Go, UNCHANGED pkg
        PROVE  Ready'
    <3>1. profile'.image \in Images
      BY <2>2
    <3>2. NoProfile.image \notin Images
      BY DEF NoProfile, Images
    <3>3. profile' # NoProfile
      BY <3>1, <3>2
    <3>4. /\ Op = "profile" /\ Op' \in {"history", "load", "package", "image"}
          /\ UNCHANGED flags /\ (Op' = "package" => flags.cmd = "index")
      BY <1>0, <1>3, <2>1, <2>2
    <3> QED BY <1>0, <2>1, <2>2, <3>3, <3>4
  <2> QED BY <1>2, <1>8, <2>1, <2>2 DEF SetProfile
<1>9. CASE EnableHistory
  BY <1>5, <1>9 DEF EnableHistory
<1>10. CASE NewPackage
  <2>1. At("load") /\ UNCHANGED <<world, loaded, path>>
    BY <1>10 DEF NewPackage
  <2>2. ASSUME NEW p \in PackageFile, SoundPackage(p),
               pkg' = [type |-> path, Name |-> Trim(p.Name)],
               Go, UNCHANGED profile
        PROVE  Ready'
    <3>1. pkg'.Name # ""
      BY <2>2 DEF SoundPackage
    <3>2. NoPackage.Name = ""
      BY DEF NoPackage
    <3>3. pkg' # NoPackage
      BY <3>1, <3>2
    <3>4. Op = "load" /\ Op' = "package" /\ UNCHANGED flags
      BY <1>3, <2>1, <2>2
    <3> QED BY <1>0, <2>1, <2>2, <3>3, <3>4
  <2> QED BY <1>2, <1>10, <2>1, <2>2 DEF NewPackage
<1>11. CASE SetPackage
  <2>1. At("package") /\ UNCHANGED <<world, loaded, path>>
    BY <1>11 DEF SetPackage
  <2>2. CASE Fail
    BY <1>2, <2>1, <2>2
  <2>3. CASE /\ pkg' = IF flags.cmd = "index" THEN IndexPackage ELSE pkg
             /\ Go /\ UNCHANGED profile
    <3>1. Op = "package" /\ Op' \in {"lock", "tmpfs"} /\ UNCHANGED flags
      BY <1>3, <2>1, <2>3
    <3> QED BY <1>0, <2>1, <2>3, <3>1
  <2> QED BY <1>11, <2>2, <2>3 DEF SetPackage
<1>12. CASE BuildTmpfs \/ IndexTmpfs
  <2>1. At("tmpfs") /\ UNCHANGED <<world, loaded, path>>
    BY <1>12 DEF BuildTmpfs, IndexTmpfs
  <2>2. Fail \/ (Go /\ UNCHANGED <<profile, pkg>>)
    BY <1>12 DEF BuildTmpfs, IndexTmpfs, SetTmpfs, manager
  <2> QED BY <1>2, <1>5, <2>1, <2>2
<1>13. CASE SetOptions \/ ImageInstalled
  <2>1. UNCHANGED <<world, loaded, path>>
    BY <1>13 DEF SetOptions, ImageInstalled
  <2>2. PICK op \in {"operate", "image"} : At(op)
    BY <1>13 DEF SetOptions, ImageInstalled
  <2>3. Fail \/ (Go /\ UNCHANGED <<profile, pkg>>)
    BY <1>13 DEF SetOptions, ImageInstalled, manager
  <2> QED BY <1>2, <1>5, <2>1, <2>2, <2>3
<1>14. CASE BuildUser
  BY <1>1, <1>14 DEF BuildUser
<1>15. CASE UNCHANGED vars
  BY <1>1, <1>15 DEF vars
<1> QED
  BY <1>4, <1>6, <1>7, <1>8, <1>9, <1>10, <1>11, <1>12, <1>13, <1>14, <1>15
  DEF Next

\* The configuration is merged as the files are read, and changed by the options
\* of the command line only.
LEMMA MergingStep == IndInv /\ [Next]_vars => Merging'
<1> SUFFICES ASSUME IndInv, [Next]_vars PROVE Merging'
  OBVIOUS
<1>0. /\ TypeOK /\ Ready /\ Merging /\ Options
      /\ flags.cmd \in Cmd /\ Allowed(flags.cmd, Op)
  BY OpAllowed DEF IndInv
<1>1. CASE UNCHANGED <<world, step, loaded, path, manager>>
  BY <1>0, <1>1, Stays
<1>2. ASSUME Fail, UNCHANGED <<world, loaded, path>> PROVE Merging'
  BY <1>1, <1>2 DEF Fail
<1>3. ASSUME NEW op, At(op), op \notin {"user", "ready"}, Go, UNCHANGED world
      PROVE  /\ Op = op /\ Follows(flags.cmd, op, Op') /\ Allowed(flags.cmd, op)
             /\ UNCHANGED <<flags, ConfigFiles, Wanted>>
  <2>1. Op = op
    BY <1>3 DEF At, Op
  <2> QED BY <1>0, <1>3, <2>1, GoOp, WorldSame DEF world
<1>4. (flags.cmd # "build" => flags.history = FALSE) /\ config.enable_history \in BOOLEAN
  BY <1>0 DEF TypeOK, Flags, Config
\* Before the files are read.
<1>5. ASSUME NEW op \in {"find", "root", "namespace"}, At(op), Go,
             UNCHANGED <<world, loaded, config>>
      PROVE  Merging'
  <2>1. Op \notin Configured /\ Op' \notin Configured /\ UNCHANGED ConfigFiles
    BY <1>3, <1>5 DEF Follows, Configured
  <2>2. Loading'
    BY <1>0, <1>5, <2>1 DEF Merging, Loading, MergedUpTo, LastSetter
  <2> QED BY <2>1, <2>2 DEF Merging, Loaded, Kept
\* After they are.
<1>6. ASSUME NEW op \in Configured, At(op), op \notin {"user", "ready"}, Go, UNCHANGED world,
             config'.default_profile = config.default_profile,
             config'.overlay_root_dir = config.overlay_root_dir,
             config'.enable_history = IF op = "history" THEN config.enable_history \/ flags.history
                                      ELSE config.enable_history,
             op # "tmpfs" => /\ config'.enable_tmpfs = config.enable_tmpfs
                             /\ config'.tmpfs_size = config.tmpfs_size
      PROVE  Merging'
  <2>1. /\ Op = op /\ Follows(flags.cmd, op, Op') /\ Allowed(flags.cmd, op)
        /\ UNCHANGED <<flags, ConfigFiles, Wanted>>
    BY <1>3, <1>6
  <2>2. Op' \in Configured \ {"profile"} /\ (Op' = "history" => op = "profile")
        /\ (Op' \notin Packaged \ {"tmpfs"} => op # "tmpfs" /\ op \notin Packaged \ {"tmpfs"})
    BY <1>0, <1>6, <2>1 DEF Follows, Allowed, Configured, Packaged, Cmd
  <2>3. Loading' /\ Loaded'
    BY <1>0, <1>6, <2>1, <2>2 DEF Merging, Loading, Loaded
  <2>4. Kept
    BY <1>0 DEF Merging
  <2>5. config'.enable_history = IF Op' \in {"profile", "history"} THEN Wanted.enable_history
                                 ELSE flags.history \/ Wanted.enable_history
    <3>1. CASE op = "profile"
      <4>1. config.enable_history = Wanted.enable_history
        BY <2>1, <2>4, <3>1 DEF Kept, Configured
      <4>2. config'.enable_history = config.enable_history
        BY <1>6, <3>1
      <4>3. flags.cmd = "build" => Op' = "history"
        BY <2>1, <3>1 DEF Follows
      <4> QED BY <1>4, <2>2, <4>1, <4>2, <4>3
    <3>2. CASE op = "history"
      <4>1. config.enable_history = Wanted.enable_history
        BY <2>1, <2>4, <3>2 DEF Kept, Configured
      <4>2. config'.enable_history = (config.enable_history \/ flags.history)
        BY <1>6, <3>2
      <4>3. Op' \notin {"profile", "history"}
        BY <2>1, <3>2 DEF Follows
      <4> QED BY <4>1, <4>2, <4>3
    <3>3. CASE op \notin {"profile", "history"}
      <4>1. config.enable_history = (flags.history \/ Wanted.enable_history)
        BY <1>6, <2>1, <2>4, <3>3 DEF Kept
      <4>2. config'.enable_history = config.enable_history
        BY <1>6, <3>3
      <4>3. Op' \notin {"profile", "history"}
        BY <2>2, <3>3
      <4> QED BY <4>1, <4>2, <4>3
    <3> QED BY <3>1, <3>2, <3>3
  <2>6. Kept'
    BY <1>6, <2>1, <2>2, <2>4, <2>5 DEF Kept
  <2> QED BY <2>3, <2>6 DEF Merging
<1>7. CASE FindPackage
  BY <1>2, <1>5, <1>7 DEF FindPackage, manager, Fail
<1>8. CASE Entitled \/ Inhibit \/ DoLock
  <2>1. UNCHANGED <<world, loaded, path>> /\ ((Go /\ UNCHANGED manager) \/ Fail)
    BY <1>8 DEF Entitled, Inhibit, DoLock
  <2>2. PICK op \in {"root", "namespace", "inhibit", "lock"} : At(op)
    BY <1>8 DEF Entitled, Inhibit, DoLock
  <2>3. CASE Fail
    BY <1>2, <2>1, <2>3
  <2>4. CASE Go /\ UNCHANGED config /\ op \in {"root", "namespace"}
    BY <1>5, <2>1, <2>2, <2>4
  <2>5. CASE Go /\ UNCHANGED config /\ op \in {"inhibit", "lock"}
    <3>1. op \in Configured /\ op \notin {"user", "ready", "history", "tmpfs"}
      BY <2>5 DEF Configured
    <3> QED BY <1>6, <2>1, <2>2, <2>5, <3>1
  <2> QED BY <2>1, <2>3, <2>4, <2>5 DEF manager
<1>9. CASE NewConfig
  <2>0. /\ usr \in ConfigDir(MaxVendor) /\ etc \in ConfigDir(MaxSystem)
        /\ loaded \in 0..(Len(usr) + Len(etc)) /\ config \in Config
    BY <1>0 DEF TypeOK
  <2>1. At("config") /\ UNCHANGED <<world, path>>
    BY <1>9 DEF NewConfig
  <2>2. Op = "config" /\ MergedUpTo(config, loaded)
    BY <1>0, <2>1 DEF At, Op, Merging, Loading, Configured
  <2>3. CASE loaded = Len(ConfigFiles) /\ Go /\ UNCHANGED <<loaded, manager>>
    <3>1. Op' = "profile" /\ UNCHANGED <<flags, ConfigFiles, Wanted>>
      BY <1>3, <2>1, <2>3 DEF Follows
    <3>2. \A k \in Key : config[k] = Wanted[k]
      BY <2>0, <2>2, <2>3, MergedIsWanted DEF Wanted
    <3>3. Key = {"default_profile", "enable_history", "enable_tmpfs", "tmpfs_size",
                 "overlay_root_dir"}
      BY DEF Key, Default
    <3>4. /\ config["default_profile"] = Wanted["default_profile"]
          /\ config["overlay_root_dir"] = Wanted["overlay_root_dir"]
          /\ config["enable_history"] = Wanted["enable_history"]
          /\ config["enable_tmpfs"] = Wanted["enable_tmpfs"]
          /\ config["tmpfs_size"] = Wanted["tmpfs_size"]
      BY <3>2, <3>3
    <3>5. UNCHANGED config
      BY <2>3 DEF manager
    <3>6. Kept'
      BY <3>1, <3>4, <3>5 DEF Kept, Packaged
    <3>7. Loaded' /\ Loading'
      BY <2>2, <2>3, <3>1 DEF Loaded, Loading, MergedUpTo, Configured
    <3> QED BY <3>6, <3>7 DEF Merging
  <2>4. CASE Fail /\ UNCHANGED loaded
    BY <1>2, <2>1, <2>4
  <2>5. CASE /\ loaded # Len(ConfigFiles)
             /\ ConfigFiles[loaded + 1] # "broken"
             /\ config' = Decode(ConfigFiles[loaded + 1], config)
             /\ loaded' = loaded + 1
             /\ UNCHANGED step
    <3>1. Op' = "config" /\ UNCHANGED ConfigFiles
      BY <2>1, <2>2, <2>5, WorldSame DEF Op
    <3>2. loaded \in Nat /\ loaded < Len(ConfigFiles)
      BY <2>0, <2>5, FilesInOrder
    <3>3. MergedUpTo(config', loaded')
      BY <2>0, <2>2, <2>5, <3>2, DecodeMerges
    <3>4. Loading'
      BY <3>1, <3>3 DEF Loading, MergedUpTo, LastSetter
    <3> QED BY <3>1, <3>4 DEF Merging, Loaded, Kept, Configured
  <2> QED BY <1>9, <2>3, <2>4, <2>5 DEF NewConfig
<1>10. ASSUME NEW op \in {"profile", "load", "package", "image", "operate"}, At(op),
              Go, UNCHANGED <<world, config>>
       PROVE  Merging'
  <2>1. op \in Configured /\ op \notin {"user", "ready", "history", "tmpfs"}
    BY <1>10 DEF Configured
  <2> QED BY <1>6, <1>10, <2>1
<1>11. CASE SetProfile \/ NewPackage \/ SetPackage \/ SetOptions \/ ImageInstalled
  <2>1. UNCHANGED <<world, loaded, path>>
    BY <1>11 DEF SetProfile, NewPackage, SetPackage, SetOptions, ImageInstalled
  <2>2. PICK op \in {"profile", "load", "package", "image", "operate"} : At(op)
    BY <1>11 DEF SetProfile, NewPackage, SetPackage, SetOptions, ImageInstalled
  <2>3. Fail \/ (Go /\ UNCHANGED config)
    BY <1>11 DEF SetProfile, NewPackage, SetPackage, SetOptions, ImageInstalled, manager
  <2> QED BY <1>2, <1>10, <2>1, <2>2, <2>3
<1>12. CASE EnableHistory
  <2>1. /\ At("history") /\ Go /\ UNCHANGED world
        /\ config' = [config EXCEPT !.enable_history = @ \/ flags.history]
    BY <1>12 DEF EnableHistory
  <2>2. /\ config'.default_profile = config.default_profile
        /\ config'.overlay_root_dir = config.overlay_root_dir
        /\ config'.enable_history = (config.enable_history \/ flags.history)
        /\ config'.enable_tmpfs = config.enable_tmpfs
        /\ config'.tmpfs_size = config.tmpfs_size
    BY <1>0, <2>1 DEF TypeOK, Config
  <2> QED BY <1>6, <2>1, <2>2 DEF Configured
<1>13. ASSUME NEW enable, NEW size, At("tmpfs"), SetTmpfs(enable, size), UNCHANGED world
       PROVE  Merging'
  <2>1. Go
    BY <1>13 DEF SetTmpfs
  <2>2. /\ config'.default_profile = config.default_profile
        /\ config'.overlay_root_dir = config.overlay_root_dir
        /\ config'.enable_history = config.enable_history
    BY <1>0, <1>13 DEF SetTmpfs, TypeOK, Config
  <2> QED BY <1>6, <1>13, <2>1, <2>2 DEF Configured
<1>14. CASE BuildTmpfs \/ IndexTmpfs
  <2>1. At("tmpfs") /\ UNCHANGED <<world, loaded, path>>
    BY <1>14 DEF BuildTmpfs, IndexTmpfs
  <2>2. \/ SetTmpfs(TRUE, flags.memory) \/ SetTmpfs(TRUE, config.tmpfs_size)
        \/ SetTmpfs(flags.tmpfs, flags.memory)
        \/ Fail \/ (Go /\ UNCHANGED config)
    BY <1>14 DEF BuildTmpfs, IndexTmpfs, manager
  <2>3. CASE Go /\ UNCHANGED config
    BY <1>6, <2>1, <2>3 DEF Configured
  <2> QED BY <1>2, <1>13, <2>1, <2>2, <2>3
<1>15. CASE BuildUser
  BY <1>1, <1>15 DEF BuildUser
<1>16. CASE UNCHANGED vars
  BY <1>1, <1>16 DEF vars
<1> QED
  BY <1>7, <1>8, <1>9, <1>11, <1>12, <1>14, <1>15, <1>16 DEF Next

\* No package's overlay is the nil one.
LEMMA OverlayIsNot ==
    ASSUME NEW o, NEW d \in {"/var/cache/solbuild", "/srv"}, o.base[1] = d
    PROVE  o # NoOverlay
<1>1. NoOverlay.base[1] = ""
  BY DEF NoOverlay
<1> QED BY <1>1

\* Each option is heard where the code looks at it, and kept from there on.
LEMMA OptionsStep == IndInv /\ [Next]_vars => Options'
<1> SUFFICES ASSUME IndInv, [Next]_vars PROVE Options'
  OBVIOUS
<1>0. /\ TypeOK /\ Ready /\ Merging /\ Options
      /\ flags.cmd \in Cmd /\ Allowed(flags.cmd, Op)
  BY OpAllowed DEF IndInv
<1>1. CASE UNCHANGED <<world, step, loaded, path, manager>>
  BY <1>0, <1>1, Stays
<1>2. ASSUME Fail, UNCHANGED <<world, loaded, path>> PROVE Options'
  BY <1>1, <1>2 DEF Fail
<1>3. ASSUME NEW op, At(op), op \notin {"user", "ready"}, Go, UNCHANGED world
      PROVE  /\ Op = op /\ Follows(flags.cmd, op, Op') /\ Allowed(flags.cmd, op)
             /\ UNCHANGED <<flags, installed, Wanted>>
  <2>1. Op = op
    BY <1>3 DEF At, Op
  <2> QED BY <1>0, <1>3, <2>1, GoOp, WorldSame DEF world
<1>4. /\ config \in Config
      /\ config.enable_tmpfs \in BOOLEAN /\ config.enable_history \in BOOLEAN
      /\ config.tmpfs_size \in Size
      /\ config.overlay_root_dir \in {"/var/cache/solbuild", "/srv"}
      /\ flags.tmpfs \in BOOLEAN /\ flags.memory \in Size
  BY <1>0 DEF TypeOK, Config, Flags
\* Before there is a package there is nothing to keep.
<1>5. ASSUME NEW op \in {"find", "root", "namespace", "config", "profile", "history", "load"},
             At(op), Go, UNCHANGED world
      PROVE  Options'
  <2>1. Op' \notin Packaged
    BY <1>0, <1>3, <1>5 DEF Follows, Packaged, Cmd
  <2> QED
    BY <2>1
    DEF Options, Asked, ImageThere, OverlayMade, HistoryRead, OverlaySet, Packaged, Optioned
\* Steps in the locked root's preparation that decide nothing.
<1>6. ASSUME NEW op \in {"inhibit", "lock"}, At(op), Go, UNCHANGED <<world, manager>>
      PROVE  Options'
  <2>1. /\ Op = op /\ UNCHANGED <<flags, installed, Wanted>>
        /\ Op' \in Packaged \ {"tmpfs"} /\ (Op' \in Optioned <=> op = "lock")
    BY <1>0, <1>3, <1>6 DEF Follows, Packaged, Optioned
  <2>2. UNCHANGED <<config, profile, pkg, history, overlay>>
    BY <1>6 DEF manager
  <2>3. Op \in Packaged \ {"tmpfs"} /\ (op = "lock" => Op \in Optioned)
    BY <1>6, <2>1 DEF Packaged, Optioned
  <2> QED
    BY <1>0, <2>1, <2>2, <2>3
    DEF Options, Asked, ImageThere, OverlayMade, HistoryRead, OverlaySet, ValidMemSize
<1>7. CASE FindPackage
  BY <1>2, <1>5, <1>7 DEF FindPackage, Fail
<1>8. CASE Entitled \/ Inhibit \/ DoLock
  <2>1. UNCHANGED <<world, loaded, path>> /\ ((Go /\ UNCHANGED manager) \/ Fail)
    BY <1>8 DEF Entitled, Inhibit, DoLock
  <2>2. PICK op \in {"root", "namespace", "inhibit", "lock"} : At(op)
    BY <1>8 DEF Entitled, Inhibit, DoLock
  <2> QED BY <1>2, <1>5, <1>6, <2>1, <2>2
<1>9. CASE NewConfig
  <2>1. At("config") /\ UNCHANGED <<world, path>>
    BY <1>9 DEF NewConfig
  <2>2. CASE Go
    BY <1>5, <2>1, <2>2
  <2>3. CASE Fail /\ UNCHANGED loaded
    BY <1>2, <2>1, <2>3
  <2>4. CASE UNCHANGED step
    <3>1. Op' \notin Packaged
      BY <2>1, <2>4 DEF At, Op, Packaged, world
    <3> QED
      BY <3>1
      DEF Options, Asked, ImageThere, OverlayMade, HistoryRead, OverlaySet, Packaged, Optioned
  <2> QED BY <1>9, <2>2, <2>3, <2>4 DEF NewConfig
<1>10. CASE SetProfile \/ EnableHistory \/ NewPackage
  <2>1. UNCHANGED <<world, loaded, path>> /\ (Go \/ Fail)
    BY <1>10 DEF SetProfile, EnableHistory, NewPackage
  <2>2. PICK op \in {"profile", "history", "load"} : At(op)
    BY <1>10 DEF SetProfile, EnableHistory, NewPackage
  <2> QED BY <1>2, <1>5, <2>1, <2>2
<1>11. CASE SetPackage
  <2> DEFINE p == IF flags.cmd = "index" THEN IndexPackage ELSE pkg
             look == config.enable_history /\ p.type = "ypkg"
  <2>1. At("package") /\ UNCHANGED <<world, loaded, path>>
    BY <1>11 DEF SetPackage
  <2>2. CASE Fail
    BY <1>2, <2>1, <2>2
  <2>3. CASE /\ installed
             /\ pkg' = p
             /\ history' \in IF look THEN {"missing", "found"} ELSE {"off"}
             /\ overlay' = [base |-> Join(config.overlay_root_dir, profile.Name, p.Name),
                            tmpfs |-> FALSE, size |-> ""]
             /\ Go /\ UNCHANGED <<config, profile>>
    <3>1. /\ Op = "package" /\ Op' = IF flags.cmd = "chroot" THEN "lock" ELSE "tmpfs"
          /\ UNCHANGED <<flags, installed, Wanted>>
      BY <1>3, <2>1, <2>3 DEF Follows
    <3>2. /\ config.overlay_root_dir = Wanted.overlay_root_dir
          /\ config.enable_history = (flags.history \/ Wanted.enable_history)
      BY <1>0, <3>1 DEF Merging, Kept, Configured
    <3>3. /\ overlay'.base[1] = config.overlay_root_dir
          /\ overlay'.tmpfs = FALSE
      <4>1. /\ overlay'.base = Join(config.overlay_root_dir, profile.Name, p.Name)
            /\ overlay'.tmpfs = FALSE
        BY <2>3
      <4>2. Join(config.overlay_root_dir, profile.Name, p.Name)[1] = config.overlay_root_dir
        BY JoinFirst, Zenon
      <4> QED BY <4>1, <4>2, Zenon
    <3>4. Asked' /\ ImageThere' /\ OverlaySet'
      BY <2>3, <3>1, <3>3 DEF Asked, ImageThere, OverlaySet, Packaged, Optioned
    <3>5. OverlayMade'
      BY <1>4, <2>3, <3>1, <3>2, <3>3, OverlayIsNot DEF OverlayMade
    <3>6. HistoryRead'
      <4>1. flags.cmd \in {"build", "chroot"} => p = pkg
        OBVIOUS
      <4>2. history' # "off" <=> look
        BY <2>3
      <4> HIDE DEF p
      <4>3. pkg'.type = "ypkg" => (history' # "off" <=> flags.history \/ Wanted.enable_history)
        BY <2>3, <3>2, <4>2
      <4> QED BY <3>1, <4>3 DEF HistoryRead
    <3> QED BY <3>4, <3>5, <3>6 DEF Options
  <2> QED BY <1>11, <2>2, <2>3 DEF SetPackage
\* At the tmpfs flags, which leave all but the configuration alone.
<1>12. ASSUME At("tmpfs"), Go, UNCHANGED <<world, profile, pkg, history, overlay>>,
              flags.cmd = "build" =>
                 /\ config'.enable_tmpfs = (flags.tmpfs \/ config.enable_tmpfs)
                 /\ config'.enable_tmpfs /\ config'.tmpfs_size = "8G" =>
                       config'.tmpfs_size = IF flags.memory # "" THEN flags.memory
                                            ELSE config.tmpfs_size,
              flags.cmd = "index" => config'.enable_tmpfs = flags.tmpfs
       PROVE  Options'
  <2>1. /\ Op = "tmpfs" /\ Op' \in {"inhibit", "operate"}
        /\ UNCHANGED <<flags, installed, Wanted>>
    BY <1>3, <1>12 DEF Follows
  <2>2. /\ config.enable_tmpfs = Wanted.enable_tmpfs
        /\ config.tmpfs_size = Wanted.tmpfs_size
    BY <1>0, <2>1 DEF Merging, Kept, Configured
  <2>3. Asked'
    BY <1>12, <2>1, <2>2 DEF Asked, ValidMemSize
  <2>4. ImageThere' /\ OverlayMade' /\ HistoryRead' /\ OverlaySet'
    BY <1>0, <1>12, <2>1
    DEF Options, ImageThere, OverlayMade, HistoryRead, OverlaySet, Packaged, Optioned
  <2> QED BY <2>3, <2>4 DEF Options
<1>13. ASSUME At("tmpfs"), NEW enable, NEW size, SetTmpfs(enable, size), UNCHANGED world
       PROVE  /\ Go /\ UNCHANGED <<profile, pkg, history, overlay>>
              /\ config'.enable_tmpfs = enable /\ config'.tmpfs_size = Trim(size)
  <2>1. Op = "tmpfs" /\ flags.cmd # "update"
    BY <1>0, <1>13 DEF At, Op, Allowed
  <2>2. overlay # NoOverlay
    BY <1>0, <2>1 DEF Options, OverlayMade, Packaged
  <2> QED BY <1>4, <1>13, <2>2 DEF SetTmpfs, Config
<1>14. CASE BuildTmpfs
  <2>1. At("tmpfs") /\ flags.cmd = "build" /\ UNCHANGED <<world, loaded, path>>
    BY <1>14 DEF BuildTmpfs
  <2>2. \A size \in Size : Trim(size) = "8G" => size = "8G"
    BY DEF Trim, Size
  <2>3. CASE Fail
    BY <1>2, <2>1, <2>3
  <2>4. CASE flags.memory # "" /\ SetTmpfs(TRUE, flags.memory)
             /\ (flags.tmpfs \/ config.enable_tmpfs)
    BY <1>4, <1>12, <1>13, <2>1, <2>2, <2>4
  <2>5. CASE flags.memory = "" /\ SetTmpfs(TRUE, config.tmpfs_size) /\ flags.tmpfs
    BY <1>4, <1>12, <1>13, <2>1, <2>2, <2>5
  <2>6. CASE /\ ~flags.tmpfs /\ (flags.memory = "" \/ ~config.enable_tmpfs)
             /\ Go /\ UNCHANGED manager
    <3>1. UNCHANGED <<config, profile, pkg, history, overlay>>
      BY <2>6 DEF manager
    <3> QED BY <1>4, <1>12, <2>1, <2>6, <3>1
  <2> QED BY <1>14, <2>3, <2>4, <2>5, <2>6 DEF BuildTmpfs
<1>15. CASE IndexTmpfs
  <2>1. /\ At("tmpfs") /\ flags.cmd = "index" /\ UNCHANGED world
        /\ SetTmpfs(flags.tmpfs, flags.memory)
    BY <1>15 DEF IndexTmpfs
  <2> QED BY <1>12, <1>13, <2>1
<1>16. CASE SetOptions
  <2>1. At("operate") /\ UNCHANGED <<world, loaded, path>>
    BY <1>16 DEF SetOptions
  <2>2. CASE Fail
    BY <1>2, <2>1, <2>2
  <2>3. CASE /\ config.enable_tmpfs => ValidMemSize(config.tmpfs_size)
             /\ overlay' = [overlay EXCEPT !.tmpfs = config.enable_tmpfs,
                                           !.size = config.tmpfs_size]
             /\ Go /\ UNCHANGED <<config, profile, pkg, history>>
    <3>1. /\ Op = "operate" /\ Op' = "lock" /\ flags.cmd \in {"build", "index"}
          /\ UNCHANGED <<flags, installed, Wanted>>
      BY <1>3, <2>1, <2>3 DEF Follows, Allowed
    <3>2. overlay \in Overlay /\ OverlayMade
      BY <1>0, <3>1 DEF Options, OverlayMade, Packaged, TypeOK
    <3>3. /\ overlay'.base = overlay.base
          /\ overlay'.tmpfs = config.enable_tmpfs
          /\ overlay'.size = config.tmpfs_size
      BY <2>3, <3>2 DEF Overlay
    <3>4. OverlayMade'
      <4>1. overlay.base[1] = Wanted.overlay_root_dir
        BY <3>1, <3>2 DEF OverlayMade, Packaged
      <4>2. overlay.base[1] \in {"/var/cache/solbuild", "/srv"}
        BY <3>2 DEF Overlay
      <4>3. overlay' # NoOverlay
        BY <3>3, <4>2, OverlayIsNot
      <4> QED BY <2>3, <3>1, <3>3, <4>1, <4>3 DEF OverlayMade
    <3>5. OverlaySet'
      BY <2>3, <3>1, <3>3 DEF OverlaySet, ValidMemSize
    <3>6. Asked' /\ ImageThere' /\ HistoryRead'
      BY <1>0, <2>3, <3>1
      DEF Options, Asked, ImageThere, HistoryRead, Packaged, ValidMemSize
    <3> QED BY <3>4, <3>5, <3>6 DEF Options
  <2> QED BY <1>16, <2>2, <2>3 DEF SetOptions
<1>17. CASE ImageInstalled
  <2>1. At("image") /\ UNCHANGED <<world, loaded, path>>
    BY <1>17 DEF ImageInstalled
  <2>2. CASE installed /\ Go
    <3>1. /\ Op' = "lock" /\ flags.cmd = "update" /\ UNCHANGED <<flags, installed>>
      BY <1>3, <2>1, <2>2 DEF Follows, Allowed
    <3> QED
      BY <2>2, <3>1 DEF Options, Asked, ImageThere, OverlayMade, HistoryRead, OverlaySet
  <2> QED BY <1>2, <1>17, <2>1, <2>2 DEF ImageInstalled
<1>18. CASE BuildUser
  BY <1>1, <1>18 DEF BuildUser
<1>19. CASE UNCHANGED vars
  BY <1>1, <1>19 DEF vars
<1> QED
  BY <1>7, <1>8, <1>9, <1>10, <1>11, <1>14, <1>15, <1>16, <1>17, <1>18, <1>19 DEF Next

-----------------------------------------------------------------------------
\* IndInv holds at the start.
LEMMA InitIndInv == Init => IndInv
<1> SUFFICES ASSUME Init PROVE IndInv
  OBVIOUS
<1>1. flags.cmd \in Cmd
  BY DEF Init, Flags, Cmd
<1>2. 1 \in DOMAIN Script[flags.cmd] /\ Script[flags.cmd][1] \in {"find", "root"}
      /\ (flags.cmd \in {"build", "chroot"} => Script[flags.cmd][1] = "find")
  <2>1. CASE flags.cmd = "build"
    BY <2>1 DEF Script, BuildRun
  <2>2. CASE flags.cmd = "chroot"
    BY <2>2 DEF Script, ChrootRun
  <2>3. CASE flags.cmd = "index"
    BY <2>3 DEF Script, IndexRun
  <2>4. CASE flags.cmd = "update"
    BY <2>4 DEF Script, UpdateRun
  <2> QED BY <1>1, <2>1, <2>2, <2>3, <2>4 DEF Cmd
<1>3. TypeOK
  <2>1. UserTypeOK
    BY UserInitInv DEF Init
  <2>2. Default \in Config
    BY DEF Default, Config, ProfileName, Images, Size
  <2>3. installed \in BOOLEAN /\ failed \in BOOLEAN
    BY DEF Init
  <2>4. /\ flags \in Flags /\ step = 1 /\ loaded = 0 /\ config = Default /\ path = ""
        /\ usr \in ConfigDir(MaxVendor) /\ etc \in ConfigDir(MaxSystem)
        /\ profile = NoProfile /\ pkg = NoPackage /\ history = "off" /\ overlay = NoOverlay
    BY DEF Init
  <2>5. loaded \in 0..(Len(usr) + Len(etc))
    <3>1. usr \in Seq(DOMAIN ConfigFile \cup {"broken"})
          /\ etc \in Seq(DOMAIN ConfigFile \cup {"broken"})
      BY <2>4, FilesInOrder
    <3>2. Len(usr) \in Nat /\ Len(etc) \in Nat
      BY <3>1
    <3>3. loaded = 0
      BY <2>4
    <3> QED BY <3>2, <3>3
  <2> QED BY <1>2, <2>1, <2>2, <2>3, <2>4, <2>5 DEF TypeOK
<1>4. Op \in {"find", "root"} /\ (flags.cmd \in {"build", "chroot"} => Op = "find")
  BY <1>2 DEF Init, Op
<1>5. Ready
  BY <1>4 DEF Ready, PathFound, ProfileSet, PackageRead, Configured, Packaged
<1>6. Merging
  <2>1. MergedUpTo(config, loaded)
    <3>1. loaded = 0 /\ config = Default
      BY DEF Init
    <3>2. 1..0 = {}
      OBVIOUS
    <3> QED BY <3>1, <3>2 DEF MergedUpTo
  <2> QED BY <1>4, <2>1 DEF Merging, Loading, Loaded, Kept, Configured
<1>7. Options
  BY <1>4
  DEF Options, Asked, ImageThere, OverlayMade, HistoryRead, OverlaySet, Packaged, Optioned
<1> QED BY <1>3, <1>5, <1>6, <1>7, UserInitInv DEF IndInv, Init

\* No action but BuildUser touches the user.
LEMMA UserKept == IndInv /\ [Next]_vars => UserInv'
<1> SUFFICES ASSUME IndInv, [Next]_vars PROVE UserInv'
  OBVIOUS
<1>1. CASE BuildUser
  BY <1>1, UserStep DEF BuildUser, IndInv, TypeOK
<1>2. CASE UNCHANGED userVars
  BY <1>2
  DEF IndInv, userVars, UserInv, SudoUnused, NothingTaken, SudoAsAWhole, OneIdentity, Numeric,
      SudoGID
<1>3. BuildUser \/ UNCHANGED userVars
  BY DEF Next, vars, FindPackage, Entitled, NewConfig, SetProfile, EnableHistory, NewPackage,
         SetPackage, BuildTmpfs, IndexTmpfs, Inhibit, SetOptions, ImageInstalled, DoLock
<1> QED BY <1>1, <1>2, <1>3

\* IndInv is an invariant.
LEMMA IndInvHolds == Spec => []IndInv
<1>1. IndInv /\ [Next]_vars => IndInv'
  BY TypeStep, ReadyStep, MergingStep, OptionsStep, UserKept DEF IndInv
<1> QED BY InitIndInv, <1>1, PTL DEF Spec

-----------------------------------------------------------------------------
\* No command runs past the end of its script or works on a profile, package or
\* overlay it has not got yet.
THEOREM TypeCorrect == Spec => []TypeOK
<1>1. IndInv => TypeOK
  BY DEF IndInv
<1> QED BY <1>1, IndInvHolds, PTL

\* Whatever files there are, and however many, a command goes on from NewConfig
\* with every key as the last file that sets it says, the system's after the
\* vendor's, and only if none is broken.
THEOREM ConfigMerges == Spec => []ConfigIsMerged
<1>1. IndInv => ConfigIsMerged
  <2> SUFFICES ASSUME IndInv, At("profile")
               PROVE  /\ \A i \in DOMAIN usr : usr[i] # "broken"
                      /\ \A i \in DOMAIN etc : etc[i] # "broken"
                      /\ \A k \in Key : config[k] = Merged(k)
    BY DEF ConfigIsMerged
  <2>1. Op = "profile" /\ Loaded /\ Kept
    BY DEF At, Op, IndInv, Merging
  <2>2. \A i \in 1..Len(ConfigFiles) : ConfigFiles[i] # "broken"
    BY <2>1 DEF Loaded, Configured
  <2>3. usr \in ConfigDir(MaxVendor) /\ etc \in ConfigDir(MaxSystem)
    BY DEF IndInv, TypeOK
  <2>4. \A i \in DOMAIN usr : usr[i] # "broken"
    BY <2>2, <2>3, FilesInOrder
  <2>5. \A i \in DOMAIN etc : etc[i] # "broken"
    <3> SUFFICES ASSUME NEW i \in DOMAIN etc PROVE etc[i] # "broken"
      OBVIOUS
    <3>1. i \in 1..Len(etc) /\ Len(usr) + i \in 1..Len(ConfigFiles)
      BY <2>3, FilesInOrder
    <3> QED BY <2>2, <2>3, <3>1, FilesInOrder
  <2>6. /\ config["default_profile"] = Wanted["default_profile"]
        /\ config["overlay_root_dir"] = Wanted["overlay_root_dir"]
        /\ config["enable_history"] = Wanted["enable_history"]
        /\ config["enable_tmpfs"] = Wanted["enable_tmpfs"]
        /\ config["tmpfs_size"] = Wanted["tmpfs_size"]
    BY <2>1 DEF Kept, Configured, Packaged
  <2>7. Key = {"default_profile", "enable_history", "enable_tmpfs", "tmpfs_size",
               "overlay_root_dir"}
    BY DEF Key, Default
  <2>8. \A k \in Key : config[k] = Wanted[k]
    BY <2>6, <2>7
  <2> QED BY <2>4, <2>5, <2>8 DEF Wanted
<1> QED BY <1>1, IndInvHolds, PTL

\* The merged configuration by the names of its keys.
LEMMA WantedByName ==
    /\ Wanted.enable_tmpfs = Merged("enable_tmpfs")
    /\ Wanted.tmpfs_size = Merged("tmpfs_size")
    /\ Wanted.enable_history = Merged("enable_history")
    /\ Wanted.overlay_root_dir = Merged("overlay_root_dir")
<1>1. Key = {"default_profile", "enable_history", "enable_tmpfs", "tmpfs_size",
             "overlay_root_dir"}
  BY DEF Key, Default
<1> QED BY <1>1 DEF Wanted

\* What the command line of a build or a chroot asks for, else the merged
\* configuration, is in effect in the root that is locked, for every configuration
\* and every command line.
THEOREM OptionsEffective == Spec => []OptionsTakeEffect
<1>1. IndInv => OptionsTakeEffect
  <2> SUFFICES ASSUME IndInv, Locked
               PROVE  /\ flags.cmd = "build" =>
                            /\ overlay.tmpfs = (flags.tmpfs \/ Merged("enable_tmpfs"))
                            /\ overlay.tmpfs =>
                                  overlay.size = IF flags.memory # "" THEN flags.memory
                                                 ELSE Merged("tmpfs_size")
                      /\ flags.cmd \in {"build", "chroot"} /\ pkg.type = "ypkg" =>
                            (history # "off" <=> flags.history \/ Merged("enable_history"))
                      /\ flags.cmd # "update" => overlay.base[1] = Merged("overlay_root_dir")
    BY DEF OptionsTakeEffect
  <2>1. Op \in Optioned /\ Op \in Packaged \ {"tmpfs"} /\ Options
    BY DEF Locked, Op, Optioned, Packaged, IndInv
  <2>2. ASSUME flags.cmd = "build"
        PROVE  /\ overlay.tmpfs = (flags.tmpfs \/ Merged("enable_tmpfs"))
               /\ overlay.tmpfs => overlay.size = IF flags.memory # "" THEN flags.memory
                                                  ELSE Merged("tmpfs_size")
    <3>1. /\ config.enable_tmpfs = (flags.tmpfs \/ Merged("enable_tmpfs"))
          /\ config.enable_tmpfs /\ ValidMemSize(config.tmpfs_size) =>
                config.tmpfs_size = IF flags.memory # "" THEN flags.memory
                                    ELSE Merged("tmpfs_size")
      BY <2>1, <2>2, WantedByName DEF Options, Asked
    <3>2. /\ overlay.tmpfs = config.enable_tmpfs
          /\ overlay.tmpfs => overlay.size = config.tmpfs_size /\ ValidMemSize(overlay.size)
      BY <2>1, <2>2 DEF Options, OverlaySet
    <3> QED BY <3>1, <3>2
  <2>4. flags.cmd \in {"build", "chroot"} /\ pkg.type = "ypkg" =>
           (history # "off" <=> flags.history \/ Merged("enable_history"))
    BY <2>1, WantedByName DEF Options, HistoryRead
  <2>3. flags.cmd # "update" => overlay.base[1] = Merged("overlay_root_dir")
    BY <2>1, WantedByName DEF Options, OverlayMade
  <2> QED BY <2>2, <2>3, <2>4
<1> QED BY <1>1, IndInvHolds, PTL

\* No root is locked without an installed image of a known name, or with a tmpfs
\* of a size mount does not understand.
THEOREM LockedUsable == Spec => []LockedIsUsable
<1>1. IndInv => LockedIsUsable
  <2> SUFFICES ASSUME IndInv, Locked
               PROVE  /\ profile.image \in Images /\ installed
                      /\ flags.cmd # "update" /\ overlay.tmpfs /\ overlay.size # "" =>
                            ValidMemSize(overlay.size)
    BY DEF LockedIsUsable
  <2>1. /\ Op \in Optioned /\ Op \in Packaged /\ Op \in Configured \ {"profile"}
        /\ TypeOK /\ Ready /\ Options
    BY DEF Locked, Op, Optioned, Packaged, Configured, IndInv
  <2>2. profile \in [Name : ProfileName, image : Images]
    BY <2>1 DEF TypeOK, Ready, ProfileSet
  <2>3. installed
    BY <2>1 DEF Options, ImageThere
  <2>4. flags.cmd # "update" => (overlay.tmpfs => ValidMemSize(overlay.size))
    BY <2>1 DEF Options, OverlaySet
  <2> QED BY <2>2, <2>3, <2>4
<1> QED BY <1>1, IndInvHolds, PTL

\* The account sudo names is used as a whole or not at all, whatever sudo left in
\* the environment and wherever SetFromSudo gave up.
THEOREM SudoIsWhole == Spec => []SudoAsAWhole
<1>1. IndInv => SudoAsAWhole
  BY DEF IndInv, UserInv
<1> QED BY <1>1, IndInvHolds, PTL

\* What is taken from a file is not mixed with another file, the account or the
\* fallback, whichever files there are and whatever keys and values they have.
THEOREM IdentityIsOne == Spec => []OneIdentity
<1>1. IndInv => OneIdentity
  BY DEF IndInv, UserInv
<1> QED BY <1>1, IndInvHolds, PTL
=============================================================================
