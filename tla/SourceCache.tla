---------------------------- MODULE SourceCache ----------------------------
(***************************************************************************)
(* The cache of source archives all builds of a machine share              *)
(* (builder/source/simple.go, file.go).  A fetch downloads into a staging  *)
(* file named after the archive, hashes that file, moves it to a directory *)
(* named after the hash and, for the legacy format, links the sha1 to it.  *)
(* Builds of different packages hold different lock files, so their        *)
(* fetches interleave; nothing locks the cache.                            *)
(*                                                                         *)
(* An archive has two parts, written one after the other, so that a file   *)
(* can be incomplete or mixed.  Its hash is injective: the parts stand for *)
(* the sha256 as well as for the sha1.                                     *)
(***************************************************************************)
EXTENDS Naturals, Sequences, FiniteSets

CONSTANTS
    Fetch,      \* the fetches, each of one source by one build at a time
    Name,       \* file names of archives
    Blob,       \* what URIs serve
    Inode,      \* inodes of the file system
    None,       \* no inode, no hash, nothing written
    File,       \* File[f]: the name of the archive (SimpleSource.File)
    Served,     \* Served[f]: what its URI serves
    Wanted,     \* Wanted[f]: what its validator is the hash of
    Legacy,     \* the fetches of pspec.xml packages, validated by sha1
    FileURI,    \* the fetches from file:// URIs
    MaxFaults   \* bound on crashes, failures and removals

Part == Blob \cup {None}
Hash == Part \X Part

ASSUME NamesAssumption == File \in [Fetch -> Name]
ASSUME BlobsAssumption == Served \in [Fetch -> Blob] /\ Wanted \in [Fetch -> Blob]
ASSUME KindsAssumption == Legacy \subseteq Fetch /\ FileURI \subseteq Fetch
ASSUME NoneAssumption == None \notin Inode /\ None \notin Blob /\ None \notin Hash
ASSUME BoundAssumption == MaxFaults \in Nat

VARIABLES
    staging,    \* staging[n]: the inode of the staging file n
    cache,      \* cache[h][n]: the inode of file n in the directory of hash h
    links,      \* links[h]: the directory the sha1 of h is a link to
    content,    \* content[i]: the two parts of a file
    pc,         \* where each fetch is
    fd,         \* the inode a download writes to
    off,        \* the part a download writes next, less one
    sum,        \* the hash a fetch computed
    faults      \* crashes, failures and removals so far

vars == <<staging, cache, links, content, pc, fd, off, sum, faults>>

Empty == <<None, None>>
Whole(b) == <<b, b>>
Validator(f) == Whole(Wanted[f])

PC == {"idle", "open", "write", "verify", "sum", "rename", "link", "ready", "failed"}

TypeOK ==
    /\ staging \in [Name -> Inode \cup {None}]
    /\ cache \in [Hash -> [Name -> Inode \cup {None}]]
    /\ links \in [Hash -> Hash \cup {None}]
    /\ content \in [Inode -> Hash]
    /\ pc \in [Fetch -> PC]
    /\ fd \in [Fetch -> Inode \cup {None}]
    /\ off \in [Fetch -> 0..2]
    /\ sum \in [Fetch -> Hash]
    /\ faults \in 0..MaxFaults

Init ==
    /\ staging = [n \in Name |-> None]
    /\ cache = [h \in Hash |-> [n \in Name |-> None]]
    /\ links = [h \in Hash |-> None]
    /\ content = [i \in Inode |-> Empty]
    /\ pc = [f \in Fetch |-> "idle"]
    /\ fd = [f \in Fetch |-> None]
    /\ off = [f \in Fetch |-> 0]
    /\ sum = [f \in Fetch |-> Empty]
    /\ faults = 0

-----------------------------------------------------------------------------
Goto(f, l) == pc' = [pc EXCEPT ![f] = l]
Fault == faults < MaxFaults /\ faults' = faults + 1

\* Inodes for a new file.
FreeInodes ==
    {i \in Inode : /\ \A n \in Name : staging[n] # i
                   /\ \A h \in Hash, n \in Name : cache[h][n] # i
                   /\ \A f \in Fetch : fd[f] # i}

\* The one a new file gets: which of them makes no difference.
NewInode == CHOOSE i \in FreeInodes : TRUE

\* How much of a file is there.
Size(c) == IF c[1] = None THEN 0 ELSE IF c[2] = None THEN 1 ELSE 2

\* Mutant: links of the legacy format are not followed.
MutIsFetchedNoLinks(f) == cache[Validator(f)][File[f]] # None /\ f \notin Legacy

\* The path GetPath(validator) exists; for the legacy format its directory is
\* a link.
IsFetched(f) ==
    IF f \in Legacy
    THEN links[Validator(f)] # None /\ cache[links[Validator(f)]][File[f]] # None
    ELSE cache[Validator(f)][File[f]] # None

\* FetchSources: a source that is there is not fetched again.
Begin(f) ==
    /\ pc[f] = "idle"
    /\ Goto(f, IF IsFetched(f) THEN "ready" ELSE "open")
    /\ UNCHANGED <<staging, cache, links, content, fd, off, sum, faults>>

\* The download opens the staging file, or makes it.  CopyFile truncates it;
\* grab goes on where it ends.
Open(f) ==
    /\ pc[f] = "open"
    /\ \/ /\ staging[File[f]] # None
          /\ fd' = [fd EXCEPT ![f] = staging[File[f]]]
          /\ content' = IF f \in FileURI
                        THEN [content EXCEPT ![staging[File[f]]] = Empty] ELSE content
          /\ off' = [off EXCEPT ![f] = IF f \in FileURI THEN 0
                                       ELSE Size(content[staging[File[f]]])]
          /\ UNCHANGED staging
       \/ /\ staging[File[f]] = None
          /\ FreeInodes # {}
          /\ staging' = [staging EXCEPT ![File[f]] = NewInode]
          /\ fd' = [fd EXCEPT ![f] = NewInode]
          /\ content' = [content EXCEPT ![NewInode] = Empty]
          /\ off' = [off EXCEPT ![f] = 0]
    /\ Goto(f, "write")
    /\ UNCHANGED <<cache, links, sum, faults>>

\* Mutant: the end of the file is missed by one.
MutWritePastEnd(f) ==
    /\ pc[f] = "write"
    /\ off' = [off EXCEPT ![f] = @ + 1]
    /\ Goto(f, IF off[f] = 2 THEN "verify" ELSE "write")
    /\ UNCHANGED <<staging, cache, links, content, fd, sum, faults>>

\* The next part arrives, or the download is complete and the file closed.
Write(f) ==
    /\ pc[f] = "write"
    /\ \/ /\ off[f] < 2
          /\ content' = [content EXCEPT ![fd[f]] =
                IF off[f] = 0 THEN <<Served[f], @[2]>> ELSE <<@[1], Served[f]>>]
          /\ off' = [off EXCEPT ![f] = @ + 1]
          /\ UNCHANGED <<pc, fd>>
       \/ /\ off[f] = 2
          /\ fd' = [fd EXCEPT ![f] = None]
          /\ Goto(f, "verify")
          /\ UNCHANGED <<content, off>>
    /\ UNCHANGED <<staging, cache, links, sum, faults>>

\* grab compares the file with the validator of a package.yml; it leaves the
\* file where it is.
Verify(f) ==
    /\ pc[f] = "verify"
    /\ Goto(f, IF f \in Legacy \cup FileURI THEN "sum"
               ELSE IF staging[File[f]] # None
                       /\ content[staging[File[f]]] = Validator(f)
                    THEN "sum" ELSE "failed")
    /\ UNCHANGED <<staging, cache, links, content, fd, off, sum, faults>>

\* GetSHA256Sum reads the staging file by its path.
Sum(f) ==
    /\ pc[f] = "sum"
    /\ \/ /\ staging[File[f]] # None
          /\ sum' = [sum EXCEPT ![f] = content[staging[File[f]]]]
          /\ Goto(f, "rename")
       \/ staging[File[f]] = None /\ Goto(f, "failed") /\ UNCHANGED sum
    /\ UNCHANGED <<staging, cache, links, content, fd, off, faults>>

\* Mutant: the directory is named after the validator.
MutRenameToValidator(f) ==
    /\ pc[f] = "rename"
    /\ staging[File[f]] # None
    /\ cache' = [cache EXCEPT ![Validator(f)][File[f]] = staging[File[f]]]
    /\ staging' = [staging EXCEPT ![File[f]] = None]
    /\ Goto(f, IF f \in Legacy THEN "link" ELSE "ready")
    /\ UNCHANGED <<links, content, fd, off, sum, faults>>

\* The staging file moves to the directory of its hash.
Rename(f) ==
    /\ pc[f] = "rename"
    /\ \/ /\ staging[File[f]] # None
          /\ cache' = [cache EXCEPT ![sum[f]][File[f]] = staging[File[f]]]
          /\ staging' = [staging EXCEPT ![File[f]] = None]
          /\ Goto(f, IF f \in Legacy THEN "link" ELSE "ready")
       \/ staging[File[f]] = None /\ Goto(f, "failed") /\ UNCHANGED <<cache, staging>>
    /\ UNCHANGED <<links, content, fd, off, sum, faults>>

\* Mutant: the link is named after the validator.
MutLinkValidator(f) ==
    /\ pc[f] = "link"
    /\ IF links[Validator(f)] = None
       THEN links' = [links EXCEPT ![Validator(f)] = sum[f]] /\ Goto(f, "ready")
       ELSE UNCHANGED links /\ Goto(f, "failed")
    /\ UNCHANGED <<staging, cache, content, fd, off, sum, faults>>

\* The sha1 of the file, read again, is linked to the directory; a link that
\* exists is an error.
Link(f) ==
    /\ pc[f] = "link"
    /\ LET i == cache[sum[f]][File[f]] IN
          IF i # None /\ links[content[i]] = None
          THEN links' = [links EXCEPT ![content[i]] = sum[f]] /\ Goto(f, "ready")
          ELSE UNCHANGED links /\ Goto(f, "failed")
    /\ UNCHANGED <<staging, cache, content, fd, off, sum, faults>>

\* The build that needed the source is over, or is tried again.
Again(f) ==
    /\ pc[f] \in {"ready", "failed"}
    /\ Goto(f, "idle")
    /\ off' = [off EXCEPT ![f] = 0]
    /\ sum' = [sum EXCEPT ![f] = Empty]
    /\ UNCHANGED <<staging, cache, links, content, fd, faults>>

\* The connection breaks, a call fails, or the process ends: the staging file
\* stays as it is.
Break(f) ==
    /\ pc[f] \in {"open", "write", "verify", "sum", "rename", "link"}
    /\ Fault
    /\ fd' = [fd EXCEPT ![f] = None]
    /\ Goto(f, "failed")
    /\ UNCHANGED <<staging, cache, links, content, off, sum>>

\* solbuild delete-cache removes the directory of sources, file by file and
\* without a lock.
DeleteCache ==
    /\ Fault
    /\ \/ \E n \in Name : /\ staging[n] # None
                          /\ staging' = [staging EXCEPT ![n] = None]
                          /\ UNCHANGED <<cache, links>>
       \/ \E h \in Hash, n \in Name : /\ cache[h][n] # None
                                      /\ cache' = [cache EXCEPT ![h][n] = None]
                                      /\ UNCHANGED <<staging, links>>
       \/ \E h \in Hash : /\ links[h] # None
                          /\ links' = [links EXCEPT ![h] = None]
                          /\ UNCHANGED <<staging, cache>>
    /\ UNCHANGED <<content, pc, fd, off, sum>>

Step(f) ==
    \/ Begin(f) \/ Open(f) \/ Write(f) \/ Verify(f) \/ Sum(f) \/ Rename(f) \/ Link(f)

Next == DeleteCache \/ \E f \in Fetch : Step(f) \/ Again(f) \/ Break(f)

\* A fetch that was begun goes on; nothing makes anyone try again.
Spec == Init /\ [][Next]_vars /\ \A f \in Fetch : WF_vars(Step(f))

-----------------------------------------------------------------------------
(***************************************************************************)
(* Properties                                                              *)
(***************************************************************************)
\* "Source archives being stored in unique hash based directories": a file in
\* the cache has the hash of its directory, so that a source that is found
\* there without being fetched is the one the package names.
CacheAddressed ==
    \A h \in Hash, n \in Name : cache[h][n] # None => content[cache[h][n]] = h

\* What BindSources shows the build is what the package asked for: a source
\* IsFetched finds, by its sha256 or through the link of its sha1, has the
\* contents its validator names, whatever the URIs served and whoever fetched
\* it.
FetchedIsWanted ==
    \A f \in Fetch : IsFetched(f) =>
        LET dir == IF f \in Legacy THEN links[Validator(f)] ELSE Validator(f)
        IN  content[cache[dir][File[f]]] = Validator(f)

\* A source its URI serves as its validator says gets to the build, however
\* often fetches broke off, files were removed and links left over.
GoodSourceArrives ==
    \A f \in Fetch : Served[f] = Wanted[f] =>
        ([]<>(pc[f] = "open") => []<>(pc[f] = "ready"))
=============================================================================
