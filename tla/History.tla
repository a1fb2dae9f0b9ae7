------------------------------ MODULE History ------------------------------
(***************************************************************************)
(* The changelog of a package and the timestamp of its reproducible builds *)
(* (builder/history.go), from the git log of its package.yml.  Commits are *)
(* made between builds; a build scans the log in the order of a Go map,    *)
(* that is in any, keeps one commit for each release, sorts and cuts.      *)
(*                                                                         *)
(* A commit is a record: rel and ver, what its package.yml says; time, the *)
(* author's; ok, whether the file is there and parses.  Releases and times *)
(* need not grow with the log: branches are merged, commits are rebased.   *)
(***************************************************************************)
EXTENDS Naturals, Sequences, FiniteSets

CONSTANTS
    MaxRelease, \* bound on releases
    Version,    \* the versions of the package
    MaxTime,    \* bound on times
    MaxChangelogEntries,
    MaxCommits  \* bound on the length of the log

ASSUME HistoryAssumption ==
    /\ MaxRelease \in Nat \ {0} /\ MaxTime \in Nat \ {0} /\ MaxCommits \in Nat
    /\ MaxChangelogEntries \in Nat \ {0}

Release == 1..MaxRelease
Time == 1..MaxTime
Commit == [rel : Release, ver : Version, time : Time, ok : {TRUE}]
              \cup {[rel |-> 0, ver |-> "", time |-> 0, ok |-> FALSE]}

VARIABLES
    log,        \* the commits of gitLog
    pc,         \* "repo": between builds; "scan"; "stamp"; "done"; "failed"
    todo,       \* the commits scanUpdates has not looked at
    updateSet,  \* the commit kept for each release, a function
    updates,    \* p.Updates
    stamp,      \* what GetLastVersionTimestamp returned
    prev,       \* of the last build with a history: stamp, top release, version and
                \* the length the run of that version has grown to since
    bumps       \* whether all commits since that build were simple bumps

vars == <<log, pc, todo, updateSet, updates, stamp, prev, bumps>>

NoBuild == [stamp |-> 0, top |-> 0, ver |-> "", run |-> 0]

TypeOK ==
    /\ log \subseteq Commit /\ todo \subseteq log
    /\ pc \in {"repo", "scan", "stamp", "done", "failed"}
    /\ DOMAIN updateSet \subseteq Release
    /\ \A r \in DOMAIN updateSet : updateSet[r] \in log /\ updateSet[r].rel = r
    /\ Len(updates) <= MaxChangelogEntries
    /\ stamp \in 0..MaxTime
    /\ bumps \in BOOLEAN

Init ==
    /\ log = {}
    /\ pc = "repo"
    /\ todo = {}
    /\ updateSet = <<>>
    /\ updates = <<>>
    /\ stamp = 0
    /\ prev = NoBuild
    /\ bumps = FALSE

-----------------------------------------------------------------------------
\* A commit that touches the package, by anyone: a bump is one of a release
\* above all others with the version of the last build.
MakeCommit(c) ==
    /\ pc = "repo"
    /\ Cardinality(log) < MaxCommits
    /\ c \notin log
    /\ log' = log \cup {c}
    /\ LET bump == c.ok /\ c.rel > prev.top /\ c.ver = prev.ver
                       /\ \A d \in log : d.rel < c.rel
       IN  /\ bumps' = (bumps /\ bump)
           /\ prev' = IF bump THEN [prev EXCEPT !.run = @ + 1] ELSE prev
    /\ UNCHANGED <<pc, todo, updateSet, updates, stamp>>

\* NewPackageHistory: the log is read, and scanUpdates begins; or the git
\* command fails, or a commit of its output cannot be looked up, as with the
\* single empty line of a log without commits.
NewPackageHistory ==
    /\ pc = "repo"
    /\ \/ log # {} /\ pc' = "scan" /\ todo' = log
       \/ pc' = "failed" /\ todo' = todo
    /\ updateSet' = <<>>
    /\ UNCHANGED <<log, updates, stamp, prev, bumps>>

\* Mutant: the latest commit of a release is kept.
MutKeptLatest(c) ==
    IF c.rel \in DOMAIN updateSet /\ c.time < updateSet[c.rel].time THEN updateSet
    ELSE [r \in DOMAIN updateSet \cup {c.rel} |-> IF r = c.rel THEN c ELSE updateSet[r]]

\* The commit replaces what its release has, unless that is before it.
Kept(c) ==
    IF c.rel \in DOMAIN updateSet /\ updateSet[c.rel].time < c.time THEN updateSet
    ELSE [r \in DOMAIN updateSet \cup {c.rel} |-> IF r = c.rel THEN c ELSE updateSet[r]]

\* One round of the scan; a file that is missing or malformed is passed over.
ScanUpdate(c) ==
    /\ pc = "scan"
    /\ c \in todo
    /\ todo' = todo \ {c}
    /\ updateSet' = IF c.ok THEN Kept(c) ELSE updateSet
    /\ UNCHANGED <<log, pc, updates, stamp, prev, bumps>>

\* Mutant: the cut keeps one update more.
MutNewestOneMore(S) == {r \in S : Cardinality({s \in S : s > r}) <= MaxChangelogEntries}

\* The releases that stay when the list is sorted and cut.
Newest(S) == {r \in S : Cardinality({s \in S : s > r}) < MaxChangelogEntries}

\* The list of updates, newest release first, and its cut; no update is an
\* error of NewPackageHistory.
ListUpdates ==
    /\ pc = "scan"
    /\ todo = {}
    /\ LET T == Newest(DOMAIN updateSet)
       IN  updates' = [i \in 1..Cardinality(T) |->
               updateSet[CHOOSE r \in T : Cardinality({s \in T : s >= r}) = i]]
    /\ pc' = IF updateSet = <<>> THEN "failed" ELSE "stamp"
    /\ UNCHANGED <<log, todo, updateSet, stamp, prev, bumps>>

\* Mutant: the walk stops one update early.
MutRunLengthShort(l) ==
    CHOOSE n \in 1..Len(l) :
        /\ \A k \in 1..n : l[k].ver = l[1].ver
        /\ n >= Len(l) - 1 \/ l[n + 1].ver # l[1].ver

\* How many updates the walk from the newest passes before the version changes.
RunLength(l) ==
    CHOOSE n \in 1..Len(l) :
        /\ \A k \in 1..n : l[k].ver = l[1].ver
        /\ n = Len(l) \/ l[n + 1].ver # l[1].ver

GetLastVersionTimestamp ==
    /\ pc = "stamp"
    /\ stamp' = updates[RunLength(updates)].time
    /\ pc' = "done"
    /\ UNCHANGED <<log, todo, updateSet, updates, prev, bumps>>

\* Manager.Build returns.  A build without a history, of which SetPackage only
\* warns, is given no timestamp and says nothing of the builds around it.
BuildEnds ==
    /\ pc \in {"done", "failed"}
    /\ pc' = "repo"
    /\ updateSet' = <<>>
    /\ updates' = <<>>
    /\ prev' = IF pc = "failed" THEN prev
               ELSE [stamp |-> stamp, top |-> updates[1].rel, ver |-> updates[1].ver,
                     run |-> RunLength(updates)]
    /\ bumps' = (pc = "done" \/ bumps)
    /\ stamp' = 0
    /\ UNCHANGED <<log, todo>>

Next ==
    \/ \E c \in Commit : MakeCommit(c)
    \/ \E c \in todo : ScanUpdate(c)
    \/ NewPackageHistory \/ ListUpdates \/ GetLastVersionTimestamp \/ BuildEnds

Spec == Init /\ [][Next]_vars

-----------------------------------------------------------------------------
(***************************************************************************)
(* Properties                                                              *)
(***************************************************************************)
Good == {c \in log : c.ok}

\* No commit of the log leaves open what version its release is: commits of one
\* release at one time have one version.
Determined == \A c, d \in Good : c.rel = d.rel /\ c.time = d.time => c.ver = d.ver

\* Whatever order the map gives, the changelog has the newest releases of the
\* log, all of them up to the limit, in order, each with its earliest commit.
ChangelogIsRight ==
    pc = "stamp" =>
        LET shown == {updates[i].rel : i \in DOMAIN updates}
        IN  /\ \A i \in DOMAIN updates : \A c \in Good :
                  c.rel = updates[i].rel => updates[i].time <= c.time
            /\ \A i, j \in DOMAIN updates : i < j => updates[i].rel > updates[j].rel
            /\ \A c \in Good : c.rel \notin shown =>
                  Len(updates) = MaxChangelogEntries /\ \A r \in shown : r > c.rel

\* "calculated by using the timestamp from the last explicit version change, and
\* not from simple bumps": bumps between two builds leave the timestamp alone,
\* as long as the changelog is long enough to show the version change.
BumpsKeepTimestamp ==
    pc = "done" /\ bumps /\ Determined /\ prev.run <= MaxChangelogEntries
        => stamp = prev.stamp

\* The first commit of each release.
Earliest == {c \in Good : \A d \in Good : d.rel = c.rel => c.time <= d.time}

\* In terms of the log: the timestamp is that of the release from which on all
\* have the newest version, and the release before it has another one, unless
\* the changelog ends there.
TimestampIsVersionChange ==
    pc = "done" /\ Determined =>
        \E c \in Earliest :
            /\ c.time = stamp
            /\ \A e \in Earliest : e.rel >= c.rel => e.ver = c.ver
            /\ \/ c.rel = updates[Len(updates)].rel
               \/ \E d \in Earliest :
                     /\ d.rel < c.rel /\ d.ver # c.ver
                     /\ \A e \in Earliest : ~(d.rel < e.rel /\ e.rel < c.rel)
=============================================================================
