----------------------------- MODULE GitSource -----------------------------
(***************************************************************************)
(* A git source (builder/source/git.go): builds on one machine that use    *)
(* refs of one repository share the clone at ClonePath.  No lock is taken; *)
(* every step is one run of git in the shared directory, and a run that    *)
(* talks to the remote is two: the remote tells it its refs, and the clone *)
(* gets them later.  The clone is blobless: the files of a commit arrive   *)
(* when it is checked out.                                                 *)
(***************************************************************************)
EXTENDS Naturals

CONSTANTS
    Build,      \* the builds, each an index that may be reused
    Tag,        \* the tags of the repository
    MaxCommit,  \* bound on the commits upstream makes, numbered as they come
    MaxFaults   \* bound on failures, signals, moved tags and runs of delete-cache

ASSUME GitAssumption == MaxCommit \in Nat \ {0} /\ MaxFaults \in Nat

VARIABLES
    up,      \* the commit each tag names upstream
    dir,     \* the clone at ClonePath: 0 for none, else a number for each new one
    whole,   \* whether git clone is done with it
    wreck,   \* whether delete-cache is removing it, or has stopped half way
    refs,    \* the commit each tag names in the clone, 0 for an unknown tag
    head,    \* the commit that is checked out in it, 0 for none
    objs,    \* the commits whose files are in the clone
    sealed,  \* those in packs whose .promisor file only root can read yet
    index,   \* the build whose git has index.lock, or "nobody"
    pc,      \* where Fetch is, for each build
    tag,     \* the ref of each build
    heard,   \* what the remote told the build's git that each tag names, 0 for nothing
    got,     \* the commit each build has switched to
    on,      \* the clone the build's git runs in or has switched, 0 for none
    seen,    \* the commits upstream named, or had told a running git, see Fetch
    faults

clone == <<dir, whole, wreck, refs, head, objs, sealed, index>>
vars == <<up, clone, pc, tag, heard, got, on, seen, faults>>

PC == {"idle", "exists", "clone", "cloning", "filling", "fetch", "storing", "switch",
       "switching", "submodules", "permissions", "fetched", "bound"}
Commit == 1..MaxCommit
MaxClone == MaxFaults + 1
NoRefs == [t \in Tag |-> 0]

TypeOK ==
    /\ up \in [Tag -> Commit]
    /\ dir \in 0..MaxClone /\ whole \in BOOLEAN /\ wreck \in BOOLEAN
    /\ refs \in [Tag -> 0..MaxCommit] /\ head \in 0..MaxCommit
    /\ objs \subseteq Commit /\ sealed \subseteq objs
    /\ index \in Build \cup {"nobody"}
    /\ pc \in [Build -> PC]
    /\ tag \in [Build -> Tag]
    /\ heard \in [Build -> [Tag -> 0..MaxCommit]]
    /\ got \in [Build -> 0..MaxCommit]
    /\ on \in [Build -> 0..MaxClone]
    /\ seen \in [Build -> SUBSET Commit]
    /\ faults \in 0..MaxFaults

Init ==
    /\ up = [t \in Tag |-> 1]
    /\ dir = 0
    /\ whole = FALSE
    /\ wreck = FALSE
    /\ refs = NoRefs
    /\ head = 0
    /\ objs = {}
    /\ sealed = {}
    /\ index = "nobody"
    /\ pc = [b \in Build |-> "idle"]
    /\ tag \in [Build -> Tag]
    /\ heard = [b \in Build |-> NoRefs]
    /\ got = [b \in Build |-> 0]
    /\ on = [b \in Build |-> 0]
    /\ seen = [b \in Build |-> {}]
    /\ faults = 0

-----------------------------------------------------------------------------
Goto(b, l) == pc' = [pc EXCEPT ![b] = l]
Fault == faults < MaxFaults /\ faults' = faults + 1

\* The build's git remembers what the remote told it, until it ends.
Hears(b, r) == heard' = [heard EXCEPT ![b] = r]

\* Git fails at once: Fetch returns the error and the build ends.
Refused(b) == Goto(b, "idle") /\ Hears(b, NoRefs) /\ UNCHANGED <<clone, got, faults>>

\* Git fails by itself or by a signal.
Broken(b) == Fault /\ Goto(b, "idle") /\ Hears(b, NoRefs) /\ UNCHANGED got

\* There is no clone, or one that is half made or half removed, which may do
\* for git or may not.
Unfit == dir = 0 \/ ~whole \/ wreck

\* The directory is gone, and what git kept in it.
NoClone ==
    /\ dir' = 0 /\ whole' = FALSE /\ wreck' = FALSE
    /\ refs' = NoRefs /\ head' = 0
    /\ objs' = {} /\ sealed' = {} /\ index' = "nobody"

\* The files of the build's commit that are missing are fetched, into a pack
\* of mode 600.
Fill(b) ==
    /\ objs' = objs \cup {got[b]}
    /\ sealed' = IF got[b] \in objs THEN sealed ELSE sealed \cup {got[b]}

-----------------------------------------------------------------------------
(***************************************************************************)
(* Fetch, which IsFetched makes every build run                            *)
(***************************************************************************)
\* From here on the build may get what its tag names upstream.  It may also get
\* what the remote has told a git of another build, which has yet to store it.
Fetch(b) ==
    /\ pc[b] \in {"idle", "bound"}
    /\ Goto(b, "exists")
    /\ on' = [on EXCEPT ![b] = 0]
    /\ got' = [got EXCEPT ![b] = 0]
    /\ seen' = [seen EXCEPT ![b] =
                   ({up[tag[b]]} \cup {heard[c][tag[b]] : c \in Build}) \ {0}]
    /\ UNCHANGED <<up, clone, tag, heard, faults>>

\* Mutant: the test for the clone is dropped.
MutFindCloneAlwaysClones(b) ==
    /\ pc[b] = "exists"
    /\ Goto(b, "clone")
    /\ UNCHANGED <<up, clone, tag, heard, got, on, seen, faults>>

\* PathExists(ClonePath), of a clone that another build may still be making.
FindClone(b) ==
    /\ pc[b] = "exists"
    /\ Goto(b, IF dir = 0 THEN "clone" ELSE "fetch")
    /\ UNCHANGED <<up, clone, tag, heard, got, on, seen, faults>>

\* git clone refuses a directory that is there.  The number of a new clone is
\* one that no build remembers.
CloneStarts(b) ==
    /\ pc[b] = "clone"
    /\ \/ dir # 0 /\ Refused(b) /\ UNCHANGED on
       \/ /\ dir = 0
          /\ \E n \in 1..MaxClone :
                /\ \A c \in Build : on[c] # n
                /\ dir' = n
                /\ on' = [on EXCEPT ![b] = n]
          /\ Goto(b, "cloning")
          /\ UNCHANGED <<whole, wreck, refs, head, objs, sealed, index, heard, got, faults>>
    /\ UNCHANGED <<up, tag, seen>>

\* A clone that fails removes the directory, whosever it is by now.
CloneFails(b) ==
    /\ pc[b] \in {"cloning", "filling"}
    /\ \/ dir # on[b] /\ Refused(b)
       \/ Broken(b) /\ NoClone
    /\ UNCHANGED <<up, tag, on, seen>>

\* The remote tells git clone its refs.
CloneHears(b) ==
    /\ pc[b] = "cloning"
    /\ dir = on[b]
    /\ Hears(b, up)
    /\ Goto(b, "filling")
    /\ UNCHANGED <<up, clone, tag, got, on, seen, faults>>

CloneEnds(b) ==
    /\ pc[b] = "filling"
    /\ dir = on[b]
    /\ whole' = TRUE
    /\ refs' = heard[b]
    /\ Hears(b, NoRefs)
    /\ Goto(b, "switch")
    /\ UNCHANGED <<up, dir, wreck, head, objs, sealed, index, tag, got, on, seen, faults>>

\* updateRefs: git fetch, run in the directory that is there; the remote tells
\* it its refs.
UpdateRefs(b) ==
    /\ pc[b] = "fetch"
    /\ \/ /\ dir # 0
          /\ on' = [on EXCEPT ![b] = dir]
          /\ Hears(b, up)
          /\ Goto(b, "storing")
          /\ UNCHANGED <<clone, got, faults>>
       \/ Unfit /\ Refused(b) /\ UNCHANGED on
       \/ Broken(b) /\ UNCHANGED <<clone, on>>
    /\ UNCHANGED <<up, tag, seen>>

\* Mutant: git fetch --tags without --force leaves the tags it has.
MutStoreRefsNoForce(b) ==
    /\ pc[b] = "storing"
    /\ \/ /\ dir = on[b]
          /\ refs' = [t \in Tag |-> IF refs[t] = 0 THEN heard[b][t] ELSE refs[t]]
          /\ Hears(b, NoRefs)
          /\ Goto(b, "switch")
          /\ UNCHANGED <<dir, whole, wreck, head, objs, sealed, index, got, faults>>
       \/ (dir # on[b] \/ Unfit) /\ Refused(b)
       \/ Broken(b) /\ UNCHANGED clone
    /\ UNCHANGED <<up, tag, on, seen>>

\* --tags --force: what the remote told this git replaces what the clone has,
\* even where a git that asked later has stored its answer before.
StoreRefs(b) ==
    /\ pc[b] = "storing"
    /\ \/ /\ dir = on[b]
          /\ refs' = heard[b]
          /\ Hears(b, NoRefs)
          /\ Goto(b, "switch")
          /\ UNCHANGED <<dir, whole, wreck, head, objs, sealed, index, got, faults>>
       \/ (dir # on[b] \/ Unfit) /\ Refused(b)
       \/ Broken(b) /\ UNCHANGED clone
    /\ UNCHANGED <<up, tag, on, seen>>

\* Mutant: the error of switchRef is dropped where another git has the index.
MutSwitchRefGoesOn(b) ==
    /\ pc[b] = "switch"
    /\ \/ /\ dir # 0 /\ refs[tag[b]] # 0
          /\ index' = IF index = "nobody" THEN b ELSE index
          /\ got' = [got EXCEPT ![b] = refs[tag[b]]]
          /\ on' = [on EXCEPT ![b] = dir]
          /\ Goto(b, IF index = "nobody" THEN "switching" ELSE "submodules")
          /\ UNCHANGED <<dir, whole, wreck, refs, head, objs, sealed, heard, faults>>
       \/ (Unfit \/ refs[tag[b]] = 0) /\ Refused(b) /\ UNCHANGED on
    /\ UNCHANGED <<up, tag, seen>>

\* switchRef: git switch takes index.lock, or fails where another git has it;
\* it resolves the ref.
SwitchRef(b) ==
    /\ pc[b] = "switch"
    /\ \/ /\ dir # 0 /\ index = "nobody" /\ refs[tag[b]] # 0
          /\ index' = b
          /\ got' = [got EXCEPT ![b] = refs[tag[b]]]
          /\ on' = [on EXCEPT ![b] = dir]
          /\ Goto(b, "switching")
          /\ UNCHANGED <<dir, whole, wreck, refs, head, objs, sealed, heard, faults>>
       \/ (Unfit \/ index # "nobody" \/ refs[tag[b]] = 0) /\ Refused(b) /\ UNCHANGED on
    /\ UNCHANGED <<up, tag, seen>>

\* The work tree and HEAD are those of the commit.
SwitchEnds(b) ==
    /\ pc[b] = "switching"
    /\ \/ /\ index = b
          /\ Fill(b)
          /\ head' = got[b]
          /\ index' = "nobody"
          /\ Goto(b, "submodules")
          /\ UNCHANGED <<dir, whole, wreck, refs, heard, got, faults>>
       \/ index # b /\ Refused(b)
    /\ UNCHANGED <<up, tag, on, seen>>

\* A git that fails removes its index.lock; the files may have come before.
SwitchBreaks(b) ==
    /\ pc[b] = "switching"
    /\ Broken(b)
    /\ index' = IF index = b THEN "nobody" ELSE index
    /\ \/ UNCHANGED <<objs, sealed>>
       \/ index = b /\ Fill(b)
    /\ UNCHANGED <<up, dir, whole, wreck, refs, head, tag, on, seen>>

\* submodules, of whatever is checked out by now.
Submodules(b) ==
    /\ pc[b] = "submodules"
    /\ \/ dir # 0 /\ Goto(b, "permissions") /\ UNCHANGED <<clone, heard, got, faults>>
       \/ Unfit /\ Refused(b)
       \/ Broken(b) /\ UNCHANGED clone
    /\ UNCHANGED <<up, tag, on, seen>>

\* fixPermissions opens all packs, or fails after some.
FixPermissions(b) ==
    /\ pc[b] = "permissions"
    /\ \/ /\ dir # 0
          /\ sealed' = {}
          /\ Goto(b, "fetched")
          /\ UNCHANGED <<dir, whole, wreck, refs, head, objs, index, heard, got, faults>>
       \/ Unfit /\ Refused(b)
       \/ /\ Broken(b)
          /\ sealed' \in SUBSET sealed
          /\ UNCHANGED <<dir, whole, wreck, refs, head, objs, index>>
    /\ UNCHANGED <<up, tag, on, seen>>

\* BindSources: what is at ClonePath by now is bound into the root.
Bind(b) ==
    /\ pc[b] = "fetched"
    /\ \/ dir # 0 /\ Goto(b, "bound") /\ UNCHANGED <<clone, heard, got, faults>>
       \/ dir = 0 /\ Refused(b)
    /\ UNCHANGED <<up, tag, on, seen>>

-----------------------------------------------------------------------------
\* Upstream moves a tag to a commit it has or makes.
MoveTag(t, c) ==
    /\ Fault
    /\ c # up[t]
    /\ up' = [up EXCEPT ![t] = c]
    /\ seen' = [b \in Build |-> IF tag[b] = t /\ pc[b] \notin {"idle", "fetched", "bound"}
                                THEN seen[b] \cup {c} ELSE seen[b]]
    /\ UNCHANGED <<clone, pc, tag, heard, got, on>>

\* Mutant: the walk reports the .promisor files as there after their packs went.
MutDeleteFilesSealed ==
    /\ Fault
    /\ dir # 0 /\ ~wreck
    /\ wreck' = TRUE
    /\ objs' = {}
    /\ refs' \in {refs, NoRefs}
    /\ index' \in {index, "nobody"}
    /\ UNCHANGED <<up, dir, whole, head, sealed, pc, tag, heard, got, on, seen>>

\* deleteDir, for delete-cache -a, removes the files of the sources one by one,
\* bound or not, and goes on whatever error it meets.
DeleteFiles ==
    /\ Fault
    /\ dir # 0 /\ ~wreck
    /\ wreck' = TRUE
    /\ objs' = {} /\ sealed' = {}
    /\ refs' \in {refs, NoRefs}
    /\ index' \in {index, "nobody"}
    /\ UNCHANGED <<up, dir, whole, head, pc, tag, heard, got, on, seen>>

\* RemoveAll takes the rest.  Where it fails there is only a warning, and what
\* is left of the clone stays.
DeleteDir ==
    /\ wreck
    /\ NoClone
    /\ UNCHANGED <<up, pc, tag, heard, got, on, seen, faults>>

Step(b) ==
    \/ FindClone(b) \/ CloneStarts(b) \/ CloneHears(b) \/ CloneEnds(b) \/ CloneFails(b)
    \/ UpdateRefs(b) \/ StoreRefs(b) \/ SwitchRef(b) \/ SwitchEnds(b)
    \/ Submodules(b) \/ FixPermissions(b) \/ Bind(b)

Next ==
    \/ \E b \in Build : Fetch(b) \/ Step(b) \/ SwitchBreaks(b)
    \/ \E t \in Tag, c \in Commit : MoveTag(t, c)
    \/ DeleteFiles \/ DeleteDir

\* A git that runs comes to its end; nobody has to start a build.
Spec == Init /\ [][Next]_vars /\ \A b \in Build : WF_vars(Step(b))

-----------------------------------------------------------------------------
(***************************************************************************)
(* Properties                                                              *)
(***************************************************************************)
\* "Force overwrite any refs locally (such as when upstream moves a tag)": a
\* build switches to a commit that its tag named upstream since its own Fetch
\* began, or that the remote had told another build's git fetch or git clone
\* which was still under way then; never to what an old clone happened to have.
TagIsFresh == \A b \in Build : pc[b] = "bound" => got[b] \in seen[b]

\* A build that runs without the network finds the files of its commit in the
\* clone it has bound, and can read them as the build user, whatever other
\* builds switch the clone to, if it still is the clone the build switched and
\* delete-cache has not begun to remove it.  What is checked out there is a whole
\* commit too, though it may be that of a build that switched after.
FilesReadable ==
    \A b \in Build : pc[b] = "bound" /\ on[b] = dir /\ ~wreck =>
        got[b] \in objs \ sealed /\ head \in objs

\* Builds that refuse each other's index.lock, fall over half a clone and lose
\* the directory to a clone that failed: some build gets through, again and
\* again, as long as builds are started, if delete-cache leaves no wreck behind.
SomeoneGetsThrough ==
    []<>(\E b \in Build : pc[b] = "exists") /\ <>[]~wreck
        => []<>(\E b \in Build : pc[b] = "bound")
=============================================================================
