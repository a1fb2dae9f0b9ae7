-------------------------- MODULE GitSourceProofs --------------------------
(***************************************************************************)
(* What holds of GitSource for any number of builds, tags and commits,     *)
(* whatever git runs fail, tags move and clones are removed.               *)
(***************************************************************************)
EXTENDS GitSource, TLAPS

\* Fetch is under way; the build has switched the clone; its files are there;
\* its packs are open.
Fetching == PC \ {"idle", "fetched", "bound"}
Switched == {"switching", "submodules", "permissions", "fetched", "bound"}
Filled == Switched \ {"switching"}
Opened == {"fetched", "bound"}

\* What upstream has now is among what a Fetch under way has seen, ...
UpSeen == \A b \in Build : pc[b] \in Fetching => up[tag[b]] \in seen[b]
\* ... so is what the remote has told a git that is to store it yet, ...
HeardSeen ==
    \A b, c \in Build : pc[b] \in Fetching => heard[c][tag[b]] \in seen[b] \cup {0}
\* ... so is what the clone has once it was made or updated, by whomever, ...
RefsSeen == \A b \in Build : pc[b] = "switch" => refs[tag[b]] \in seen[b] \cup {0}
\* ... and so is the commit that was checked out.
GotSeen == \A b \in Build : pc[b] \in Switched => got[b] \in seen[b]

\* A build has switched a clone, ...
OnClone == \A b \in Build : pc[b] \in Switched => on[b] # 0
\* ... which has the files of its commit, and of what is checked out, until it
\* is removed, ...
FilesThere ==
    \A b \in Build : pc[b] \in Filled /\ on[b] = dir /\ ~wreck =>
        got[b] \in objs /\ head \in objs
\* ... and which nobody can seal again once they were opened.
FilesOpen ==
    \A b \in Build : pc[b] \in Opened /\ on[b] = dir /\ ~wreck => got[b] \notin sealed

\* The inductive invariant.  TagIsFresh and FilesReadable speak of a build that
\* is done; what keeps them true are the steps of the others before it is.
Freshness == UpSeen /\ HeardSeen /\ RefsSeen /\ GotSeen
Files == OnClone /\ FilesThere /\ FilesOpen
IndInv == TypeOK /\ Freshness /\ Files

-----------------------------------------------------------------------------
\* IndInv holds at the start.
LEMMA InitIndInv == Init => IndInv
<1> SUFFICES ASSUME Init PROVE IndInv
  OBVIOUS
<1>1. TypeOK
  <2>1. whole \in BOOLEAN /\ wreck \in BOOLEAN
    BY DEF Init
  <2>2. up \in [Tag -> Commit] /\ dir \in 0..MaxClone
    BY GitAssumption DEF Init, Commit, MaxClone
  <2>3. on \in [Build -> 0..MaxClone] /\ seen \in [Build -> SUBSET Commit]
    BY GitAssumption DEF Init, MaxClone
  <2>4. NoRefs \in [Tag -> 0..MaxCommit]
    BY GitAssumption DEF NoRefs
  <2> QED
    BY <2>1, <2>2, <2>3, <2>4, GitAssumption DEF Init, TypeOK, PC
<1>2. Freshness /\ Files
  BY DEF Init, Freshness, Files, UpSeen, HeardSeen, RefsSeen, GotSeen, OnClone, FilesThere, FilesOpen,
         Fetching, Switched, Filled, Opened
<1> QED BY <1>1, <1>2 DEF IndInv

\* Every action keeps the types.
LEMMA TypeStep == TypeOK /\ GotSeen /\ [Next]_vars => TypeOK'
<1> SUFFICES ASSUME TypeOK, GotSeen, [Next]_vars PROVE TypeOK'
  OBVIOUS
<1> USE GitAssumption DEF TypeOK, Goto, Refused, Broken, Fault, clone, PC, Hears
<1>0. MaxClone \in Nat /\ 0 \in 0..MaxClone
  BY DEF MaxClone
<1>01. NoRefs \in [Tag -> 0..MaxCommit] /\ up \in [Tag -> 0..MaxCommit]
  BY DEF NoRefs, Commit
<1>00. ASSUME NoClone
       PROVE  /\ dir' \in 0..MaxClone /\ whole' \in BOOLEAN /\ wreck' \in BOOLEAN
              /\ refs' \in [Tag -> 0..MaxCommit] /\ head' \in 0..MaxCommit
              /\ objs' \subseteq Commit /\ sealed' \subseteq objs'
              /\ index' \in Build \cup {"nobody"}
  <2>1. whole' \in BOOLEAN /\ wreck' \in BOOLEAN
    BY <1>00 DEF NoClone
  <2> QED BY <1>0, <1>00, <1>01, <2>1 DEF NoClone
\* A git that is refused, or breaks off and leaves the clone as it was.
<1>02. ASSUME NEW b \in Build, Refused(b) \/ (Broken(b) /\ UNCHANGED clone),
              UNCHANGED <<up, tag, on, seen>>
       PROVE  TypeOK'
  <2>1. heard' \in [Build -> [Tag -> 0..MaxCommit]] /\ pc' \in [Build -> PC]
    BY <1>01, <1>02
  <2>2. faults' \in 0..MaxFaults
    BY <1>02
  <2> QED BY <1>02, <2>1, <2>2
<1>1. ASSUME NEW b \in Build, Fetch(b) PROVE TypeOK'
  <2>1. ({up[tag[b]]} \cup {heard[c][tag[b]] : c \in Build}) \ {0} \in SUBSET Commit
    BY DEF Commit
  <2>2. seen' \in [Build -> SUBSET Commit]
    BY <1>1, <2>1 DEF Fetch
  <2> QED BY <1>0, <1>1, <2>2 DEF Fetch
<1>2. ASSUME NEW b \in Build, FindClone(b) PROVE TypeOK'
  BY <1>2 DEF FindClone
<1>3. ASSUME NEW b \in Build, CloneStarts(b) PROVE TypeOK'
  <2>1. CASE dir # 0
    BY <1>01, <1>3, <2>1 DEF CloneStarts
  <2>2. CASE dir = 0
    <3>1. PICK n \in 1..MaxClone : dir' = n /\ on' = [on EXCEPT ![b] = n]
      BY <1>3, <2>2 DEF CloneStarts
    <3>2. n \in 0..MaxClone
      BY <1>0
    <3>3. on' \in [Build -> 0..MaxClone]
      BY <3>1, <3>2
    <3> QED BY <1>3, <2>2, <3>1, <3>2, <3>3 DEF CloneStarts
  <2> QED BY <2>1, <2>2
<1>4. ASSUME NEW b \in Build, CloneHears(b) PROVE TypeOK'
  BY <1>01, <1>4 DEF CloneHears
<1>15. ASSUME NEW b \in Build, CloneEnds(b) PROVE TypeOK'
  <2>1. whole' \in BOOLEAN
    BY <1>15 DEF CloneEnds
  <2> QED BY <1>01, <1>15, <2>1 DEF CloneEnds
<1>16. ASSUME NEW b \in Build, CloneFails(b) PROVE TypeOK'
  <2>1. CASE Refused(b)
    BY <1>01, <1>16, <2>1 DEF CloneFails
  <2>2. CASE Broken(b) /\ NoClone
    BY <1>00, <1>01, <1>16, <2>2 DEF CloneFails
  <2> QED BY <1>16, <2>1, <2>2 DEF CloneFails
<1>5. ASSUME NEW b \in Build, UpdateRefs(b) PROVE TypeOK'
  <2>1. CASE pc' = [pc EXCEPT ![b] = "storing"]
    BY <1>01, <1>5, <2>1 DEF UpdateRefs
  <2>2. CASE Refused(b) \/ (Broken(b) /\ UNCHANGED clone)
    BY <1>02, <1>5, <2>2 DEF UpdateRefs
  <2> QED BY <1>5, <2>1, <2>2 DEF UpdateRefs
<1>17. ASSUME NEW b \in Build, StoreRefs(b) PROVE TypeOK'
  <2>1. CASE refs' = heard[b] /\ heard' = [heard EXCEPT ![b] = NoRefs]
             /\ pc' = [pc EXCEPT ![b] = "switch"]
             /\ UNCHANGED <<dir, whole, wreck, head, objs, sealed, index, got, faults>>
    BY <1>01, <1>17, <2>1 DEF StoreRefs
  <2>2. CASE Refused(b) \/ (Broken(b) /\ UNCHANGED clone)
    BY <1>02, <1>17, <2>2 DEF StoreRefs
  <2> QED BY <1>17, <2>1, <2>2 DEF StoreRefs
<1>6. ASSUME NEW b \in Build, SwitchRef(b) PROVE TypeOK'
  <2>1. CASE pc' = [pc EXCEPT ![b] = "switching"]
    BY <1>01, <1>6, <2>1 DEF SwitchRef
  <2>2. CASE Refused(b) /\ UNCHANGED on
    BY <1>02, <1>6, <2>2 DEF SwitchRef
  <2> QED BY <1>6, <2>1, <2>2 DEF SwitchRef
<1>7. ASSUME NEW b \in Build, SwitchEnds(b) PROVE TypeOK'
  <2>1. got[b] \in Commit
    BY <1>7 DEF SwitchEnds, GotSeen, Switched
  <2>2. got[b] \in 0..MaxCommit
    OBVIOUS
  <2> QED BY <1>01, <1>7, <2>1, <2>2 DEF SwitchEnds, Fill
<1>8. ASSUME NEW b \in Build, SwitchBreaks(b) PROVE TypeOK'
  <2>1. got[b] \in Commit
    BY <1>8 DEF SwitchBreaks, GotSeen, Switched
  <2>2. objs' \subseteq Commit /\ sealed' \subseteq objs'
    BY <1>8, <2>1 DEF SwitchBreaks, Fill
  <2> QED BY <1>01, <1>8, <2>2 DEF SwitchBreaks
<1>9. ASSUME NEW b \in Build, Submodules(b) PROVE TypeOK'
  <2>1. CASE pc' = [pc EXCEPT ![b] = "permissions"] /\ UNCHANGED <<clone, heard, got, faults>>
    BY <1>9, <2>1 DEF Submodules
  <2>2. CASE Refused(b) \/ (Broken(b) /\ UNCHANGED clone)
    BY <1>02, <1>9, <2>2 DEF Submodules
  <2> QED BY <1>9, <2>1, <2>2 DEF Submodules
<1>10. ASSUME NEW b \in Build, FixPermissions(b) PROVE TypeOK'
  <2>1. sealed' \subseteq sealed /\ UNCHANGED <<up, dir, whole, wreck, refs, head, objs, index>>
    BY <1>10 DEF FixPermissions
  <2>2. UNCHANGED <<tag, got, on, seen>>
    BY <1>10 DEF FixPermissions
  <2>3. heard' \in [Build -> [Tag -> 0..MaxCommit]] /\ pc' \in [Build -> PC]
    BY <1>01, <1>10 DEF FixPermissions
  <2>4. faults' \in 0..MaxFaults
    BY <1>10 DEF FixPermissions
  <2> QED BY <2>1, <2>2, <2>3, <2>4
<1>11. ASSUME NEW b \in Build, Bind(b) PROVE TypeOK'
  BY <1>01, <1>11 DEF Bind
<1>12. ASSUME NEW t \in Tag, NEW c \in Commit, MoveTag(t, c) PROVE TypeOK'
  <2>1. up' \in [Tag -> Commit]
    BY <1>12 DEF MoveTag
  <2>2. seen' \in [Build -> SUBSET Commit]
    BY <1>12 DEF MoveTag
  <2> QED BY <1>12, <2>1, <2>2 DEF MoveTag
<1>13. ASSUME DeleteDir PROVE TypeOK'
  BY <1>00, <1>13 DEF DeleteDir
<1>18. ASSUME DeleteFiles PROVE TypeOK'
  <2>1. wreck' \in BOOLEAN
    BY <1>18 DEF DeleteFiles
  <2> QED BY <1>01, <1>18, <2>1 DEF DeleteFiles
<1>14. ASSUME UNCHANGED vars PROVE TypeOK'
  BY <1>14 DEF vars
<1> QED
  BY <1>1, <1>2, <1>3, <1>4, <1>5, <1>6, <1>7, <1>8, <1>9, <1>10, <1>11, <1>12, <1>13, <1>14,
     <1>15, <1>16, <1>17, <1>18
  DEF Next, Step

-----------------------------------------------------------------------------
\* Every action keeps what a build has, or will switch to, among what it has
\* seen.
LEMMA FreshnessStep == TypeOK /\ Freshness /\ [Next]_vars => Freshness'
<1> SUFFICES ASSUME TypeOK, Freshness, [Next]_vars PROVE Freshness'
  OBVIOUS
<1>0. /\ up \in [Tag -> Commit]
      /\ refs \in [Tag -> 0..MaxCommit]
      /\ pc \in [Build -> PC]
      /\ tag \in [Build -> Tag]
      /\ heard \in [Build -> [Tag -> 0..MaxCommit]]
      /\ got \in [Build -> 0..MaxCommit]
      /\ seen \in [Build -> SUBSET Commit]
      /\ Freshness
  BY DEF TypeOK
<1> USE DEF Freshness, UpSeen, HeardSeen, RefsSeen, GotSeen, Fetching, Switched, PC
\* A build that ends, whatever becomes of the clone.
<1>1. ASSUME NEW b \in Build, pc' = [pc EXCEPT ![b] = "idle"],
             heard' = [heard EXCEPT ![b] = NoRefs],
             UNCHANGED <<up, tag, got, seen>>, refs' = refs \/ NoClone
      PROVE  Freshness'
  <2>1. \A t \in Tag : refs'[t] \in {refs[t], 0}
    BY <1>0, <1>1 DEF NoClone, NoRefs
  <2>2. \A c \in Build : \A t \in Tag : heard'[c][t] \in {heard[c][t], 0}
    BY <1>0, <1>1 DEF NoRefs
  <2>3. UpSeen' /\ RefsSeen' /\ GotSeen'
    BY <1>0, <1>1, <2>1
  <2>4. HeardSeen'
    BY <1>0, <1>1, <2>2
  <2> QED BY <2>3, <2>4
<1>2. ASSUME NEW b \in Build, Fetch(b) PROVE Freshness'
  <2>1. /\ pc' = [pc EXCEPT ![b] = "exists"]
        /\ got' = [got EXCEPT ![b] = 0]
        /\ UNCHANGED <<up, refs, tag, heard>>
    BY <1>2 DEF Fetch, Goto, clone
  <2>2. /\ \A c \in Build : c # b => seen'[c] = seen[c]
        /\ up[tag[b]] \in seen'[b]
        /\ \A c \in Build : heard[c][tag[b]] \in seen'[b] \cup {0}
    <3>1. up[tag[b]] # 0
      BY <1>0, GitAssumption DEF Commit
    <3> QED BY <1>0, <1>2, <3>1 DEF Fetch
  <2> QED BY <1>0, <2>1, <2>2
<1>3. ASSUME NEW b \in Build, FindClone(b) PROVE Freshness'
  <2>1. pc[b] = "exists" /\ UNCHANGED <<up, refs, tag, heard, got, seen>>
    BY <1>3 DEF FindClone, clone
  <2>2. \E l \in {"clone", "fetch"} : pc' = [pc EXCEPT ![b] = l]
    BY <1>3 DEF FindClone, Goto
  <2> QED BY <1>0, <2>1, <2>2
<1>4. ASSUME NEW b \in Build, CloneStarts(b) PROVE Freshness'
  <2>1. pc[b] = "clone" /\ UNCHANGED <<up, refs, tag, got, seen>>
    BY <1>4 DEF CloneStarts, Refused, clone
  <2>2. CASE Refused(b)
    BY <1>1, <2>1, <2>2 DEF Refused, Goto, Hears
  <2>3. CASE pc' = [pc EXCEPT ![b] = "cloning"] /\ UNCHANGED heard
    BY <1>0, <2>1, <2>3
  <2> QED BY <1>4, <2>2, <2>3 DEF CloneStarts, Goto
\* The remote tells what it has now, which every Fetch under way has seen.
<1>5. ASSUME NEW b \in Build, NEW l \in {"filling", "storing"},
             pc[b] \in {"cloning", "fetch"}, heard' = [heard EXCEPT ![b] = up],
             pc' = [pc EXCEPT ![b] = l], UNCHANGED <<up, refs, tag, got, seen>>
      PROVE  Freshness'
  <2>1. \A c \in Build : \A t \in Tag : heard'[c][t] \in {heard[c][t], up[t]}
    BY <1>0, <1>5
  <2>2. \A c \in Build : pc'[c] \in Fetching => pc[c] \in Fetching
    BY <1>0, <1>5
  <2>3. HeardSeen'
    BY <1>0, <1>5, <2>1, <2>2
  <2>4. UpSeen' /\ RefsSeen' /\ GotSeen'
    BY <1>0, <1>5
  <2> QED BY <2>3, <2>4
\* The clone gets what a git was told: whoever finds it, it has seen that.
<1>6. ASSUME NEW b \in Build, pc[b] \in {"filling", "storing"}, refs' = heard[b],
             heard' = [heard EXCEPT ![b] = NoRefs],
             pc' = [pc EXCEPT ![b] = "switch"], UNCHANGED <<up, tag, got, seen>>
      PROVE  Freshness'
  <2>1. \A c \in Build : \A t \in Tag : heard'[c][t] \in {heard[c][t], 0}
    BY <1>0, <1>6 DEF NoRefs
  <2>2. \A c \in Build : pc'[c] \in Fetching => pc[c] \in Fetching
    BY <1>0, <1>6
  <2>3. HeardSeen'
    BY <1>0, <1>6, <2>1, <2>2
  <2>4. RefsSeen'
    BY <1>0, <1>6, <2>2
  <2>5. UpSeen' /\ GotSeen'
    BY <1>0, <1>6
  <2> QED BY <2>3, <2>4, <2>5
<1>7. ASSUME NEW b \in Build, CloneHears(b) PROVE Freshness'
  BY <1>5, <1>7 DEF CloneHears, Goto, Hears, clone
<1>14. ASSUME NEW b \in Build, CloneEnds(b) PROVE Freshness'
  BY <1>6, <1>14 DEF CloneEnds, Goto, Hears
<1>15. ASSUME NEW b \in Build, CloneFails(b) PROVE Freshness'
  BY <1>1, <1>15 DEF CloneFails, Refused, Broken, Goto, Hears, clone
<1>16. ASSUME NEW b \in Build, UpdateRefs(b) PROVE Freshness'
  BY <1>1, <1>5, <1>16 DEF UpdateRefs, Refused, Broken, Goto, Hears, clone
<1>17. ASSUME NEW b \in Build, StoreRefs(b) PROVE Freshness'
  BY <1>1, <1>6, <1>17 DEF StoreRefs, Refused, Broken, Goto, Hears, clone
<1>8. ASSUME NEW b \in Build, SwitchRef(b) PROVE Freshness'
  <2>1. pc[b] = "switch" /\ UNCHANGED <<up, refs, tag, seen>>
    BY <1>8 DEF SwitchRef, Refused, clone
  <2>2. CASE Refused(b)
    BY <1>1, <2>1, <2>2 DEF Refused, Goto, Hears
  <2>3. CASE /\ refs[tag[b]] # 0
             /\ got' = [got EXCEPT ![b] = refs[tag[b]]]
             /\ pc' = [pc EXCEPT ![b] = "switching"]
             /\ UNCHANGED heard
    BY <1>0, <2>1, <2>3
  <2> QED BY <1>8, <2>2, <2>3 DEF SwitchRef, Goto
<1>9. ASSUME NEW b \in Build,
             SwitchEnds(b) \/ Submodules(b) \/ FixPermissions(b) \/ Bind(b)
      PROVE  Freshness'
  <2>1. UNCHANGED <<up, refs, tag, got, seen>>
    BY <1>9 DEF SwitchEnds, Submodules, FixPermissions, Bind, Refused, Broken, clone
  <2>2. \/ pc' = [pc EXCEPT ![b] = "idle"] /\ heard' = [heard EXCEPT ![b] = NoRefs]
        \/ /\ UNCHANGED heard
           /\ \/ pc[b] = "switching" /\ pc' = [pc EXCEPT ![b] = "submodules"]
              \/ pc[b] = "submodules" /\ pc' = [pc EXCEPT ![b] = "permissions"]
              \/ pc[b] = "permissions" /\ pc' = [pc EXCEPT ![b] = "fetched"]
              \/ pc[b] = "fetched" /\ pc' = [pc EXCEPT ![b] = "bound"]
    BY <1>9 DEF SwitchEnds, Submodules, FixPermissions, Bind, Refused, Broken, Goto, Hears
  <2>3. CASE UNCHANGED heard
    BY <1>0, <2>1, <2>2, <2>3
  <2> QED BY <1>1, <2>1, <2>2, <2>3
<1>10. ASSUME NEW b \in Build, SwitchBreaks(b) PROVE Freshness'
  BY <1>1, <1>10 DEF SwitchBreaks, Broken, Goto, Hears
<1>11. ASSUME NEW t \in Tag, NEW c \in Commit, MoveTag(t, c) PROVE Freshness'
  <2>1. /\ up' = [up EXCEPT ![t] = c]
        /\ UNCHANGED <<refs, pc, tag, heard, got>>
    BY <1>11 DEF MoveTag, clone
  <2>2. \A b \in Build :
           /\ seen[b] \subseteq seen'[b]
           /\ tag[b] = t /\ pc[b] \in Fetching => c \in seen'[b]
    BY <1>0, <1>11 DEF MoveTag
  <2>3. UpSeen' /\ RefsSeen' /\ GotSeen'
    BY <1>0, <2>1, <2>2
  <2>4. HeardSeen'
    BY <1>0, <2>1, <2>2
  <2> QED BY <2>3, <2>4
<1>12. ASSUME DeleteFiles \/ DeleteDir PROVE Freshness'
  <2>1. \A t \in Tag : refs'[t] \in {refs[t], 0}
    BY <1>0, <1>12 DEF DeleteFiles, DeleteDir, NoClone, NoRefs
  <2>2. UNCHANGED <<up, pc, tag, heard, got, seen>>
    BY <1>12 DEF DeleteFiles, DeleteDir
  <2> QED BY <1>0, <2>1, <2>2
<1>13. ASSUME UNCHANGED vars PROVE Freshness'
  BY <1>0, <1>13 DEF vars, clone
<1> QED
  BY <1>2, <1>3, <1>4, <1>7, <1>8, <1>9, <1>10, <1>11, <1>12, <1>13, <1>14, <1>15, <1>16,
     <1>17
  DEF Next, Step

\* Every action leaves the files of a commit in the clone, and open, as long
\* as the clone is there.
LEMMA FilesStep == IndInv /\ [Next]_vars => Files'
<1> SUFFICES ASSUME IndInv, [Next]_vars PROVE Files'
  OBVIOUS
<1>0. /\ dir \in 0..MaxClone
      /\ pc \in [Build -> PC]
      /\ got \in [Build -> 0..MaxCommit]
      /\ on \in [Build -> 0..MaxClone]
      /\ Files
  BY DEF IndInv, TypeOK
<1> USE DEF Files, OnClone, FilesThere, FilesOpen, Switched, Filled, Opened, PC
\* A build that ends or has not switched yet, while the clone keeps its files
\* and seals none of them again.
<1>1. ASSUME NEW b \in Build, NEW l \in PC \ Switched, pc' = [pc EXCEPT ![b] = l],
             UNCHANGED <<dir, wreck, head, got>>,
             \A c \in Build : c # b => on'[c] = on[c],
             objs \subseteq objs', sealed' \cap objs \subseteq sealed
      PROVE  Files'
  BY <1>0, <1>1
\* The clone goes: nobody is on it any more.
<1>2. ASSUME NoClone, UNCHANGED <<got, on>>,
             \A c \in Build : pc'[c] = pc[c] \/ pc'[c] = "idle"
      PROVE  Files'
  BY <1>0, <1>2 DEF NoClone
<1>3. ASSUME NEW b \in Build, Fetch(b) PROVE Files'
  <2>1. /\ pc' = [pc EXCEPT ![b] = "exists"]
        /\ got' = [got EXCEPT ![b] = 0]
        /\ on' = [on EXCEPT ![b] = 0]
        /\ UNCHANGED <<dir, wreck, head, objs, sealed>>
    BY <1>3 DEF Fetch, Goto, clone
  <2> QED BY <1>0, <2>1
<1>4. ASSUME NEW b \in Build, FindClone(b) PROVE Files'
  BY <1>1, <1>4 DEF FindClone, Goto, clone
<1>5. ASSUME NEW b \in Build, CloneStarts(b) PROVE Files'
  <2>1. CASE Refused(b) /\ UNCHANGED on
    BY <1>1, <2>1 DEF Refused, Goto, clone
  <2>2. ASSUME NEW n \in 1..MaxClone,
               \A c \in Build : on[c] # n,
               dir' = n,
               on' = [on EXCEPT ![b] = n],
               pc' = [pc EXCEPT ![b] = "cloning"],
               UNCHANGED <<wreck, head, objs, sealed, got>>
        PROVE  Files'
    BY <1>0, <2>2
  <2> QED BY <1>5, <2>1, <2>2 DEF CloneStarts, Goto
<1>6. ASSUME NEW b \in Build, CloneFails(b) PROVE Files'
  <2>1. UNCHANGED <<got, on>>
    BY <1>6 DEF CloneFails, Refused, Broken
  <2>2. CASE Broken(b) /\ NoClone
    <3>1. \A c \in Build : pc'[c] = pc[c] \/ pc'[c] = "idle"
      BY <1>0, <2>2 DEF Broken, Goto
    <3> QED BY <1>2, <2>1, <2>2, <3>1
  <2>3. CASE Refused(b)
    BY <1>1, <2>1, <2>3 DEF Refused, Goto, clone
  <2> QED BY <1>6, <2>2, <2>3 DEF CloneFails
<1>17. ASSUME NEW b \in Build, CloneHears(b) \/ CloneEnds(b) PROVE Files'
  BY <1>1, <1>17 DEF CloneHears, CloneEnds, Goto, clone
<1>7. ASSUME NEW b \in Build, UpdateRefs(b) \/ StoreRefs(b) PROVE Files'
  <2>1. UNCHANGED <<dir, wreck, head, objs, sealed, got>>
    BY <1>7 DEF UpdateRefs, StoreRefs, Refused, Broken, clone
  <2>2. \E l \in {"storing", "switch", "idle"} : pc' = [pc EXCEPT ![b] = l]
    BY <1>7 DEF UpdateRefs, StoreRefs, Refused, Broken, Goto
  <2>3. \A c \in Build : c # b => on'[c] = on[c]
    BY <1>0, <1>7 DEF UpdateRefs, StoreRefs
  <2> QED BY <1>1, <2>1, <2>2, <2>3
<1>8. ASSUME NEW b \in Build, SwitchRef(b) PROVE Files'
  <2>1. CASE Refused(b) /\ UNCHANGED on
    BY <1>1, <2>1 DEF Refused, Goto, clone
  <2>2. CASE /\ dir # 0
             /\ got' = [got EXCEPT ![b] = refs[tag[b]]]
             /\ on' = [on EXCEPT ![b] = dir]
             /\ pc' = [pc EXCEPT ![b] = "switching"]
             /\ UNCHANGED <<dir, wreck, head, objs, sealed>>
    BY <1>0, <2>2
  <2> QED BY <1>8, <2>1, <2>2 DEF SwitchRef, Goto
<1>9. ASSUME NEW b \in Build, SwitchEnds(b) PROVE Files'
  <2>1. CASE Refused(b) /\ UNCHANGED on
    BY <1>1, <2>1 DEF Refused, Goto, clone
  <2>2. CASE /\ pc[b] = "switching"
             /\ objs' = objs \cup {got[b]}
             /\ sealed' = IF got[b] \in objs THEN sealed ELSE sealed \cup {got[b]}
             /\ head' = got[b]
             /\ pc' = [pc EXCEPT ![b] = "submodules"]
             /\ UNCHANGED <<dir, wreck, got, on>>
    <3>1. OnClone' /\ FilesThere'
      BY <1>0, <2>2
    \* A commit is sealed only if it was missing, so not one of an open clone.
    <3>2. FilesOpen'
      BY <1>0, <2>2
    <3> QED BY <3>1, <3>2
  <2> QED BY <1>9, <2>1, <2>2 DEF SwitchEnds, Fill, Goto
<1>10. ASSUME NEW b \in Build, SwitchBreaks(b) PROVE Files'
  <2>1. objs \subseteq objs' /\ sealed' \cap objs \subseteq sealed
    BY <1>10 DEF SwitchBreaks, Fill
  <2>2. pc' = [pc EXCEPT ![b] = "idle"] /\ UNCHANGED <<dir, wreck, head, got, on>>
    BY <1>10 DEF SwitchBreaks, Broken, Goto
  <2> QED BY <1>1, <2>1, <2>2
<1>11. ASSUME NEW b \in Build, Submodules(b) PROVE Files'
  <2>1. CASE pc' = [pc EXCEPT ![b] = "idle"]
    BY <1>1, <1>11, <2>1 DEF Submodules, Refused, Broken, clone
  <2>2. CASE pc' = [pc EXCEPT ![b] = "permissions"]
    <3>1. pc[b] = "submodules" /\ UNCHANGED <<dir, wreck, head, objs, sealed, got, on>>
      BY <1>11 DEF Submodules, Refused, Broken, clone
    <3> QED BY <1>0, <2>2, <3>1
  <2> QED BY <1>11, <2>1, <2>2 DEF Submodules, Refused, Broken, Goto
<1>12. ASSUME NEW b \in Build, FixPermissions(b) PROVE Files'
  <2>1. CASE Refused(b) /\ UNCHANGED on
    BY <1>1, <2>1 DEF Refused, Goto, clone
  <2>2. CASE /\ pc[b] = "permissions" /\ sealed' = {}
             /\ pc' = [pc EXCEPT ![b] = "fetched"]
             /\ UNCHANGED <<dir, wreck, head, objs, got, on>>
    BY <1>0, <2>2
  <2>3. CASE Broken(b) /\ sealed' \in SUBSET sealed /\ UNCHANGED <<dir, wreck, head, objs, on>>
    BY <1>1, <2>3 DEF Broken, Goto
  <2> QED BY <1>12, <2>1, <2>2, <2>3 DEF FixPermissions, Goto
<1>13. ASSUME NEW b \in Build, Bind(b) PROVE Files'
  <2>1. CASE Refused(b) /\ UNCHANGED on
    BY <1>1, <2>1 DEF Refused, Goto, clone
  <2>2. CASE /\ pc[b] = "fetched" /\ pc' = [pc EXCEPT ![b] = "bound"]
             /\ UNCHANGED <<dir, wreck, head, objs, sealed, got, on>>
    BY <1>0, <2>2
  <2> QED BY <1>13, <2>1, <2>2 DEF Bind, Goto, clone
<1>14. ASSUME NEW t \in Tag, NEW c \in Commit, MoveTag(t, c) PROVE Files'
  BY <1>0, <1>14 DEF MoveTag, clone
<1>15. ASSUME DeleteDir PROVE Files'
  BY <1>2, <1>15 DEF DeleteDir
\* The clone is a wreck: nothing is promised of its files any more.
<1>18. ASSUME DeleteFiles PROVE Files'
  BY <1>0, <1>18 DEF DeleteFiles
<1>16. ASSUME UNCHANGED vars PROVE Files'
  BY <1>0, <1>16 DEF vars, clone
<1> QED
  BY <1>3, <1>4, <1>5, <1>6, <1>7, <1>8, <1>9, <1>10, <1>11, <1>12, <1>13, <1>14, <1>15,
     <1>16, <1>17, <1>18
  DEF Next, Step

\* IndInv is an invariant.
LEMMA IndInvHolds == Spec => []IndInv
<1>1. IndInv /\ [Next]_vars => IndInv'
  BY TypeStep, FreshnessStep, FilesStep DEF IndInv, Freshness
<1> QED BY InitIndInv, <1>1, PTL DEF Spec

-----------------------------------------------------------------------------
\* A clone never has a commit upstream did not make, nor a sealed pack of a
\* commit it does not have, whoever fetches into it and removes it.
THEOREM TypeCorrect == Spec => []TypeOK
<1>1. IndInv => TypeOK
  BY DEF IndInv
<1> QED BY <1>1, IndInvHolds, PTL

\* A build switches to a commit its tag named upstream since its Fetch began, or
\* that the remote had told a git still under way then, for any number of builds
\* that store refs in the clone and switch it under each other.
THEOREM TagsAreFresh == Spec => []TagIsFresh
<1>1. IndInv => TagIsFresh
  BY DEF IndInv, Freshness, GotSeen, TagIsFresh, Switched
<1> QED BY <1>1, IndInvHolds, PTL

\* A build finds the files of its commit, readable, in the clone it switched, and
\* a whole commit checked out in it, whatever other builds switch it to, until
\* delete-cache begins to remove it.
THEOREM FilesAreReadable == Spec => []FilesReadable
<1>1. IndInv => FilesReadable
  BY DEF IndInv, Files, FilesThere, FilesOpen, FilesReadable, Switched, Filled, Opened
<1> QED BY <1>1, IndInvHolds, PTL
=============================================================================
