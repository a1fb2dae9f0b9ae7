---------------------------- MODULE ImageProofs ----------------------------
(***************************************************************************)
(* What holds of Image for any number of runs of init, updates, builds and *)
(* delete-cache, whatever fails and whoever is interrupted.                *)
(***************************************************************************)
EXTENDS Image, TLAPS

\* A run has open what it is about to write or to read.
FileOpen ==
    \A r \in Run : pc[r] \in {"get", "recv", "target", "read"} => fd[r] # None

\* A run that neither writes nor reads has not begun to.
AtStart ==
    \A r \in Run : pc[r] \notin {"recv", "remove", "read"} => off[r] = 1

\* The image of a run that still decompresses has what the run has read.
Growing ==
    \A r \in Run : pc[r] = "read" /\ img.by = r => img.parts = off[r] - 1

\* The image of any other run is whole; an image nobody made has nothing.
Finished ==
    /\ img.by = None => img.parts = 0
    /\ \A r \in Run : img.by = r /\ pc[r] # "read" => img.parts = Parts

\* The inductive invariant.  InstalledIsWhole alone does not say how far the
\* image of a run is when its unxz finds the end.
Progress == FileOpen /\ AtStart /\ Growing /\ Finished
IndInv == TypeOK /\ Progress

-----------------------------------------------------------------------------
\* IndInv holds at the start.
LEMMA InitIndInv == Init => IndInv
<1> SUFFICES ASSUME Init PROVE IndInv
  OBVIOUS
<1>1. TypeOK
  <2>1. NoImg \in [by : Run \cup {None}, parts : 0..Parts]
    BY PartsAssumption DEF NoImg
  <2>2. Fresh \in [ver : 0..1, group : BOOLEAN, user : BOOLEAN]
    BY DEF Fresh
  <2>3. page \in [Run -> BOOLEAN] /\ cut \in BOOLEAN
    BY DEF Init
  <2> QED
    BY <2>1, <2>2, <2>3, PartsAssumption, ImageFaultAssumption
    DEF Init, TypeOK, InitPC, UpdPC
<1>2. Progress
  BY ImageNoneAssumption
  DEF Init, Progress, FileOpen, AtStart, Growing, Finished, NoImg
<1> QED BY <1>1, <1>2 DEF IndInv

\* A process that ends leaves its variables as they were before it began.
LEMMA OverType ==
    ASSUME TypeOK, NEW r \in Run, Over(r)
    PROVE  /\ pc' \in [Run -> InitPC]
           /\ fd' \in [Run -> Inode \cup {None}]
           /\ off' \in [Run -> 1..(Parts + 1)]
           /\ page' \in [Run -> BOOLEAN]
<1>1. pc' \in [Run -> InitPC]
  BY DEF TypeOK, Over, Goto, InitPC
<1>2. fd' \in [Run -> Inode \cup {None}]
  BY DEF TypeOK, Over
<1>3. off' \in [Run -> 1..(Parts + 1)]
  BY PartsAssumption DEF TypeOK, Over
<1>4. page' \in [Run -> BOOLEAN]
  BY DEF TypeOK, Over
<1> QED BY <1>1, <1>2, <1>3, <1>4

\* Every action keeps the types.
LEMMA TypeStep == IndInv /\ [Next]_vars => TypeOK'
<1> SUFFICES ASSUME IndInv, [Next]_vars PROVE TypeOK'
  OBVIOUS
<1> USE PartsAssumption, ImageNoneAssumption, ImageFaultAssumption
    DEF IndInv, TypeOK, Goto, At, Over, InitPC
<1>0. NoImg \in [by : Run \cup {None}, parts : 0..Parts]
  BY DEF NoImg
<1>1. ASSUME NEW r \in Run, InitStarts(r) PROVE TypeOK'
  BY <1>1 DEF InitStarts
<1>2. ASSUME NEW r \in Run, CheckInstalled(r) PROVE TypeOK'
  BY <1>2 DEF CheckInstalled
<1>3. ASSUME NEW r \in Run, CheckFetched(r) PROVE TypeOK'
  BY <1>3 DEF CheckFetched
<1>4. ASSUME NEW r \in Run, Create(r) PROVE TypeOK'
  <2>1. PICK i \in Inode : /\ xz' = i
                           /\ data' = [data EXCEPT ![i] = {}]
                           /\ fd' = [fd EXCEPT ![r] = i]
    BY <1>4 DEF Create, FreeInodes
  <2> QED BY <1>4, <2>1 DEF Create
<1>5. ASSUME NEW r \in Run, Get(r) PROVE TypeOK'
  <2>1. page' \in [Run -> BOOLEAN] /\ cut' \in BOOLEAN
    BY <1>5 DEF Get
  <2> QED BY <1>5, <2>1 DEF Get, Fault
<1>6. ASSUME NEW r \in Run, Receive(r) PROVE TypeOK'
  <2>1. fd[r] \in Inode /\ pc[r] = "recv"
    BY <1>6 DEF Receive, Progress, FileOpen
  <2>2. CASE /\ off[r] <= Parts
             /\ data' = [data EXCEPT ![fd[r]] =
                            IF page[r] THEN @ \ {off[r]} ELSE @ \cup {off[r]}]
             /\ off' = [off EXCEPT ![r] = @ + 1]
             /\ UNCHANGED <<pc, fd, faults>>
    <3>1. off[r] \in 1..Parts /\ data[fd[r]] \subseteq 1..Parts
      BY <2>1, <2>2
    <3>2. data' \in [Inode -> SUBSET (1..Parts)]
      BY <2>1, <2>2, <3>1
    <3>3. off' \in [Run -> 1..(Parts + 1)]
      BY <2>2, <3>1
    <3> QED BY <1>6, <2>2, <3>2, <3>3 DEF Receive
  <2>3. CASE UNCHANGED data
    BY <1>6, <2>3 DEF Receive, Fault
  <2> QED BY <1>6, <2>2, <2>3 DEF Receive
<1>7. ASSUME NEW r \in Run, Remove(r) PROVE TypeOK'
  BY <1>7 DEF Remove
<1>8. ASSUME NEW r \in Run, OpenXZ(r) PROVE TypeOK'
  <2>1. CASE Over(r)
    BY <1>8, <2>1, OverType DEF OpenXZ
  <2>2. CASE xz # None /\ ~Over(r)
    BY <1>8, <2>2 DEF OpenXZ
  <2> QED BY <1>8, <2>1, <2>2 DEF OpenXZ
<1>9. ASSUME NEW r \in Run, MakeTarget(r) PROVE TypeOK'
  <2>1. [by |-> r, parts |-> 0] \in [by : Run \cup {None}, parts : 0..Parts]
    OBVIOUS
  <2>2. CASE IsInstalled
    BY <1>9, <2>2, OverType DEF MakeTarget
  <2>3. CASE ~IsInstalled
    BY <1>9, <2>1, <2>3 DEF MakeTarget
  <2> QED BY <2>2, <2>3
<1>10. ASSUME NEW r \in Run, Decompress(r) PROVE TypeOK'
  <2>1. fd[r] \in Inode /\ data[fd[r]] \subseteq 1..Parts
    BY <1>10 DEF Decompress, Progress, FileOpen
  <2>2. CASE off[r] \in data[fd[r]]
    <3>1. off[r] \in 1..Parts
      BY <2>1, <2>2
    <3>2. off' = [off EXCEPT ![r] = @ + 1] /\ UNCHANGED <<xz, pc, fd, page>>
      BY <1>10, <2>1, <2>2 DEF Decompress
    <3>3. img' \in [by : Run \cup {None}, parts : 0..Parts]
      BY <1>10, <2>1, <2>2, <3>1 DEF Decompress
    <3> QED BY <1>10, <3>1, <3>2, <3>3 DEF Decompress
  <2>3. CASE off[r] \notin data[fd[r]]
    <3>1. img' \in {img, NoImg} /\ xz' \in {xz, None} /\ Over(r)
      BY <1>10, <2>1, <2>3 DEF Decompress, TargetRemoved
    <3> QED BY <1>0, <1>10, <3>1 DEF Decompress
  <2> QED BY <2>2, <2>3
<1>11. ASSUME NEW r \in Run, Interrupt(r) PROVE TypeOK'
  <2>1. img' \in {img, NoImg}
    BY <1>11 DEF Interrupt, TargetRemoved
  <2>2. cut' \in BOOLEAN
    BY <1>11 DEF Interrupt
  <2> QED BY <1>0, <1>11, <2>1, <2>2 DEF Interrupt, Fault
<1>12. CASE UpdateStarts \/ UpdateStep \/ UpdateFails
  <2>1. UNCHANGED <<initVars, builds>>
    BY <1>12
    DEF UpdateStarts, UpdateFails, UpdateStep, UpdateChecks, UpdateMounts, UpdateUpgrades,
        FindUser, AddGroup, AddUser, UpdateOfLost
  <2>2. upd' \in UpdPC
    BY <1>12
    DEF UpdateStarts, UpdateFails, UpdateStep, UpdateChecks, UpdateMounts, UpdateUpgrades,
        FindUser, AddGroup, AddUser, UpdateOfLost, UpdPC
  <2>3. base' \in [ver : 0..1, group : BOOLEAN, user : BOOLEAN]
    <3>1. \/ UNCHANGED base
          \/ base' = [base EXCEPT !.ver = 1 - @]
          \/ base' = [base EXCEPT !.group = TRUE]
          \/ base' = [base EXCEPT !.user = TRUE]
      BY <1>12, Zenon
      DEF UpdateStarts, UpdateFails, UpdateStep, UpdateChecks, UpdateMounts,
          UpdateUpgrades, FindUser, AddGroup, AddUser, UpdateOfLost
    <3>2. 1 - base.ver \in 0..1
      BY SMT
    <3> QED BY <3>1, <3>2
  <2>4. faults' \in 0..MaxFaults
    BY <1>12
    DEF UpdateStarts, UpdateFails, UpdateStep, UpdateChecks, UpdateMounts, UpdateUpgrades,
        FindUser, AddGroup, AddUser, UpdateOfLost, Fault
  <2> QED BY <2>1, <2>2, <2>3, <2>4 DEF initVars
<1>13. ASSUME NEW b \in Build, BuildMounts(b) \/ BuildUnmounts(b) PROVE TypeOK'
  BY <1>13 DEF BuildMounts, BuildUnmounts, initVars
<1>14. ASSUME DeleteImages PROVE TypeOK'
  <2>1. base' \in [ver : 0..1, group : BOOLEAN, user : BOOLEAN]
    BY <1>14 DEF DeleteImages, Fresh
  <2>2. upd' \in UpdPC
    BY <1>14 DEF DeleteImages, UpdPC
  <2> QED BY <1>0, <1>14, <2>1, <2>2 DEF DeleteImages, Fault
<1>15. ASSUME UNCHANGED vars PROVE TypeOK'
  BY <1>15 DEF vars, initVars
<1> QED
  BY <1>1, <1>2, <1>3, <1>4, <1>5, <1>6, <1>7, <1>8, <1>9, <1>10, <1>11, <1>12, <1>13,
     <1>14, <1>15
  DEF Next, Step

-----------------------------------------------------------------------------
\* A run may end when its image, if it has one, is whole or goes with it.
LEMMA OverProgress ==
    ASSUME IndInv, NEW r \in Run, Over(r),
           \/ img' = NoImg
           \/ img' = img /\ (img.by = r => img.parts = Parts)
    PROVE  Progress'
<1>0. /\ pc \in [Run -> InitPC]
      /\ fd \in [Run -> Inode \cup {None}]
      /\ off \in [Run -> 1..(Parts + 1)]
      /\ Progress
  BY DEF IndInv, TypeOK
<1>1. /\ pc' = [pc EXCEPT ![r] = "idle"]
      /\ fd' = [fd EXCEPT ![r] = None]
      /\ off' = [off EXCEPT ![r] = 1]
  BY DEF Over, Goto
<1>2. FileOpen' /\ AtStart'
  BY <1>0, <1>1 DEF Progress, FileOpen, AtStart
<1>3. CASE img' = NoImg
  <2>1. img'.by = None /\ img'.parts = 0
    BY <1>3 DEF NoImg
  <2> QED BY <1>2, <2>1, ImageNoneAssumption DEF Progress, Growing, Finished
<1>4. CASE img' = img /\ (img.by = r => img.parts = Parts)
  BY <1>0, <1>1, <1>2, <1>4 DEF Progress, Growing, Finished
<1> QED BY <1>3, <1>4

\* Every action keeps what an image holds in step with the run that makes it.
LEMMA ProgressStep == IndInv /\ [Next]_vars => Progress'
<1> SUFFICES ASSUME IndInv, [Next]_vars PROVE Progress'
  OBVIOUS
<1>0. /\ data \in [Inode -> SUBSET (1..Parts)]
      /\ img \in [by : Run \cup {None}, parts : 0..Parts]
      /\ pc \in [Run -> InitPC]
      /\ fd \in [Run -> Inode \cup {None}]
      /\ off \in [Run -> 1..(Parts + 1)]
      /\ xz \in Inode \cup {None}
      /\ Progress
  BY DEF IndInv, TypeOK
<1> USE PartsAssumption, ImageNoneAssumption
    DEF Progress, FileOpen, AtStart, Growing, Finished
\* An action of a run before it has a file.
<1>1. ASSUME NEW r \in Run,
             InitStarts(r) \/ CheckInstalled(r) \/ CheckFetched(r)
      PROVE  Progress'
  <2>1. UNCHANGED <<img, fd, off>>
    BY <1>1 DEF InitStarts, CheckInstalled, CheckFetched
  <2>2. pc[r] \in {"idle", "check", "fetched"}
    BY <1>1 DEF InitStarts, CheckInstalled, CheckFetched, At
  <2>3. \E l \in {"idle", "check", "fetched", "unxz", "create"} :
          pc' = [pc EXCEPT ![r] = l]
    BY <1>1 DEF InitStarts, CheckInstalled, CheckFetched, Goto
  <2> QED BY <1>0, <2>1, <2>2, <2>3
<1>2. ASSUME NEW r \in Run, Create(r) PROVE Progress'
  <2>1. PICK i \in Inode : fd' = [fd EXCEPT ![r] = i]
    BY <1>0, <1>2 DEF Create, FreeInodes
  <2>2. pc[r] = "create" /\ pc' = [pc EXCEPT ![r] = "get"] /\ UNCHANGED <<img, off>>
    BY <1>2 DEF Create, At, Goto
  <2> QED BY <1>0, <2>1, <2>2
<1>3. ASSUME NEW r \in Run, Get(r) PROVE Progress'
  <2>1. pc[r] = "get" /\ UNCHANGED <<img, fd, off>>
    BY <1>3 DEF Get, At
  <2>2. \E l \in {"recv", "remove"} : pc' = [pc EXCEPT ![r] = l]
    BY <1>3 DEF Get, Goto
  <2> QED BY <1>0, <2>1, <2>2
<1>4. ASSUME NEW r \in Run, Receive(r) PROVE Progress'
  <2>1. pc[r] = "recv" /\ UNCHANGED img
    BY <1>4 DEF Receive, At
  <2>2. CASE UNCHANGED <<pc, fd>> /\ off' = [off EXCEPT ![r] = @ + 1]
    BY <1>0, <2>1, <2>2
  <2>3. CASE /\ pc' = [pc EXCEPT ![r] = "unxz"]
             /\ fd' = [fd EXCEPT ![r] = None]
             /\ off' = [off EXCEPT ![r] = 1]
    BY <1>0, <2>1, <2>3
  <2>4. CASE pc' = [pc EXCEPT ![r] = "remove"] /\ UNCHANGED <<fd, off>>
    BY <1>0, <2>1, <2>4
  <2> QED BY <1>4, <2>2, <2>3, <2>4 DEF Receive, Goto
<1>5. ASSUME NEW r \in Run, Remove(r) PROVE Progress'
  <2>1. pc[r] = "remove" /\ UNCHANGED img /\ Over(r)
    BY <1>5 DEF Remove, At
  <2> QED BY <1>0, <2>1, OverProgress
<1>6. ASSUME NEW r \in Run, OpenXZ(r) PROVE Progress'
  <2>1. pc[r] = "unxz" /\ UNCHANGED img
    BY <1>6 DEF OpenXZ, At
  <2>2. CASE Over(r)
    BY <1>0, <2>1, <2>2, OverProgress
  <2>3. CASE /\ xz # None /\ fd' = [fd EXCEPT ![r] = xz]
             /\ pc' = [pc EXCEPT ![r] = "target"] /\ UNCHANGED off
    BY <1>0, <2>1, <2>3
  <2> QED BY <1>6, <2>2, <2>3 DEF OpenXZ, Goto
<1>7. ASSUME NEW r \in Run, MakeTarget(r) PROVE Progress'
  <2>1. pc[r] = "target"
    BY <1>7 DEF MakeTarget, At
  <2>2. CASE Over(r) /\ UNCHANGED img
    BY <1>0, <2>1, <2>2, OverProgress
  <2>3. CASE /\ img' = [by |-> r, parts |-> 0]
             /\ pc' = [pc EXCEPT ![r] = "read"] /\ UNCHANGED <<fd, off>>
    <3>1. img'.by = r /\ img'.parts = 0
      BY <2>3
    <3> QED BY <1>0, <2>1, <2>3, <3>1
  <2> QED BY <1>7, <2>2, <2>3 DEF MakeTarget, Goto
<1>8. ASSUME NEW r \in Run, Decompress(r) PROVE Progress'
  <2>1. pc[r] = "read" /\ fd[r] \in Inode /\ off[r] \in 1..(Parts + 1)
    BY <1>0, <1>8 DEF Decompress, At
  <2>2. CASE off[r] \in data[fd[r]]
    <3>1. off[r] \in 1..Parts
      BY <1>0, <2>1, <2>2
    <3>2. /\ off' = [off EXCEPT ![r] = @ + 1] /\ UNCHANGED <<pc, fd>>
          /\ img' = IF img.by = r THEN [img EXCEPT !.parts = off[r]] ELSE img
      BY <1>8, <2>1, <2>2, <3>1 DEF Decompress, Over, Goto
    <3>3. img'.by = img.by /\ img'.parts = IF img.by = r THEN off[r] ELSE img.parts
      BY <1>0, <3>2
    <3> QED BY <1>0, <2>1, <3>1, <3>2, <3>3
  <2>3. CASE off[r] \notin data[fd[r]]
    <3>1. Over(r)
      BY <1>8, <2>3 DEF Decompress
    <3>2. CASE img' = TargetRemoved(r)
      <4>1. img' = NoImg \/ (img' = img /\ img.by # r)
        BY <3>2 DEF TargetRemoved
      <4> QED BY <3>1, <4>1, OverProgress
    <3>3. CASE off[r] > Parts /\ UNCHANGED img
      <4>1. img.by = r => img.parts = Parts
        BY <1>0, <2>1, <3>3
      <4> QED BY <3>1, <3>3, <4>1, OverProgress
    <3> QED BY <1>8, <2>3, <3>2, <3>3 DEF Decompress
  <2> QED BY <2>2, <2>3
<1>9. ASSUME NEW r \in Run, Interrupt(r) PROVE Progress'
  <2>1. Over(r)
    BY <1>9 DEF Interrupt
  <2>2. \/ img' = NoImg
        \/ img' = img /\ (img.by = r => img.parts = Parts)
    BY <1>0, <1>9 DEF Interrupt, TargetRemoved
  <2> QED BY <2>1, <2>2, OverProgress
<1>10. CASE UNCHANGED initVars
  BY <1>0, <1>10 DEF initVars
<1>11. CASE UpdateStarts \/ UpdateStep \/ UpdateFails
  BY <1>10, <1>11, Zenon
  DEF UpdateStarts, UpdateFails, UpdateStep, UpdateChecks, UpdateMounts, UpdateUpgrades,
      FindUser, AddGroup, AddUser, UpdateOfLost
<1>12. ASSUME NEW b \in Build, BuildMounts(b) \/ BuildUnmounts(b) PROVE Progress'
  BY <1>10, <1>12, Zenon DEF BuildMounts, BuildUnmounts
<1>13. ASSUME DeleteImages PROVE Progress'
  <2>1. img'.by = None /\ img'.parts = 0 /\ UNCHANGED <<pc, fd, off>>
    BY <1>13 DEF DeleteImages, NoImg
  <2> QED BY <1>0, <2>1
<1>14. ASSUME UNCHANGED vars PROVE Progress'
  BY <1>10, <1>14 DEF vars
<1> QED
  BY <1>1, <1>2, <1>3, <1>4, <1>5, <1>6, <1>7, <1>8, <1>9, <1>11, <1>12, <1>13, <1>14
  DEF Next, Step

\* IndInv is an invariant.
LEMMA IndInvHolds == Spec => []IndInv
<1>1. IndInv /\ [Next]_vars => IndInv'
  BY TypeStep, ProgressStep DEF IndInv
<1> QED BY InitIndInv, <1>1, PTL DEF Spec

-----------------------------------------------------------------------------
\* No init run writes or reads past the end of an image or without the file
\* being open, and no update leaves the states the code gives it.
THEOREM TypeCorrect == Spec => []TypeOK
<1>1. IndInv => TypeOK
  BY DEF IndInv
<1> QED BY <1>1, IndInvHolds, PTL

\* IsInstalled finds a whole image, or one its unxz is still writing, for any
\* number of init runs that download, fail and remove under each other, as long
\* as an unxz that does not finish gets to remove its target.
THEOREM InstalledWhole == Spec => []InstalledIsWhole
<1>1. IndInv => InstalledIsWhole
  <2> SUFFICES ASSUME IndInv, IsInstalled PROVE img.parts = Parts \/ pc[img.by] = "read"
    BY DEF InstalledIsWhole
  <2>1. img \in [by : Run \cup {None}, parts : 0..Parts] /\ Finished
    BY DEF IndInv, TypeOK, Progress
  <2>2. img.by # None
    <3> SUFFICES ASSUME img.by = None PROVE FALSE
      OBVIOUS
    <3>1. img.parts = 0
      BY <2>1 DEF Finished
    <3>2. img = NoImg
      BY <2>1, <3>1 DEF NoImg
    <3> QED BY <3>2 DEF IsInstalled
  <2> QED BY <2>1, <2>2 DEF Finished
<1> QED BY <1>1, IndInvHolds, PTL
=============================================================================
