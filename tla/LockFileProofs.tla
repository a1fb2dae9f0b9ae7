--------------------------- MODULE LockFileProofs ---------------------------
(***************************************************************************)
(* What holds of LockFile for every set of sessions, inodes and PIDs, any  *)
(* number of faults, with and without signals and restarts.                *)
(***************************************************************************)
EXTENDS LockFile, TLAPS

\* The states in which a session has the lock file open.
HasFile == {"readopen", "scan", "check", "flock", "write", "work", "unlock", "clean"}

\* A flock belongs to the descriptor of a session that took it.
HolderOwns ==
    \A i \in Inode : holder[i] # None =>
        /\ fd[holder[i]] = i
        /\ pc[holder[i]] \in {"write", "work", "unlock", "failed"}

\* A session past flock and before Unlock has the flock of its file.
OwnerHolds == \A s \in Session : Owning(s) => holder[fd[s]] = s

\* Descriptors are open where the code uses them.
FilesOpen ==
    \A s \in Session :
        /\ pc[s] \in HasFile => fd[s] \in Inode
        /\ pc[s] = "scan" => rfd[s] \in Inode

\* The inductive invariant.  ExclusiveOnFile alone is not inductive: that the
\* flock keeps a second session out rests on the holder recorded for the inode.
IndInv == TypeOK /\ HolderOwns /\ OwnerHolds /\ FilesOpen

-----------------------------------------------------------------------------
(***************************************************************************)
(* The file after a write                                                  *)
(***************************************************************************)
\* Writing digits over digits leaves digits.
LEMMA OverwriteType ==
    ASSUME NEW old \in Digits, NEW new \in Digits
    PROVE  Overwrite(old, new) \in Digits
  BY DEF Overwrite, Digits

\* What was written stands first, and the file is as long as the longer of what
\* was written and what was there.
LEMMA OverwriteLeads ==
    ASSUME NEW old \in Digits, NEW new \in Digits
    PROVE  /\ Len(Overwrite(old, new)) \in {Len(old), Len(new)}
           /\ Len(old) = 0 => Len(Overwrite(old, new)) = Len(new)
           /\ SubSeq(Overwrite(old, new), 1, Len(new)) = new
<1>1. Overwrite(old, new) \in Seq(0..9)
  BY OverwriteType DEF Digits
<1>2. Len(Overwrite(old, new)) = IF Len(old) > Len(new) THEN Len(old) ELSE Len(new)
  BY DEF Overwrite, Digits
<1>3. \A k \in 1..Len(new) : Overwrite(old, new)[k] = new[k]
  BY DEF Overwrite, Digits
<1>4. Len(old) \in Nat /\ Len(new) \in Nat /\ new \in Seq(0..9)
  BY DEF Digits
<1>5. SubSeq(Overwrite(old, new), 1, Len(new)) = new
  <2> DEFINE w == Overwrite(old, new)
  <2> HIDE DEF w
  <2>1. w \in Seq(0..9) /\ Len(w) >= Len(new) /\ \A k \in 1..Len(new) : w[k] = new[k]
    BY <1>1, <1>2, <1>3, <1>4 DEF w
  <2>2. SubSeq(w, 1, Len(new)) = new
    BY <2>1, <1>4
  <2> QED BY <2>2 DEF w
<1> QED BY <1>2, <1>4, <1>5

-----------------------------------------------------------------------------
(***************************************************************************)
(* Type correctness and exclusion                                          *)
(***************************************************************************)
LEMMA InitIndInv == Init => IndInv
  BY FaultAssumption, NoneAssumption
  DEF Init, IndInv, TypeOK, HolderOwns, OwnerHolds, FilesOpen, Owning, Digits,
      PC, Live, HasFile

\* Every action keeps the types.
LEMMA TypeStep == IndInv /\ [Next]_vars => TypeOK'
<1> SUFFICES ASSUME IndInv, [Next]_vars PROVE TypeOK'
  OBVIOUS
<1> USE DEF IndInv, TypeOK, Goto, PC, Live, Locking, Cleaning, Ended
<1>1. ASSUME NEW s \in Session, Start(s) PROVE TypeOK'
  BY <1>1 DEF Start
<1>2. ASSUME NEW s \in Session, NewLockFile(s) PROVE TypeOK'
  <2>1. <<>> \in Digits
    BY DEF Digits
  <2> QED BY <1>2, <2>1 DEF NewLockFile, FreeInodes
<1>3. ASSUME NEW s \in Session, ReadOpen(s) PROVE TypeOK'
  BY <1>3 DEF ReadOpen
<1>4. ASSUME NEW s \in Session, Scan(s) PROVE TypeOK'
  BY <1>4 DEF Scan, FilesOpen
<1>5. ASSUME NEW s \in Session, CheckOwner(s) PROVE TypeOK'
  BY <1>5 DEF CheckOwner
<1>6. ASSUME NEW s \in Session, Flock(s) PROVE TypeOK'
  BY <1>6 DEF Flock
<1>7. ASSUME NEW s \in Session, WritePID(s) PROVE TypeOK'
  <2>1. fd[s] \in Inode
    BY <1>7 DEF WritePID, FilesOpen, HasFile
  <2>2. pid[s] \in Digits
    <3>1. pid[s] \in Pid \cup {<<>>}
      OBVIOUS
    <3>2. <<>> \in Digits
      BY DEF Digits
    <3> QED BY <3>1, <3>2, PidAssumption DEF Digits
  <2>3. Overwrite(content[fd[s]], pid[s]) \in Digits
    BY <2>1, <2>2, OverwriteType
  <2> QED BY <1>7, <2>1, <2>3 DEF WritePID
<1>8. ASSUME NEW s \in Session, Finish(s) \/ Unlock(s) PROVE TypeOK'
  BY <1>8 DEF Finish, Unlock
<1>9. ASSUME NEW s \in Session, Clean(s) \/ CleanAgain(s) PROVE TypeOK'
  BY <1>9 DEF Clean, CleanAgain
<1>10. ASSUME NEW s \in Session, Gone(s), faults' \in 0..MaxFaults PROVE TypeOK'
  BY <1>10 DEF Gone, Released, Digits
<1>11. ASSUME NEW s \in Session, Exit(s) PROVE TypeOK'
  BY <1>10, <1>11 DEF Exit
<1>12. ASSUME Fault PROVE faults' \in 0..MaxFaults
  BY <1>12, FaultAssumption DEF Fault
<1>13. ASSUME NEW s \in Session, SignalExit(s) \/ Crash(s) PROVE TypeOK'
  BY <1>10, <1>12, <1>13 DEF SignalExit, Crash
<1>14. ASSUME NEW s \in Session, OpenFails(s) \/ WriteFails(s) \/ SecondCleanup(s)
      PROVE TypeOK'
  BY <1>12, <1>14 DEF OpenFails, WriteFails, SecondCleanup
<1>15. ASSUME NEW p \in Bystander, OtherStart(p) \/ OtherExit(p) PROVE TypeOK'
  BY <1>15, PidAssumption DEF OtherStart, OtherExit
<1>16. CASE DeleteCache
  BY <1>12, <1>16 DEF DeleteCache
<1>17. CASE UNCHANGED vars
  BY <1>17 DEF vars
<1> QED
  BY <1>1, <1>2, <1>3, <1>4, <1>5, <1>6, <1>7, <1>8, <1>9, <1>11, <1>13, <1>14,
     <1>15, <1>16, <1>17 DEF Next, Step

\* The conjuncts about descriptors and flocks, action by action.
LEMMA FlockStep == IndInv /\ [Next]_vars => HolderOwns' /\ OwnerHolds' /\ FilesOpen'
<1> DEFINE Files == HolderOwns /\ OwnerHolds /\ FilesOpen
<1> SUFFICES ASSUME IndInv, [Next]_vars PROVE Files'
  OBVIOUS
<1> USE DEF IndInv, TypeOK, HolderOwns, OwnerHolds, FilesOpen, Owning, Goto, HasFile
<1> USE NoneAssumption
<1>1. ASSUME NEW s \in Session, Start(s) PROVE Files'
  BY <1>1 DEF Start
<1>2. ASSUME NEW s \in Session, NewLockFile(s) PROVE Files'
  <2>1. \A i \in Inode : holder[i] # s
    BY <1>2 DEF NewLockFile
  <2>2. CASE path # None
    BY <1>2, <2>1, <2>2 DEF NewLockFile
  <2>3. CASE path = None
    <3> PICK i \in FreeInodes : /\ path' = i
                                /\ fd' = [fd EXCEPT ![s] = i]
                                /\ holder' = [holder EXCEPT ![i] = None]
      BY <1>2, <2>3 DEF NewLockFile
    <3>1. i \in Inode /\ \A t \in Session : fd[t] # i
      BY DEF FreeInodes
    <3>2. pc' = [pc EXCEPT ![s] = "readopen"] /\ UNCHANGED rfd
      BY <1>2 DEF NewLockFile
    <3>3. HolderOwns'
      BY <2>1, <3>1, <3>2
    <3>4. OwnerHolds'
      BY <2>1, <3>1, <3>2
    <3>5. FilesOpen'
      BY <3>1, <3>2
    <3> QED BY <3>3, <3>4, <3>5
  <2> QED BY <2>2, <2>3
<1>3. ASSUME NEW s \in Session, ReadOpen(s) PROVE Files'
  BY <1>3 DEF ReadOpen
<1>4. ASSUME NEW s \in Session, Scan(s) PROVE Files'
  BY <1>4 DEF Scan
<1>5. ASSUME NEW s \in Session, CheckOwner(s) PROVE Files'
  BY <1>5 DEF CheckOwner
<1>6. ASSUME NEW s \in Session, Flock(s) PROVE Files'
  <2>1. \A i \in Inode : holder[i] # s
    BY <1>6 DEF Flock
  <2>2. fd[s] \in Inode
    BY <1>6 DEF Flock
  <2>3. CASE holder[fd[s]] = None
    <3>1. holder' = [holder EXCEPT ![fd[s]] = s] /\ pc' = [pc EXCEPT ![s] = "write"]
          /\ UNCHANGED <<fd, rfd>>
      BY <1>6, <2>3 DEF Flock
    <3>2. HolderOwns'
      BY <2>1, <2>2, <3>1
    <3>3. OwnerHolds'
      BY <2>1, <2>2, <2>3, <3>1
    <3>4. FilesOpen'
      BY <2>2, <3>1
    <3> QED BY <3>2, <3>3, <3>4
  <2>4. CASE holder[fd[s]] # None
    BY <1>6, <2>1, <2>4 DEF Flock
  <2> QED BY <2>3, <2>4
<1>7. ASSUME NEW s \in Session, WritePID(s) PROVE Files'
  BY <1>7 DEF WritePID
<1>8. ASSUME NEW s \in Session, Finish(s) PROVE Files'
  BY <1>8 DEF Finish
<1>9. ASSUME NEW s \in Session, Unlock(s) PROVE Files'
  <2>1. fd[s] \in Inode /\ holder[fd[s]] = s
    BY <1>9 DEF Unlock
  <2>2. holder' = [holder EXCEPT ![fd[s]] = None] /\ pc' = [pc EXCEPT ![s] = "clean"]
        /\ UNCHANGED <<fd, rfd>>
    BY <1>9 DEF Unlock
  <2>3. HolderOwns'
    BY <2>1, <2>2
  <2>4. OwnerHolds'
    BY <2>1, <2>2
  <2>5. FilesOpen'
    BY <2>1, <2>2
  <2> QED BY <2>3, <2>4, <2>5
<1>10. ASSUME NEW s \in Session, Clean(s) PROVE Files'
  <2>1. \A i \in Inode : holder[i] # s
    BY <1>10 DEF Clean
  <2> QED BY <1>10, <2>1 DEF Clean
<1>11. ASSUME NEW s \in Session, SecondCleanup(s) \/ CleanAgain(s) PROVE Files'
  BY <1>11 DEF SecondCleanup, CleanAgain
<1>12. ASSUME NEW s \in Session, Gone(s) PROVE Files'
  BY <1>12 DEF Gone, Released
<1>13. ASSUME NEW s \in Session, Exit(s) \/ SignalExit(s) \/ Crash(s) PROVE Files'
  BY <1>12, <1>13 DEF Exit, SignalExit, Crash
<1>14. ASSUME NEW s \in Session, OpenFails(s) \/ WriteFails(s) PROVE Files'
  BY <1>14 DEF OpenFails, WriteFails
<1>15. ASSUME NEW p \in Bystander, OtherStart(p) \/ OtherExit(p) PROVE Files'
  BY <1>15 DEF OtherStart, OtherExit
<1>16. CASE DeleteCache
  BY <1>16 DEF DeleteCache
<1>17. CASE UNCHANGED vars
  BY <1>17 DEF vars
<1> QED
  BY <1>1, <1>2, <1>3, <1>4, <1>5, <1>6, <1>7, <1>8, <1>9, <1>10, <1>11, <1>13,
     <1>14, <1>15, <1>16, <1>17 DEF Next, Step

\* The inductive invariant holds throughout.
THEOREM Inductive == Spec => []IndInv
<1>1. IndInv /\ [Next]_vars => IndInv'
  BY TypeStep, FlockStep DEF IndInv
<1> QED BY InitIndInv, <1>1, PTL DEF Spec

\* Every variable of the lock file protocol keeps its type.
THEOREM TypeCorrect == Spec => []TypeOK
<1>1. IndInv => TypeOK
  BY DEF IndInv
<1> QED BY Inductive, <1>1, PTL

\* At most one of the sessions that opened a lock file is past Lock and before
\* Unlock, for any number of sessions, signals, crashes, failed calls and runs of
\* delete-cache.
THEOREM Exclusion == Spec => []ExclusiveOnFile
<1>1. IndInv => ExclusiveOnFile
  BY DEF IndInv, OwnerHolds, FilesOpen, Owning, HasFile, ExclusiveOnFile
<1> QED BY Inductive, <1>1, PTL

-----------------------------------------------------------------------------
(***************************************************************************)
(* The PID in the file, for PIDs of any lengths                            *)
(***************************************************************************)
\* Every file is empty or as long as some PID.
FileLength == \A i \in Inode : content[i] = <<>> \/ Len(content[i]) \in {Len(p) : p \in Pid}

\* A running session has a PID.
LiveHasPid == \A s \in Session : pc[s] \in Live => pid[s] \in Pid

PidInv == PidLeadsFile /\ FileLength /\ LiveHasPid

\* Every action keeps the PID of a working session in its file.
LEMMA PidStep ==
    ASSUME IndInv, PidInv, [Next]_vars
    PROVE  PidInv'
<1> USE DEF PidInv, PidLeadsFile, FileLength, LiveHasPid, IndInv, TypeOK,
        FilesOpen, HasFile, Goto, Live, Locking, Cleaning, Ended
<1>1. ASSUME NEW s \in Session, Start(s) PROVE PidInv'
  BY <1>1 DEF Start
<1>2. ASSUME NEW s \in Session, NewLockFile(s) PROVE PidInv'
  <2>1. CASE path # None
    BY <1>2, <2>1 DEF NewLockFile
  <2>2. CASE path = None
    <3> PICK i \in FreeInodes : /\ fd' = [fd EXCEPT ![s] = i]
                                /\ content' = [content EXCEPT ![i] = <<>>]
      BY <1>2, <2>2 DEF NewLockFile
    <3>1. i \in Inode /\ \A t \in Session : fd[t] # i
      BY DEF FreeInodes
    <3>2. pc' = [pc EXCEPT ![s] = "readopen"] /\ UNCHANGED pid
      BY <1>2 DEF NewLockFile
    <3>3. PidLeadsFile'
      BY <1>2, <3>1, <3>2 DEF NewLockFile
    <3>4. FileLength'
      BY <3>1
    <3>5. LiveHasPid'
      BY <1>2, <3>2 DEF NewLockFile
    <3> QED BY <3>3, <3>4, <3>5
  <2> QED BY <2>1, <2>2
<1>3. ASSUME NEW s \in Session, ReadOpen(s) \/ Scan(s) PROVE PidInv'
  BY <1>3 DEF ReadOpen, Scan
<1>4. ASSUME NEW s \in Session, CheckOwner(s) \/ Flock(s) PROVE PidInv'
  BY <1>4 DEF CheckOwner, Flock
<1>5. ASSUME NEW s \in Session, WritePID(s) PROVE PidInv'
  <2>1. pc[s] = "write" /\ fd[s] \in Inode /\ pid[s] \in Pid
    BY <1>5 DEF WritePID
  <2>2. pid[s] \in Digits
    BY <2>1, PidAssumption DEF Digits
  <2>3. content[fd[s]] \in Digits
    BY <2>1
  <2> DEFINE w == Overwrite(content[fd[s]], pid[s])
  <2>4. /\ Len(w) \in {Len(content[fd[s]]), Len(pid[s])}
        /\ Len(content[fd[s]]) = 0 => Len(w) = Len(pid[s])
        /\ SubSeq(w, 1, Len(pid[s])) = pid[s]
    BY <2>2, <2>3, OverwriteLeads
  <2>6. /\ content' = [content EXCEPT ![fd[s]] = w]
        /\ pc' = [pc EXCEPT ![s] = "work"]
        /\ UNCHANGED <<pid, fd>>
    BY <1>5 DEF WritePID
  <2> HIDE DEF w
  <2>5. Len(w) \in {Len(p) : p \in Pid}
    <3>1. content[fd[s]] = <<>> => Len(content[fd[s]]) = 0
      OBVIOUS
    <3> QED BY <2>1, <2>4, <3>1
  <2>7. \A t \in Session : t # s /\ pc[t] = "work" => fd[t] # fd[s]
    BY <2>1 DEF OwnerHolds, Owning
  <2>8. PidLeadsFile'
    BY <2>1, <2>4, <2>5, <2>6, <2>7
  <2>9. FileLength'
    BY <2>1, <2>5, <2>6
  <2>10. LiveHasPid'
    BY <2>1, <2>6
  <2> QED BY <2>8, <2>9, <2>10
<1>6. ASSUME NEW s \in Session, Finish(s) \/ Unlock(s) \/ Clean(s) PROVE PidInv'
  BY <1>6 DEF Finish, Unlock, Clean
<1>7. ASSUME NEW s \in Session, SecondCleanup(s) \/ CleanAgain(s) PROVE PidInv'
  BY <1>7 DEF SecondCleanup, CleanAgain
<1>8. ASSUME NEW s \in Session, Exit(s) \/ SignalExit(s) \/ Crash(s) PROVE PidInv'
  BY <1>8 DEF Exit, SignalExit, Crash, Gone
<1>9. ASSUME NEW s \in Session, OpenFails(s) \/ WriteFails(s) PROVE PidInv'
  BY <1>9 DEF OpenFails, WriteFails
<1>10. ASSUME NEW p \in Bystander, OtherStart(p) \/ OtherExit(p) PROVE PidInv'
  BY <1>10 DEF OtherStart, OtherExit
<1>11. CASE DeleteCache
  BY <1>11 DEF DeleteCache
<1>12. CASE UNCHANGED vars
  BY <1>12 DEF vars
<1> QED
  BY <1>1, <1>2, <1>3, <1>4, <1>5, <1>6, <1>7, <1>8, <1>9, <1>10, <1>11, <1>12
  DEF Next, Step

\* The file a working session locked begins with its PID and is no longer than a
\* PID, whatever PIDs of whatever lengths crashed sessions left in it.
THEOREM PidRecorded == Spec => []PidLeadsFile
<1>1. Init => PidInv
  BY DEF Init, PidInv, PidLeadsFile, FileLength, LiveHasPid, Live, Locking,
         Cleaning, Ended
<1>2. IndInv /\ PidInv /\ [Next]_vars => PidInv'
  BY PidStep
<1>3. PidInv => PidLeadsFile
  BY DEF PidInv
<1> QED BY Inductive, <1>1, <1>2, <1>3, PTL DEF Spec

=============================================================================
