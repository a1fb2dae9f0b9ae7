------------------------------ MODULE LockFile ------------------------------
(***************************************************************************)
(* The lock file that keeps two solbuild sessions out of one build root    *)
(* (builder/lockfile.go), driven the way Manager.doLock and                *)
(* Manager.Cleanup drive it (builder/manager.go).                          *)
(*                                                                         *)
(* A session is one run of the solbuild process.  Every step is one system *)
(* call on the file, so sessions interleave where the kernel lets them.    *)
(* The lock path names an inode; a session keeps the inode it opened even  *)
(* after the path has been removed or has come to name another one.  A PID *)
(* is the sequence of its decimal digits, which is what the file stores.   *)
(***************************************************************************)
EXTENDS Naturals, Sequences, FiniteSets

CONSTANTS
    Session,    \* the solbuild processes, each an index that may be reused
    Inode,      \* the inodes a lock file can get
    Pid,        \* the PIDs of the machine, as sequences of decimal digits
    Bystander,  \* the PIDs processes other than solbuild may take
    None,       \* no inode, no holder
    Restart,    \* whether a session that ended may be started again
    MaxFaults   \* bound on crashes, signals, failed calls and runs of delete-cache

ASSUME PidAssumption == Pid \subseteq Seq(0..9) \ {<<>>} /\ Bystander \subseteq Pid
ASSUME NoneAssumption == None \notin Inode /\ None \notin Session
ASSUME FlagAssumption == Restart \in BOOLEAN
ASSUME FaultAssumption == MaxFaults \in Nat

VARIABLES
    path,     \* the inode the lock path names, or None
    content,  \* the bytes of each inode, a sequence of digits
    holder,   \* the session whose descriptor holds the flock of an inode
    pc,       \* where each session is
    pid,      \* the PID of each running session, <<>> for none
    fd,       \* the inode l.fd has open
    rfd,      \* the inode readPID has open
    seen,     \* the PID readPID returned, <<>> for -1
    others,   \* the PIDs other processes of the machine have
    faults    \* what the environment did to the sessions so far

vars == <<path, content, holder, pc, pid, fd, rfd, seen, others, faults>>

Digits == Seq(0..9)

(***************************************************************************)
(* idle ... gone: no process.  open ... write: doLock.  work: the session  *)
(* owns its build root.  unlock, clean: Cleanup.  cleaned: Cleanup has     *)
(* returned.  again, cleaned2: Cleanup has been entered a second time, by  *)
(* the other goroutine.  refused, failed: doLock returned an error.        *)
(***************************************************************************)
Locking == {"open", "readopen", "scan", "check", "flock", "write"}
Cleaning == {"unlock", "clean", "cleaned", "again", "cleaned2"}
Ended == {"refused", "failed"}
Live == Locking \cup {"work"} \cup Cleaning \cup Ended
PC == {"idle", "gone"} \cup Live

TypeOK ==
    /\ path \in Inode \cup {None}
    /\ content \in [Inode -> Digits]
    /\ holder \in [Inode -> Session \cup {None}]
    /\ pc \in [Session -> PC]
    /\ pid \in [Session -> Pid \cup {<<>>}]
    /\ fd \in [Session -> Inode \cup {None}]
    /\ rfd \in [Session -> Inode \cup {None}]
    /\ seen \in [Session -> Digits]
    /\ others \subseteq Pid
    /\ faults \in 0..MaxFaults

Init ==
    /\ path = None
    /\ content = [i \in Inode |-> <<>>]
    /\ holder = [i \in Inode |-> None]
    /\ pc = [s \in Session |-> "idle"]
    /\ pid = [s \in Session |-> <<>>]
    /\ fd = [s \in Session |-> None]
    /\ rfd = [s \in Session |-> None]
    /\ seen = [s \in Session |-> <<>>]
    /\ others = {}
    /\ faults = 0

-----------------------------------------------------------------------------
(***************************************************************************)
(* Helpers                                                                 *)
(***************************************************************************)
UsedPids == {pid[s] : s \in Session} \cup others

\* Signal(0) to a PID succeeds: some process of the machine has it.
Alive(p) == p \in UsedPids

\* Inodes the file system may hand out for a new file.
FreeInodes == {i \in Inode : i # path /\ \A s \in Session : fd[s] # i /\ rfd[s] # i}

\* Mutant: the descriptor is opened with O_APPEND.
MutOverwriteAppends(old, new) == old \o new

\* What a file holds after new is written at offset 0 over old: writePID
\* writes through the descriptor NewLockFile opened, which truncates nothing.
Overwrite(old, new) ==
    [k \in 1..(IF Len(old) > Len(new) THEN Len(old) ELSE Len(new)) |->
        IF k <= Len(new) THEN new[k] ELSE old[k]]

Goto(s, l) == pc' = [pc EXCEPT ![s] = l]

\* A fault of the environment, drawn from the budget.
Fault == faults < MaxFaults /\ faults' = faults + 1

\* The kernel drops the flocks of a descriptor when it is closed.
Released(s) == [i \in Inode |-> IF holder[i] = s THEN None ELSE holder[i]]

-----------------------------------------------------------------------------
(***************************************************************************)
(* A session takes the lock: NewLockFile, then Lock                        *)
(***************************************************************************)
Start(s) ==
    /\ pc[s] = "idle"
    /\ \E p \in Pid \ UsedPids : pid' = [pid EXCEPT ![s] = p]
    /\ Goto(s, "open")
    /\ UNCHANGED <<path, content, holder, fd, rfd, seen, others, faults>>

\* NewLockFile: open the path, creating the file if there is none.
NewLockFile(s) ==
    /\ pc[s] = "open"
    /\ \/ /\ path # None
          /\ fd' = [fd EXCEPT ![s] = path]
          /\ UNCHANGED <<path, content, holder>>
       \/ /\ path = None
          /\ \E i \in FreeInodes :
                /\ path' = i
                /\ fd' = [fd EXCEPT ![s] = i]
                /\ content' = [content EXCEPT ![i] = <<>>]
                /\ holder' = [holder EXCEPT ![i] = None]
    /\ Goto(s, "readopen")
    /\ UNCHANGED <<pid, rfd, seen, others, faults>>

\* NewLockFile cannot make the directory or open the file.
OpenFails(s) ==
    /\ pc[s] = "open"
    /\ Fault
    /\ Goto(s, "failed")
    /\ UNCHANGED <<path, content, holder, pid, fd, rfd, seen, others>>

\* readPID opens the path again: another file than fd, or none, if the path
\* was removed since.
ReadOpen(s) ==
    /\ pc[s] = "readopen"
    /\ \/ path # None /\ rfd' = [rfd EXCEPT ![s] = path] /\ Goto(s, "scan")
       \/ path = None /\ Goto(s, "failed") /\ UNCHANGED rfd
    /\ UNCHANGED <<path, content, holder, pid, fd, seen, others, faults>>

\* Mutant: an empty file is reported as a PID that is none.
MutScanNoPid(s) ==
    /\ pc[s] = "scan"
    /\ seen' = [seen EXCEPT ![s] = IF content[rfd[s]] = <<>> THEN <<10>> ELSE content[rfd[s]]]
    /\ rfd' = [rfd EXCEPT ![s] = None]
    /\ Goto(s, "check")
    /\ UNCHANGED <<path, content, holder, pid, fd, others, faults>>

\* readPID scans a number; an empty file is a dead lock file, PID -1.
Scan(s) ==
    /\ pc[s] = "scan"
    /\ seen' = [seen EXCEPT ![s] = content[rfd[s]]]
    /\ rfd' = [rfd EXCEPT ![s] = None]
    /\ Goto(s, "check")
    /\ UNCHANGED <<path, content, holder, pid, fd, others, faults>>

\* Mutant: the test for our own PID is dropped.
MutCheckOwnerOwnPid(s) ==
    /\ pc[s] = "check"
    /\ Goto(s, IF seen[s] # <<>> /\ Alive(seen[s]) THEN "refused" ELSE "flock")
    /\ UNCHANGED <<path, content, holder, pid, fd, rfd, seen, others, faults>>

\* Lock refuses when the recorded PID is a live process other than ours.
CheckOwner(s) ==
    /\ pc[s] = "check"
    /\ Goto(s, IF seen[s] \notin {<<>>, pid[s]} /\ Alive(seen[s])
               THEN "refused" ELSE "flock")
    /\ UNCHANGED <<path, content, holder, pid, fd, rfd, seen, others, faults>>

\* Mutant: a shared lock, which every session gets.
MutFlockShared(s) ==
    /\ pc[s] = "flock"
    /\ holder' = [holder EXCEPT ![fd[s]] = s]
    /\ Goto(s, "write")
    /\ UNCHANGED <<path, content, pid, fd, rfd, seen, others, faults>>

\* flock(LOCK_EX|LOCK_NB) on the descriptor.
Flock(s) ==
    /\ pc[s] = "flock"
    /\ \/ /\ holder[fd[s]] = None
          /\ holder' = [holder EXCEPT ![fd[s]] = s]
          /\ Goto(s, "write")
       \/ holder[fd[s]] # None /\ Goto(s, "failed") /\ UNCHANGED holder
    /\ UNCHANGED <<path, content, pid, fd, rfd, seen, others, faults>>

\* writePID, after which doLock sets didStart.
WritePID(s) ==
    /\ pc[s] = "write"
    /\ content' = [content EXCEPT ![fd[s]] = Overwrite(@, pid[s])]
    /\ Goto(s, "work")
    /\ UNCHANGED <<path, holder, pid, fd, rfd, seen, others, faults>>

\* writePID fails: Lock returns an error although l.owner is set.
WriteFails(s) ==
    /\ pc[s] = "write"
    /\ Fault
    /\ Goto(s, "failed")
    /\ UNCHANGED <<path, content, holder, pid, fd, rfd, seen, others>>

-----------------------------------------------------------------------------
(***************************************************************************)
(* A session gives the lock back: the end of Cleanup, and the exit         *)
(***************************************************************************)
\* The work is over, or a signal ended it: Cleanup is entered.
Finish(s) ==
    /\ pc[s] = "work"
    /\ Goto(s, "unlock")
    /\ UNCHANGED <<path, content, holder, pid, fd, rfd, seen, others, faults>>

Unlock(s) ==
    /\ pc[s] = "unlock"
    /\ holder' = [holder EXCEPT ![fd[s]] = None]
    /\ Goto(s, "clean")
    /\ UNCHANGED <<path, content, pid, fd, rfd, seen, others, faults>>

\* Clean closes the descriptor and removes the path, whatever it names now.
Clean(s) ==
    /\ pc[s] = "clean"
    /\ fd' = [fd EXCEPT ![s] = None]
    /\ path' = None
    /\ Goto(s, "cleaned")
    /\ UNCHANGED <<content, holder, pid, rfd, seen, others, faults>>

\* The other goroutine was waiting on m.lock in its own Cleanup and enters
\* it before the process is gone.  Unlock fails on the closed descriptor and
\* the error is logged.
SecondCleanup(s) ==
    /\ pc[s] = "cleaned"
    /\ Fault
    /\ Goto(s, "again")
    /\ UNCHANGED <<path, content, holder, pid, fd, rfd, seen, others>>

\* l.owner is still set, so Clean removes the path a second time.
CleanAgain(s) ==
    /\ pc[s] = "again"
    /\ path' = None
    /\ Goto(s, "cleaned2")
    /\ UNCHANGED <<content, holder, pid, fd, rfd, seen, others, faults>>

\* The process ends: the kernel closes its descriptors and frees its PID.
Gone(s) ==
    /\ pid' = [pid EXCEPT ![s] = <<>>]
    /\ fd' = [fd EXCEPT ![s] = None]
    /\ rfd' = [rfd EXCEPT ![s] = None]
    /\ seen' = [seen EXCEPT ![s] = <<>>]
    /\ holder' = Released(s)
    /\ Goto(s, IF Restart THEN "idle" ELSE "gone")
    /\ UNCHANGED <<path, content, others>>

Exit(s) ==
    /\ pc[s] \in Ended \cup {"cleaned", "cleaned2"}
    /\ Gone(s)
    /\ UNCHANGED faults

\* A signal while doLock runs: didStart is not set, so the Cleanup of the
\* signal goroutine returns at once and os.Exit leaves the file behind.
SignalExit(s) ==
    /\ pc[s] \in Locking
    /\ Fault
    /\ Gone(s)

\* SIGKILL or a loss of the process: it ends where it is, the file stays.
Crash(s) ==
    /\ pc[s] \in Live
    /\ Fault
    /\ Gone(s)

-----------------------------------------------------------------------------
(***************************************************************************)
(* Processes that are not solbuild                                         *)
(***************************************************************************)
OtherStart(p) ==
    /\ p \in Bystander \ UsedPids
    /\ others' = others \cup {p}
    /\ UNCHANGED <<path, content, holder, pc, pid, fd, rfd, seen, faults>>

OtherExit(p) ==
    /\ p \in others
    /\ others' = others \ {p}
    /\ UNCHANGED <<path, content, holder, pc, pid, fd, rfd, seen, faults>>

\* delete-cache removes OverlayRootDir and with it the lock file of the root,
\* whoever has it.
DeleteCache ==
    /\ path # None
    /\ Fault
    /\ path' = None
    /\ UNCHANGED <<content, holder, pc, pid, fd, rfd, seen, others>>

\* What a session does by itself, once it has been started.
Step(s) ==
    \/ NewLockFile(s) \/ ReadOpen(s) \/ Scan(s) \/ CheckOwner(s) \/ Flock(s)
    \/ WritePID(s) \/ Finish(s) \/ Unlock(s) \/ Clean(s) \/ CleanAgain(s)
    \/ Exit(s)

Next ==
    \/ \E s \in Session :
          \/ Start(s) \/ Step(s) \/ SecondCleanup(s) \/ SignalExit(s)
          \/ OpenFails(s) \/ WriteFails(s) \/ Crash(s)
    \/ \E p \in Bystander : OtherStart(p) \/ OtherExit(p)
    \/ DeleteCache

\* A running process is scheduled; nothing makes anyone start a session, send
\* a signal or crash.
Spec == Init /\ [][Next]_vars /\ \A s \in Session : WF_vars(Step(s))

-----------------------------------------------------------------------------
(***************************************************************************)
(* Properties                                                              *)
(***************************************************************************)
\* Sessions between a successful flock and the release of it.
Owning(s) == pc[s] \in {"write", "work", "unlock"}

\* The flock of Lock does its part: of all the sessions that opened one and
\* the same lock file, at most one is past Lock and before Unlock, whatever
\* crashes, signals and failures the others met.
ExclusiveOnFile ==
    \A s, t \in Session :
        s # t /\ Owning(s) /\ Owning(t) => fd[s] # fd[t]

\* "writePID will store our PID": while a session works, the file it locked begins
\* with the digits of its PID, whatever PIDs of other lengths sessions before it
\* left there, and it is as long as some PID of the machine.  That it holds no
\* more than the PID is not true: a 1 written over a 20 reads 10.
PidLeadsFile ==
    \A s \in Session : pc[s] = "work" =>
        /\ Len(content[fd[s]]) \in {Len(p) : p \in Pid}
        /\ SubSeq(content[fd[s]], 1, Len(pid[s])) = pid[s]

\* What the lock is for: no two sessions work in one build root.
MutualExclusion ==
    \A s, t \in Session : pc[s] = "work" /\ pc[t] = "work" => s = t

\* A dead lock file blocks nobody for ever: if sessions keep being started,
\* sessions keep getting the lock, whatever PIDs crashed sessions left in the
\* file and whoever has those PIDs now, if in the end no process other than a
\* session does.
SessionsGetThrough ==
    []<>(\E s \in Session : pc[s] = "open") /\ <>[](others = {})
        => []<>(\E s \in Session : pc[s] = "work")

=============================================================================
