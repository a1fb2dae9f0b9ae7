----------------------------- MODULE MCLockFile -----------------------------
(***************************************************************************)
(* Instances of LockFile for TLC.  The PIDs have one and two digits: a 1   *)
(* written over a 10 still reads 10, and over a 20 it reads 10 as well.    *)
(***************************************************************************)
EXTENDS LockFile

TwoPids == {<<1>>, <<1, 0>>}
ThreePids == TwoPids \cup {<<2, 0>>}

\* A PID that other processes of the machine may take.
OneBystander == {<<1, 0>>}
NoBystander == {}
=============================================================================
