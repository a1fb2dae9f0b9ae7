----------------------------- MODULE BuildRoot -----------------------------
(***************************************************************************)
(* What a solbuild session promises about the build root it works in: the  *)
(* root is touched only under the lock file, the lock file is given back   *)
(* only when nothing is mounted and nothing runs in the root any more, and *)
(* it is given back.                                                       *)
(***************************************************************************)
VARIABLES owned,   \* the session has the lock file of the root
          dirty    \* something is mounted or runs in the root

vars == <<owned, dirty>>

TypeOK == owned \in BOOLEAN /\ dirty \in BOOLEAN

Init == owned = FALSE /\ dirty = FALSE

Acquire == ~owned /\ owned' = TRUE /\ UNCHANGED dirty
Soil == owned /\ dirty' = TRUE /\ UNCHANGED owned
Tidy == owned /\ dirty' = FALSE /\ UNCHANGED owned
Release == owned /\ ~dirty /\ owned' = FALSE /\ UNCHANGED dirty

Next == Acquire \/ Soil \/ Tidy \/ Release

Safety == Init /\ [][Next]_vars

Spec == Safety /\ (owned ~> ~owned)
=============================================================================
