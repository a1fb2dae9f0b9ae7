--------------------------- MODULE PackageProofs ---------------------------
(***************************************************************************)
(* The scripts of Package are well formed, for every configuration and any *)
(* sources and caches.                                                     *)
(*                                                                         *)
(* A script is checked like a program with types: to each of its positions *)
(* belongs a state, what is known whenever main is there (the lock file,   *)
(* the command that is being run, D-BUS, the mounts if nothing failed).    *)
(* Every step leads from the state of its position to that of the next,    *)
(* and an error that is not returned to the state of the position it goes  *)
(* to.  Scripts that fit can be put one after the other.                   *)
(***************************************************************************)
EXTENDS Manager, FiniteSetTheorems, SequenceTheorems, WellFoundedInduction, TLAPS

-----------------------------------------------------------------------------
(***************************************************************************)
(* Sequences                                                               *)
(***************************************************************************)
\* A set of natural numbers with an element has a smallest one.
LEMMA LeastExists ==
    ASSUME NEW X, X \subseteq Nat, X # {}
    PROVE  \E m \in X : \A x \in X : m <= x
<1> DEFINE R == {ss \in Nat \X Nat : ss[1] < ss[2]}
<1>1. IsWellFoundedOn(R, Nat)
  BY NatLessThanWellFounded DEF OpToRel
<1>2. PICK m \in X : \A x \in X : ~(<<x, m>> \in R)
  <2> HIDE DEF R
  <2> QED BY <1>1, WFMin
<1>3. \A x \in X : ~(x < m)
  BY <1>2
<1> QED BY <1>3

\* FlattenSeq concatenates from the left.
LEMMA FlattenIs ==
    ASSUME NEW A, NEW ss, Len(ss) \in Nat \ {0}, \A i \in 1..Len(ss) : ss[i] \in Seq(A)
    PROVE  \E h \in [1..Len(ss) -> Seq(A)] :
              /\ FlattenSeq(ss) = h[Len(ss)]
              /\ h[1] = ss[1]
              /\ \A i \in 2..Len(ss) : h[i] = h[i - 1] \o ss[i]
<1> DEFINE N == Len(ss)
           body(g, i) == IF i = 1 THEN ss[i] ELSE g[i - 1] \o ss[i]
           flatten == CHOOSE g : g = [i \in 1..N |-> body(g, i)]
           Upto(n, g) == /\ g \in [1..n -> Seq(A)]
                         /\ g[1] = ss[1]
                         /\ \A i \in 2..n : g[i] = g[i - 1] \o ss[i]
<1>1. FlattenSeq(ss) = flatten[N]
  BY DEF FlattenSeq
<1>2. \E g : Upto(N, g)
  <2> DEFINE Some(n) == \E g : Upto(n, g)
             B == {n \in 1..N : ~Some(n)}
  <2> HIDE DEF Upto, Some
  <2> SUFFICES ASSUME B # {} PROVE FALSE
    <3>1. Some(N)
      OBVIOUS
    <3> QED BY <3>1 DEF Some
  <2>1. B \subseteq Nat
    OBVIOUS
  <2>2. PICK m \in B : \A x \in B : m <= x
    <3> HIDE DEF B
    <3> QED BY <2>1, LeastExists
  <2>3. CASE m = 1
    <3>1. Upto(1, [i \in 1..1 |-> ss[1]])
      BY DEF Upto
    <3> QED BY <2>3, <3>1 DEF Some
  <2>4. CASE m # 1
    <3>1. m - 1 \in 1..N /\ m \in 2..N /\ m - 1 < m
      BY <2>4
    <3>2. m - 1 \notin B
      <4> HIDE DEF B
      <4> QED BY <2>2, <3>1
    <3>3. PICK g : Upto(m - 1, g)
      BY <3>1, <3>2 DEF Some
    <3> DEFINE h == [i \in 1..m |-> IF i = m THEN g[m - 1] \o ss[m] ELSE g[i]]
    <3>4. g[m - 1] \o ss[m] \in Seq(A)
      BY <3>1, <3>3, ConcatProperties DEF Upto
    <3>5. \A i \in 1..m : i # m => i \in 1..(m - 1)
      BY <3>1
    <3>6. h \in [1..m -> Seq(A)]
      BY <3>3, <3>4, <3>5 DEF Upto
    <3>7. h[1] = ss[1]
      BY <2>4, <3>1, <3>3 DEF Upto
    <3>8. ASSUME NEW i \in 2..m PROVE h[i] = h[i - 1] \o ss[i]
      <4>1. i \in 1..m /\ i - 1 \in 1..m /\ i - 1 # m
        BY <3>1
      <4>2. CASE i = m
        BY <4>1, <4>2
      <4>3. CASE i # m
        <5>1. i \in 2..(m - 1)
          BY <3>1, <4>3
        <5>2. g[i] = g[i - 1] \o ss[i]
          BY <3>3, <5>1 DEF Upto
        <5> QED BY <4>1, <4>3, <5>2
      <4> QED BY <4>2, <4>3
    <3>9. Upto(m, h)
      BY <3>6, <3>7, <3>8 DEF Upto
    <3> HIDE DEF h
    <3> QED BY <3>9 DEF Some
  <2> QED BY <2>3, <2>4
<1>3. PICK g : Upto(N, g)
  BY <1>2
<1>4. g = [i \in 1..N |-> body(g, i)]
  <2>1. \A i \in 1..N : g[i] = body(g, i)
    <3> SUFFICES ASSUME NEW i \in 1..N PROVE g[i] = body(g, i)
      OBVIOUS
    <3>1. CASE i = 1
      BY <1>3, <3>1
    <3>2. CASE i # 1
      <4>1. i \in 2..N
        BY <3>2
      <4> QED BY <1>3, <3>2, <4>1
    <3> QED BY <3>1, <3>2
  <2> QED BY <1>3, <2>1
<1>5. flatten = [i \in 1..N |-> body(flatten, i)]
  <2> DEFINE P(f) == f = [i \in 1..N |-> body(f, i)]
  <2>1. P(g)
    BY <1>4
  <2>2. flatten = CHOOSE f : P(f)
    OBVIOUS
  <2> HIDE DEF P
  <2>3. P(CHOOSE f : P(f))
    BY <2>1
  <2>4. P(flatten)
    BY <2>2, <2>3
  <2> QED BY <2>4 DEF P
<1> HIDE DEF flatten
<1>6. ASSUME flatten # g PROVE FALSE
  <2> DEFINE D == {i \in 1..N : flatten[i] # g[i]}
  <2>1. D # {} /\ D \subseteq Nat
    <3>1. DOMAIN flatten = 1..N /\ DOMAIN g = 1..N
      BY <1>4, <1>5
    <3>2. ASSUME \A i \in 1..N : flatten[i] = g[i] PROVE flatten = g
      BY <1>4, <1>5, <3>1, <3>2
    <3> QED BY <1>6, <3>2
  <2>2. PICK m \in D : \A x \in D : m <= x
    <3> HIDE DEF D
    <3> QED BY <2>1, LeastExists
  <2>3. flatten[m] = body(flatten, m) /\ g[m] = body(g, m)
    BY <1>4, <1>5
  <2>4. m # 1
    BY <2>3
  <2>5. m - 1 \in 1..N /\ m - 1 < m
    BY <2>4
  <2>6. flatten[m - 1] = g[m - 1]
    <3>1. m - 1 \notin D
      <4> HIDE DEF D
      <4> QED BY <2>1, <2>2, <2>5
    <3> QED BY <2>5, <3>1
  <2> QED BY <2>3, <2>6
<1> QED BY <1>1, <1>3, <1>6

\* SetToSeq lists a finite set.
LEMMA SetToSeqIs ==
    ASSUME NEW X, IsFiniteSet(X)
    PROVE  /\ SetToSeq(X) \in Seq(X)
           /\ Len(SetToSeq(X)) \in Nat
           /\ \A x \in X : \E i \in 1..Len(SetToSeq(X)) : SetToSeq(X)[i] = x
<1> DEFINE n == Cardinality(X)
           q == SetToSeq(X)
<1>1. n \in Nat /\ ExistsBijection(1..n, X)
  BY FS_CardinalityType
<1>2. PICK g : g \in Bijection(1..n, X)
  BY <1>1 DEF ExistsBijection
<1>3. g \in [1..n -> X] /\ IsInjective(g)
  BY <1>2 DEF Bijection, Injection, Surjection, IsInjective
<1>4. q \in [1..n -> X] /\ IsInjective(q)
  BY <1>3 DEF SetToSeq
<1> HIDE DEF q
<1>5. q \in Injection(1..n, X)
  BY <1>4 DEF Injection, IsInjective
<1>6. IsFiniteSet(1..n) /\ Cardinality(1..n) = n
  BY <1>1, FS_Interval
<1>7. q \in Surjection(1..n, X)
  BY <1>5, <1>6, FS_Injection
<1>8. \A x \in X : \E i \in 1..n : q[i] = x
  BY <1>7 DEF Surjection
<1>9. q \in Seq(X) /\ Len(q) = n
  <2> HIDE DEF n
  <2> QED BY <1>1, <1>4
<1> QED BY <1>1, <1>8, <1>9 DEF q

-----------------------------------------------------------------------------
(***************************************************************************)
(* States of a script                                                      *)
(***************************************************************************)
IsStep(st) == st.op \in Ops /\ st.onErr \in Nat /\ st.keep \in BOOLEAN

\* What a build command is to find mounted.
Wanted(c) == Sources \cup (IF c.type = "ypkg" THEN Caches ELSE {})

LockOps == {"newlock", "lock", "started"}
PhaseOps == {"start", "notify", "wait", "helper", "helped", "dbusopen", "dbuskill"}

(***************************************************************************)
(* A state: lock, how far doLock is; ph, what main is in the middle of;    *)
(* cmd, the command it runs; dbus: "off", "up" (the daemon is there), "on" *)
(* (and dbusActive says so), or "tail" (off, and nothing but file system   *)
(* work and the reset of the PID is left); bound, the mounts if nothing    *)
(* has failed.  A step st of configuration c leads from state x to y:      *)
(***************************************************************************)
FollowsLock(st, x, y) ==
    /\ st.op = "newlock" => x.lock = "none" /\ y.lock = "open"
    /\ st.op = "lock" => x.lock = "open" /\ y.lock = "held"
    /\ st.op = "started" => x.lock = "held" /\ y.lock = "started"
    /\ st.op \in LockOps => st.onErr = 0
    /\ st.op \notin LockOps => y.lock = x.lock
    /\ st.op \notin LockOps \cup {"io"} => x.lock = "started"

FollowsPhase(st, x, y) ==
    /\ st.op = "start" => x.ph = "none" /\ y.ph = "started" /\ x.cmd = "" /\ y.cmd = st.arg
    /\ st.op = "notify" => x.ph = "started" /\ y.ph = "notified" /\ x.cmd = st.arg /\ y.cmd = x.cmd
    /\ st.op = "wait" => x.ph = "notified" /\ y.ph = "none" /\ x.cmd = st.arg /\ y.cmd = ""
    /\ st.op = "helper" => x.ph = "none" /\ y.ph = "helping"
    /\ st.op = "helped" => x.ph = "helping" /\ y.ph = "none"
    /\ st.op = "dbusopen" => x.ph = "none" /\ y.ph = "stopping"
    /\ st.op = "dbuskill" => x.ph = "stopping" /\ y.ph = "none"
    /\ st.op \notin PhaseOps => x.ph = "none" /\ y.ph = "none"
    /\ st.op \notin {"start", "notify", "wait"} => x.cmd = "" /\ y.cmd = ""

FollowsDbus(st, x, y) ==
    /\ st.op = "wait" /\ st.arg = "dbus-daemon" => x.dbus = "off" /\ y.dbus = "up" /\ st.onErr = 0
    /\ st.op = "dbusup" => x.dbus = "up" /\ y.dbus = "on"
    /\ st.op = "dbusopen" => x.dbus = "on" /\ y.dbus = "on" /\ st.onErr = 0
    /\ st.op = "dbuskill" => x.dbus = "on" /\ y.dbus = "off" /\ st.onErr = 0
    /\ st.op \in {"layout", "rmpid"} => x.dbus = "off"
    /\ x.dbus = "tail" => st.op \in {"io", "reset"}
    /\ st.op \notin {"dbusup", "dbusopen", "dbuskill"} /\ ~(st.op = "wait" /\ st.arg = "dbus-daemon")
          => (y.dbus = x.dbus \/ (x.dbus = "off" /\ y.dbus = "tail"))

FollowsMounts(c, st, x, y) ==
    /\ st.op = "mount" => st.arg \in MountPoints /\ y.bound = x.bound \cup {st.arg}
    /\ st.op # "mount" => y.bound = x.bound
    /\ st.op = "wait" /\ st.arg = "build" => Wanted(c) \subseteq x.bound
    /\ st.op \in {"jail", "unjail"} => c.op = "chroot"
    /\ st.op = "start" /\ st.arg = "shell" => c.op = "chroot"

Follows(c, st, x, y) ==
    FollowsLock(st, x, y) /\ FollowsPhase(st, x, y) /\ FollowsDbus(st, x, y)
        /\ FollowsMounts(c, st, x, y)

\* What an error that is not returned leaves.
Landed(x, y) ==
    /\ y.lock = x.lock /\ y.ph = "none" /\ y.cmd = ""
    /\ y.dbus = x.dbus \/ (x.dbus = "off" /\ y.dbus = "tail")

\* Where an error of step i that is not returned goes.  That of a command which
\* ended because of a signal is one that goes to the reset of the PID and then
\* is returned, or after which nothing is left to do in the root; a shell may
\* do as it likes.
Lands(c, s, f, i) ==
    LET p == i + s[i].onErr
    IN  /\ p <= Len(s) + 1
        /\ Landed(f[i], f[p])
        /\ s[i].op \in {"wait", "helped", "check"} => f[p].bound = f[i].bound
        /\ s[i].op = "wait" /\ c.op # "chroot" =>
              \/ f[p].dbus = "tail"
              \/ /\ s[i].keep /\ p + 1 <= Len(s)
                 /\ s[p].op = "reset" /\ s[p + 1].op = "check" /\ s[p + 1].onErr = 0

Typed(c, s, f) ==
    /\ \E X : s \in Seq(X)
    /\ \A i \in 1..Len(s) :
          IsStep(s[i]) /\ Follows(c, s[i], f[i], f[i + 1]) /\ (s[i].onErr # 0 => Lands(c, s, f, i))

Begin == [lock |-> "none", ph |-> "none", cmd |-> "", dbus |-> "off", bound |-> {}]

\* f is what is known at the positions of the script of c.
Fits(c, f) ==
    /\ Typed(c, ManagerScript(c), f)
    /\ f[1] = Begin /\ f[Len(ManagerScript(c)) + 1].ph = "none"

Types(c, s, x, y) == \E f : Typed(c, s, f) /\ f[1] = x /\ f[Len(s) + 1] = y

-----------------------------------------------------------------------------
\* A script of one step.
LEMMA OneStep ==
    ASSUME NEW c, NEW st, NEW x, NEW y, IsStep(st), st.onErr = 0, Follows(c, st, x, y)
    PROVE  Types(c, <<st>>, x, y)
<1> DEFINE s == <<st>>
           f == <<x, y>>
<1>1. s \in Seq({st}) /\ Len(s) = 1 /\ s[1] = st /\ f[1] = x /\ f[2] = y
  OBVIOUS
<1> HIDE DEF s, f
<1>2. \A i \in 1..Len(s) : i = 1
  BY <1>1
<1>3. \A i \in 1..Len(s) : IsStep(s[i]) /\ Follows(c, s[i], f[i], f[i + 1]) /\ s[i].onErr = 0
  BY <1>1, <1>2
<1>4. Typed(c, s, f)
  BY <1>1, <1>3 DEF Typed
<1> QED BY <1>1, <1>4 DEF Types, s

\* A script of no step.
LEMMA NoStep ==
    ASSUME NEW c, NEW x
    PROVE  Types(c, <<>>, x, x)
<1> DEFINE f == <<x>>
<1>1. <<>> \in Seq({}) /\ Len(<<>>) = 0 /\ f[1] = x
  OBVIOUS
<1>2. Typed(c, <<>>, f)
  BY <1>1 DEF Typed
<1> QED BY <1>1, <1>2 DEF Types

\* One script after another.
LEMMA Cat ==
    ASSUME NEW c, NEW s, NEW t, NEW x, NEW y, NEW z, Types(c, s, x, y), Types(c, t, y, z)
    PROVE  Types(c, s \o t, x, z)
<1>1. PICK f : Typed(c, s, f) /\ f[1] = x /\ f[Len(s) + 1] = y
  BY DEF Types
<1>2. PICK g : Typed(c, t, g) /\ g[1] = y /\ g[Len(t) + 1] = z
  BY DEF Types
<1> DEFINE m == Len(s)
           n == Len(t)
           r == s \o t
           h == [i \in 1..(m + n + 1) |-> IF i <= m THEN f[i] ELSE g[i - m]]
<1>3. PICK Step : s \in Seq(Step) /\ t \in Seq(Step)
  <2>1. PICK X : s \in Seq(X)
    BY <1>1 DEF Typed
  <2>2. PICK Y : t \in Seq(Y)
    BY <1>2 DEF Typed
  <2>3. s \in Seq(X \cup Y) /\ t \in Seq(X \cup Y)
    BY <2>1, <2>2, SeqMonotonic
  <2> QED BY <2>3
<1>4. m \in Nat /\ n \in Nat
  BY <1>3
<1>5. /\ r \in Seq(Step) /\ Len(r) = m + n
      /\ \A i \in 1..m : r[i] = s[i]
      /\ \A i \in 1..n : r[m + i] = t[i]
  <2>1. /\ r \in Seq(Step) /\ Len(r) = m + n
        /\ \A i \in 1..m + n : r[i] = IF i <= m THEN s[i] ELSE t[i - m]
    BY <1>3, ConcatProperties
  <2> HIDE DEF r, m, n
  <2>2. \A i \in 1..m : i \in 1..m + n /\ i <= m
    BY <1>4
  <2>3. \A i \in 1..n : m + i \in 1..m + n /\ ~(m + i <= m) /\ (m + i) - m = i
    BY <1>4
  <2> QED BY <2>1, <2>2, <2>3
<1>6. /\ \A i \in 1..(m + 1) : h[i] = f[i]
      /\ \A i \in 1..(n + 1) : h[m + i] = g[i]
  <2> HIDE DEF m, n
  <2>1. \A i \in 1..m : i \in 1..(m + n + 1) /\ i <= m
    BY <1>4
  <2>2. \A i \in 1..(n + 1) : m + i \in 1..(m + n + 1) /\ ~(m + i <= m) /\ (m + i) - m = i
    BY <1>4
  <2>3. h[m + 1] = f[m + 1]
    BY <1>1, <1>2, <1>4, <2>2 DEF m
  <2>4. \A i \in 1..(m + 1) : i = m + 1 \/ i \in 1..m
    BY <1>4
  <2> QED BY <2>1, <2>2, <2>3, <2>4
<1> HIDE DEF r, h
<1>7. ASSUME NEW i \in 1..m
      PROVE  IsStep(r[i]) /\ Follows(c, r[i], h[i], h[i + 1]) /\ (r[i].onErr # 0 => Lands(c, r, h, i))
  <2>1. i \in Nat /\ i \in 1..(m + 1) /\ i + 1 \in 1..(m + 1)
    BY <1>4
  <2>2. r[i] = s[i] /\ h[i] = f[i] /\ h[i + 1] = f[i + 1]
    BY <1>5, <1>6, <2>1
  <2>3. IsStep(s[i]) /\ Follows(c, s[i], f[i], f[i + 1]) /\ (s[i].onErr # 0 => Lands(c, s, f, i))
    BY <1>1 DEF Typed
  <2>4. ASSUME s[i].onErr # 0 PROVE Lands(c, r, h, i)
    <3> DEFINE p == i + s[i].onErr
    <3>1. s[i].onErr \in Nat
      BY <2>3 DEF IsStep
    <3>2. p \in 1..(m + 1)
      <4>1. p <= m + 1
        BY <2>3, <2>4 DEF Lands
      <4> HIDE DEF m
      <4> QED BY <1>4, <2>1, <3>1, <4>1
    <3>3. h[p] = f[p] /\ p <= Len(r) + 1
      BY <1>4, <1>5, <1>6, <3>2
    <3>4. p + 1 <= m => p \in 1..m /\ p + 1 \in 1..m /\ p + 1 <= Len(r)
      BY <1>4, <1>5, <3>2
    <3>5. p + 1 <= m => r[p] = s[p] /\ r[p + 1] = s[p + 1] /\ p + 1 <= Len(r)
      BY <1>5, <3>4
    <3>6. Lands(c, s, f, i)
      BY <2>3, <2>4
    <3> QED BY <2>2, <3>3, <3>5, <3>6 DEF Lands
  <2> QED BY <2>2, <2>3, <2>4
<1>8. ASSUME NEW i \in 1..n
      PROVE  /\ IsStep(r[m + i]) /\ Follows(c, r[m + i], h[m + i], h[m + i + 1])
             /\ r[m + i].onErr # 0 => Lands(c, r, h, m + i)
  <2>1. i \in Nat /\ i \in 1..(n + 1) /\ i + 1 \in 1..(n + 1) /\ m + i + 1 = m + (i + 1)
    BY <1>4
  <2>2. r[m + i] = t[i] /\ h[m + i] = g[i] /\ h[m + i + 1] = g[i + 1]
    BY <1>5, <1>6, <2>1
  <2>3. IsStep(t[i]) /\ Follows(c, t[i], g[i], g[i + 1]) /\ (t[i].onErr # 0 => Lands(c, t, g, i))
    BY <1>2 DEF Typed
  <2>4. ASSUME t[i].onErr # 0 PROVE Lands(c, r, h, m + i)
    <3> DEFINE p == i + t[i].onErr
    <3>1. t[i].onErr \in Nat
      BY <2>3 DEF IsStep
    <3>2. p \in 1..(n + 1)
      <4>1. p <= n + 1
        BY <2>3, <2>4 DEF Lands
      <4> HIDE DEF n
      <4> QED BY <1>4, <2>1, <3>1, <4>1
    <3>3. m + i + t[i].onErr = m + p
      BY <1>4, <2>1, <3>1
    <3>4. h[m + p] = g[p] /\ m + p <= Len(r) + 1
      BY <1>4, <1>5, <1>6, <3>2
    <3>5. p + 1 <= n => p \in 1..n /\ p + 1 \in 1..n /\ m + p + 1 = m + (p + 1)
      BY <1>4, <3>2
    <3>6. ASSUME p + 1 <= n
          PROVE  r[m + p] = t[p] /\ r[m + p + 1] = t[p + 1] /\ m + p + 1 <= Len(r)
      <4>1. r[m + p] = t[p] /\ r[m + (p + 1)] = t[p + 1]
        BY <1>5, <3>5, <3>6
      <4>2. m + p + 1 <= Len(r)
        BY <1>4, <1>5, <3>2, <3>6
      <4> QED BY <3>5, <3>6, <4>1, <4>2
    <3>7. Lands(c, t, g, i)
      BY <2>3, <2>4
    <3> QED BY <2>2, <3>3, <3>4, <3>6, <3>7 DEF Lands
  <2> QED BY <2>2, <2>3, <2>4
<1>9. ASSUME NEW i \in 1..Len(r)
      PROVE  IsStep(r[i]) /\ Follows(c, r[i], h[i], h[i + 1]) /\ (r[i].onErr # 0 => Lands(c, r, h, i))
  <2>1. CASE i <= m
    <3>1. i \in 1..m
      BY <1>4, <1>5, <2>1
    <3> QED BY <1>7, <3>1
  <2>2. CASE ~(i <= m)
    <3>1. i - m \in 1..n /\ m + (i - m) = i /\ m + (i - m) + 1 = i + 1
      BY <1>4, <1>5, <2>2
    <3> QED BY <1>8, <3>1
  <2> QED BY <2>1, <2>2
<1>10. Typed(c, r, h)
  BY <1>5, <1>9 DEF Typed
<1>11. h[1] = x /\ h[Len(r) + 1] = z
  <2>1. 1 \in 1..(m + 1) /\ n + 1 \in 1..(n + 1) /\ Len(r) + 1 = m + (n + 1)
    BY <1>4, <1>5
  <2> QED BY <1>1, <1>2, <1>6, <2>1
<1> QED BY <1>10, <1>11 DEF Types, r
-----------------------------------------------------------------------------
(***************************************************************************)
(* Blocks: scripts from one state of rest to another                       *)
(***************************************************************************)
Rest(d, b) == [lock |-> "started", ph |-> "none", cmd |-> "", dbus |-> d, bound |-> b]

Mode == {"off", "up", "on", "tail"}

\* From d to e: it needs the mounts N and leaves at least W more.
Block(c, s, d, e, N, W) ==
    \A b : N \subseteq b =>
        \E bb : b \cup W \subseteq bb /\ Types(c, s, Rest(d, b), Rest(e, bb))

Plain(c, s, d, e) == Block(c, s, d, e, {}, {})

\* One block after another.
LEMMA BlockCat ==
    ASSUME NEW c, NEW s, NEW t, NEW d, NEW e, NEW g, NEW N, NEW W, NEW M, NEW V,
           Block(c, s, d, e, N, W), Block(c, t, e, g, M, V), M \subseteq N \cup W
    PROVE  Block(c, s \o t, d, g, N, W \cup V)
<1> SUFFICES ASSUME NEW b, N \subseteq b
             PROVE  \E bb : b \cup (W \cup V) \subseteq bb
                              /\ Types(c, s \o t, Rest(d, b), Rest(g, bb))
  BY DEF Block
<1>1. PICK b1 : b \cup W \subseteq b1 /\ Types(c, s, Rest(d, b), Rest(e, b1))
  BY DEF Block
<1>2. M \subseteq b1
  BY <1>1
<1>3. PICK b2 : b1 \cup V \subseteq b2 /\ Types(c, t, Rest(e, b1), Rest(g, b2))
  BY <1>2 DEF Block
<1>4. b \cup (W \cup V) \subseteq b2
  BY <1>1, <1>3
<1>5. Types(c, s \o t, Rest(d, b), Rest(g, b2))
  BY <1>1, <1>3, Cat
<1> QED BY <1>4, <1>5

\* A block needs no more than it needs, and leaves what it leaves.
LEMMA Weaker ==
    ASSUME NEW c, NEW s, NEW d, NEW e, NEW N, NEW W, NEW M, NEW V,
           Block(c, s, d, e, N, W), N \subseteq M, V \subseteq W
    PROVE  Block(c, s, d, e, M, V)
<1> SUFFICES ASSUME NEW b, M \subseteq b
             PROVE  \E bb : b \cup V \subseteq bb /\ Types(c, s, Rest(d, b), Rest(e, bb))
  BY DEF Block
<1>1. PICK bb : b \cup W \subseteq bb /\ Types(c, s, Rest(d, b), Rest(e, bb))
  BY DEF Block
<1> QED BY <1>1

\* One plain block after another.
LEMMA PlainCat ==
    ASSUME NEW c, NEW s, NEW t, NEW d, NEW e, NEW g, Plain(c, s, d, e), Plain(c, t, e, g)
    PROVE  Plain(c, s \o t, d, g)
<1>1. Block(c, s \o t, d, g, {}, {} \cup {})
  BY BlockCat DEF Plain
<1> QED BY <1>1 DEF Plain

\* The empty script.
LEMMA PlainNone ==
    ASSUME NEW c, NEW d
    PROVE  Plain(c, <<>>, d, d)
BY NoStep DEF Plain, Block

\* The steps S makes.
LEMMA StepIs ==
    ASSUME NEW op \in Ops, NEW arg
    PROVE  /\ IsStep(S(op, arg))
           /\ S(op, arg).op = op /\ S(op, arg).arg = arg /\ S(op, arg).onErr = 0
BY DEF S, IsStep

\* A step that leaves everything as it is.
LEMMA PlainStep ==
    ASSUME NEW c, NEW op \in {"io", "reset", "layout", "rmpid", "check", "unshare", "locked"},
           NEW arg, NEW d \in Mode,
           d = "tail" => op \in {"io", "reset"}, op \in {"layout", "rmpid"} => d = "off"
    PROVE  Plain(c, <<S(op, arg)>>, d, d)
<1>1. op \in Ops
  BY DEF Ops
<1> SUFFICES ASSUME NEW b PROVE Types(c, <<S(op, arg)>>, Rest(d, b), Rest(d, b))
  BY DEF Plain, Block
<1>2. Follows(c, S(op, arg), Rest(d, b), Rest(d, b))
  <2> DEFINE st == S(op, arg)
             x == Rest(d, b)
  <2>1. st.op = op /\ st.arg = arg /\ st.onErr = 0
    BY <1>1, StepIs
  <2>2. x.lock = "started" /\ x.ph = "none" /\ x.cmd = "" /\ x.dbus = d /\ x.bound = b
    BY DEF Rest
  <2> HIDE DEF st, x
  <2>3. FollowsLock(st, x, x) /\ FollowsPhase(st, x, x)
    BY <2>1, <2>2 DEF FollowsLock, FollowsPhase, LockOps, PhaseOps
  <2>4. FollowsDbus(st, x, x)
    BY <2>1, <2>2 DEF FollowsDbus, Mode
  <2>5. FollowsMounts(c, st, x, x)
    BY <2>1, <2>2 DEF FollowsMounts
  <2>6. Follows(c, st, x, x)
    BY <2>3, <2>4, <2>5 DEF Follows
  <2> QED BY <2>6 DEF st, x
<1> QED BY <1>1, <1>2, StepIs, OneStep

\* A mount adds its mount point.
LEMMA MountBlock ==
    ASSUME NEW c, NEW point \in MountPoints, NEW d \in {"off", "on"}
    PROVE  Block(c, Mount(point), d, d, {}, {point})
<1> SUFFICES ASSUME NEW b
             PROVE  Types(c, Mount(point), Rest(d, b), Rest(d, b \cup {point}))
  BY DEF Block
<1> DEFINE st == S("mount", point)
           x == Rest(d, b)
           y == Rest(d, b \cup {point})
<1>1. IsStep(st) /\ st.op = "mount" /\ st.arg = point /\ st.onErr = 0
  BY StepIs DEF Ops
<1>2. /\ x.lock = "started" /\ x.ph = "none" /\ x.cmd = "" /\ x.dbus = d /\ x.bound = b
      /\ y.lock = "started" /\ y.ph = "none" /\ y.cmd = "" /\ y.dbus = d
      /\ y.bound = b \cup {point}
  BY DEF Rest
<1>3. Mount(point) = <<st>>
  BY DEF Mount
<1> HIDE DEF st, x, y
<1>4. Follows(c, st, x, y)
  <2>1. FollowsLock(st, x, y) /\ FollowsPhase(st, x, y)
    BY <1>1, <1>2 DEF FollowsLock, FollowsPhase, LockOps, PhaseOps
  <2>2. FollowsDbus(st, x, y)
    BY <1>1, <1>2 DEF FollowsDbus
  <2>3. FollowsMounts(c, st, x, y)
    BY <1>1, <1>2 DEF FollowsMounts
  <2> QED BY <2>1, <2>2, <2>3 DEF Follows
<1>5. Types(c, <<st>>, x, y)
  BY <1>1, <1>4, OneStep
<1> QED BY <1>3, <1>5 DEF x, y

\* Main in the middle of something.
Mid(d, b, ph, cmd_) == [lock |-> "started", ph |-> ph, cmd |-> cmd_, dbus |-> d, bound |-> b]

\* Two and three steps are scripts of one after each other.
LEMMA TwoSteps ==
    ASSUME NEW s1, NEW s2
    PROVE  <<s1, s2>> = <<s1>> \o <<s2>>
<1> DEFINE X == {s1, s2}
           u == <<s1>>
           v == <<s2>>
           w == <<s1, s2>>
<1>1. /\ u \in Seq(X) /\ v \in Seq(X) /\ w \in Seq(X) /\ Len(u) = 1 /\ Len(v) = 1 /\ Len(w) = 2
      /\ u[1] = s1 /\ v[1] = s2 /\ w[1] = s1 /\ w[2] = s2
  OBVIOUS
<1> HIDE DEF X, u, v, w
<1>2. u \o v \in Seq(X) /\ Len(u \o v) = 2 /\ (u \o v)[1] = s1 /\ (u \o v)[2] = s2
  BY <1>1, ConcatProperties
<1>3. \A i \in 1..Len(w) : w[i] = (u \o v)[i]
  BY <1>1, <1>2
<1>4. w = u \o v
  BY <1>1, <1>2, <1>3, SeqEqual
<1> QED BY <1>4 DEF u, v, w

\* And three.
LEMMA ThreeSteps ==
    ASSUME NEW s1, NEW s2, NEW s3
    PROVE  <<s1, s2, s3>> = <<s1>> \o <<s2>> \o <<s3>>
<1> DEFINE X == {s1, s2, s3}
<1>1. <<s1, s2>> \in Seq(X) /\ <<s3>> \in Seq(X) /\ <<s1, s2, s3>> \in Seq(X)
  OBVIOUS
<1>2. <<s1, s2, s3>> = <<s1, s2>> \o <<s3>>
  BY <1>1
<1> QED BY <1>2, TwoSteps

\* Start, SetActivePID, Wait.
LEMMA ExecTypes ==
    ASSUME NEW c, NEW cmd_, NEW d \in {"off", "on"}, NEW e, NEW b,
           cmd_ = "dbus-daemon" => d = "off" /\ e = "up",
           cmd_ # "dbus-daemon" => e = d,
           cmd_ = "build" => Wanted(c) \subseteq b,
           cmd_ # "shell"
    PROVE  Types(c, ChrootExec(cmd_), Rest(d, b), Rest(e, b))
<1> DEFINE s1 == S("start", cmd_)
           s2 == S("notify", cmd_)
           s3 == S("wait", cmd_)
           x0 == Rest(d, b)
           x1 == Mid(d, b, "started", cmd_)
           x2 == Mid(d, b, "notified", cmd_)
           x3 == Rest(e, b)
<1>1. /\ IsStep(s1) /\ s1.op = "start" /\ s1.arg = cmd_ /\ s1.onErr = 0
      /\ IsStep(s2) /\ s2.op = "notify" /\ s2.arg = cmd_ /\ s2.onErr = 0
      /\ IsStep(s3) /\ s3.op = "wait" /\ s3.arg = cmd_ /\ s3.onErr = 0
  BY StepIs DEF Ops
<1>2. /\ x0.lock = "started" /\ x0.ph = "none" /\ x0.cmd = "" /\ x0.dbus = d /\ x0.bound = b
      /\ x1.lock = "started" /\ x1.ph = "started" /\ x1.cmd = cmd_ /\ x1.dbus = d /\ x1.bound = b
      /\ x2.lock = "started" /\ x2.ph = "notified" /\ x2.cmd = cmd_ /\ x2.dbus = d /\ x2.bound = b
      /\ x3.lock = "started" /\ x3.ph = "none" /\ x3.cmd = "" /\ x3.dbus = e /\ x3.bound = b
  BY DEF Rest, Mid
<1>3. ChrootExec(cmd_) = <<s1>> \o <<s2>> \o <<s3>>
  BY ThreeSteps DEF ChrootExec
<1> HIDE DEF s1, s2, s3, x0, x1, x2, x3
<1>4. Follows(c, s1, x0, x1)
  BY <1>1, <1>2 DEF Follows, FollowsLock, FollowsPhase, FollowsDbus, FollowsMounts, LockOps, PhaseOps
<1>5. Follows(c, s2, x1, x2)
  BY <1>1, <1>2 DEF Follows, FollowsLock, FollowsPhase, FollowsDbus, FollowsMounts, LockOps, PhaseOps
<1>6. Follows(c, s3, x2, x3)
  BY <1>1, <1>2 DEF Follows, FollowsLock, FollowsPhase, FollowsDbus, FollowsMounts, LockOps, PhaseOps
<1>7. Types(c, <<s1>>, x0, x1) /\ Types(c, <<s2>>, x1, x2) /\ Types(c, <<s3>>, x2, x3)
  BY <1>1, <1>4, <1>5, <1>6, OneStep
<1>8. Types(c, <<s1>> \o <<s2>>, x0, x2)
  BY <1>7, Cat
<1>9. Types(c, <<s1>> \o <<s2>> \o <<s3>>, x0, x3)
  BY <1>7, <1>8, Cat
<1> QED BY <1>3, <1>9 DEF x0, x3

\* A command that is not the daemon, the build or a shell leaves everything.
LEMMA ExecBlock ==
    ASSUME NEW c, NEW cmd_, cmd_ \notin {"dbus-daemon", "build", "shell"}, NEW d \in {"off", "on"}
    PROVE  Plain(c, ChrootExec(cmd_), d, d)
<1>1. \A b : Types(c, ChrootExec(cmd_), Rest(d, b), Rest(d, b))
  BY ExecTypes
<1> QED BY <1>1 DEF Plain, Block

\* A command of libosdev.
LEMMA HelperBlock ==
    ASSUME NEW c, NEW what, NEW d \in {"off", "on"}
    PROVE  Plain(c, Helper(what), d, d)
<1> SUFFICES ASSUME NEW b PROVE Types(c, Helper(what), Rest(d, b), Rest(d, b))
  BY DEF Plain, Block
<1> DEFINE s1 == S("helper", what)
           s2 == S("helped", what)
           x0 == Rest(d, b)
           x1 == Mid(d, b, "helping", "")
<1>1. /\ IsStep(s1) /\ s1.op = "helper" /\ s1.arg = what /\ s1.onErr = 0
      /\ IsStep(s2) /\ s2.op = "helped" /\ s2.arg = what /\ s2.onErr = 0
  BY StepIs DEF Ops
<1>2. /\ x0.lock = "started" /\ x0.ph = "none" /\ x0.cmd = "" /\ x0.dbus = d /\ x0.bound = b
      /\ x1.lock = "started" /\ x1.ph = "helping" /\ x1.cmd = "" /\ x1.dbus = d /\ x1.bound = b
  BY DEF Rest, Mid
<1>3. Helper(what) = <<s1>> \o <<s2>>
  BY TwoSteps DEF Helper
<1> HIDE DEF s1, s2, x0, x1
<1>4. Follows(c, s1, x0, x1) /\ Follows(c, s2, x1, x0)
  BY <1>1, <1>2 DEF Follows, FollowsLock, FollowsPhase, FollowsDbus, FollowsMounts, LockOps, PhaseOps
<1>5. Types(c, <<s1>>, x0, x1) /\ Types(c, <<s2>>, x1, x0)
  BY <1>1, <1>4, OneStep
<1>6. Types(c, <<s1>> \o <<s2>>, x0, x0)
  BY <1>5, Cat
<1> QED BY <1>3, <1>6 DEF x0

\* StopDBUS.
LEMMA StopBlock ==
    ASSUME NEW c
    PROVE  Plain(c, StopDBUS, "on", "off")
<1> SUFFICES ASSUME NEW b PROVE Types(c, StopDBUS, Rest("on", b), Rest("off", b))
  BY DEF Plain, Block
<1> DEFINE s1 == S("dbusopen", "")
           s2 == S("dbuskill", "")
           x0 == Rest("on", b)
           x1 == Mid("on", b, "stopping", "")
           x2 == Rest("off", b)
<1>1. /\ IsStep(s1) /\ s1.op = "dbusopen" /\ s1.onErr = 0
      /\ IsStep(s2) /\ s2.op = "dbuskill" /\ s2.onErr = 0
  BY DEF S, IsStep, Ops
<1>2. /\ x0.lock = "started" /\ x0.ph = "none" /\ x0.cmd = "" /\ x0.dbus = "on" /\ x0.bound = b
      /\ x1.lock = "started" /\ x1.ph = "stopping" /\ x1.cmd = "" /\ x1.dbus = "on" /\ x1.bound = b
      /\ x2.lock = "started" /\ x2.ph = "none" /\ x2.cmd = "" /\ x2.dbus = "off" /\ x2.bound = b
  BY DEF Rest, Mid
<1>3. StopDBUS = <<s1>> \o <<s2>>
  BY TwoSteps DEF StopDBUS
<1> HIDE DEF s1, s2, x0, x1, x2
<1>4. Follows(c, s1, x0, x1) /\ Follows(c, s2, x1, x2)
  BY <1>1, <1>2 DEF Follows, FollowsLock, FollowsPhase, FollowsDbus, FollowsMounts, LockOps, PhaseOps
<1>5. Types(c, <<s1>>, x0, x1) /\ Types(c, <<s2>>, x1, x2)
  BY <1>1, <1>4, OneStep
<1>6. Types(c, <<s1>> \o <<s2>>, x0, x2)
  BY <1>5, Cat
<1> QED BY <1>3, <1>6 DEF x0, x2

\* StartDBUS has succeeded.
LEMMA UpBlock ==
    ASSUME NEW c
    PROVE  Plain(c, <<S("dbusup", "")>>, "up", "on")
<1> SUFFICES ASSUME NEW b PROVE Types(c, <<S("dbusup", "")>>, Rest("up", b), Rest("on", b))
  BY DEF Plain, Block
<1> DEFINE s1 == S("dbusup", "")
           x0 == Rest("up", b)
           x1 == Rest("on", b)
<1>1. IsStep(s1) /\ s1.op = "dbusup" /\ s1.onErr = 0
  BY DEF S, IsStep, Ops
<1>2. /\ x0.lock = "started" /\ x0.ph = "none" /\ x0.cmd = "" /\ x0.dbus = "up" /\ x0.bound = b
      /\ x1.lock = "started" /\ x1.ph = "none" /\ x1.cmd = "" /\ x1.dbus = "on" /\ x1.bound = b
  BY DEF Rest
<1> HIDE DEF s1, x0, x1
<1>3. Follows(c, s1, x0, x1)
  BY <1>1, <1>2 DEF Follows, FollowsLock, FollowsPhase, FollowsDbus, FollowsMounts, LockOps, PhaseOps
<1>4. Types(c, <<s1>>, x0, x1)
  BY <1>1, <1>3, OneStep
<1> QED BY <1>4 DEF s1, x0, x1

-----------------------------------------------------------------------------
(***************************************************************************)
(* The functions of the code that jump nowhere                             *)
(***************************************************************************)
\* File system work.
LEMMA IoBlock ==
    ASSUME NEW c, NEW what, NEW d \in Mode
    PROVE  Plain(c, Io(what), d, d)
<1>1. Plain(c, <<S("io", what)>>, d, d)
  BY PlainStep
<1> QED BY <1>1 DEF Io

\* SetActivePID(0).
LEMMA ResetBlock ==
    ASSUME NEW c, NEW d \in Mode
    PROVE  Plain(c, ResetPID, d, d)
<1>1. \A arg : Plain(c, <<S("reset", arg)>>, d, d)
  BY PlainStep
<1> QED BY <1>1, Zenon DEF ResetPID

\* EnsureEopkgLayout and the removal of the pid file, with no daemon there.
LEMMA LayoutBlock ==
    ASSUME NEW c
    PROVE  Plain(c, <<S("layout", "")>>, "off", "off") /\ Plain(c, <<S("rmpid", "")>>, "off", "off")
<1>1. \A arg : Plain(c, <<S("layout", arg)>>, "off", "off") /\ Plain(c, <<S("rmpid", arg)>>, "off", "off")
  BY PlainStep DEF Mode
<1> QED BY <1>1, Zenon

\* A mount that nothing later depends on.
LEMMA PlainMount ==
    ASSUME NEW c, NEW point \in MountPoints, NEW d \in {"off", "on"}
    PROVE  Plain(c, Mount(point), d, d)
<1>1. Block(c, Mount(point), d, d, {}, {point})
  BY MountBlock
<1> QED BY <1>1, Weaker DEF Plain

\* AddBuildUser.
LEMMA UserBlock ==
    ASSUME NEW c, NEW d \in {"off", "on"}
    PROVE  Plain(c, AddBuildUser(c), d, d)
<1>1. Plain(c, Io("passwd"), d, d)
  BY IoBlock DEF Mode
<1>2. Plain(c, Helper("groupadd"), d, d) /\ Plain(c, Helper("useradd"), d, d)
  BY HelperBlock
<1>3. Plain(c, Helper("groupadd") \o Helper("useradd"), d, d)
  BY <1>2, PlainCat
<1>4. Plain(c, IF c.user THEN <<>> ELSE Helper("groupadd") \o Helper("useradd"), d, d)
  BY <1>3, PlainNone
<1> QED BY <1>1, <1>4, PlainCat DEF AddBuildUser

\* MountVFS.
LEMMA VFSBlock ==
    ASSUME NEW c
    PROVE  Plain(c, MountVFS, "off", "off")
<1>1. Plain(c, Io("mkdir vfs"), "off", "off")
  BY IoBlock DEF Mode
<1>2. /\ Plain(c, Mount("dev"), "off", "off") /\ Plain(c, Mount("dev/pts"), "off", "off")
      /\ Plain(c, Mount("proc"), "off", "off") /\ Plain(c, Mount("sys"), "off", "off")
      /\ Plain(c, Mount("dev/shm"), "off", "off")
  BY PlainMount DEF MountPoints
<1>3. Plain(c, Io("mkdir vfs") \o Mount("dev"), "off", "off")
  BY <1>1, <1>2, PlainCat
<1>4. Plain(c, Io("mkdir vfs") \o Mount("dev") \o Mount("dev/pts"), "off", "off")
  BY <1>2, <1>3, PlainCat
<1>5. Plain(c, Io("mkdir vfs") \o Mount("dev") \o Mount("dev/pts") \o Mount("proc"), "off", "off")
  BY <1>2, <1>4, PlainCat
<1>6. Plain(c, Io("mkdir vfs") \o Mount("dev") \o Mount("dev/pts") \o Mount("proc")
                 \o Mount("sys"), "off", "off")
  BY <1>2, <1>5, PlainCat
<1> QED BY <1>2, <1>6, PlainCat DEF MountVFS

\* DropNetworking.
LEMMA NetBlock ==
    ASSUME NEW c
    PROVE  Plain(c, DropNetworking(c), "off", "off")
<1>1. \A arg : Plain(c, <<S("unshare", arg)>>, "off", "off")
  BY PlainStep DEF Mode
<1>2. Plain(c, Helper("ip link"), "off", "off")
  BY HelperBlock
<1>3. Plain(c, <<S("unshare", "")>> \o Helper("ip link"), "off", "off")
  BY <1>1, <1>2, PlainCat, Zenon
<1> QED BY <1>3, PlainNone DEF DropNetworking

\* EopkgManager.Init.
LEMMA InitBlock ==
    ASSUME NEW c
    PROVE  Plain(c, EopkgInit, "off", "off")
<1>1. Plain(c, CopyHostAssets, "off", "off") /\ Plain(c, Io("cache dirs"), "off", "off")
  BY IoBlock DEF Mode, CopyHostAssets
<1>2. Plain(c, Mount("pkgcache"), "off", "off")
  BY PlainMount DEF MountPoints
<1>3. Plain(c, <<S("rmpid", "")>> \o CopyHostAssets, "off", "off")
  BY <1>1, LayoutBlock, PlainCat
<1>4. Plain(c, <<S("rmpid", "")>> \o CopyHostAssets \o Io("cache dirs"), "off", "off")
  BY <1>1, <1>3, PlainCat
<1> QED BY <1>2, <1>4, PlainCat DEF EopkgInit

\* StartDBUS.
LEMMA StartBlock ==
    ASSUME NEW c
    PROVE  Plain(c, StartDBUS, "off", "on")
<1>1. Plain(c, Io("run/dbus"), "off", "off") /\ Plain(c, ResetPID, "off", "off")
      /\ Plain(c, ResetPID, "up", "up")
  BY IoBlock, ResetBlock DEF Mode
<1>2. Plain(c, ChrootExec("dbus-uuidgen"), "off", "off")
  BY ExecBlock
<1>3. Plain(c, ChrootExec("dbus-daemon"), "off", "up")
  <2>1. \A b : Types(c, ChrootExec("dbus-daemon"), Rest("off", b), Rest("up", b))
    BY ExecTypes
  <2> QED BY <2>1 DEF Plain, Block
<1>4. Plain(c, Io("run/dbus") \o ChrootExec("dbus-uuidgen"), "off", "off")
  BY <1>1, <1>2, PlainCat
<1>5. Plain(c, Io("run/dbus") \o ChrootExec("dbus-uuidgen") \o ResetPID, "off", "off")
  BY <1>1, <1>4, PlainCat
<1>6. Plain(c, Io("run/dbus") \o ChrootExec("dbus-uuidgen") \o ResetPID
                 \o ChrootExec("dbus-daemon"), "off", "up")
  BY <1>3, <1>5, PlainCat
<1>7. Plain(c, Io("run/dbus") \o ChrootExec("dbus-uuidgen") \o ResetPID
                 \o ChrootExec("dbus-daemon") \o ResetPID, "off", "up")
  BY <1>1, <1>6, PlainCat
<1> QED BY <1>7, UpBlock, PlainCat DEF StartDBUS

\* Upgrade.
LEMMA UpgradeBlock ==
    ASSUME NEW c
    PROVE  Plain(c, Upgrade, "on", "on")
<1>1. Plain(c, ChrootExec("upgrade"), "on", "on") /\ Plain(c, ChrootExec("install requirements"), "on", "on")
  BY ExecBlock
<1>2. Plain(c, ResetPID, "on", "on")
  BY ResetBlock DEF Mode
<1>3. Plain(c, ChrootExec("upgrade") \o ResetPID, "on", "on")
  BY <1>1, <1>2, PlainCat
<1> QED BY <1>1, <1>3, PlainCat DEF Upgrade

\* PrepYpkg leaves no daemon.
LEMMA PrepBlock ==
    ASSUME NEW c
    PROVE  Plain(c, PrepYpkg, "on", "off")
<1>1. Plain(c, Io("packager file"), "on", "on") /\ Plain(c, ResetPID, "on", "on")
      /\ Plain(c, ResetPID, "off", "off")
  BY IoBlock, ResetBlock DEF Mode
<1>2. Plain(c, ChrootExec("ypkg-install-deps"), "on", "on") /\ Plain(c, ChrootExec("chown"), "off", "off")
  BY ExecBlock
<1>3. Plain(c, Io("packager file") \o ChrootExec("ypkg-install-deps"), "on", "on")
  BY <1>1, <1>2, PlainCat
<1>4. Plain(c, Io("packager file") \o ChrootExec("ypkg-install-deps") \o ResetPID, "on", "on")
  BY <1>1, <1>3, PlainCat
<1>5. Plain(c, Io("packager file") \o ChrootExec("ypkg-install-deps") \o ResetPID \o StopDBUS, "on", "off")
  BY <1>4, StopBlock, PlainCat
<1>6. Plain(c, Io("packager file") \o ChrootExec("ypkg-install-deps") \o ResetPID \o StopDBUS
                 \o ChrootExec("chown"), "on", "off")
  BY <1>2, <1>5, PlainCat
<1> QED BY <1>1, <1>6, PlainCat DEF PrepYpkg

-----------------------------------------------------------------------------
(***************************************************************************)
(* Errors that are not returned                                            *)
(***************************************************************************)
\* Where an error of a step st at state x may go.
Landing(c, st, x, z) ==
    /\ Landed(x, z)
    /\ st.op \in {"wait", "helped", "check"} => z.bound = x.bound
    /\ st.op = "wait" /\ c.op # "chroot" => z.dbus = "tail"

\* A step whose error, swallowed, goes to the end of the script after it.
LEMMA JumpOver ==
    ASSUME NEW c, NEW st, NEW s, NEW x, NEW y, NEW z, NEW n \in Nat, Len(s) = n,
           IsStep(st), st.onErr = 1 + n, Follows(c, st, x, y), Types(c, s, y, z),
           Landing(c, st, x, z)
    PROVE  Types(c, <<st>> \o s, x, z)
<1>1. PICK g : Typed(c, s, g) /\ g[1] = y /\ g[Len(s) + 1] = z
  BY DEF Types
<1>2. PICK X : s \in Seq(X)
  BY <1>1 DEF Typed
<1> DEFINE u == <<st>>
           r == u \o s
           h == [i \in 1..(n + 2) |-> IF i = 1 THEN x ELSE g[i - 1]]
<1>3. n \in Nat
  OBVIOUS
<1>4. r \in Seq(X \cup {st}) /\ Len(r) = n + 1 /\ r[1] = st /\ \A i \in 1..n : r[i + 1] = s[i]
  <2>1. u \in Seq(X \cup {st}) /\ s \in Seq(X \cup {st}) /\ Len(u) = 1 /\ u[1] = st
    BY <1>2, SeqMonotonic
  <2> HIDE DEF u
  <2>2. /\ r \in Seq(X \cup {st}) /\ Len(r) = 1 + n
        /\ \A i \in 1..(1 + n) : r[i] = IF i <= 1 THEN u[i] ELSE s[i - 1]
    <3>1. /\ r \in Seq(X \cup {st}) /\ Len(r) = Len(u) + Len(s)
          /\ \A i \in 1..(Len(u) + Len(s)) : r[i] = IF i <= Len(u) THEN u[i] ELSE s[i - Len(u)]
      BY <2>1, ConcatProperties
    <3> HIDE DEF r
    <3> QED BY <2>1, <3>1
  <2> HIDE DEF r
  <2>3. \A i \in 1..n : i + 1 \in 1..(1 + n) /\ ~(i + 1 <= 1) /\ (i + 1) - 1 = i
    BY <1>3
  <2>4. 1 \in 1..(1 + n) /\ 1 + n = n + 1
    BY <1>3
  <2> QED BY <2>1, <2>2, <2>3, <2>4
<1>5. h[1] = x /\ \A i \in 1..(n + 1) : h[i + 1] = g[i]
  <2>1. 1 \in 1..(n + 2) /\ \A i \in 1..(n + 1) : i + 1 \in 1..(n + 2) /\ i + 1 # 1 /\ (i + 1) - 1 = i
    BY <1>3
  <2> QED BY <2>1
<1> HIDE DEF r, h
<1>6. h[2] = y /\ h[n + 2] = z
  <2>1. 1 \in 1..(n + 1) /\ n + 1 \in 1..(n + 1) /\ 1 + 1 = 2 /\ (n + 1) + 1 = n + 2
    BY <1>3
  <2> QED BY <1>1, <1>5, <2>1
<1>7. IsStep(r[1]) /\ Follows(c, r[1], h[1], h[1 + 1]) /\ Lands(c, r, h, 1)
  <2>1. 1 + r[1].onErr = n + 2 /\ n + 2 <= Len(r) + 1
    BY <1>3, <1>4
  <2>2. Lands(c, r, h, 1)
    BY <1>4, <1>5, <1>6, <2>1 DEF Lands, Landing
  <2> QED BY <1>4, <1>5, <1>6, <2>2
<1>8. ASSUME NEW i \in 1..n
      PROVE  /\ IsStep(r[i + 1]) /\ Follows(c, r[i + 1], h[i + 1], h[i + 1 + 1])
             /\ r[i + 1].onErr # 0 => Lands(c, r, h, i + 1)
  <2>1. i \in Nat /\ i \in 1..(n + 1) /\ i + 1 \in 1..(n + 1)
    BY <1>3
  <2>2. r[i + 1] = s[i] /\ h[i + 1] = g[i] /\ h[i + 1 + 1] = g[i + 1]
    BY <1>4, <1>5, <2>1
  <2>3. IsStep(s[i]) /\ Follows(c, s[i], g[i], g[i + 1]) /\ (s[i].onErr # 0 => Lands(c, s, g, i))
    BY <1>1 DEF Typed
  <2>4. ASSUME s[i].onErr # 0 PROVE Lands(c, r, h, i + 1)
    <3> DEFINE p == i + s[i].onErr
    <3>1. s[i].onErr \in Nat
      BY <2>3 DEF IsStep
    <3>2. p \in 1..(n + 1)
      <4>1. p <= n + 1
        BY <2>3, <2>4 DEF Lands
      <4> QED BY <1>3, <2>1, <3>1, <4>1
    <3>3. i + 1 + s[i].onErr = p + 1
      BY <2>1, <3>1
    <3>4. h[p + 1] = g[p] /\ p + 1 <= Len(r) + 1
      BY <1>3, <1>4, <1>5, <3>2
    <3>5. ASSUME p + 1 <= n
          PROVE  r[p + 1] = s[p] /\ r[p + 1 + 1] = s[p + 1] /\ p + 1 + 1 <= Len(r)
      <4>1. p \in 1..n /\ p + 1 \in 1..n
        BY <1>3, <3>2, <3>5
      <4>2. p + 1 + 1 <= Len(r)
        BY <1>3, <1>4, <3>2, <3>5
      <4> QED BY <1>4, <4>1, <4>2
    <3>6. Lands(c, s, g, i)
      BY <2>3, <2>4
    <3> QED BY <2>2, <3>3, <3>4, <3>5, <3>6 DEF Lands
  <2> QED BY <2>2, <2>3, <2>4
<1>9. ASSUME NEW i \in 1..Len(r)
      PROVE  IsStep(r[i]) /\ Follows(c, r[i], h[i], h[i + 1]) /\ (r[i].onErr # 0 => Lands(c, r, h, i))
  <2>1. CASE i = 1
    BY <1>7, <2>1
  <2>2. CASE i # 1
    <3>1. i - 1 \in 1..n /\ (i - 1) + 1 = i
      BY <1>3, <1>4, <2>2
    <3> QED BY <1>8, <3>1
  <2> QED BY <2>1, <2>2
<1>10. Typed(c, r, h)
  BY <1>4, <1>9 DEF Typed
<1>11. h[1] = x /\ h[Len(r) + 1] = z
  <2>1. Len(r) + 1 = n + 2
    BY <1>3, <1>4
  <2> QED BY <1>5, <1>6, <2>1
<1> QED BY <1>10, <1>11 DEF Types, r, u

\* The steps Swallow and Keep make.
LEMMA SwallowIs ==
    ASSUME NEW op \in Ops, NEW arg, NEW n \in Nat
    PROVE  /\ IsStep(Swallow(S(op, arg), n))
           /\ Swallow(S(op, arg), n).op = op /\ Swallow(S(op, arg), n).arg = arg
           /\ Swallow(S(op, arg), n).onErr = n
           /\ IsStep(Keep(S(op, arg), n))
           /\ Keep(S(op, arg), n).op = op /\ Keep(S(op, arg), n).arg = arg
           /\ Keep(S(op, arg), n).onErr = n /\ Keep(S(op, arg), n).keep = TRUE
BY DEF S, Swallow, Keep, IsStep

\* File system work whose failure skips a block.
LEMMA SkipBlock ==
    ASSUME NEW c, NEW what, NEW s, Plain(c, s, "off", "off"), NEW n \in Nat, Len(s) = n
    PROVE  Plain(c, <<Swallow(S("io", what), 1 + n)>> \o s, "off", "off")
<1> DEFINE st == Swallow(S("io", what), 1 + n)
<1> SUFFICES ASSUME NEW b
             PROVE  \E bb : b \cup {} \subseteq bb
                              /\ Types(c, <<st>> \o s, Rest("off", b), Rest("off", bb))
  BY DEF Plain, Block
<1>1. PICK bb : b \cup {} \subseteq bb /\ Types(c, s, Rest("off", b), Rest("off", bb))
  BY DEF Plain, Block
<1>2. IsStep(st) /\ st.op = "io" /\ st.arg = what /\ st.onErr = 1 + n
  <2>1. "io" \in Ops /\ 1 + n \in Nat
    BY DEF Ops
  <2>2. \A m \in Nat : /\ IsStep(Swallow(S("io", what), m)) /\ Swallow(S("io", what), m).op = "io"
                        /\ Swallow(S("io", what), m).arg = what
                        /\ Swallow(S("io", what), m).onErr = m
    BY DEF S, Swallow, IsStep, Ops
  <2> QED BY <2>1, <2>2, Zenon
<1> DEFINE x == Rest("off", b)
           z == Rest("off", bb)
<1>3. /\ x.lock = "started" /\ x.ph = "none" /\ x.cmd = "" /\ x.dbus = "off" /\ x.bound = b
      /\ z.lock = "started" /\ z.ph = "none" /\ z.cmd = "" /\ z.dbus = "off"
  BY DEF Rest
<1> HIDE DEF st, x, z
<1>4. Follows(c, st, x, x)
  BY <1>2, <1>3 DEF Follows, FollowsLock, FollowsPhase, FollowsDbus, FollowsMounts, LockOps, PhaseOps
<1>5. Types(c, s, x, z)
  BY <1>1 DEF x, z
<1>6. Landing(c, st, x, z)
  BY <1>2, <1>3 DEF Landing, Landed
<1>7. Types(c, <<st>> \o s, x, z)
  BY <1>2, <1>4, <1>5, <1>6, JumpOver
<1> QED BY <1>1, <1>7 DEF x, z

\* A script has a length, and that of two is the sum.
LEMMA LenIs ==
    ASSUME NEW c, NEW s, NEW d, NEW e, Plain(c, s, d, e)
    PROVE  Len(s) \in Nat /\ \E X : s \in Seq(X)
<1>1. \E b, bb : Types(c, s, Rest(d, b), Rest(e, bb))
  BY DEF Plain, Block
<1>2. PICK X : s \in Seq(X)
  BY <1>1 DEF Types, Typed
<1> QED BY <1>2

\* Overlay.Mount.
LEMMA OverlayBlock ==
    ASSUME NEW c
    PROVE  Plain(c, OverlayMount(c), "off", "off")
<1> DEFINE root == Io("EnsureDirs") \o Mount("img") \o Mount("union") \o <<S("layout", "")>>
           tmp == Mount("tmpfs")
<1>1. Plain(c, Io("EnsureDirs"), "off", "off")
  BY IoBlock DEF Mode
<1>2. Plain(c, Mount("img"), "off", "off") /\ Plain(c, Mount("union"), "off", "off")
      /\ Plain(c, Mount("tmpfs"), "off", "off")
  BY PlainMount DEF MountPoints
<1>3. Plain(c, Io("EnsureDirs") \o Mount("img"), "off", "off")
  BY <1>1, <1>2, PlainCat
<1>4. Plain(c, Io("EnsureDirs") \o Mount("img") \o Mount("union"), "off", "off")
  BY <1>2, <1>3, PlainCat
<1>5. Plain(c, root, "off", "off")
  BY <1>4, LayoutBlock, PlainCat
<1>6. Len(tmp) = 1 /\ tmp \in Seq({S("mount", "tmpfs")})
  BY DEF Mount
<1> HIDE DEF root, tmp
<1>7. Plain(c, tmp \o root, "off", "off")
  BY <1>2, <1>5, PlainCat DEF tmp
<1>8. Len(tmp \o root) = 1 + Len(root) /\ Len(root) \in Nat
  <2>1. PICK X : root \in Seq(X)
    BY <1>5, LenIs
  <2>2. tmp \in Seq(X \cup {S("mount", "tmpfs")}) /\ root \in Seq(X \cup {S("mount", "tmpfs")})
    BY <1>6, <2>1, SeqMonotonic
  <2>3. Len(tmp \o root) = Len(tmp) + Len(root)
    BY <2>2, ConcatProperties
  <2> QED BY <1>6, <2>1, <2>3
<1> DEFINE jump == <<Swallow(S("io", "mkdir tmpfs"), 2 + Len(root))>>
<1>9. Plain(c, jump \o (tmp \o root), "off", "off")
  <2>1. 1 + Len(tmp \o root) = 2 + Len(root) /\ Len(tmp \o root) \in Nat
    BY <1>8
  <2> QED BY <1>7, <2>1, SkipBlock
<1>10. jump \o (tmp \o root) = jump \o tmp \o root
  <2>1. PICK X : root \in Seq(X)
    BY <1>5, LenIs
  <2> DEFINE Y == X \cup {S("mount", "tmpfs"), Swallow(S("io", "mkdir tmpfs"), 2 + Len(root))}
  <2>2. tmp \in Seq(Y) /\ root \in Seq(Y)
    BY <1>6, <2>1, SeqMonotonic
  <2>3. jump \in Seq(Y)
    OBVIOUS
  <2> HIDE DEF jump, Y
  <2> QED BY <2>2, <2>3, ConcatAssociative
<1> QED BY <1>5, <1>9, <1>10 DEF OverlayMount, root, tmp

\* ActivateRoot.
LEMMA ActivateBlock ==
    ASSUME NEW c
    PROVE  Plain(c, ActivateRoot(c), "off", "off")
<1>1. Plain(c, IF c.type = "ypkg" THEN AddBuildUser(c) ELSE <<>>, "off", "off")
  BY UserBlock, PlainNone
<1>2. Plain(c, OverlayMount(c) \o (IF c.type = "ypkg" THEN AddBuildUser(c) ELSE <<>>), "off", "off")
  BY <1>1, OverlayBlock, PlainCat
<1> QED BY <1>2, VFSBlock, PlainCat DEF ActivateRoot

\* A single step whose error is swallowed.
LEMMA OneJump ==
    ASSUME NEW c, NEW st, NEW x, NEW y, IsStep(st), st.onErr = 1, Follows(c, st, x, y),
           Landing(c, st, x, y)
    PROVE  Types(c, <<st>>, x, y)
<1>1. Types(c, <<>>, y, y) /\ Len(<<>>) = 0
  BY NoStep
<1>2. st.onErr = 1 + 0
  OBVIOUS
<1>3. Types(c, <<st>> \o <<>>, x, y)
  BY <1>1, <1>2, JumpOver
<1>4. <<st>> \o <<>> = <<st>>
  <2>1. <<st>> \in Seq({st})
    OBVIOUS
  <2> QED BY <2>1, ConcatEmptySeq
<1> QED BY <1>3, <1>4

\* StartSccache.
LEMMA SccacheBlock ==
    ASSUME NEW c
    PROVE  Plain(c, StartSccache, "off", "off")
<1> SUFFICES ASSUME NEW b PROVE Types(c, StartSccache, Rest("off", b), Rest("off", b))
  BY DEF Plain, Block
<1> DEFINE s1 == Swallow(S("helper", "sccache"), 2)
           s2 == Swallow(S("helped", "sccache"), 1)
           x0 == Rest("off", b)
           x1 == Mid("off", b, "helping", "")
<1>1. /\ IsStep(s1) /\ s1.op = "helper" /\ s1.onErr = 2
      /\ IsStep(s2) /\ s2.op = "helped" /\ s2.onErr = 1
  BY DEF S, Swallow, IsStep, Ops
<1>2. /\ x0.lock = "started" /\ x0.ph = "none" /\ x0.cmd = "" /\ x0.dbus = "off" /\ x0.bound = b
      /\ x1.lock = "started" /\ x1.ph = "helping" /\ x1.cmd = "" /\ x1.dbus = "off" /\ x1.bound = b
  BY DEF Rest, Mid
<1>3. StartSccache = <<s1>> \o <<s2>>
  BY TwoSteps DEF StartSccache
<1> HIDE DEF s1, s2, x0, x1
<1>4. Follows(c, s1, x0, x1) /\ Follows(c, s2, x1, x0)
  BY <1>1, <1>2 DEF Follows, FollowsLock, FollowsPhase, FollowsDbus, FollowsMounts, LockOps, PhaseOps
<1>5. Landing(c, s1, x0, x0) /\ Landing(c, s2, x1, x0)
  BY <1>1, <1>2 DEF Landing, Landed
<1>6. Types(c, <<s2>>, x1, x0)
  BY <1>1, <1>4, <1>5, OneJump
<1>7. Len(<<s2>>) = 1 /\ s1.onErr = 1 + 1
  BY <1>1
<1>8. Types(c, <<s1>> \o <<s2>>, x0, x0)
  BY <1>1, <1>4, <1>5, <1>6, <1>7, JumpOver
<1> QED BY <1>3, <1>8 DEF x0

\* Four steps one after the other, and put together otherwise.
LEMMA FourTypes ==
    ASSUME NEW c, NEW s1, NEW s2, NEW s3, NEW s4, NEW x, NEW z,
           Types(c, <<s1>> \o (<<s2>> \o (<<s3>> \o <<s4>>)), x, z)
    PROVE  Types(c, <<s1, s2, s3>> \o <<s4>>, x, z)
<1> DEFINE X == {s1, s2, s3, s4}
           u == <<s3>> \o <<s4>>
           v == <<s2>> \o u
<1>1. <<s1>> \in Seq(X) /\ <<s2>> \in Seq(X) /\ <<s3>> \in Seq(X) /\ <<s4>> \in Seq(X)
      /\ <<s1>> \o <<s2>> \in Seq(X)
  OBVIOUS
<1>2. u \in Seq(X) /\ Len(u) = 2
  BY <1>1
<1>4. <<s1, s2, s3>> = <<s1>> \o <<s2>> \o <<s3>>
  BY ThreeSteps
<1>5. <<s1>> \o <<s2>> \o <<s3>> \o <<s4>> = <<s1>> \o <<s2>> \o u
  <2> HIDE DEF X
  <2> QED BY <1>1, ConcatAssociative
<1>6. <<s1>> \o <<s2>> \o u = <<s1>> \o v
  <2> HIDE DEF X, u
  <2> QED BY <1>1, <1>2, ConcatAssociative
<1>7. <<s1, s2, s3>> \o <<s4>> = <<s1>> \o v
  BY <1>4, <1>5, <1>6
<1> QED BY <1>7, Zenon

\* A command whose errors lead past it, with nothing left to do in the root.
LEMMA ReportTypes ==
    ASSUME NEW c, NEW b, NEW what, what \notin {"dbus-daemon", "build", "shell"}, NEW none
    PROVE  Types(c, <<Swallow(S("start", what), 4), S("notify", what), Swallow(S("wait", what), 2)>>
                        \o <<S("reset", none)>>, Rest("off", b), Rest("tail", b))
<1> DEFINE s1 == Swallow(S("start", what), 4)
           s2 == S("notify", what)
           s3 == Swallow(S("wait", what), 2)
           s4 == S("reset", none)
           x0 == Rest("off", b)
           x1 == Mid("off", b, "started", what)
           x2 == Mid("off", b, "notified", what)
           z == Rest("tail", b)
<1>1. /\ IsStep(s1) /\ s1.op = "start" /\ s1.arg = what
      /\ IsStep(s2) /\ s2.op = "notify" /\ s2.arg = what /\ s2.onErr = 0
      /\ IsStep(s3) /\ s3.op = "wait" /\ s3.arg = what
      /\ IsStep(s4) /\ s4.op = "reset" /\ s4.onErr = 0
  BY DEF S, Swallow, IsStep, Ops
<1>2. s1.onErr = 1 + 3 /\ s3.onErr = 1 + 1
  BY DEF S, Swallow
<1>3. /\ x0.lock = "started" /\ x0.ph = "none" /\ x0.cmd = "" /\ x0.dbus = "off" /\ x0.bound = b
      /\ x1.lock = "started" /\ x1.ph = "started" /\ x1.cmd = what /\ x1.dbus = "off" /\ x1.bound = b
      /\ x2.lock = "started" /\ x2.ph = "notified" /\ x2.cmd = what /\ x2.dbus = "off" /\ x2.bound = b
      /\ z.lock = "started" /\ z.ph = "none" /\ z.cmd = "" /\ z.dbus = "tail" /\ z.bound = b
  BY DEF Rest, Mid
<1> HIDE DEF s1, s2, s3, s4, x0, x1, x2, z
<1>4. Follows(c, s1, x0, x1) /\ Follows(c, s2, x1, x2)
  BY <1>1, <1>3 DEF Follows, FollowsLock, FollowsPhase, FollowsDbus, FollowsMounts, LockOps, PhaseOps
<1>5. Follows(c, s3, x2, z) /\ Follows(c, s4, z, z)
  BY <1>1, <1>3 DEF Follows, FollowsLock, FollowsPhase, FollowsDbus, FollowsMounts, LockOps, PhaseOps
<1>6. Landing(c, s1, x0, z) /\ Landing(c, s3, x2, z)
  BY <1>1, <1>3 DEF Landing, Landed
<1>7. Types(c, <<s4>>, z, z) /\ Types(c, <<s2>>, x1, x2)
  BY <1>1, <1>4, <1>5, OneStep
<1>8. Types(c, <<s3>> \o <<s4>>, x2, z)
  <2>1. Len(<<s4>>) = 1
    OBVIOUS
  <2> QED BY <1>1, <1>2, <1>5, <1>6, <1>7, <2>1, JumpOver
<1>9. Types(c, <<s2>> \o (<<s3>> \o <<s4>>), x1, z)
  BY <1>7, <1>8, Cat
<1>10. Types(c, <<s1>> \o (<<s2>> \o (<<s3>> \o <<s4>>)), x0, z)
  <2>1. Len(<<s2>> \o (<<s3>> \o <<s4>>)) = 3
    OBVIOUS
  <2> QED BY <1>1, <1>2, <1>4, <1>6, <1>9, <2>1, JumpOver
<1>11. Types(c, <<s1, s2, s3>> \o <<s4>>, x0, z)
  BY <1>10, FourTypes, Zenon
<1> QED BY <1>11 DEF s1, s2, s3, s4, x0, z

\* GenerateABIReport.
LEMMA AbiBlock ==
    ASSUME NEW c
    PROVE  Plain(c, GenerateABIReport, "off", "tail")
<1> DEFINE w == "cd; abi-wizard"
<1>1. w \notin {"dbus-daemon", "build", "shell"}
  OBVIOUS
<1> HIDE DEF w
<1>2. \A b, none : Types(c, <<Swallow(S("start", w), 4), S("notify", w), Swallow(S("wait", w), 2)>>
                              \o <<S("reset", none)>>, Rest("off", b), Rest("tail", b))
  BY <1>1, ReportTypes
<1>3. \A b : Types(c, GenerateABIReport, Rest("off", b), Rest("tail", b))
  BY <1>2, Zenon DEF GenerateABIReport, ResetPID, w
<1> QED BY <1>3 DEF Plain, Block

\* Where an error goes, by its position.
LEMMA LandsAt ==
    ASSUME NEW c, NEW s, NEW f, NEW i, NEW p, i + s[i].onErr = p, p <= Len(s) + 1,
           Landed(f[i], f[p]),
           s[i].op \in {"wait", "helped", "check"} => f[p].bound = f[i].bound,
           s[i].op = "wait" /\ c.op # "chroot" =>
              /\ s[i].keep /\ p + 1 <= Len(s)
              /\ s[p].op = "reset" /\ s[p + 1].op = "check" /\ s[p + 1].onErr = 0
    PROVE  Lands(c, s, f, i)
BY DEF Lands

\* ChrootExec, its error kept, the PID reset and the error returned.
LEMMA ResetTypes ==
    ASSUME NEW c, NEW cmd_, cmd_ \notin {"dbus-daemon", "build", "shell"}, NEW d \in {"off", "on"},
           NEW b, NEW what, NEW none, NEW s, Len(s) = 5, \E X : s \in Seq(X),
           s[1] = Keep(S("start", cmd_), 3), s[2] = Keep(S("notify", cmd_), 2),
           s[3] = Keep(S("wait", cmd_), 1), s[4] = S("reset", none), s[5] = S("check", what)
    PROVE  Types(c, s, Rest(d, b), Rest(d, b))
<1> DEFINE x0 == Rest(d, b)
           x1 == Mid(d, b, "started", cmd_)
           x2 == Mid(d, b, "notified", cmd_)
           f == <<x0, x1, x2, x0, x0, x0>>
<1>1. /\ IsStep(s[1]) /\ s[1].op = "start" /\ s[1].arg = cmd_ /\ s[1].onErr = 3
      /\ IsStep(s[2]) /\ s[2].op = "notify" /\ s[2].arg = cmd_ /\ s[2].onErr = 2
      /\ IsStep(s[3]) /\ s[3].op = "wait" /\ s[3].arg = cmd_ /\ s[3].onErr = 1 /\ s[3].keep
  BY DEF S, Keep, IsStep, Ops
<1>2. /\ IsStep(s[4]) /\ s[4].op = "reset" /\ s[4].onErr = 0
  BY DEF S, IsStep, Ops
<1>3. IsStep(s[5]) /\ s[5].op = "check" /\ s[5].onErr = 0
  BY DEF S, IsStep, Ops
<1>4. /\ x0.lock = "started" /\ x0.ph = "none" /\ x0.cmd = "" /\ x0.dbus = d /\ x0.bound = b
      /\ x1.lock = "started" /\ x1.ph = "started" /\ x1.cmd = cmd_ /\ x1.dbus = d /\ x1.bound = b
      /\ x2.lock = "started" /\ x2.ph = "notified" /\ x2.cmd = cmd_ /\ x2.dbus = d /\ x2.bound = b
  BY DEF Rest, Mid
<1>5. f[1] = x0 /\ f[2] = x1 /\ f[3] = x2 /\ f[4] = x0 /\ f[5] = x0 /\ f[6] = x0
  <2> HIDE DEF x0, x1, x2
  <2> QED OBVIOUS
<1> HIDE DEF x0, x1, x2, f
<1>6. Follows(c, s[1], x0, x1)
  BY <1>1, <1>4 DEF Follows, FollowsLock, FollowsPhase, FollowsDbus, FollowsMounts, LockOps, PhaseOps
<1>7. Follows(c, s[2], x1, x2)
  BY <1>1, <1>4 DEF Follows, FollowsLock, FollowsPhase, FollowsDbus, FollowsMounts, LockOps, PhaseOps
<1>8. Follows(c, s[3], x2, x0)
  BY <1>1, <1>4 DEF Follows, FollowsLock, FollowsPhase, FollowsDbus, FollowsMounts, LockOps, PhaseOps
<1>9. Follows(c, s[4], x0, x0) /\ Follows(c, s[5], x0, x0)
  BY <1>2, <1>3, <1>4 DEF Follows, FollowsLock, FollowsPhase, FollowsDbus, FollowsMounts, LockOps, PhaseOps
<1>10. 1 + s[1].onErr = 4 /\ 2 + s[2].onErr = 4 /\ 3 + s[3].onErr = 4 /\ 4 <= Len(s) + 1
       /\ 4 + 1 <= Len(s) /\ s[4 + 1] = s[5]
  BY <1>1
<1>16. Landed(x0, x0) /\ Landed(x1, x0) /\ Landed(x2, x0) /\ x2.bound = x0.bound
  BY <1>4 DEF Landed
<1>11. Lands(c, s, f, 1) /\ Lands(c, s, f, 2)
  BY <1>1, <1>5, <1>10, <1>16, LandsAt
<1>12. Lands(c, s, f, 3)
  BY <1>1, <1>2, <1>3, <1>5, <1>10, <1>16, LandsAt
<1>13. ASSUME NEW i \in 1..Len(s)
       PROVE  IsStep(s[i]) /\ Follows(c, s[i], f[i], f[i + 1]) /\ (s[i].onErr # 0 => Lands(c, s, f, i))
  <2>1. i = 1 \/ i = 2 \/ i = 3 \/ i = 4 \/ i = 5
    OBVIOUS
  <2>2. 1 + 1 = 2 /\ 2 + 1 = 3 /\ 3 + 1 = 4 /\ 4 + 1 = 5 /\ 5 + 1 = 6
    OBVIOUS
  <2> QED
    BY <1>1, <1>2, <1>3, <1>5, <1>6, <1>7, <1>8, <1>9, <1>11, <1>12, <2>1, <2>2
<1>14. Typed(c, s, f)
  BY <1>13 DEF Typed
<1>15. f[1] = x0 /\ f[Len(s) + 1] = x0
  BY <1>5
<1> QED BY <1>14, <1>15 DEF Types, x0

\* t is s, of length n, and one step more, or three.
Adds(s, n, a, t) ==
    /\ Len(t) = n + 1 /\ \E Y : t \in Seq(Y)
    /\ t[n + 1] = a
    /\ \A i \in 1..n : t[i] = s[i]

Adds3(s, n, a, b, c, t) ==
    /\ Len(t) = n + 3 /\ \E Y : t \in Seq(Y)
    /\ t[n + 1] = a /\ t[n + 2] = b /\ t[n + 3] = c
    /\ \A i \in 1..n : t[i] = s[i]

\* Concatenation adds.
LEMMA AddsOne ==
    ASSUME NEW s, \E X : s \in Seq(X), NEW n \in Nat, Len(s) = n, NEW a, NEW t, t = s \o <<a>>
    PROVE  Adds(s, n, a, t)
<1>0. PICK X : s \in Seq(X)
  OBVIOUS
<1> DEFINE u == <<a>>
           Y == X \cup {a}
<1>1. s \in Seq(Y) /\ u \in Seq(Y) /\ Len(u) = 1 /\ u[1] = a
  BY <1>0, SeqMonotonic
<1> HIDE DEF Y
<1>2. /\ t \in Seq(Y) /\ Len(t) = Len(s) + Len(u)
      /\ \A i \in 1..(Len(s) + Len(u)) : t[i] = IF i <= Len(s) THEN s[i] ELSE u[i - Len(s)]
  <2>1. t = s \o u
    OBVIOUS
  <2> HIDE DEF u
  <2> QED BY <1>1, <2>1, ConcatProperties
<1> HIDE DEF u
<1>3. t \in Seq(Y) /\ Len(t) = n + 1 /\ \A i \in 1..(n + 1) : t[i] = IF i <= n THEN s[i] ELSE u[i - n]
  BY <1>1, <1>2
<1>4. n + 1 \in 1..(n + 1) /\ ~(n + 1 <= n) /\ (n + 1) - n = 1
  OBVIOUS
<1>5. t[n + 1] = a
  BY <1>1, <1>3, <1>4
<1>6. \A i \in 1..n : i \in 1..(n + 1) /\ i <= n
  OBVIOUS
<1>7. \A i \in 1..n : t[i] = s[i]
  BY <1>3, <1>6
<1> QED BY <1>3, <1>5, <1>7 DEF Adds

\* And of three steps.
LEMMA AddsThree ==
    ASSUME NEW s, \E X : s \in Seq(X), NEW n \in Nat, Len(s) = n, NEW a, NEW b, NEW c,
           NEW t, t = s \o <<a, b, c>>
    PROVE  Adds3(s, n, a, b, c, t)
<1>0. PICK X : s \in Seq(X)
  OBVIOUS
<1> DEFINE u == <<a, b, c>>
           Y == X \cup {a, b, c}
<1>1. s \in Seq(Y) /\ u \in Seq(Y) /\ Len(u) = 3 /\ u[1] = a /\ u[2] = b /\ u[3] = c
  BY <1>0, SeqMonotonic
<1> HIDE DEF Y
<1>2. /\ t \in Seq(Y) /\ Len(t) = Len(s) + Len(u)
      /\ \A i \in 1..(Len(s) + Len(u)) : t[i] = IF i <= Len(s) THEN s[i] ELSE u[i - Len(s)]
  <2>1. t = s \o u
    OBVIOUS
  <2> HIDE DEF u
  <2> QED BY <1>1, <2>1, ConcatProperties
<1> HIDE DEF u
<1>3. t \in Seq(Y) /\ Len(t) = n + 3 /\ \A i \in 1..(n + 3) : t[i] = IF i <= n THEN s[i] ELSE u[i - n]
  BY <1>1, <1>2
<1>4. /\ n + 1 \in 1..(n + 3) /\ ~(n + 1 <= n) /\ (n + 1) - n = 1
      /\ n + 2 \in 1..(n + 3) /\ ~(n + 2 <= n) /\ (n + 2) - n = 2
      /\ n + 3 \in 1..(n + 3) /\ ~(n + 3 <= n) /\ (n + 3) - n = 3
  OBVIOUS
<1>5. t[n + 1] = a /\ t[n + 2] = b /\ t[n + 3] = c
  BY <1>1, <1>3, <1>4
<1>6. \A i \in 1..n : i \in 1..(n + 3) /\ i <= n
  OBVIOUS
<1>7. \A i \in 1..n : t[i] = s[i]
  BY <1>3, <1>6
<1> QED BY <1>3, <1>5, <1>7 DEF Adds3

\* The steps of ThenReset: t is s, of length n, with errors kept, and two more.
Kept(s, n, what, t) ==
    /\ \E Y : t \in Seq(Y)
    /\ Len(t) = n + 2
    /\ \A i \in 1..n : t[i] = IF s[i].onErr = 0 THEN Keep(s[i], n + 1 - i) ELSE s[i]
    /\ \E none : t[n + 1] = S("reset", none)
    /\ t[n + 2] = S("check", what)

\* ThenReset is that.
LEMMA ThenResetIs ==
    ASSUME NEW X, NEW s \in Seq(X), NEW n \in Nat, Len(s) = n, NEW what,
           NEW t, t = ThenReset(s, what)
    PROVE  Kept(s, n, what, t)
<1> DEFINE k == [i \in DOMAIN s |-> IF s[i].onErr = 0 THEN Keep(s[i], Len(s) + 1 - i) ELSE s[i]]
           Y == {k[i] : i \in 1..n}
           none == ""
<1>1. DOMAIN s = 1..n
  OBVIOUS
<1>2. k \in Seq(Y) /\ Len(k) = n
      /\ \A i \in 1..n : k[i] = IF s[i].onErr = 0 THEN Keep(s[i], n + 1 - i) ELSE s[i]
  <2>1. k = [i \in 1..n |-> IF s[i].onErr = 0 THEN Keep(s[i], n + 1 - i) ELSE s[i]]
    BY <1>1
  <2>2. k \in [1..n -> Y]
    BY <2>1
  <2> HIDE DEF k, Y
  <2> QED BY <2>1, <2>2
<1>3. t = k \o <<S("reset", none)>> \o <<S("check", what)>>
  BY Zenon DEF ThenReset, ResetPID
<1> HIDE DEF k, Y, none
<1> DEFINE r == S("reset", none)
           ch == S("check", what)
           u == k \o <<r>>
<1>4. Adds(k, n, r, u)
  <2>1. u = k \o <<r>>
    OBVIOUS
  <2> HIDE DEF u, r
  <2> QED BY <1>2, <2>1, AddsOne
<1>5. t = u \o <<ch>>
  BY <1>3
<1> HIDE DEF u, ch
<1>6. Adds(u, n + 1, ch, t)
  <2>1. Len(u) = n + 1 /\ (\E X1 : u \in Seq(X1)) /\ n + 1 \in Nat
    BY <1>4 DEF Adds
  <2> QED BY <1>5, <2>1, AddsOne
<1> HIDE DEF r
<1>7. (n + 1) + 1 = n + 2 /\ n + 1 \in 1..(n + 1) /\ \A i \in 1..n : i \in 1..(n + 1)
  OBVIOUS
<1>8. Len(t) = n + 2 /\ t[n + 2] = ch /\ t[n + 1] = r /\ \A i \in 1..n : t[i] = k[i]
  BY <1>4, <1>6, <1>7 DEF Adds
<1>9. \E Z : t \in Seq(Z)
  BY <1>6 DEF Adds
<1> QED BY <1>2, <1>8, <1>9 DEF Kept, r, ch

\* ThenReset of a command that is not a shell.
LEMMA ThenResetBlock ==
    ASSUME NEW c, NEW cmd_, cmd_ \notin {"dbus-daemon", "build", "shell"}, NEW d \in {"off", "on"},
           NEW what
    PROVE  Plain(c, ThenReset(ChrootExec(cmd_), what), d, d)
<1> SUFFICES ASSUME NEW b
             PROVE  Types(c, ThenReset(ChrootExec(cmd_), what), Rest(d, b), Rest(d, b))
  BY DEF Plain, Block
<1> DEFINE s == ChrootExec(cmd_)
           t == ThenReset(s, what)
<1>1. /\ \E X : s \in Seq(X)
      /\ Len(s) = 3 /\ s[1] = S("start", cmd_) /\ s[2] = S("notify", cmd_) /\ s[3] = S("wait", cmd_)
  <2> DEFINE X == {S("start", cmd_), S("notify", cmd_), S("wait", cmd_)}
  <2>1. s \in Seq(X)
    BY DEF ChrootExec
  <2> QED BY <2>1 DEF ChrootExec
<1>2. s[1].onErr = 0 /\ s[2].onErr = 0 /\ s[3].onErr = 0
  BY <1>1 DEF S
<1> HIDE DEF s
<1>3. Kept(s, 3, what, t)
  <2>1. PICK X : s \in Seq(X)
    BY <1>1
  <2>2. t = ThenReset(s, what)
    OBVIOUS
  <2>3. 3 \in Nat /\ Len(s) = 3
    BY <1>1
  <2> HIDE DEF t
  <2> QED BY <2>1, <2>2, <2>3, ThenResetIs
<1> HIDE DEF t
<1>4. /\ 1 \in 1..3 /\ 2 \in 1..3 /\ 3 \in 1..3 /\ 3 + 1 = 4 /\ 3 + 2 = 5
      /\ 3 + 1 - 1 = 3 /\ 3 + 1 - 2 = 2 /\ 3 + 1 - 3 = 1
  OBVIOUS
<1>5. /\ t[1] = Keep(S("start", cmd_), 3) /\ t[2] = Keep(S("notify", cmd_), 2)
      /\ t[3] = Keep(S("wait", cmd_), 1)
  BY <1>1, <1>2, <1>3, <1>4 DEF Kept
<1>6. PICK none : t[4] = S("reset", none)
  BY <1>3, <1>4 DEF Kept
<1>7. Len(t) = 5 /\ t[5] = S("check", what)
  BY <1>3, <1>4 DEF Kept
<1>8. Types(c, t, Rest(d, b), Rest(d, b))
  <2>1. \E Y : t \in Seq(Y)
    BY <1>3 DEF Kept
  <2> QED BY <1>5, <1>6, <1>7, <2>1, ResetTypes, Zenon
<1> QED BY <1>8 DEF t, s

\* The steps of ChrootShell.
ShellSteps(s) ==
    /\ Len(s) = 9 /\ \E X : s \in Seq(X)
    /\ \E a : s[1] = S("io", a)
    /\ \E a : s[2] = S("jail", a)
    /\ \E a : s[3] = S("io", a)
    /\ s[4] = Swallow(S("start", "shell"), 3)
    /\ s[5] = S("notify", "shell")
    /\ s[6] = Swallow(S("wait", "shell"), 1)
    /\ \E a : s[7] = S("io", a)
    /\ \E a : s[8] = S("unjail", a)
    /\ \E a : s[9] = S("io", a)

\* These are they.
LEMMA ShellIs == ShellSteps(ChrootShell)
<1> DEFINE w1 == "open / and chdir"
           w2 == ""
           w3 == "chdir /"
           w4 == "fchdir"
           w5 == "chdir back"
           a1 == S("io", w1)
           a2 == S("jail", w2)
           a3 == S("io", w3)
           a4 == Swallow(S("start", "shell"), 3)
           a5 == S("notify", "shell")
           a6 == Swallow(S("wait", "shell"), 1)
           a7 == S("io", w4)
           a8 == S("unjail", w2)
           a9 == S("io", w5)
           t1 == <<a1>>
           t2 == t1 \o <<a2>>
           t3 == t2 \o <<a3>>
           t6 == t3 \o <<a4, a5, a6>>
           t7 == t6 \o <<a7>>
           t8 == t7 \o <<a8>>
           t9 == t8 \o <<a9>>
<1>1. ChrootShell = t9
  BY Zenon DEF ChrootShell, Io
<1> HIDE DEF w1, w2, w3, w4, w5
<1>2. /\ \E a : a1 = S("io", a)
      /\ \E a : a2 = S("jail", a)
      /\ \E a : a3 = S("io", a)
      /\ \E a : a7 = S("io", a)
      /\ \E a : a8 = S("unjail", a)
      /\ \E a : a9 = S("io", a)
  OBVIOUS
<1>3. a4 = Swallow(S("start", "shell"), 3) /\ a5 = S("notify", "shell") /\ a6 = Swallow(S("wait", "shell"), 1)
  OBVIOUS
<1> HIDE DEF a1, a2, a3, a4, a5, a6, a7, a8, a9
<1>4. t1 \in Seq({a1}) /\ Len(t1) = 1 /\ t1[1] = a1
  OBVIOUS
<1> HIDE DEF t1
<1>5. Adds(t1, 1, a2, t2)
  <2>1. t2 = t1 \o <<a2>>
    OBVIOUS
  <2> HIDE DEF t2
  <2> QED BY <1>4, <2>1, AddsOne
<1> HIDE DEF t2
<1>6. /\ Len(t2) = 2 /\ (\E X : t2 \in Seq(X))
      /\ t2[1] = a1 /\ t2[2] = a2
  BY <1>4, <1>5 DEF Adds
<1>7. Adds(t2, 2, a3, t3)
  <2>1. t3 = t2 \o <<a3>>
    OBVIOUS
  <2> HIDE DEF t3
  <2> QED BY <1>6, <2>1, AddsOne
<1> HIDE DEF t3
<1>8. /\ Len(t3) = 3 /\ (\E X : t3 \in Seq(X))
      /\ t3[1] = a1 /\ t3[2] = a2 /\ t3[3] = a3
  BY <1>6, <1>7 DEF Adds
<1>9. Adds3(t3, 3, a4, a5, a6, t6)
  <2>1. t6 = t3 \o <<a4, a5, a6>>
    OBVIOUS
  <2> HIDE DEF t6
  <2> QED BY <1>8, <2>1, AddsThree
<1> HIDE DEF t6
<1>10. /\ Len(t6) = 6 /\ (\E X : t6 \in Seq(X))
      /\ t6[1] = a1 /\ t6[2] = a2 /\ t6[3] = a3 /\ t6[4] = a4 /\ t6[5] = a5 /\ t6[6] = a6
  BY <1>8, <1>9 DEF Adds3
<1>11. Adds(t6, 6, a7, t7)
  <2>1. t7 = t6 \o <<a7>>
    OBVIOUS
  <2> HIDE DEF t7
  <2> QED BY <1>10, <2>1, AddsOne
<1> HIDE DEF t7
<1>12. /\ Len(t7) = 7 /\ (\E X : t7 \in Seq(X))
      /\ t7[1] = a1 /\ t7[2] = a2 /\ t7[3] = a3 /\ t7[4] = a4 /\ t7[5] = a5 /\ t7[6] = a6
      /\ t7[7] = a7
  BY <1>10, <1>11 DEF Adds
<1>13. Adds(t7, 7, a8, t8)
  <2>1. t8 = t7 \o <<a8>>
    OBVIOUS
  <2> HIDE DEF t8
  <2> QED BY <1>12, <2>1, AddsOne
<1> HIDE DEF t8
<1>14. /\ Len(t8) = 8 /\ (\E X : t8 \in Seq(X))
      /\ t8[1] = a1 /\ t8[2] = a2 /\ t8[3] = a3 /\ t8[4] = a4 /\ t8[5] = a5 /\ t8[6] = a6
      /\ t8[7] = a7 /\ t8[8] = a8
  BY <1>12, <1>13 DEF Adds
<1>15. Adds(t8, 8, a9, t9)
  <2>1. t9 = t8 \o <<a9>>
    OBVIOUS
  <2> HIDE DEF t9
  <2> QED BY <1>14, <2>1, AddsOne
<1> HIDE DEF t9
<1>16. /\ Len(t9) = 9 /\ (\E X : t9 \in Seq(X))
      /\ t9[1] = a1 /\ t9[2] = a2 /\ t9[3] = a3 /\ t9[4] = a4 /\ t9[5] = a5 /\ t9[6] = a6
      /\ t9[7] = a7 /\ t9[8] = a8 /\ t9[9] = a9
  BY <1>14, <1>15 DEF Adds
<1>17. ShellSteps(t9)
  BY <1>2, <1>3, <1>16 DEF ShellSteps
<1> QED BY <1>1, <1>17

\* The steps of ThenReset(ChrootShell).
LEMMA ShellKeeps ==
    ASSUME NEW s, ShellSteps(s), NEW what, NEW t, Kept(s, 9, what, t)
    PROVE  /\ Len(t) = 11 /\ \E X : t \in Seq(X)
           /\ IsStep(t[1]) /\ t[1].op = "io" /\ t[1].onErr = 9
           /\ IsStep(t[2]) /\ t[2].op = "jail" /\ t[2].onErr = 8
           /\ IsStep(t[3]) /\ t[3].op = "io" /\ t[3].onErr = 7
           /\ IsStep(t[4]) /\ t[4].op = "start" /\ t[4].arg = "shell" /\ t[4].onErr = 3
           /\ IsStep(t[5]) /\ t[5].op = "notify" /\ t[5].arg = "shell" /\ t[5].onErr = 5
           /\ IsStep(t[6]) /\ t[6].op = "wait" /\ t[6].arg = "shell" /\ t[6].onErr = 1
           /\ IsStep(t[7]) /\ t[7].op = "io" /\ t[7].onErr = 3
           /\ IsStep(t[8]) /\ t[8].op = "unjail" /\ t[8].onErr = 2
           /\ IsStep(t[9]) /\ t[9].op = "io" /\ t[9].onErr = 1
           /\ IsStep(t[10]) /\ t[10].op = "reset" /\ t[10].onErr = 0
           /\ IsStep(t[11]) /\ t[11].op = "check" /\ t[11].onErr = 0
<1>1. /\ Len(t) = 11 /\ \E X : t \in Seq(X)
      /\ \A i \in 1..9 : t[i] = IF s[i].onErr = 0 THEN Keep(s[i], 10 - i) ELSE s[i]
      /\ \E none : t[10] = S("reset", none)
      /\ t[11] = S("check", what)
  <2>1. /\ Len(t) = 9 + 2 /\ \E X : t \in Seq(X)
        /\ \A i \in 1..9 : t[i] = IF s[i].onErr = 0 THEN Keep(s[i], 9 + 1 - i) ELSE s[i]
        /\ \E none : t[9 + 1] = S("reset", none)
        /\ t[9 + 2] = S("check", what)
    BY DEF Kept
  <2> QED BY <2>1
<1>2. ASSUME NEW i \in 1..9, NEW op \in Ops, NEW a, s[i] = S(op, a)
      PROVE  IsStep(t[i]) /\ t[i].op = op /\ t[i].arg = a /\ t[i].onErr = 10 - i
  <2>1. s[i].onErr = 0 /\ 10 - i \in Nat
    BY <1>2 DEF S
  <2>2. t[i] = Keep(S(op, a), 10 - i)
    BY <1>1, <1>2, <2>1
  <2>3. \A m \in Nat : /\ IsStep(Keep(S(op, a), m)) /\ Keep(S(op, a), m).op = op
                       /\ Keep(S(op, a), m).arg = a /\ Keep(S(op, a), m).onErr = m
    BY DEF S, Keep, IsStep
  <2> QED BY <2>1, <2>2, <2>3
<1>3. {"io", "jail", "notify", "unjail"} \subseteq Ops
  BY DEF Ops
<1>4. \A i \in 1..9, op \in {"io", "jail", "notify", "unjail"} :
         (\E a : s[i] = S(op, a)) => IsStep(t[i]) /\ t[i].op = op /\ t[i].onErr = 10 - i
  BY <1>2, <1>3
<1>5. /\ IsStep(t[1]) /\ t[1].op = "io" /\ t[1].onErr = 9
      /\ IsStep(t[2]) /\ t[2].op = "jail" /\ t[2].onErr = 8
      /\ IsStep(t[3]) /\ t[3].op = "io" /\ t[3].onErr = 7
  BY <1>4 DEF ShellSteps
<1>6. /\ IsStep(t[5]) /\ t[5].op = "notify" /\ t[5].arg = "shell" /\ t[5].onErr = 5
  BY <1>2, <1>3 DEF ShellSteps
<1>7. /\ IsStep(t[7]) /\ t[7].op = "io" /\ t[7].onErr = 3
      /\ IsStep(t[8]) /\ t[8].op = "unjail" /\ t[8].onErr = 2
      /\ IsStep(t[9]) /\ t[9].op = "io" /\ t[9].onErr = 1
  BY <1>4 DEF ShellSteps
<1>8. /\ IsStep(s[4]) /\ s[4].op = "start" /\ s[4].arg = "shell" /\ s[4].onErr = 3
      /\ IsStep(s[6]) /\ s[6].op = "wait" /\ s[6].arg = "shell" /\ s[6].onErr = 1
  <2>1. s[4] = Swallow(S("start", "shell"), 3) /\ s[6] = Swallow(S("wait", "shell"), 1)
    BY DEF ShellSteps
  <2> QED BY <2>1 DEF S, Swallow, IsStep, Ops
<1>9. t[4] = s[4] /\ t[6] = s[6]
  BY <1>1, <1>8
<1>10. /\ IsStep(t[10]) /\ t[10].op = "reset" /\ t[10].onErr = 0
       /\ IsStep(t[11]) /\ t[11].op = "check" /\ t[11].onErr = 0
  BY <1>1 DEF S, IsStep, Ops
<1>11. Len(t) = 11 /\ \E X : t \in Seq(X)
  BY <1>1
<1> QED BY <1>5, <1>6, <1>7, <1>8, <1>9, <1>10, <1>11

\* ThenReset(ChrootShell), which only a chroot does.
LEMMA ShellBlock ==
    ASSUME NEW c, c.op = "chroot", NEW what
    PROVE  Plain(c, ThenReset(ChrootShell, what), "off", "off")
<1> SUFFICES ASSUME NEW b
             PROVE  Types(c, ThenReset(ChrootShell, what), Rest("off", b), Rest("off", b))
  BY DEF Plain, Block
<1> DEFINE t == ThenReset(ChrootShell, what)
           x0 == Rest("off", b)
           x1 == Mid("off", b, "started", "shell")
           x2 == Mid("off", b, "notified", "shell")
           f == [i \in 1..12 |-> IF i = 5 THEN x1 ELSE IF i = 6 THEN x2 ELSE x0]
<1>1. ShellSteps(ChrootShell) /\ Kept(ChrootShell, 9, what, t)
  <2>1. ShellSteps(ChrootShell)
    BY ShellIs
  <2>2. Len(ChrootShell) = 9 /\ \E X : ChrootShell \in Seq(X)
    BY <2>1 DEF ShellSteps
  <2>3. t = ThenReset(ChrootShell, what) /\ 9 \in Nat
    OBVIOUS
  <2> HIDE DEF t
  <2> QED BY <2>1, <2>2, <2>3, ThenResetIs
<1> HIDE DEF t
<1>2. /\ x0.lock = "started" /\ x0.ph = "none" /\ x0.cmd = "" /\ x0.dbus = "off" /\ x0.bound = b
      /\ x1.lock = "started" /\ x1.ph = "started" /\ x1.cmd = "shell" /\ x1.dbus = "off" /\ x1.bound = b
      /\ x2.lock = "started" /\ x2.ph = "notified" /\ x2.cmd = "shell" /\ x2.dbus = "off" /\ x2.bound = b
  BY DEF Rest, Mid
<1> HIDE DEF x0, x1, x2
<1>3. /\ f[1] = x0 /\ f[2] = x0 /\ f[3] = x0 /\ f[4] = x0 /\ f[5] = x1 /\ f[6] = x2 /\ f[7] = x0
      /\ f[8] = x0 /\ f[9] = x0 /\ f[10] = x0 /\ f[11] = x0 /\ f[12] = x0
  OBVIOUS
<1> HIDE DEF f
<1>4. /\ Len(t) = 11 /\ \E X : t \in Seq(X)
      /\ IsStep(t[1]) /\ t[1].op = "io" /\ t[1].onErr = 9
      /\ IsStep(t[2]) /\ t[2].op = "jail" /\ t[2].onErr = 8
      /\ IsStep(t[3]) /\ t[3].op = "io" /\ t[3].onErr = 7
      /\ IsStep(t[4]) /\ t[4].op = "start" /\ t[4].arg = "shell" /\ t[4].onErr = 3
      /\ IsStep(t[5]) /\ t[5].op = "notify" /\ t[5].arg = "shell" /\ t[5].onErr = 5
      /\ IsStep(t[6]) /\ t[6].op = "wait" /\ t[6].arg = "shell" /\ t[6].onErr = 1
      /\ IsStep(t[7]) /\ t[7].op = "io" /\ t[7].onErr = 3
      /\ IsStep(t[8]) /\ t[8].op = "unjail" /\ t[8].onErr = 2
      /\ IsStep(t[9]) /\ t[9].op = "io" /\ t[9].onErr = 1
      /\ IsStep(t[10]) /\ t[10].op = "reset" /\ t[10].onErr = 0
      /\ IsStep(t[11]) /\ t[11].op = "check" /\ t[11].onErr = 0
  BY <1>1, ShellKeeps
<1>5. ASSUME NEW i \in {1, 2, 3, 7, 8, 9, 10, 11} PROVE Follows(c, t[i], x0, x0)
  <2>1. t[i].op \in {"io", "jail", "unjail", "reset", "check"}
    BY <1>4
  <2> QED BY <1>2, <2>1 DEF Follows, FollowsLock, FollowsPhase, FollowsDbus, FollowsMounts, LockOps, PhaseOps
<1>6. Follows(c, t[4], x0, x1)
  BY <1>2, <1>4 DEF Follows, FollowsLock, FollowsPhase, FollowsDbus, FollowsMounts, LockOps, PhaseOps
<1>7. Follows(c, t[5], x1, x2)
  BY <1>2, <1>4 DEF Follows, FollowsLock, FollowsPhase, FollowsDbus, FollowsMounts, LockOps, PhaseOps
<1>8. Follows(c, t[6], x2, x0)
  BY <1>2, <1>4 DEF Follows, FollowsLock, FollowsPhase, FollowsDbus, FollowsMounts, LockOps, PhaseOps
<1>9. Landed(x0, x0) /\ Landed(x1, x0) /\ Landed(x2, x0) /\ x2.bound = x0.bound
  BY <1>2 DEF Landed
<1>10. ASSUME NEW i \in 1..9 PROVE Lands(c, t, f, i)
  <2>1. i + t[i].onErr = 10 \/ i + t[i].onErr = 7
    BY <1>4
  <2>2. f[10] = x0 /\ f[7] = x0 /\ 10 <= Len(t) + 1 /\ 7 <= Len(t) + 1
    BY <1>3, <1>4
  <2>3. f[i] \in {x0, x1, x2} /\ (t[i].op \in {"wait", "helped", "check"} => f[i] = x2)
    BY <1>3, <1>4
  <2>4. Landed(f[i], x0) /\ (t[i].op \in {"wait", "helped", "check"} => x0.bound = f[i].bound)
    BY <1>9, <2>3
  <2>5. CASE i + t[i].onErr = 10
    BY <2>2, <2>4, <2>5, LandsAt
  <2>6. CASE i + t[i].onErr = 7
    BY <2>2, <2>4, <2>6, LandsAt
  <2> QED BY <2>1, <2>5, <2>6
<1>11. ASSUME NEW i \in 1..Len(t)
       PROVE  IsStep(t[i]) /\ Follows(c, t[i], f[i], f[i + 1]) /\ (t[i].onErr # 0 => Lands(c, t, f, i))
  <2>1. i \in 1..11
    BY <1>4
  <2>2. IsStep(t[i])
    BY <1>4, <2>1
  <2>3. Follows(c, t[i], f[i], f[i + 1])
    <3>1. CASE i \in {1, 2, 3, 7, 8, 9, 10, 11}
      <4>1. f[i] = x0 /\ f[i + 1] = x0
        BY <1>3, <3>1
      <4> QED BY <1>5, <3>1, <4>1
    <3>2. CASE i = 4
      BY <1>3, <1>6, <3>2
    <3>3. CASE i = 5
      BY <1>3, <1>7, <3>3
    <3>4. CASE i = 6
      BY <1>3, <1>8, <3>4
    <3> QED BY <2>1, <3>1, <3>2, <3>3, <3>4
  <2>4. t[i].onErr # 0 => i \in 1..9
    BY <1>4, <2>1
  <2> QED BY <1>10, <2>2, <2>3, <2>4
<1>12. Typed(c, t, f)
  BY <1>4, <1>11 DEF Typed
<1>13. f[1] = x0 /\ f[Len(t) + 1] = x0
  BY <1>3, <1>4
<1>14. Types(c, t, x0, x0)
  BY <1>12, <1>13 DEF Types
<1> QED BY <1>14 DEF t, x0

-----------------------------------------------------------------------------
(***************************************************************************)
(* BindSources and BindCaches                                              *)
(***************************************************************************)
\* t is n scripts of three steps one after another.
Threes(A, ss, n, t) ==
    /\ t \in Seq(A) /\ Len(t) = 3 * n
    /\ \A j \in 1..n, k \in 1..3 : t[3 * (j - 1) + k] = ss[j][k]

\* The elements of scripts of three steps one after another.
LEMMA FlattenThree ==
    ASSUME NEW A, NEW ss, NEW n \in Nat \ {0}, Len(ss) = n,
           \A i \in 1..n : ss[i] \in Seq(A) /\ Len(ss[i]) = 3,
           NEW t, t = FlattenSeq(ss)
    PROVE  Threes(A, ss, n, t)
<1>1. PICK h \in [1..n -> Seq(A)] :
         /\ t = h[n]
         /\ h[1] = ss[1]
         /\ \A i \in 2..n : h[i] = h[i - 1] \o ss[i]
  <2>1. Len(ss) \in Nat \ {0} /\ \A i \in 1..Len(ss) : ss[i] \in Seq(A)
    OBVIOUS
  <2>2. \E h \in [1..Len(ss) -> Seq(A)] :
           /\ FlattenSeq(ss) = h[Len(ss)]
           /\ h[1] = ss[1]
           /\ \A i \in 2..Len(ss) : h[i] = h[i - 1] \o ss[i]
    BY <2>1, FlattenIs, Zenon
  <2>3. Len(ss) = n /\ t = FlattenSeq(ss)
    OBVIOUS
  <2> QED BY <2>2, <2>3, Zenon
<1> DEFINE E(m) == /\ Len(h[m]) = 3 * m
                   /\ \A j \in 1..m, k \in 1..3 : h[m][3 * (j - 1) + k] = ss[j][k]
           B == {m \in 1..n : ~E(m)}
<1> HIDE DEF E
<1>2. ASSUME B # {} PROVE FALSE
  <2>1. B \subseteq Nat
    OBVIOUS
  <2>2. PICK m \in B : \A x \in B : m <= x
    <3> HIDE DEF B
    <3> QED BY <1>2, <2>1, LeastExists
  <2>3. m \in 1..n /\ ~E(m)
    BY <2>2
  <2>4. CASE m = 1
    <3>1. 1 \in 1..n
      OBVIOUS
    <3>2. Len(h[1]) = 3 * 1
      BY <1>1, <3>1
    <3>3. ASSUME NEW j \in 1..1, NEW k \in 1..3 PROVE h[1][3 * (j - 1) + k] = ss[j][k]
      <4>1. j = 1 /\ 3 * (j - 1) + k = k
        OBVIOUS
      <4> QED BY <1>1, <4>1
    <3> QED BY <2>3, <2>4, <3>2, <3>3 DEF E
  <2>5. CASE m # 1
    <3> DEFINE g == h[m - 1]
    <3>1. m - 1 \in 1..n /\ m \in 2..n /\ ~(m <= m - 1)
      BY <2>3, <2>5
    <3>2. E(m - 1)
      <4>1. m - 1 \notin B
        <5> HIDE DEF B
        <5> QED BY <2>2, <3>1
      <4> QED BY <3>1, <4>1
    <3>3. g \in Seq(A) /\ ss[m] \in Seq(A) /\ Len(ss[m]) = 3 /\ h[m] = g \o ss[m]
      BY <1>1, <2>3, <3>1
    <3>4. Len(g) = 3 * (m - 1) /\ \A j \in 1..(m - 1), k \in 1..3 : g[3 * (j - 1) + k] = ss[j][k]
      BY <3>2 DEF E
    <3> HIDE DEF g
    <3> DEFINE u == ss[m]
               v == h[m]
    <3>5. /\ Len(h[m]) = Len(g) + Len(ss[m])
          /\ \A i \in 1..(Len(g) + Len(ss[m])) :
                h[m][i] = IF i <= Len(g) THEN g[i] ELSE ss[m][i - Len(g)]
      <4>1. g \in Seq(A) /\ u \in Seq(A) /\ v = g \o u
        BY <3>3
      <4> HIDE DEF u, v
      <4>2. /\ Len(v) = Len(g) + Len(u)
            /\ \A i \in 1..(Len(g) + Len(u)) : v[i] = IF i <= Len(g) THEN g[i] ELSE u[i - Len(g)]
        BY <4>1, ConcatProperties
      <4> QED BY <4>2 DEF u, v
    <3>6. /\ Len(h[m]) = 3 * m
          /\ \A i \in 1..(3 * m) :
                h[m][i] = IF i <= 3 * (m - 1) THEN g[i] ELSE ss[m][i - 3 * (m - 1)]
      <4>1. Len(g) + Len(ss[m]) = 3 * m
        BY <2>3, <3>3, <3>4
      <4> QED BY <3>4, <3>5, <4>1
    <3>7. ASSUME NEW j \in 1..m, NEW k \in 1..3 PROVE h[m][3 * (j - 1) + k] = ss[j][k]
      <4>1. CASE j = m
        <5>1. 3 * (m - 1) + k \in 1..(3 * m) /\ ~(3 * (m - 1) + k <= 3 * (m - 1))
              /\ (3 * (m - 1) + k) - 3 * (m - 1) = k
          BY <2>3
        <5> QED BY <3>6, <4>1, <5>1
      <4>2. CASE j # m
        <5>1. 3 * (j - 1) + k \in 1..(3 * m) /\ 3 * (j - 1) + k <= 3 * (m - 1) /\ j \in 1..(m - 1)
          BY <2>3, <4>2
        <5> QED BY <3>4, <3>6, <5>1
      <4> QED BY <4>1, <4>2
    <3> QED BY <2>3, <3>6, <3>7 DEF E
  <2> QED BY <2>4, <2>5
<1>3. E(n)
  BY <1>2
<1> QED BY <1>1, <1>3 DEF E, Threes

\* A script of no step, however it is written.
LEMMA EmptyTypes ==
    ASSUME NEW c, NEW s, Len(s) = 0, \E X : s \in Seq(X), NEW x
    PROVE  Types(c, s, x, x)
<1> DEFINE f == <<x>>
<1>1. f[1] = x
  OBVIOUS
<1>2. Typed(c, s, f)
  BY DEF Typed
<1>3. f[Len(s) + 1] = x
  BY <1>1
<1> QED BY <1>1, <1>2, <1>3 DEF Types

\* What is bound at position p of BindSources.
BoundAt(b, src, n, p) == b \cup {src[j] : j \in {i \in 1..n : 3 * i < p}}

\* The steps of BindSources: in each group of three the second may jump to the
\* end of all of them.
LEMMA SourcesTypes ==
    ASSUME NEW c, NEW d \in {"off", "on"}, NEW b, NEW n \in Nat \ {0},
           NEW src \in [1..n -> MountPoints],
           NEW w1, NEW w2, NEW t, \E X : t \in Seq(X), Len(t) = 3 * n,
           \A j \in 1..n : /\ t[3 * (j - 1) + 1] = S("io", w1)
                           /\ t[3 * (j - 1) + 2] = Swallow(S("io", w2), 2 + 3 * (n - j))
                           /\ t[3 * (j - 1) + 3] = S("mount", src[j])
    PROVE  Types(c, t, Rest(d, b), Rest(d, BoundAt(b, src, n, 3 * n + 1)))
<1> DEFINE f == [p \in 1..(3 * n + 1) |-> Rest(d, BoundAt(b, src, n, p))]
           last == Rest(d, BoundAt(b, src, n, 3 * n + 1))
<1>1. \A p \in 1..(3 * n + 1) : f[p] = Rest(d, BoundAt(b, src, n, p))
  OBVIOUS
<1>2. f[3 * n + 1] = last
  <2>1. 3 * n + 1 \in 1..(3 * n + 1)
    OBVIOUS
  <2> QED BY <1>1, <2>1
<1> HIDE DEF f, last
<1>3. \A p \in 1..(3 * n + 1) :
         /\ f[p].lock = "started" /\ f[p].ph = "none" /\ f[p].cmd = "" /\ f[p].dbus = d
         /\ f[p].bound = BoundAt(b, src, n, p)
  <2> SUFFICES ASSUME NEW p \in 1..(3 * n + 1)
               PROVE  /\ f[p].lock = "started" /\ f[p].ph = "none" /\ f[p].cmd = "" /\ f[p].dbus = d
                      /\ f[p].bound = BoundAt(b, src, n, p)
    OBVIOUS
  <2>1. f[p] = Rest(d, BoundAt(b, src, n, p))
    BY <1>1
  <2>2. \A bb : LET x == Rest(d, bb)
               IN  /\ x.lock = "started" /\ x.ph = "none" /\ x.cmd = "" /\ x.dbus = d
                   /\ x.bound = bb
    BY DEF Rest
  <2> QED BY <2>1, <2>2, Zenon
<1>4. \A p, q \in 1..(3 * n + 1) : Landed(f[p], f[q])
  BY <1>3 DEF Landed
<1>5. ASSUME NEW j \in 1..n
      PROVE  /\ BoundAt(b, src, n, 3 * (j - 1) + 2) = BoundAt(b, src, n, 3 * (j - 1) + 1)
             /\ BoundAt(b, src, n, 3 * (j - 1) + 3) = BoundAt(b, src, n, 3 * (j - 1) + 2)
             /\ BoundAt(b, src, n, 3 * (j - 1) + 4) = BoundAt(b, src, n, 3 * (j - 1) + 3) \cup {src[j]}
  <2>1. /\ {i \in 1..n : 3 * i < 3 * (j - 1) + 2} = {i \in 1..n : 3 * i < 3 * (j - 1) + 1}
        /\ {i \in 1..n : 3 * i < 3 * (j - 1) + 3} = {i \in 1..n : 3 * i < 3 * (j - 1) + 2}
    OBVIOUS
  <2>2. {i \in 1..n : 3 * i < 3 * (j - 1) + 4} = {i \in 1..n : 3 * i < 3 * (j - 1) + 3} \cup {j}
    OBVIOUS
  <2>3. BoundAt(b, src, n, 3 * (j - 1) + 4) = BoundAt(b, src, n, 3 * (j - 1) + 3) \cup {src[j]}
    BY <2>2 DEF BoundAt
  <2> QED BY <2>1, <2>3 DEF BoundAt
<1>6. ASSUME NEW j \in 1..n, NEW i, i = 3 * (j - 1) + 1
      PROVE  IsStep(t[i]) /\ Follows(c, t[i], f[i], f[i + 1]) /\ (t[i].onErr # 0 => Lands(c, t, f, i))
  <2>1. i \in 1..(3 * n + 1) /\ i + 1 \in 1..(3 * n + 1) /\ i + 1 = 3 * (j - 1) + 2
    BY <1>6
  <2>2. f[i + 1].bound = f[i].bound
    <3>1. f[i].bound = BoundAt(b, src, n, i) /\ f[i + 1].bound = BoundAt(b, src, n, i + 1)
      BY <1>3, <2>1
    <3>2. BoundAt(b, src, n, 3 * (j - 1) + 2) = BoundAt(b, src, n, 3 * (j - 1) + 1)
      BY <1>5
    <3> QED BY <1>6, <2>1, <3>1, <3>2
  <2>3. IsStep(t[i]) /\ t[i].op = "io" /\ t[i].onErr = 0
    <3>1. t[i] = S("io", w1)
      BY <1>6
    <3> QED BY <3>1 DEF S, IsStep, Ops
  <2>4. /\ f[i].lock = "started" /\ f[i].ph = "none" /\ f[i].cmd = "" /\ f[i].dbus = d
        /\ f[i + 1].lock = "started" /\ f[i + 1].ph = "none" /\ f[i + 1].cmd = "" /\ f[i + 1].dbus = d
    BY <1>3, <2>1
  <2>5. Follows(c, t[i], f[i], f[i + 1])
    BY <2>2, <2>3, <2>4
    DEF Follows, FollowsLock, FollowsPhase, FollowsDbus, FollowsMounts, LockOps, PhaseOps
  <2> QED BY <2>3, <2>5
<1>7. ASSUME NEW j \in 1..n, NEW i, i = 3 * (j - 1) + 2
      PROVE  IsStep(t[i]) /\ Follows(c, t[i], f[i], f[i + 1]) /\ (t[i].onErr # 0 => Lands(c, t, f, i))
  <2>1. i \in 1..(3 * n + 1) /\ i + 1 \in 1..(3 * n + 1) /\ i + 1 = 3 * (j - 1) + 3
    BY <1>7
  <2>2. f[i + 1].bound = f[i].bound
    BY <1>3, <1>5, <1>7, <2>1
  <2>3. IsStep(t[i]) /\ t[i].op = "io" /\ t[i].onErr = 2 + 3 * (n - j)
    <3>1. 2 + 3 * (n - j) \in Nat
      OBVIOUS
    <3>2. \A m \in Nat : /\ IsStep(Swallow(S("io", w2), m)) /\ Swallow(S("io", w2), m).op = "io"
                         /\ Swallow(S("io", w2), m).onErr = m
      BY DEF S, Swallow, IsStep, Ops
    <3>3. t[i] = Swallow(S("io", w2), 2 + 3 * (n - j))
      BY <1>7
    <3> QED BY <3>1, <3>2, <3>3
  <2>4. /\ f[i].lock = "started" /\ f[i].ph = "none" /\ f[i].cmd = "" /\ f[i].dbus = d
        /\ f[i + 1].lock = "started" /\ f[i + 1].ph = "none" /\ f[i + 1].cmd = "" /\ f[i + 1].dbus = d
    BY <1>3, <2>1
  <2>5. Follows(c, t[i], f[i], f[i + 1])
    BY <2>2, <2>3, <2>4
    DEF Follows, FollowsLock, FollowsPhase, FollowsDbus, FollowsMounts, LockOps, PhaseOps
  <2>6. i + t[i].onErr = 3 * n + 1 /\ 3 * n + 1 <= Len(t) + 1 /\ 3 * n + 1 \in 1..(3 * n + 1)
    BY <1>7, <2>3
  <2>7. Landed(f[i], f[3 * n + 1])
    BY <1>4, <2>1, <2>6
  <2>8. Lands(c, t, f, i)
    <3>1. t[i].op \notin {"wait", "helped", "check"}
      BY <2>3
    <3> QED BY <2>6, <2>7, <3>1, LandsAt
  <2> QED BY <2>3, <2>5, <2>8
<1>8. ASSUME NEW j \in 1..n, NEW i, i = 3 * (j - 1) + 3
      PROVE  IsStep(t[i]) /\ Follows(c, t[i], f[i], f[i + 1]) /\ (t[i].onErr # 0 => Lands(c, t, f, i))
  <2>1. i \in 1..(3 * n + 1) /\ i + 1 \in 1..(3 * n + 1) /\ i + 1 = 3 * (j - 1) + 4
    BY <1>8
  <2>2. f[i + 1].bound = f[i].bound \cup {src[j]}
    BY <1>3, <1>5, <1>8, <2>1
  <2>3. IsStep(t[i]) /\ t[i].op = "mount" /\ t[i].arg = src[j] /\ t[i].onErr = 0
    <3>1. t[i] = S("mount", src[j])
      BY <1>8
    <3>2. "mount" \in Ops
      BY DEF Ops
    <3> QED BY <3>1, <3>2, StepIs
  <2>4. /\ f[i].lock = "started" /\ f[i].ph = "none" /\ f[i].cmd = "" /\ f[i].dbus = d
        /\ f[i + 1].lock = "started" /\ f[i + 1].ph = "none" /\ f[i + 1].cmd = "" /\ f[i + 1].dbus = d
    BY <1>3, <2>1
  <2>5. Follows(c, t[i], f[i], f[i + 1])
    BY <2>2, <2>3, <2>4
    DEF Follows, FollowsLock, FollowsPhase, FollowsDbus, FollowsMounts, LockOps, PhaseOps
  <2> QED BY <2>3, <2>5
<1>9. ASSUME NEW i \in 1..Len(t)
      PROVE  IsStep(t[i]) /\ Follows(c, t[i], f[i], f[i + 1]) /\ (t[i].onErr # 0 => Lands(c, t, f, i))
  <2> DEFINE j == (i - 1) \div 3 + 1
  <2>1. j \in 1..n /\ (i = 3 * (j - 1) + 1 \/ i = 3 * (j - 1) + 2 \/ i = 3 * (j - 1) + 3)
    OBVIOUS
  <2> HIDE DEF j
  <2> QED BY <1>6, <1>7, <1>8, <2>1
<1>10. Typed(c, t, f)
  BY <1>9 DEF Typed
<1>11. f[1] = Rest(d, b)
  <2>1. 1 \in 1..(3 * n + 1) /\ {i \in 1..n : 3 * i < 1} = {}
    OBVIOUS
  <2>2. BoundAt(b, src, n, 1) = b
    BY <2>1 DEF BoundAt
  <2> QED BY <1>1, <2>1, <2>2
<1>12. f[Len(t) + 1] = last
  BY <1>2
<1> QED BY <1>10, <1>11, <1>12 DEF Types, last


\* BindSources leaves every source bound if nothing fails.
LEMMA SourcesBlock ==
    ASSUME NEW c, NEW d \in {"off", "on"}
    PROVE  Block(c, BindSources, d, d, {}, Sources)
<1> DEFINE src == SetToSeq(Sources)
           n == Len(src)
           w1 == "source dir"
           w2 == "bind target"
           one(i) == Io(w1) \o <<Swallow(S("io", w2), 2 + 3 * (n - i))>> \o Mount(src[i])
           ss == [i \in 1..n |-> one(i)]
           t == FlattenSeq(ss)
<1>1. src \in Seq(Sources) /\ n \in Nat /\ \A x \in Sources : \E i \in 1..n : src[i] = x
  BY FiniteAssumption, SetToSeqIs
<1>2. BindSources = t
  BY DEF BindSources
<1>3. src \in [1..n -> MountPoints]
  BY <1>1 DEF MountPoints
<1> HIDE DEF src, n
<1>4. Len(ss) = n
  BY <1>1
<1> DEFINE e1 == S("io", w1)
           e2(i) == Swallow(S("io", w2), 2 + 3 * (n - i))
           e3(i) == S("mount", src[i])
<1>5. \A i \in 1..n : ss[i] = <<e1, e2(i), e3(i)>>
  <2> SUFFICES ASSUME NEW i \in 1..n PROVE one(i) = <<e1, e2(i), e3(i)>>
    OBVIOUS
  <2>1. one(i) = <<e1>> \o <<e2(i)>> \o <<e3(i)>>
    BY DEF Io, Mount
  <2> HIDE DEF e1, e2, e3, one
  <2>2. \A a1, a2, a3 : <<a1, a2, a3>> = <<a1>> \o <<a2>> \o <<a3>>
    BY ThreeSteps
  <2>3. <<e1, e2(i), e3(i)>> = <<e1>> \o <<e2(i)>> \o <<e3(i)>>
    BY <2>2
  <2> QED BY <2>1, <2>3
<1> HIDE DEF ss, t, e1, e2, e3, w1, w2
<1> DEFINE A == {e1} \cup {e2(i) : i \in 1..n} \cup {e3(i) : i \in 1..n}
<1>6. \A i \in 1..n : /\ ss[i] \in Seq(A) /\ Len(ss[i]) = 3
                      /\ ss[i][1] = e1 /\ ss[i][2] = e2(i) /\ ss[i][3] = e3(i)
  <2> SUFFICES ASSUME NEW i \in 1..n
               PROVE  /\ ss[i] \in Seq(A) /\ Len(ss[i]) = 3
                      /\ ss[i][1] = e1 /\ ss[i][2] = e2(i) /\ ss[i][3] = e3(i)
    OBVIOUS
  <2>1. e1 \in A /\ e2(i) \in A /\ e3(i) \in A
    OBVIOUS
  <2>2. ss[i] = <<e1, e2(i), e3(i)>>
    BY <1>5
  <2> HIDE DEF A
  <2> QED BY <2>1, <2>2
<1> HIDE DEF A
<1>7. CASE n = 0
  <2>1. t \in Seq({}) /\ Len(t) = 0
    BY <1>4, <1>7 DEF t, FlattenSeq
  <2>2. Sources = {}
    BY <1>1, <1>7
  <2>3. \A b : Types(c, t, Rest(d, b), Rest(d, b))
    BY <2>1, EmptyTypes
  <2> QED BY <1>2, <2>2, <2>3 DEF Block
<1>8. CASE n # 0
  <2>1. n \in Nat \ {0}
    BY <1>1, <1>8
  <2>2. /\ t \in Seq(A) /\ Len(t) = 3 * n
        /\ \A j \in 1..n, k \in 1..3 : t[3 * (j - 1) + k] = ss[j][k]
    <3>1. t = FlattenSeq(ss)
      BY DEF t
    <3>2. \A i \in 1..n : ss[i] \in Seq(A) /\ Len(ss[i]) = 3
      BY <1>6
    <3>3. Threes(A, ss, n, t)
      BY <1>4, <2>1, <3>1, <3>2, FlattenThree
    <3> QED BY <3>3 DEF Threes
  <2>3. \A j \in 1..n : /\ t[3 * (j - 1) + 1] = S("io", w1)
                        /\ t[3 * (j - 1) + 2] = Swallow(S("io", w2), 2 + 3 * (n - j))
                        /\ t[3 * (j - 1) + 3] = S("mount", src[j])
    <3> SUFFICES ASSUME NEW j \in 1..n
                 PROVE  /\ t[3 * (j - 1) + 1] = e1
                        /\ t[3 * (j - 1) + 2] = e2(j)
                        /\ t[3 * (j - 1) + 3] = e3(j)
      BY DEF e1, e2, e3
    <3>1. 1 \in 1..3 /\ 2 \in 1..3 /\ 3 \in 1..3
      OBVIOUS
    <3> QED BY <1>6, <2>2, <3>1, Zenon
  <2>4. ASSUME NEW b
        PROVE  \E bb : b \cup Sources \subseteq bb /\ Types(c, t, Rest(d, b), Rest(d, bb))
    <3> DEFINE bb == BoundAt(b, src, n, 3 * n + 1)
    <3>1. Types(c, t, Rest(d, b), Rest(d, bb))
      BY <1>3, <2>1, <2>2, <2>3, SourcesTypes
    <3>2. \A i \in 1..n : 3 * i < 3 * n + 1
      BY <2>1
    <3>3. b \cup Sources \subseteq bb
      BY <1>1, <3>2 DEF BoundAt
    <3> HIDE DEF bb
    <3> QED BY <3>1, <3>3
  <2> QED BY <1>2, <2>4 DEF Block
<1> QED BY <1>7, <1>8

\* BindCaches leaves every cache bound.
LEMMA CachesBlock ==
    ASSUME NEW c
    PROVE  Block(c, BindCaches, "off", "off", {}, Caches)
<1> DEFINE q == SetToSeq(Caches)
           n == Len(q)
           ss == [i \in 1..n |-> Mount(q[i])]
           t == FlattenSeq(ss)
           off == "off"
<1>1. q \in Seq(Caches) /\ n \in Nat /\ \A x \in Caches : \E i \in 1..n : q[i] = x
  BY FiniteAssumption, SetToSeqIs
<1>2. BindCaches = t
  BY DEF BindCaches
<1>3. \A i \in 1..n : q[i] \in MountPoints
  BY <1>1 DEF MountPoints
<1> HIDE DEF q, n
<1>4. Len(ss) = n
  BY <1>1
<1> DEFINE A == {S("mount", q[i]) : i \in 1..n}
<1>5. \A i \in 1..n : ss[i] \in Seq(A)
  BY DEF Mount
<1>6. \A i \in 1..n : ss[i] = Mount(q[i])
  OBVIOUS
<1> HIDE DEF ss, A
<1>7. CASE n = 0
  <2>1. t \in Seq({}) /\ Len(t) = 0
    BY <1>4, <1>7 DEF FlattenSeq
  <2>2. Caches = {}
    BY <1>1, <1>7
  <2> HIDE DEF t
  <2>3. \A b : Types(c, t, Rest(off, b), Rest(off, b))
    BY <2>1, EmptyTypes
  <2> QED BY <1>2, <2>2, <2>3 DEF Block
<1>8. CASE n # 0
  <2>1. Len(ss) \in Nat \ {0} /\ \A i \in 1..Len(ss) : ss[i] \in Seq(A)
    BY <1>1, <1>4, <1>5, <1>8
  <2>2. \E h \in [1..Len(ss) -> Seq(A)] :
           /\ FlattenSeq(ss) = h[Len(ss)]
           /\ h[1] = ss[1]
           /\ \A i \in 2..Len(ss) : h[i] = h[i - 1] \o ss[i]
    BY <2>1, FlattenIs, Zenon
  <2>3. PICK h \in [1..n -> Seq(A)] :
           /\ t = h[n]
           /\ h[1] = ss[1]
           /\ \A i \in 2..n : h[i] = h[i - 1] \o ss[i]
    BY <1>4, <2>2, Zenon
  <2> HIDE DEF t
  <2> DEFINE W(m) == {q[i] : i \in 1..m}
             E(m) == Block(c, h[m], off, off, {}, W(m))
             B == {m \in 1..n : ~E(m)}
  <2>4. \A i \in 1..n : Block(c, ss[i], off, off, {}, {q[i]})
    BY <1>3, <1>6, MountBlock
  <2> HIDE DEF E
  <2>5. ASSUME B # {} PROVE FALSE
    <3>1. B \subseteq Nat
      OBVIOUS
    <3>2. PICK m \in B : \A x \in B : m <= x
      <4> HIDE DEF B
      <4> QED BY <2>5, <3>1, LeastExists
    <3>3. m \in 1..n /\ ~E(m)
      BY <3>2
    <3>4. CASE m = 1
      <4>1. 1 \in 1..n /\ W(1) = {q[1]}
        BY <3>3, <3>4
      <4> HIDE DEF W
      <4>2. Block(c, h[1], off, off, {}, W(1))
        BY <2>3, <2>4, <4>1
      <4> QED BY <3>3, <3>4, <4>2 DEF E
    <3>5. CASE m # 1
      <4>1. m - 1 \in 1..n /\ m \in 2..n /\ ~(m <= m - 1)
        BY <1>1, <3>3, <3>5
      <4>2. E(m - 1)
        <5>1. m - 1 \notin B
          <6> HIDE DEF B
          <6> QED BY <3>2, <4>1
        <5> QED BY <4>1, <5>1
      <4>3. W(m) = W(m - 1) \cup {q[m]}
        <5>1. 1..m = 1..(m - 1) \cup {m}
          BY <3>3
        <5> QED BY <5>1
      <4> HIDE DEF W
      <4>4. Block(c, h[m - 1], off, off, {}, W(m - 1))
        BY <4>2 DEF E
      <4>5. Block(c, ss[m], off, off, {}, {q[m]})
        BY <2>4, <3>3
      <4>6. Block(c, h[m - 1] \o ss[m], off, off, {}, W(m - 1) \cup {q[m]})
        BY <4>4, <4>5, BlockCat
      <4>7. Block(c, h[m], off, off, {}, W(m))
        BY <2>3, <4>1, <4>3, <4>6
      <4> QED BY <3>3, <4>7 DEF E
    <3> QED BY <3>4, <3>5
  <2>6. E(n)
    <3>1. n \in 1..n
      BY <1>1, <1>8
    <3> QED BY <2>5, <3>1
  <2>7. Caches \subseteq W(n)
    BY <1>1
  <2> HIDE DEF W
  <2>8. Block(c, t, off, off, {}, W(n))
    BY <2>3, <2>6 DEF E
  <2>9. Block(c, t, off, off, {}, Caches)
    BY <2>7, <2>8, Weaker
  <2> QED BY <1>2, <2>9
<1> QED BY <1>7, <1>8

-----------------------------------------------------------------------------
(***************************************************************************)
(* The operations                                                          *)
(***************************************************************************)
\* AddRepo and RemoveRepo.
LEMMA RepoBlock ==
    ASSUME NEW c
    PROVE  Plain(c, AddRepo, "on", "on") /\ Plain(c, RemoveRepo, "on", "on")
<1>1. Plain(c, ResetPID, "on", "on")
  BY ResetBlock DEF Mode
<1>2. Plain(c, ChrootExec("add-repo"), "on", "on") /\ Plain(c, ChrootExec("remove-repo"), "on", "on")
  BY ExecBlock
<1>3. Plain(c, AddRepo, "on", "on")
  BY <1>1, <1>2, PlainCat DEF AddRepo
<1>4. Plain(c, RemoveRepo, "on", "on")
  BY <1>1, <1>2, PlainCat DEF RemoveRepo
<1> QED BY <1>3, <1>4

\* addLocalRepo, with or without an index.
LEMMA LocalBlock ==
    ASSUME NEW c
    PROVE  Plain(c, AddLocalRepo(c), "on", "on")
<1> DEFINE index == IF c.repo = "autoindex" THEN ThenReset(ChrootExec("cd; index repo"), "index") ELSE <<>>
<1>1. Plain(c, Io("repo dir"), "on", "on")
  BY IoBlock DEF Mode
<1>2. Plain(c, Mount("repo"), "on", "on")
  BY PlainMount DEF MountPoints
<1>3. Plain(c, index, "on", "on")
  <2>1. \A w, x : w \notin {"dbus-daemon", "build", "shell"}
                     => Plain(c, ThenReset(ChrootExec(w), x), "on", "on")
    BY ThenResetBlock
  <2>2. "cd; index repo" \notin {"dbus-daemon", "build", "shell"}
    OBVIOUS
  <2>3. Plain(c, ThenReset(ChrootExec("cd; index repo"), "index"), "on", "on")
    BY <2>1, <2>2, Zenon
  <2> QED BY <2>3, PlainNone, Zenon
<1>4. AddLocalRepo(c) = Io("repo dir") \o Mount("repo") \o index \o AddRepo
  BY Zenon DEF AddLocalRepo
<1> HIDE DEF index
<1>5. Plain(c, Io("repo dir") \o Mount("repo"), "on", "on")
  BY <1>1, <1>2, PlainCat
<1>6. Plain(c, Io("repo dir") \o Mount("repo") \o index, "on", "on")
  BY <1>3, <1>5, PlainCat
<1>7. Plain(c, Io("repo dir") \o Mount("repo") \o index \o AddRepo, "on", "on")
  BY <1>6, RepoBlock, PlainCat
<1> QED BY <1>4, <1>7

\* ConfigureRepos.
LEMMA ReposBlock ==
    ASSUME NEW c \in Conf
    PROVE  Plain(c, ConfigureRepos(c), "on", "on")
<1> DEFINE remove == IF c.remove THEN RemoveRepo ELSE <<>>
           add == CASE c.repo = "none" -> <<>>
                    [] c.repo = "remote" -> AddRepo
                    [] OTHER -> AddLocalRepo(c)
<1>1. Plain(c, Io("GetRepos"), "on", "on")
  BY IoBlock DEF Mode
<1>2. Plain(c, remove, "on", "on")
  BY RepoBlock, PlainNone
<1>3. Plain(c, add, "on", "on")
  <2>1. Plain(c, <<>>, "on", "on") /\ Plain(c, AddRepo, "on", "on") /\ Plain(c, AddLocalRepo(c), "on", "on")
    BY RepoBlock, LocalBlock, PlainNone
  <2>2. add \in {<<>>, AddRepo, AddLocalRepo(c)}
    OBVIOUS
  <2> HIDE DEF add
  <2> QED BY <2>1, <2>2
<1>4. ConfigureRepos(c) = Io("GetRepos") \o remove \o add
  BY DEF ConfigureRepos
<1> HIDE DEF remove, add
<1>5. Plain(c, Io("GetRepos") \o remove, "on", "on")
  BY <1>1, <1>2, PlainCat
<1>6. Plain(c, Io("GetRepos") \o remove \o add, "on", "on")
  BY <1>3, <1>5, PlainCat
<1> QED BY <1>4, <1>6

\* InstallComponent.
LEMMA DevelBlock ==
    ASSUME NEW c
    PROVE  Plain(c, InstallComponent, "on", "on")
BY ThenResetBlock DEF InstallComponent

\* The build command finds what it wants.
LEMMA CommandBlock ==
    ASSUME NEW c, NEW d \in {"off", "on"}
    PROVE  Block(c, ChrootExec("build"), d, d, Wanted(c), {})
<1>1. \A b : Wanted(c) \subseteq b => Types(c, ChrootExec("build"), Rest(d, b), Rest(d, b))
  BY ExecTypes
<1> QED BY <1>1 DEF Block

\* BuildYpkg: when D-BUS is down the sources and the caches are bound, and the
\* build command runs; after a report that failed, nothing is left to do.
LEMMA YpkgBlock ==
    ASSUME NEW c
    PROVE  \E e \in {"off", "tail"} : Plain(c, BuildYpkg(c), "on", e)
<1> DEFINE lay == <<S("layout", "")>>
           cache == IF c.ccache THEN StartSccache ELSE <<>>
           report == IF c.abi THEN GenerateABIReport ELSE <<>>
           cmd_ == ChrootExec("build")
           all == Sources \cup Caches
<1>1. Plain(c, lay, "off", "off")
  BY LayoutBlock
<1>2. Plain(c, CopyHostAssets, "off", "off")
  BY IoBlock DEF Mode, CopyHostAssets
<1>3. Plain(c, cache, "off", "off")
  BY SccacheBlock, PlainNone
<1>4. PICK e \in {"off", "tail"} : Plain(c, report, "off", e)
  BY AbiBlock, PlainNone
<1>5. Plain(c, ResetPID, e, e)
  BY ResetBlock DEF Mode
<1>6. Block(c, cmd_, "off", "off", Wanted(c), {})
  BY CommandBlock
<1>7. Wanted(c) \subseteq all
  BY DEF Wanted
<1>8. BuildYpkg(c) = PrepYpkg \o DropNetworking(c) \o BindSources \o lay \o BindCaches
                        \o CopyHostAssets \o cache \o cmd_ \o report \o ResetPID
  BY DEF BuildYpkg
<1> HIDE DEF lay, cache, report, cmd_, all
<1>9. Plain(c, PrepYpkg \o DropNetworking(c), "on", "off")
  BY PrepBlock, NetBlock, PlainCat
<1>10. Block(c, PrepYpkg \o DropNetworking(c) \o BindSources, "on", "off", {}, Sources)
  <2>1. Block(c, PrepYpkg \o DropNetworking(c) \o BindSources, "on", "off", {}, {} \cup Sources)
    BY <1>9, SourcesBlock, BlockCat DEF Plain
  <2> QED BY <2>1
<1>11. Block(c, PrepYpkg \o DropNetworking(c) \o BindSources \o lay, "on", "off", {}, Sources)
  <2>1. Block(c, PrepYpkg \o DropNetworking(c) \o BindSources \o lay, "on", "off", {}, Sources \cup {})
    BY <1>1, <1>10, BlockCat DEF Plain
  <2> QED BY <2>1
<1>12. Block(c, PrepYpkg \o DropNetworking(c) \o BindSources \o lay \o BindCaches, "on", "off", {}, all)
  BY <1>11, CachesBlock, BlockCat DEF all
<1>13. Block(c, PrepYpkg \o DropNetworking(c) \o BindSources \o lay \o BindCaches
                  \o CopyHostAssets, "on", "off", {}, all)
  <2>1. Block(c, PrepYpkg \o DropNetworking(c) \o BindSources \o lay \o BindCaches
                  \o CopyHostAssets, "on", "off", {}, all \cup {})
    BY <1>2, <1>12, BlockCat DEF Plain
  <2> QED BY <2>1
<1>14. Block(c, PrepYpkg \o DropNetworking(c) \o BindSources \o lay \o BindCaches
                  \o CopyHostAssets \o cache, "on", "off", {}, all)
  <2>1. Block(c, PrepYpkg \o DropNetworking(c) \o BindSources \o lay \o BindCaches
                  \o CopyHostAssets \o cache, "on", "off", {}, all \cup {})
    BY <1>3, <1>13, BlockCat DEF Plain
  <2> QED BY <2>1
<1>15. Plain(c, PrepYpkg \o DropNetworking(c) \o BindSources \o lay \o BindCaches
                  \o CopyHostAssets \o cache \o cmd_, "on", "off")
  <2>1. Block(c, PrepYpkg \o DropNetworking(c) \o BindSources \o lay \o BindCaches
                  \o CopyHostAssets \o cache \o cmd_, "on", "off", {}, all \cup {})
    BY <1>6, <1>7, <1>14, BlockCat
  <2> QED BY <2>1, Weaker DEF Plain
<1>16. Plain(c, PrepYpkg \o DropNetworking(c) \o BindSources \o lay \o BindCaches
                  \o CopyHostAssets \o cache \o cmd_ \o report, "on", e)
  BY <1>4, <1>15, PlainCat
<1>17. Plain(c, PrepYpkg \o DropNetworking(c) \o BindSources \o lay \o BindCaches
                  \o CopyHostAssets \o cache \o cmd_ \o report \o ResetPID, "on", e)
  BY <1>5, <1>16, PlainCat
<1> QED BY <1>8, <1>17

\* BuildXML, which has no caches, runs the build command with D-BUS up.
LEMMA XMLBlock ==
    ASSUME NEW c, c.type # "ypkg"
    PROVE  Plain(c, BuildXML, "on", "off")
<1> DEFINE cmd_ == ChrootExec("build")
<1>1. Plain(c, CopyHostAssets, "on", "on") /\ Plain(c, ResetPID, "on", "on")
      /\ Plain(c, ResetPID, "off", "off")
  BY IoBlock, ResetBlock DEF Mode, CopyHostAssets
<1>2. Block(c, cmd_, "on", "on", Wanted(c), {})
  BY CommandBlock
<1>3. Wanted(c) \subseteq {} \cup (Sources \cup {})
  BY DEF Wanted
<1>4. BuildXML = BindSources \o CopyHostAssets \o cmd_ \o ResetPID \o StopDBUS \o ResetPID
  BY DEF BuildXML
<1> HIDE DEF cmd_
<1>5. Block(c, BindSources, "on", "on", {}, Sources)
  BY SourcesBlock
<1>6. Block(c, BindSources \o CopyHostAssets, "on", "on", {}, Sources \cup {})
  BY <1>1, <1>5, BlockCat DEF Plain
<1>7. Block(c, BindSources \o CopyHostAssets \o cmd_, "on", "on", {}, (Sources \cup {}) \cup {})
  BY <1>2, <1>3, <1>6, BlockCat
<1>8. Plain(c, BindSources \o CopyHostAssets \o cmd_, "on", "on")
  BY <1>7, Weaker DEF Plain
<1>9. Plain(c, BindSources \o CopyHostAssets \o cmd_ \o ResetPID, "on", "on")
  BY <1>1, <1>8, PlainCat
<1>10. Plain(c, BindSources \o CopyHostAssets \o cmd_ \o ResetPID \o StopDBUS, "on", "off")
  BY <1>9, StopBlock, PlainCat
<1>11. Plain(c, BindSources \o CopyHostAssets \o cmd_ \o ResetPID \o StopDBUS \o ResetPID, "on", "off")
  BY <1>1, <1>10, PlainCat
<1> QED BY <1>4, <1>11

\* Build ends with D-BUS down.
LEMMA BuildBlock ==
    ASSUME NEW c \in Conf
    PROVE  \E e \in {"off", "tail"} : Plain(c, PackageBuild(c), "off", e)
<1> DEFINE build == IF c.type = "ypkg" THEN BuildYpkg(c) ELSE BuildXML
           first == Io("CleanExisting")
<1>1. Plain(c, first, "off", "off") /\ Plain(c, CopyAssets, "off", "off")
      /\ Plain(c, FetchSources, "off", "off") /\ Plain(c, CreateDirs, "on", "on")
  BY IoBlock DEF Mode, CopyAssets, FetchSources, CreateDirs
<1>2. PICK e \in {"off", "tail"} : Plain(c, build, "on", e)
  BY YpkgBlock, XMLBlock
<1>3. Plain(c, CollectAssets, e, e)
  BY IoBlock DEF Mode, CollectAssets
<1>4. PackageBuild(c) = first \o ActivateRoot(c) \o CopyAssets \o FetchSources \o EopkgInit
                           \o StartDBUS \o ConfigureRepos(c) \o Upgrade \o InstallComponent
                           \o CreateDirs \o build \o CollectAssets
  BY DEF PackageBuild
<1> HIDE DEF build, first
<1>5. Plain(c, first \o ActivateRoot(c), "off", "off")
  BY <1>1, ActivateBlock, PlainCat
<1>6. Plain(c, first \o ActivateRoot(c) \o CopyAssets, "off", "off")
  BY <1>1, <1>5, PlainCat
<1>7. Plain(c, first \o ActivateRoot(c) \o CopyAssets \o FetchSources, "off", "off")
  BY <1>1, <1>6, PlainCat
<1>8. Plain(c, first \o ActivateRoot(c) \o CopyAssets \o FetchSources \o EopkgInit, "off", "off")
  BY <1>7, InitBlock, PlainCat
<1> DEFINE s1 == first \o ActivateRoot(c) \o CopyAssets \o FetchSources \o EopkgInit
<1>9. Plain(c, s1, "off", "off")
  BY <1>8
<1> HIDE DEF s1
<1>10. Plain(c, s1 \o StartDBUS, "off", "on")
  BY <1>9, StartBlock, PlainCat
<1>11. Plain(c, s1 \o StartDBUS \o ConfigureRepos(c), "off", "on")
  BY <1>10, ReposBlock, PlainCat
<1>12. Plain(c, s1 \o StartDBUS \o ConfigureRepos(c) \o Upgrade, "off", "on")
  BY <1>11, UpgradeBlock, PlainCat
<1>13. Plain(c, s1 \o StartDBUS \o ConfigureRepos(c) \o Upgrade \o InstallComponent, "off", "on")
  BY <1>12, DevelBlock, PlainCat
<1>14. Plain(c, s1 \o StartDBUS \o ConfigureRepos(c) \o Upgrade \o InstallComponent \o CreateDirs,
             "off", "on")
  BY <1>1, <1>13, PlainCat
<1>15. Plain(c, s1 \o StartDBUS \o ConfigureRepos(c) \o Upgrade \o InstallComponent \o CreateDirs
                  \o build, "off", e)
  BY <1>2, <1>14, PlainCat
<1>16. Plain(c, s1 \o StartDBUS \o ConfigureRepos(c) \o Upgrade \o InstallComponent \o CreateDirs
                  \o build \o CollectAssets, "off", e)
  BY <1>3, <1>15, PlainCat
<1> QED BY <1>4, <1>16 DEF s1

\* Chroot.
LEMMA ChrootBlock ==
    ASSUME NEW c, c.op = "chroot"
    PROVE  Plain(c, PackageChroot(c), "off", "off")
<1> DEFINE net == IF c.type = "ypkg" THEN DropNetworking(c) ELSE <<>>
           shell == ThenReset(ChrootShell, "shell")
<1>1. Plain(c, net, "off", "off")
  BY NetBlock, PlainNone
<1>2. Plain(c, shell, "off", "off")
  BY ShellBlock
<1>3. PackageChroot(c) = ActivateRoot(c) \o net \o shell
  BY DEF PackageChroot
<1> HIDE DEF net, shell
<1>4. Plain(c, ActivateRoot(c) \o net, "off", "off")
  BY <1>1, ActivateBlock, PlainCat
<1>5. Plain(c, ActivateRoot(c) \o net \o shell, "off", "off")
  BY <1>2, <1>4, PlainCat
<1> QED BY <1>3, <1>5

\* Index.
LEMMA IndexBlock ==
    ASSUME NEW c
    PROVE  Plain(c, PackageIndex(c), "off", "off")
<1> DEFINE first == Io("CleanExisting")
           target == Io("bind target")
           repo == Mount("hostRepo")
           index == ChrootExec("cd; index")
<1>1. Plain(c, first, "off", "off") /\ Plain(c, target, "off", "off")
  BY IoBlock DEF Mode
<1>2. Plain(c, repo, "off", "off")
  BY PlainMount DEF MountPoints
<1>3. Plain(c, index, "off", "off")
  <2>1. \A w : w \notin {"dbus-daemon", "build", "shell"} => Plain(c, ChrootExec(w), "off", "off")
    BY ExecBlock
  <2>2. "cd; index" \notin {"dbus-daemon", "build", "shell"}
    OBVIOUS
  <2> QED BY <2>1, <2>2, Zenon
<1>4. PackageIndex(c) = first \o ActivateRoot(c) \o target \o repo \o index
  BY Zenon DEF PackageIndex
<1> HIDE DEF first, target, repo, index
<1>5. Plain(c, first \o ActivateRoot(c), "off", "off")
  BY <1>1, ActivateBlock, PlainCat
<1>6. Plain(c, first \o ActivateRoot(c) \o target, "off", "off")
  BY <1>1, <1>5, PlainCat
<1>7. Plain(c, first \o ActivateRoot(c) \o target \o repo, "off", "off")
  BY <1>2, <1>6, PlainCat
<1>8. Plain(c, first \o ActivateRoot(c) \o target \o repo \o index, "off", "off")
  BY <1>3, <1>7, PlainCat
<1> QED BY <1>4, <1>8

\* Update.
LEMMA UpdateBlock ==
    ASSUME NEW c
    PROVE  Plain(c, ImageUpdate(c), "off", "off")
<1> DEFINE first == Io("root dir")
           root == Mount("root")
           lay == <<S("layout", "")>>
           proc == Mount("root/proc")
<1>1. Plain(c, first, "off", "off")
  BY IoBlock DEF Mode
<1>2. Plain(c, root, "off", "off") /\ Plain(c, proc, "off", "off")
  BY PlainMount DEF MountPoints
<1>3. Plain(c, lay, "off", "off")
  BY LayoutBlock
<1>4. ImageUpdate(c) = first \o root \o lay \o proc \o EopkgInit \o StartDBUS \o Upgrade
                          \o InstallComponent \o StopDBUS \o AddBuildUser(c)
  BY DEF ImageUpdate
<1> HIDE DEF first, root, lay, proc
<1>5. Plain(c, first \o root, "off", "off")
  BY <1>1, <1>2, PlainCat
<1>6. Plain(c, first \o root \o lay, "off", "off")
  BY <1>3, <1>5, PlainCat
<1>7. Plain(c, first \o root \o lay \o proc, "off", "off")
  BY <1>2, <1>6, PlainCat
<1>8. Plain(c, first \o root \o lay \o proc \o EopkgInit, "off", "off")
  BY <1>7, InitBlock, PlainCat
<1>9. Plain(c, first \o root \o lay \o proc \o EopkgInit \o StartDBUS, "off", "on")
  BY <1>8, StartBlock, PlainCat
<1>10. Plain(c, first \o root \o lay \o proc \o EopkgInit \o StartDBUS \o Upgrade, "off", "on")
  BY <1>9, UpgradeBlock, PlainCat
<1>11. Plain(c, first \o root \o lay \o proc \o EopkgInit \o StartDBUS \o Upgrade
                  \o InstallComponent, "off", "on")
  BY <1>10, DevelBlock, PlainCat
<1>12. Plain(c, first \o root \o lay \o proc \o EopkgInit \o StartDBUS \o Upgrade
                  \o InstallComponent \o StopDBUS, "off", "off")
  BY <1>11, StopBlock, PlainCat
<1>13. Plain(c, first \o root \o lay \o proc \o EopkgInit \o StartDBUS \o Upgrade
                  \o InstallComponent \o StopDBUS \o AddBuildUser(c), "off", "off")
  BY <1>12, UserBlock, PlainCat
<1> QED BY <1>4, <1>13

-----------------------------------------------------------------------------
(***************************************************************************)
(* The scripts of the manager                                              *)
(***************************************************************************)
\* doLock, before which there may be work that fails.
LEMMA LockTypes ==
    ASSUME NEW c, NEW none, NEW what
    PROVE  /\ Types(c, <<S("newlock", none), S("lock", none), S("started", none)>>, Begin, Rest("off", {}))
           /\ Types(c, Io(what), Begin, Begin)
<1> DEFINE s1 == S("newlock", none)
           s2 == S("lock", none)
           s3 == S("started", none)
           s4 == S("io", what)
           x1 == [Begin EXCEPT !.lock = "open"]
           x2 == [Begin EXCEPT !.lock = "held"]
           x3 == Rest("off", {})
<1>1. /\ IsStep(s1) /\ s1.op = "newlock" /\ s1.onErr = 0
      /\ IsStep(s2) /\ s2.op = "lock" /\ s2.onErr = 0
      /\ IsStep(s3) /\ s3.op = "started" /\ s3.onErr = 0
      /\ IsStep(s4) /\ s4.op = "io" /\ s4.onErr = 0
  BY StepIs DEF Ops
<1>2. /\ Begin.lock = "none" /\ Begin.ph = "none" /\ Begin.cmd = "" /\ Begin.dbus = "off" /\ Begin.bound = {}
      /\ x1.lock = "open" /\ x1.ph = "none" /\ x1.cmd = "" /\ x1.dbus = "off" /\ x1.bound = {}
      /\ x2.lock = "held" /\ x2.ph = "none" /\ x2.cmd = "" /\ x2.dbus = "off" /\ x2.bound = {}
      /\ x3.lock = "started" /\ x3.ph = "none" /\ x3.cmd = "" /\ x3.dbus = "off" /\ x3.bound = {}
  BY DEF Begin, Rest
<1>3. <<s1, s2, s3>> = <<s1>> \o <<s2>> \o <<s3>>
  <2> HIDE DEF s1, s2, s3
  <2> QED BY ThreeSteps
<1> HIDE DEF s1, s2, s3, s4, x1, x2, x3
<1>4. Follows(c, s1, Begin, x1)
  BY <1>1, <1>2 DEF Follows, FollowsLock, FollowsPhase, FollowsDbus, FollowsMounts, LockOps, PhaseOps
<1>5. Follows(c, s2, x1, x2)
  BY <1>1, <1>2 DEF Follows, FollowsLock, FollowsPhase, FollowsDbus, FollowsMounts, LockOps, PhaseOps
<1>6. Follows(c, s3, x2, x3)
  BY <1>1, <1>2 DEF Follows, FollowsLock, FollowsPhase, FollowsDbus, FollowsMounts, LockOps, PhaseOps
<1>7. Follows(c, s4, Begin, Begin)
  BY <1>1, <1>2 DEF Follows, FollowsLock, FollowsPhase, FollowsDbus, FollowsMounts, LockOps, PhaseOps
<1>8. Types(c, <<s1>>, Begin, x1) /\ Types(c, <<s2>>, x1, x2) /\ Types(c, <<s3>>, x2, x3)
      /\ Types(c, <<s4>>, Begin, Begin)
  BY <1>1, <1>4, <1>5, <1>6, <1>7, OneStep
<1>9. Types(c, <<s1>> \o <<s2>>, Begin, x2)
  BY <1>8, Cat
<1>10. Types(c, <<s1>> \o <<s2>> \o <<s3>>, Begin, x3)
  BY <1>8, <1>9, Cat
<1>11. Types(c, <<s1, s2, s3>>, Begin, x3)
  BY <1>3, <1>10
<1>12. Types(c, Io(what), Begin, Begin)
  BY <1>8 DEF Io, s4
<1> QED BY <1>11, <1>12 DEF s1, s2, s3, x3

\* The script of every configuration leads from the beginning to a state of rest.
LEMMA ScriptEnds ==
    ASSUME NEW c \in Conf
    PROVE  \E e, b : Types(c, ManagerScript(c), Begin, Rest(e, b))
<1> DEFINE size == Io("tmpfs size")
           profile == <<S("locked", "GetProfile")>>
<1>1. Types(c, DoLock, Begin, Rest("off", {})) /\ Types(c, size, Begin, Begin)
  <2>1. \A none, what :
           /\ Types(c, <<S("newlock", none), S("lock", none), S("started", none)>>, Begin, Rest("off", {}))
           /\ Types(c, Io(what), Begin, Begin)
    BY LockTypes
  <2> QED BY <2>1, Zenon DEF DoLock
<1>2. Plain(c, profile, "off", "off")
  BY PlainStep DEF Mode
<1>3. /\ c.op = "build" => ManagerScript(c) = size \o DoLock \o profile \o PackageBuild(c)
      /\ c.op = "chroot" => ManagerScript(c) = DoLock \o PackageChroot(c)
      /\ c.op = "index" => ManagerScript(c) = size \o DoLock \o PackageIndex(c)
      /\ c.op = "update" => ManagerScript(c) = DoLock \o ImageUpdate(c)
  BY DEF ManagerScript
<1>4. c.op \in {"build", "chroot", "index", "update"}
  BY DEF Conf
<1> HIDE DEF size, profile
<1>5. Types(c, size \o DoLock, Begin, Rest("off", {}))
  BY <1>1, Cat
<1>6. ASSUME NEW s, NEW t, NEW e, Types(c, s, Begin, Rest("off", {})), Plain(c, t, "off", e)
      PROVE  \E b : Types(c, s \o t, Begin, Rest(e, b))
  <2>1. PICK b : Types(c, t, Rest("off", {}), Rest(e, b))
    BY <1>6 DEF Plain, Block
  <2> QED BY <1>6, <2>1, Cat
<1>7. CASE c.op = "build"
  <2>1. PICK e \in {"off", "tail"} : Plain(c, PackageBuild(c), "off", e)
    BY BuildBlock
  <2>2. PICK b1 : Types(c, size \o DoLock \o profile, Begin, Rest("off", b1))
    BY <1>2, <1>5, <1>6
  <2>3. PICK b2 : Types(c, PackageBuild(c), Rest("off", b1), Rest(e, b2))
    BY <2>1 DEF Plain, Block
  <2>4. Types(c, size \o DoLock \o profile \o PackageBuild(c), Begin, Rest(e, b2))
    BY <2>2, <2>3, Cat
  <2> QED BY <1>3, <1>7, <2>4
<1>8. CASE c.op = "chroot"
  <2>1. Plain(c, PackageChroot(c), "off", "off")
    BY <1>8, ChrootBlock
  <2>2. \E b : Types(c, DoLock \o PackageChroot(c), Begin, Rest("off", b))
    BY <1>1, <1>6, <2>1
  <2> QED BY <1>3, <1>8, <2>2
<1>9. CASE c.op = "index"
  <2>1. \E b : Types(c, size \o DoLock \o PackageIndex(c), Begin, Rest("off", b))
    BY <1>5, <1>6, IndexBlock
  <2> QED BY <1>3, <1>9, <2>1
<1>10. CASE c.op = "update"
  <2>1. \E b : Types(c, DoLock \o ImageUpdate(c), Begin, Rest("off", b))
    BY <1>1, <1>6, UpdateBlock
  <2> QED BY <1>3, <1>10, <2>1
<1> QED BY <1>4, <1>7, <1>8, <1>9, <1>10

\* The scripts of all operations are well formed: doLock comes before any work
\* in the root; a command is started, reported and waited for; D-BUS is started
\* and stopped in turn, and off where its PID file is removed; the build command
\* finds the sources and caches mounted unless a step before it failed; and an
\* error that is not returned goes where main is between two commands.
THEOREM ScriptsFit ==
    ASSUME NEW c \in Conf
    PROVE  \E f : Fits(c, f)
<1>1. PICK e, b : Types(c, ManagerScript(c), Begin, Rest(e, b))
  BY ScriptEnds
<1>2. PICK f : /\ Typed(c, ManagerScript(c), f) /\ f[1] = Begin
               /\ f[Len(ManagerScript(c)) + 1] = Rest(e, b)
  BY <1>1 DEF Types
<1>3. Rest(e, b).ph = "none"
  BY DEF Rest
<1> QED BY <1>2, <1>3 DEF Fits
=============================================================================
