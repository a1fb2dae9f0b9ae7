--------------------------- MODULE HistoryProofs ---------------------------
(***************************************************************************)
(* The four invariants of History, for every log, every order of the scan  *)
(* and every limit of the changelog.                                       *)
(*                                                                         *)
(* The list is described by the place a release has among the releases of  *)
(* the log (Rank), the timestamp by the commit its walk ends at; and what  *)
(* the last build recorded is described in terms of the log as it is now   *)
(* (LastBuild), so that a bump changes it by one place.                    *)
(***************************************************************************)
EXTENDS History, FiniteSetTheorems, WellFoundedInduction, TLAPS

\* A set of natural numbers with an element has a smallest one.
LEMMA LeastExists ==
    ASSUME NEW S, S \subseteq Nat, S # {}
    PROVE  \E m \in S : \A x \in S : m <= x
<1> DEFINE R == {ss \in Nat \X Nat : ss[1] < ss[2]}
<1>1. IsWellFoundedOn(R, Nat)
  BY NatLessThanWellFounded DEF OpToRel
<1>2. PICK m \in S : \A x \in S : ~(<<x, m>> \in R)
  <2> HIDE DEF R
  <2> QED BY <1>1, WFMin
<1>3. \A x \in S : ~(x < m)
  BY <1>2
<1> QED BY <1>3

\* And one that is bounded has a greatest.
LEMMA GreatestExists ==
    ASSUME NEW S, NEW n \in Nat, S \subseteq 0..n, S # {}
    PROVE  \E m \in S : \A x \in S : x <= m
<1> DEFINE M == {k \in Nat : \E x \in S : k = n - x}
<1>1. M \subseteq Nat /\ M # {}
  <2>1. PICK x \in S : TRUE
    OBVIOUS
  <2>2. n - x \in Nat
    OBVIOUS
  <2> QED BY <2>1, <2>2
<1>2. PICK k \in M : \A j \in M : k <= j
  <2> HIDE DEF M
  <2> QED BY <1>1, LeastExists
<1>3. PICK m \in S : k = n - m
  OBVIOUS
<1>4. \A x \in S : n - x \in M
  OBVIOUS
<1>5. \A x \in S : k <= n - x
  BY <1>2, <1>4
<1> QED BY <1>3, <1>5

-----------------------------------------------------------------------------
(***************************************************************************)
(* Sorting and cutting                                                     *)
(***************************************************************************)

\* The place of r in S when S is sorted, greatest first.
Rank(S, r) == Cardinality({s \in S : s >= r})

\* The place of a release in a sorted list: one release for each place, and the
\* greater the release the smaller its place.
LEMMA Ranks ==
    ASSUME NEW T, NEW n \in Nat, T \subseteq 1..n
    PROVE  /\ IsFiniteSet(T) /\ Cardinality(T) \in Nat
           /\ \A r \in T : Rank(T, r) \in 1..Cardinality(T)
           /\ \A r, q \in T : r < q => Rank(T, q) < Rank(T, r)
           /\ \A i \in 1..Cardinality(T) : \E r \in T : Rank(T, r) = i
<1>1. IsFiniteSet(T) /\ Cardinality(T) \in Nat
  <2>1. IsFiniteSet(1..n)
    BY FS_Interval
  <2>2. T \in SUBSET (1..n)
    OBVIOUS
  <2> QED BY <2>1, <2>2, FS_Subset, FS_CardinalityType
<1>2. ASSUME NEW r \in T PROVE Rank(T, r) \in 1..Cardinality(T)
  <2> DEFINE U == {s \in T : s >= r}
  <2>1. U \in SUBSET T /\ r \in U
    OBVIOUS
  <2>2. IsFiniteSet(U) /\ Cardinality(U) <= Cardinality(T)
    BY <1>1, <2>1, FS_Subset
  <2>3. Cardinality(U) \in Nat /\ Cardinality(U) # 0
    BY <2>1, <2>2, FS_CardinalityType, FS_EmptySet
  <2> QED BY <1>1, <2>2, <2>3 DEF Rank
<1>3. ASSUME NEW r \in T, NEW q \in T, r < q PROVE Rank(T, q) < Rank(T, r)
  <2> DEFINE U == {s \in T : s >= r}
             V == {s \in T : s >= q}
  <2>1. U \in SUBSET T /\ V \in SUBSET U /\ r \in U /\ r \notin V
    <3>1. \A s \in T : s >= q => s >= r
      BY <1>3
    <3>2. r >= r /\ ~(r >= q)
      BY <1>3
    <3> QED BY <3>1, <3>2
  <2>2. IsFiniteSet(U)
    BY <1>1, <2>1, FS_Subset
  <2>3. Cardinality(V) <= Cardinality(U) /\ Cardinality(U) # Cardinality(V)
    BY <2>1, <2>2, FS_Subset
  <2> QED BY <1>2, <2>3 DEF Rank
<1>4. \A i \in 1..Cardinality(T) : \E r \in T : Rank(T, r) = i
  <2> DEFINE f == [r \in T |-> Rank(T, r)]
             N == 1..Cardinality(T)
  <2>1. f \in [T -> N]
    BY <1>2
  <2>2. \A r, q \in T : f[r] = f[q] => r = q
    <3> SUFFICES ASSUME NEW r \in T, NEW q \in T, f[r] = f[q], r # q PROVE FALSE
      OBVIOUS
    <3>1. r < q \/ q < r
      OBVIOUS
    <3>2. Rank(T, r) \in Nat /\ Rank(T, q) \in Nat /\ Rank(T, r) = Rank(T, q)
      BY <1>1, <1>2
    <3> QED BY <1>3, <3>1, <3>2
  <2>3. f \in Injection(T, N)
    BY <2>1, <2>2 DEF Injection, IsInjective
  <2>4. IsFiniteSet(N) /\ Cardinality(N) = Cardinality(T)
    BY <1>1, FS_Interval
  <2>5. f \in Surjection(T, N)
    <3> HIDE DEF f, N
    <3> QED BY <2>3, <2>4, FS_Injection
  <2>6. \A i \in N : \E r \in T : f[r] = i
    BY <2>5 DEF Surjection
  <2> QED BY <2>6
<1> QED BY <1>1, <1>2, <1>3, <1>4

\* What the sort and the cut leave: no more than the limit, and just that many
\* if anything was cut; nothing above what is left is cut.
LEMMA NewestIs ==
    ASSUME NEW D, D \subseteq Release
    PROVE  /\ Newest(D) \subseteq D
           /\ Cardinality(Newest(D)) \in Nat
           /\ Cardinality(Newest(D)) <= MaxChangelogEntries
           /\ \A r \in Newest(D), q \in D : q >= r => q \in Newest(D)
           /\ D # {} => Newest(D) # {}
           /\ Newest(D) # D => Cardinality(Newest(D)) = MaxChangelogEntries
<1> DEFINE T == Newest(D)
           Up(r) == {s \in D : s > r}
<1>1. MaxRelease \in Nat /\ MaxChangelogEntries \in Nat \ {0}
  BY HistoryAssumption
<1>2. IsFiniteSet(D) /\ D \subseteq Nat /\ D \subseteq 0..MaxRelease
  <2>1. D \in SUBSET (1..MaxRelease) /\ IsFiniteSet(1..MaxRelease)
    BY <1>1, FS_Interval DEF Release
  <2>2. IsFiniteSet(D)
    BY <2>1, FS_Subset
  <2> QED BY <1>1, <2>1, <2>2
<1>3. T \subseteq D /\ \A r \in D : r \in T <=> Cardinality(Up(r)) < MaxChangelogEntries
  BY DEF Newest
<1> HIDE DEF T
<1>nat. T \subseteq Nat
  BY <1>2, <1>3
<1>4. \A r : IsFiniteSet(Up(r)) /\ Cardinality(Up(r)) \in Nat
  BY <1>2, FS_Subset, FS_CardinalityType
<1>5. IsFiniteSet(T) /\ Cardinality(T) \in Nat
  BY <1>2, <1>3, FS_Subset, FS_CardinalityType
<1>6. ASSUME NEW r \in T, NEW q \in D, q >= r PROVE q \in T
  <2>1. Up(q) \in SUBSET Up(r)
    <3>1. \A s \in D : s > q => s > r
      BY <1>2, <1>nat, <1>6
    <3> QED BY <3>1
  <2>2. Cardinality(Up(q)) <= Cardinality(Up(r))
    BY <1>4, <2>1, FS_Subset
  <2>3. Cardinality(Up(r)) < MaxChangelogEntries
    BY <1>3
  <2>4. Cardinality(Up(q)) < MaxChangelogEntries
    <3> HIDE DEF Up
    <3> QED BY <1>1, <1>4, <2>2, <2>3
  <2> QED BY <1>3, <2>4
<1>7. Cardinality(T) <= MaxChangelogEntries
  <2>1. CASE T = {}
    BY <1>1, <2>1, FS_EmptySet
  <2>2. CASE T # {}
    <3>1. PICK m \in T : \A x \in T : m <= x
      BY <1>2, <1>3, <2>2, LeastExists
    <3>2. T \in SUBSET (Up(m) \cup {m}) /\ m \notin Up(m)
      <4>1. \A x \in T : x = m \/ x > m
        BY <1>nat, <3>1
      <4>2. ~(m > m)
        BY <1>nat
      <4> QED BY <1>3, <4>1, <4>2
    <3>3. /\ IsFiniteSet(Up(m) \cup {m})
          /\ Cardinality(Up(m) \cup {m}) = Cardinality(Up(m)) + 1
      BY <1>4, <3>2, FS_AddElement
    <3>4. Cardinality(T) <= Cardinality(Up(m) \cup {m})
      BY <3>2, <3>3, FS_Subset
    <3>5. Cardinality(Up(m)) < MaxChangelogEntries
      BY <1>3
    <3> HIDE DEF Up
    <3> QED BY <1>1, <1>4, <1>5, <3>3, <3>4, <3>5
  <2> QED BY <2>1, <2>2
<1>8. ASSUME D # {} PROVE T # {}
  <2>1. PICK m \in D : \A x \in D : x <= m
    BY <1>1, <1>2, <1>8, GreatestExists
  <2>2. Up(m) = {}
    <3>1. \A x \in D : ~(x > m)
      BY <1>2, <2>1
    <3> QED BY <3>1
  <2>3. Cardinality(Up(m)) = 0
    BY <2>2, FS_EmptySet
  <2> QED BY <1>1, <1>3, <2>3
<1>9. ASSUME T # D PROVE Cardinality(T) = MaxChangelogEntries
  <2>1. D \ T # {} /\ D \ T \subseteq 0..MaxRelease
    BY <1>2, <1>3, <1>9
  <2>2. PICK m \in D \ T : \A x \in D \ T : x <= m
    BY <1>1, <2>1, GreatestExists
  <2>3. Up(m) \in SUBSET T
    <3>1. \A x \in D : x > m => x \in T
      BY <1>2, <2>2
    <3> QED BY <3>1
  <2>4. Cardinality(Up(m)) <= Cardinality(T)
    BY <1>5, <2>3, FS_Subset
  <2>5. ~(Cardinality(Up(m)) < MaxChangelogEntries)
    BY <1>3
  <2> HIDE DEF Up
  <2> QED BY <1>1, <1>4, <1>5, <1>7, <2>4, <2>5
<1> QED BY <1>3, <1>5, <1>6, <1>7, <1>8, <1>9 DEF T

\* The walk of GetLastVersionTimestamp stops within the list, at the first
\* change of the version.
LEMMA RunLengthIs ==
    ASSUME NEW l, Len(l) \in Nat \ {0}
    PROVE  /\ RunLength(l) \in 1..Len(l)
           /\ \A k \in 1..RunLength(l) : l[k].ver = l[1].ver
           /\ RunLength(l) = Len(l) \/ l[RunLength(l) + 1].ver # l[1].ver
<1> DEFINE P(n) == /\ \A k \in 1..n : l[k].ver = l[1].ver
                   /\ n = Len(l) \/ l[n + 1].ver # l[1].ver
           C == {k \in 1..Len(l) : l[k].ver # l[1].ver}
<1>1. \E n \in 1..Len(l) : P(n)
  <2>1. CASE C = {}
    <3>1. P(Len(l))
      BY <2>1
    <3> QED BY <3>1
  <2>2. CASE C # {}
    <3>1. C \subseteq Nat
      OBVIOUS
    <3>2. PICK m \in C : \A x \in C : m <= x
      <4> HIDE DEF C
      <4> QED BY <2>2, <3>1, LeastExists
    <3>3. m \in 1..Len(l) /\ m # 1 /\ l[m].ver # l[1].ver
      OBVIOUS
    <3>4. \A k \in 1..(m - 1) : k \in 1..Len(l) /\ k < m
      BY <3>3
    <3>5. \A k \in 1..(m - 1) : l[k].ver = l[1].ver
      BY <3>2, <3>3, <3>4
    <3>6. m - 1 \in 1..Len(l) /\ (m - 1) + 1 = m
      BY <3>3
    <3> QED BY <3>3, <3>5, <3>6
  <2> QED BY <2>1, <2>2
<1>2. RunLength(l) = CHOOSE n \in 1..Len(l) : P(n)
  BY DEF RunLength
<1>3. RunLength(l) \in 1..Len(l) /\ P(RunLength(l))
  <2> HIDE DEF P
  <2> QED BY <1>1, <1>2
<1> QED BY <1>3

-----------------------------------------------------------------------------
(***************************************************************************)
(* The inductive invariant                                                 *)
(***************************************************************************)

\* updateSet is a function.
IsMap(f) == f = [x \in DOMAIN f |-> f[x]]

\* The releases of the log.
Rels == {c.rel : c \in Good}

\* What scanUpdates has looked at is in updateSet, or an earlier commit is.
Scanned ==
    pc = "scan" =>
        \A c \in Good : \/ c \in todo
                        \/ c.rel \in DOMAIN updateSet /\ updateSet[c.rel].time <= c.time

\* The sorted and cut list, in terms of the log alone.
Listed ==
    pc \in {"stamp", "done"} =>
        /\ updates \in Seq(Earliest) /\ updates # <<>>
        /\ Len(updates) = Cardinality(Newest(Rels))
        /\ \A i \in 1..Len(updates) :
              updates[i].rel \in Newest(Rels) /\ Rank(Newest(Rels), updates[i].rel) = i

\* The timestamp is that of the last update of the walk.
Stamped == pc = "done" => stamp = updates[RunLength(updates)].time

\* The walk of the last build, in terms of the log as the bumps since have left
\* it: it ended at c, which has as many releases above it as prev.run says, and
\* it ended there for one of three reasons: c is of the first release, the
\* release before c has another version, or the changelog was cut there.
WalkEndsAt(c) ==
    /\ c.time = prev.stamp /\ c.ver = prev.ver
    /\ \A e \in Earliest : e.rel >= c.rel => e.ver = c.ver
    /\ Rank(Rels, c.rel) = prev.run
    /\ \/ \A r \in Rels : r >= c.rel
       \/ \E d \in Earliest :
             /\ d.rel < c.rel /\ d.ver # c.ver
             /\ \A e \in Earliest : ~(d.rel < e.rel /\ e.rel < c.rel)
       \/ prev.run >= MaxChangelogEntries

LastBuild ==
    /\ prev \in [stamp : Nat, top : Nat, ver : Version \cup {""}, run : Nat]
    /\ bumps /\ Determined => \E c \in Earliest : WalkEndsAt(c)

IndInv ==
    /\ TypeOK
    /\ IsMap(updateSet)
    /\ updates \in Seq(Commit)
    /\ Scanned
    /\ Listed
    /\ Stamped
    /\ LastBuild

-----------------------------------------------------------------------------
\* The commits that parse, and their releases.
LEMMA GoodIs ==
    ASSUME TypeOK
    PROVE  /\ \A c \in Good : /\ c \in Commit /\ c.rel \in Release /\ c.rel \in Nat /\ c.rel \in Rels
                              /\ c.ver \in Version /\ c.time \in 1..MaxTime /\ c.time \in Nat
           /\ Rels \subseteq Release
           /\ Rels \subseteq 1..MaxRelease /\ MaxRelease \in Nat
           /\ Earliest \subseteq Good
           /\ \A r \in DOMAIN updateSet : updateSet[r] \in Good
<1>1. MaxRelease \in Nat /\ MaxTime \in Nat
  BY HistoryAssumption
<1>2. ASSUME NEW c \in Good
      PROVE  /\ c \in Commit /\ c.rel \in Release /\ c.rel \in Nat /\ c.rel \in Rels
             /\ c.ver \in Version /\ c.time \in 1..MaxTime /\ c.time \in Nat
  <2>1. c \in Commit /\ c.ok
    BY DEF Good, TypeOK
  <2>2. c \in [rel : Release, ver : Version, time : Time, ok : {TRUE}]
    <3>1. ~[rel |-> 0, ver |-> "", time |-> 0, ok |-> FALSE].ok
      OBVIOUS
    <3> QED BY <2>1, <3>1, Zenon DEF Commit
  <2> QED BY <1>1, <2>1, <2>2 DEF Release, Time, Rels
<1>3. ASSUME NEW r \in DOMAIN updateSet PROVE updateSet[r] \in Good
  <2>1. updateSet[r] \in log /\ updateSet[r] \in Commit /\ updateSet[r].rel = r /\ r \in Release
    BY DEF TypeOK
  <2>2. r # 0
    BY <1>1, <2>1 DEF Release
  <2>3. updateSet[r].ok
    <3>1. [rel |-> 0, ver |-> "", time |-> 0, ok |-> FALSE].rel = 0
      OBVIOUS
    <3>2. updateSet[r] \in [rel : Release, ver : Version, time : Time, ok : {TRUE}]
      BY <2>1, <2>2, <3>1, Zenon DEF Commit
    <3>3. updateSet[r].ok = TRUE
      BY <3>2
    <3> QED BY <3>3
  <2> QED BY <2>1, <2>3 DEF Good
<1>4. Rels \subseteq Release
  BY <1>2 DEF Rels
<1> QED BY <1>1, <1>2, <1>3, <1>4 DEF Earliest, Release

\* A release that is not cut has the same place before and after the cut.
LEMMA CutKeepsRank ==
    ASSUME NEW D, D \subseteq Release, NEW r \in Newest(D)
    PROVE  Rank(D, r) = Rank(Newest(D), r)
<1>1. {s \in D : s >= r} = {s \in Newest(D) : s >= r}
  BY NewestIs
<1> QED BY <1>1 DEF Rank

\* The changelog goes down in releases and has all that are not cut.
LEMMA ListIs ==
    ASSUME TypeOK, Listed, pc \in {"stamp", "done"}
    PROVE  /\ Len(updates) \in Nat \ {0} /\ DOMAIN updates = 1..Len(updates)
           /\ \A i \in 1..Len(updates) : updates[i] \in Earliest
           /\ \A i, j \in 1..Len(updates) : i < j => updates[i].rel > updates[j].rel
           /\ \A r \in Newest(Rels) : \E i \in 1..Len(updates) : updates[i].rel = r
           /\ \A i \in 1..Len(updates) : Rank(Rels, updates[i].rel) = i
<1> DEFINE T == Newest(Rels)
<1>1. /\ updates \in Seq(Earliest) /\ updates # <<>>
      /\ Len(updates) = Cardinality(T)
      /\ \A i \in 1..Len(updates) : updates[i].rel \in T /\ Rank(T, updates[i].rel) = i
  BY DEF Listed
<1>2. T \subseteq 1..MaxRelease /\ MaxRelease \in Nat
  BY GoodIs, NewestIs
<1>3. /\ Len(updates) \in Nat \ {0} /\ DOMAIN updates = 1..Len(updates)
      /\ \A i \in 1..Len(updates) : updates[i] \in Earliest
  BY <1>1
<1> HIDE DEF T
<1>4. /\ \A r \in T : Rank(T, r) \in 1..Cardinality(T)
      /\ \A r, q \in T : r < q => Rank(T, q) < Rank(T, r)
  BY <1>2, Ranks
<1>5. ASSUME NEW i \in 1..Len(updates), NEW j \in 1..Len(updates), i < j
      PROVE  updates[i].rel > updates[j].rel
  <2> DEFINE r == updates[i].rel
             q == updates[j].rel
  <2>1. r \in T /\ q \in T /\ Rank(T, r) = i /\ Rank(T, q) = j
    BY <1>1
  <2> HIDE DEF r, q
  <2>2. r \in Nat /\ q \in Nat /\ r # q /\ ~(r < q)
    BY <1>2, <1>3, <1>4, <1>5, <2>1
  <2>3. r > q
    BY <2>2
  <2> QED BY <2>3 DEF r, q
<1>6. ASSUME NEW r \in T PROVE \E i \in 1..Len(updates) : updates[i].rel = r
  <2> DEFINE i == Rank(T, r)
             q == updates[i].rel
  <2>1. i \in 1..Len(updates)
    BY <1>1, <1>4
  <2>2. q \in T /\ Rank(T, q) = Rank(T, r) /\ Rank(T, r) \in Nat
    BY <1>1, <2>1
  <2>3. r \in Nat /\ q \in Nat /\ ~(r < q) /\ ~(q < r)
    <3> HIDE DEF i, q
    <3>1. ~(Rank(T, q) < Rank(T, r)) /\ ~(Rank(T, r) < Rank(T, q))
      BY <2>2
    <3> QED BY <1>2, <1>4, <2>2, <3>1
  <2>4. q = r
    <3> HIDE DEF i, q
    <3> QED BY <2>3
  <2> QED BY <2>1, <2>4
<1>7. \A i \in 1..Len(updates) : Rank(Rels, updates[i].rel) = i
  BY <1>1, GoodIs, CutKeepsRank DEF T
<1> QED BY <1>3, <1>5, <1>6, <1>7 DEF T

\* Where the walk of GetLastVersionTimestamp ends, and why it ends there.
LEMMA WalkIs ==
    ASSUME TypeOK, Listed, pc \in {"stamp", "done"}, Determined,
           NEW n, n = RunLength(updates), NEW c, c = updates[n]
    PROVE  /\ n \in 1..Len(updates) /\ Len(updates) \in Nat
           /\ c \in Earliest /\ c.rel \in Newest(Rels) /\ c.ver = updates[1].ver
           /\ \A e \in Earliest : e.rel >= c.rel => e.ver = c.ver
           /\ Rank(Rels, c.rel) = n
           /\ \/ n = Len(updates)
              \/ \E d \in Earliest :
                    /\ d.rel < c.rel /\ d.ver # c.ver
                    /\ \A e \in Earliest : ~(d.rel < e.rel /\ e.rel < c.rel)
<1>1. /\ Len(updates) \in Nat \ {0}
      /\ \A i \in 1..Len(updates) : updates[i] \in Earliest
      /\ \A i, j \in 1..Len(updates) : i < j => updates[i].rel > updates[j].rel
      /\ \A r \in Newest(Rels) : \E i \in 1..Len(updates) : updates[i].rel = r
      /\ \A i \in 1..Len(updates) : Rank(Rels, updates[i].rel) = i
  BY ListIs
<1>2. /\ n \in 1..Len(updates)
      /\ \A k \in 1..n : updates[k].ver = updates[1].ver
      /\ n = Len(updates) \/ updates[n + 1].ver # updates[1].ver
  BY <1>1, RunLengthIs
<1>3. \A i \in 1..Len(updates) : updates[i].rel \in Newest(Rels)
  BY DEF Listed
<1>4. n \in 1..n
  BY <1>1, <1>2
<1>5. c \in Earliest /\ c.rel \in Newest(Rels) /\ c.ver = updates[1].ver /\ Rank(Rels, c.rel) = n
  BY <1>1, <1>2, <1>3, <1>4
<1>6. \A e \in Earliest : e.rel \in Rels /\ e.rel \in Nat /\ e.time \in Nat /\ e \in Good
  BY GoodIs
\* An earliest commit that is no older than the end of the walk is in the list.
<1>7. ASSUME NEW k \in 1..Len(updates), NEW e \in Earliest, e.rel >= updates[k].rel
      PROVE  \E i \in 1..Len(updates) : i <= k /\ updates[i].rel = e.rel /\ updates[i].ver = e.ver
  <2>1. e.rel \in Newest(Rels)
    BY <1>3, <1>6, <1>7, GoodIs, NewestIs
  <2>2. PICK i \in 1..Len(updates) : updates[i].rel = e.rel
    BY <1>1, <2>1
  <2>3. updates[i] \in Earliest /\ updates[k] \in Earliest
    BY <1>1
  <2>4. ~(k < i)
    <3> SUFFICES ASSUME k < i PROVE FALSE
      OBVIOUS
    <3>1. updates[k].rel > updates[i].rel
      BY <1>1
    <3> QED BY <1>6, <1>7, <2>2, <2>3, <3>1
  <2>5. updates[i].time <= e.time /\ e.time <= updates[i].time
    BY <1>6, <2>2, <2>3 DEF Earliest
  <2>6. updates[i].time = e.time
    BY <1>6, <2>3, <2>5
  <2>7. updates[i].ver = e.ver
    BY <1>6, <2>2, <2>3, <2>6 DEF Determined
  <2> QED BY <1>1, <2>2, <2>4, <2>7
<1>8. ASSUME NEW e \in Earliest, e.rel >= c.rel PROVE e.ver = c.ver
  <2>1. PICK i \in 1..Len(updates) : i <= n /\ updates[i].ver = e.ver
    BY <1>2, <1>7, <1>8
  <2>2. i \in 1..n
    BY <1>1, <1>2, <2>1
  <2> QED BY <1>2, <1>5, <2>1, <2>2
<1>9. ASSUME n # Len(updates)
      PROVE  \E d \in Earliest :
                /\ d.rel < c.rel /\ d.ver # c.ver
                /\ \A e \in Earliest : ~(d.rel < e.rel /\ e.rel < c.rel)
  <2> DEFINE d == updates[n + 1]
  <2>1. n + 1 \in 1..Len(updates) /\ n < n + 1
    BY <1>1, <1>2, <1>9
  <2>2. d \in Earliest /\ c.rel > d.rel /\ d.ver # c.ver
    BY <1>1, <1>2, <1>5, <1>9, <2>1
  <2>3. d.rel < c.rel
    BY <1>5, <1>6, <2>2
  <2>4. ASSUME NEW e \in Earliest, d.rel < e.rel, e.rel < c.rel PROVE FALSE
    <3>1. e.rel >= d.rel
      BY <1>6, <2>2, <2>4
    <3>2. PICK i \in 1..Len(updates) : i <= n + 1 /\ updates[i].rel = e.rel
      BY <1>7, <2>1, <3>1
    <3>3. i # n + 1
      BY <1>6, <2>2, <2>4, <3>2
    <3>4. i = n \/ i < n
      BY <1>1, <1>2, <3>2, <3>3
    <3>5. e.rel = c.rel \/ e.rel > c.rel
      BY <1>1, <1>2, <3>2, <3>4
    <3> QED BY <1>5, <1>6, <2>4, <3>5
  <2> QED BY <2>2, <2>3, <2>4
<1> QED BY <1>1, <1>2, <1>5, <1>8, <1>9
-----------------------------------------------------------------------------
(***************************************************************************)
(* Every step keeps it                                                     *)
(***************************************************************************)

\* One round of the scan: the release of the commit has one that is no later,
\* and no other release is given up or made later.
LEMMA KeptIs ==
    ASSUME TypeOK, IsMap(updateSet),
           NEW c \in Good, NEW u, u = Kept(c)
    PROVE  /\ IsMap(u)
           /\ DOMAIN u = DOMAIN updateSet \cup {c.rel} /\ DOMAIN u \subseteq Release
           /\ \A r \in DOMAIN u : u[r] \in Good /\ u[r] \in log /\ u[r].rel = r
           /\ u[c.rel].time <= c.time
           /\ \A r \in DOMAIN updateSet : u[r].time <= updateSet[r].time
<1>1. c \in log /\ c.rel \in Release /\ c.time \in Nat
  BY GoodIs DEF Good
<1>2. /\ DOMAIN updateSet \subseteq Release
      /\ \A r \in DOMAIN updateSet : /\ updateSet[r] \in Good /\ updateSet[r] \in log
                                     /\ updateSet[r].rel = r
                                     /\ updateSet[r].time \in Nat
  BY GoodIs DEF TypeOK
<1>3. CASE c.rel \in DOMAIN updateSet /\ updateSet[c.rel].time < c.time
  <2>1. u = updateSet /\ DOMAIN u = DOMAIN updateSet \cup {c.rel}
    BY <1>3 DEF Kept
  <2>2. u[c.rel].time <= c.time
    BY <1>1, <1>2, <1>3, <2>1
  <2> QED BY <1>2, <2>1, <2>2
<1>4. CASE ~(c.rel \in DOMAIN updateSet /\ updateSet[c.rel].time < c.time)
  <2>1. u = [r \in DOMAIN updateSet \cup {c.rel} |-> IF r = c.rel THEN c ELSE updateSet[r]]
    BY <1>4 DEF Kept
  <2>2. /\ DOMAIN u = DOMAIN updateSet \cup {c.rel}
        /\ u[c.rel] = c
        /\ \A r \in DOMAIN updateSet : r # c.rel => u[r] = updateSet[r]
    BY <2>1
  <2>3. IsMap(u)
    BY <2>1 DEF IsMap
  <2>4. c.time <= c.time
    BY <1>1
  <2>5. ASSUME NEW r \in DOMAIN updateSet PROVE u[r].time <= updateSet[r].time
    <3>1. CASE r = c.rel
      BY <1>1, <1>2, <1>4, <2>2, <3>1
    <3>2. CASE r # c.rel
      BY <1>2, <2>2, <3>2
    <3> QED BY <3>1, <3>2
  <2>6. \A r \in DOMAIN u : u[r] \in Good /\ u[r] \in log /\ u[r].rel = r
    BY <1>1, <1>2, <2>2
  <2> QED BY <1>1, <1>2, <2>2, <2>3, <2>4, <2>5, <2>6
<1> QED BY <1>3, <1>4

\* When the scan is over, updateSet has the releases of the log, each with an
\* earliest commit.
LEMMA ScanIs ==
    ASSUME TypeOK, Scanned, pc = "scan", todo = {}
    PROVE  /\ DOMAIN updateSet = Rels
           /\ \A r \in Rels : updateSet[r] \in Earliest /\ updateSet[r].rel = r
<1>1. \A c \in Good : c.rel \in DOMAIN updateSet /\ updateSet[c.rel].time <= c.time
  BY DEF Scanned
<1>2. \A r \in DOMAIN updateSet : updateSet[r] \in Good /\ updateSet[r].rel = r
  BY GoodIs DEF TypeOK
<1>3. DOMAIN updateSet = Rels
  <2>1. DOMAIN updateSet \subseteq Rels
    BY <1>2, GoodIs
  <2>2. Rels \subseteq DOMAIN updateSet
    BY <1>1 DEF Rels
  <2> QED BY <2>1, <2>2
<1>4. ASSUME NEW r \in Rels PROVE updateSet[r] \in Earliest
  BY <1>1, <1>2, <1>3 DEF Earliest
<1> QED BY <1>2, <1>3, <1>4

\* ListUpdates sorts and cuts.
LEMMA ListUpdatesLists ==
    ASSUME TypeOK, Scanned, ListUpdates,
           IsMap(updateSet)
    PROVE  /\ updates' \in Seq(Commit) /\ Len(updates') <= MaxChangelogEntries
           /\ Listed'
<1> DEFINE T == Newest(Rels)
           pick(i) == CHOOSE r \in T : Rank(T, r) = i
<1>1. pc = "scan" /\ todo = {}
  BY DEF ListUpdates
<1>2. /\ DOMAIN updateSet = Rels
      /\ \A r \in Rels : updateSet[r] \in Earliest /\ updateSet[r].rel = r
  BY <1>1, ScanIs
<1>3. /\ T \subseteq Rels /\ T \subseteq 1..MaxRelease /\ MaxRelease \in Nat
      /\ Cardinality(T) \in Nat /\ Cardinality(T) <= MaxChangelogEntries
      /\ Rels # {} => T # {}
  BY GoodIs, NewestIs
<1>4. updates' = [i \in 1..Cardinality(T) |-> updateSet[pick(i)]]
  BY <1>2 DEF ListUpdates, Rank
<1> HIDE DEF T
<1>5. \A i \in 1..Cardinality(T) : \E r \in T : Rank(T, r) = i
  BY <1>3, Ranks
<1>6. \A i \in 1..Cardinality(T) : pick(i) \in T /\ Rank(T, pick(i)) = i
  BY <1>5
<1> HIDE DEF pick
<1>7. \A i \in 1..Cardinality(T) :
          /\ updates'[i] \in Earliest /\ updates'[i].rel \in T
          /\ Rank(T, updates'[i].rel) = i
  BY <1>2, <1>3, <1>4, <1>6
<1>8. updates' \in Seq(Earliest) /\ Len(updates') = Cardinality(T)
  BY <1>3, <1>4, <1>7
<1>9. Earliest \subseteq Commit
  BY GoodIs
<1>10. updates' \in Seq(Commit)
  BY <1>8, <1>9
<1>11. Earliest' = Earliest /\ Rels' = Rels
  BY DEF ListUpdates, Earliest, Rels, Good
<1>12. ASSUME pc' = "stamp" PROVE updates' # <<>>
  <2>1. updateSet # <<>>
    BY <1>12 DEF ListUpdates
  <2>2. DOMAIN updateSet # {}
    BY <2>1 DEF IsMap
  <2>3. T # {} /\ IsFiniteSet(T)
    BY <1>2, <1>3, <2>2, Ranks
  <2>4. Len(updates') # 0
    BY <1>8, <2>3, FS_EmptySet
  <2> QED BY <2>4
<1>13. pc' \in {"failed", "stamp"}
  BY DEF ListUpdates
<1>14. Listed'
  BY <1>7, <1>8, <1>11, <1>12, <1>13 DEF Listed, T
<1> QED BY <1>3, <1>8, <1>10, <1>14

\* IndInv holds at the start.
LEMMA InitIndInv == Init => IndInv
<1> SUFFICES ASSUME Init PROVE IndInv
  OBVIOUS
<1> USE DEF Init
<1>1. MaxTime \in Nat /\ MaxChangelogEntries \in Nat
  BY HistoryAssumption
<1>2. /\ DOMAIN updateSet = {} /\ IsMap(updateSet)
      /\ updates \in Seq(Commit) /\ Len(updates) = 0
  BY DEF IsMap
<1>3. TypeOK
  <2>1. bumps \in BOOLEAN
    OBVIOUS
  <2> QED BY <1>1, <1>2, <2>1 DEF TypeOK
<1>4. NoBuild \in [stamp : Nat, top : Nat, ver : Version \cup {""}, run : Nat]
  BY DEF NoBuild
<1>5. LastBuild
  BY <1>4 DEF LastBuild
<1> QED BY <1>2, <1>3, <1>5 DEF IndInv, Scanned, Listed, Stamped

\* The types.
LEMMA TypeStep ==
    ASSUME IndInv, [Next]_vars
    PROVE  /\ TypeOK' /\ updates' \in Seq(Commit)
           /\ IsMap(updateSet')
<1> USE DEF IndInv
<1>1. MaxTime \in Nat /\ MaxChangelogEntries \in Nat
  BY HistoryAssumption
<1>2. DOMAIN <<>> = {} /\ IsMap(<<>>)
      /\ <<>> \in Seq(Commit) /\ Len(<<>>) = 0
  BY DEF IsMap
<1>3. ASSUME NEW c \in Commit, MakeCommit(c)
      PROVE  /\ TypeOK' /\ updates' \in Seq(Commit)
             /\ IsMap(updateSet')
  <2>1. bumps' \in BOOLEAN
    BY <1>3 DEF MakeCommit
  <2>2. log' = log \cup {c} /\ UNCHANGED <<pc, todo, updateSet, updates, stamp>>
    BY <1>3 DEF MakeCommit
  <2> QED BY <2>1, <2>2 DEF TypeOK
<1>4. ASSUME NEW c \in todo, ScanUpdate(c)
      PROVE  /\ TypeOK' /\ updates' \in Seq(Commit)
             /\ IsMap(updateSet')
  <2>1. todo' = todo \ {c} /\ UNCHANGED <<log, pc, updates, stamp, bumps>>
    BY <1>4 DEF ScanUpdate
  <2>2. /\ IsMap(updateSet')
        /\ DOMAIN updateSet' \subseteq Release
        /\ \A r \in DOMAIN updateSet' : updateSet'[r] \in log /\ updateSet'[r].rel = r
    <3>1. CASE c.ok
      <4>1. c \in Good /\ updateSet' = Kept(c)
        BY <1>4, <3>1 DEF ScanUpdate, TypeOK, Good
      <4> QED BY <4>1, KeptIs
    <3>2. CASE ~c.ok
      <4>1. updateSet' = updateSet
        BY <1>4, <3>2 DEF ScanUpdate
      <4> QED BY <4>1 DEF TypeOK
    <3> QED BY <3>1, <3>2
  <2>3. bumps' \in BOOLEAN
    BY <2>1 DEF TypeOK
  <2> QED BY <2>1, <2>2, <2>3 DEF TypeOK
<1>5. CASE NewPackageHistory
  <2>1. bumps' \in BOOLEAN
    BY <1>5 DEF NewPackageHistory, TypeOK
  <2> QED BY <1>2, <1>5, <2>1 DEF NewPackageHistory, TypeOK
<1>6. CASE ListUpdates
  <2>1. updates' \in Seq(Commit) /\ Len(updates') <= MaxChangelogEntries
    BY <1>6, ListUpdatesLists
  <2>2. bumps' \in BOOLEAN
    BY <1>6 DEF ListUpdates, TypeOK
  <2>3. pc' \in {"failed", "stamp"} /\ UNCHANGED <<log, todo, updateSet, stamp>>
    BY <1>6 DEF ListUpdates
  <2> QED BY <2>1, <2>2, <2>3 DEF TypeOK
<1>7. CASE GetLastVersionTimestamp
  <2>1. pc = "stamp" /\ pc' = "done" /\ stamp' = updates[RunLength(updates)].time
        /\ UNCHANGED <<log, todo, updateSet, updates, bumps>>
    BY <1>7 DEF GetLastVersionTimestamp
  <2>2. /\ Len(updates) \in Nat \ {0}
        /\ \A i \in 1..Len(updates) : updates[i] \in Earliest
    BY <2>1, ListIs
  <2>3. updates[RunLength(updates)] \in Good
    BY <2>2, RunLengthIs, GoodIs
  <2>4. stamp' \in 0..MaxTime
    BY <1>1, <2>1, <2>3, GoodIs
  <2>5. bumps' \in BOOLEAN
    BY <2>1 DEF TypeOK
  <2> QED BY <2>1, <2>4, <2>5 DEF TypeOK
<1>8. CASE BuildEnds
  <2>1. bumps' \in BOOLEAN
    BY <1>8 DEF BuildEnds
  <2> QED BY <1>1, <1>2, <1>8, <2>1 DEF BuildEnds, TypeOK
<1>9. CASE UNCHANGED vars
  BY <1>9 DEF vars, TypeOK
<1> QED BY <1>3, <1>4, <1>5, <1>6, <1>7, <1>8, <1>9 DEF Next

\* The scan, the list and the timestamp.
LEMMA BuildStep ==
    ASSUME IndInv, [Next]_vars
    PROVE  Scanned' /\ Listed' /\ Stamped'
<1> USE DEF IndInv
<1>1. CASE \E c \in Commit : MakeCommit(c)
  BY <1>1 DEF MakeCommit, Scanned, Listed, Stamped
<1>2. ASSUME NEW c \in todo, ScanUpdate(c) PROVE Scanned' /\ Listed' /\ Stamped'
  <2>1. pc = "scan" /\ pc' = "scan" /\ todo' = todo \ {c} /\ log' = log
    BY <1>2 DEF ScanUpdate
  <2>2. Good' = Good
    BY <2>1 DEF Good
  <2>3. ASSUME NEW d \in Good
        PROVE  \/ d \in todo'
               \/ d.rel \in DOMAIN updateSet' /\ updateSet'[d.rel].time <= d.time
    <3>1. CASE ~c.ok
      <4>1. updateSet' = updateSet /\ d # c
        BY <1>2, <3>1 DEF ScanUpdate, Good
      <4> QED BY <2>1, <4>1 DEF Scanned
    <3>2. CASE c.ok
      <4>1. c \in Good /\ updateSet' = Kept(c)
        BY <1>2, <3>2 DEF ScanUpdate, TypeOK, Good
      <4>2. /\ DOMAIN updateSet' = DOMAIN updateSet \cup {c.rel}
            /\ \A r \in DOMAIN updateSet' : updateSet'[r] \in Good
            /\ updateSet'[c.rel].time <= c.time
            /\ \A r \in DOMAIN updateSet : updateSet'[r].time <= updateSet[r].time
        BY <4>1, KeptIs
      <4>3. CASE d = c
        BY <4>2, <4>3
      <4>4. CASE d # c /\ d \notin todo
        <5>1. d.rel \in DOMAIN updateSet /\ updateSet[d.rel].time <= d.time
          BY <2>1, <4>4 DEF Scanned
        <5>2. updateSet'[d.rel].time <= updateSet[d.rel].time
          BY <4>2, <5>1
        <5>3. updateSet[d.rel].time \in Nat /\ d.time \in Nat
          BY <5>1, GoodIs
        <5>4. updateSet'[d.rel].time \in Nat
          BY <4>2, <5>1, GoodIs
        <5> QED BY <4>2, <5>1, <5>2, <5>3, <5>4
      <4> QED BY <2>1, <4>3, <4>4
    <3> QED BY <3>1, <3>2
  <2> QED BY <2>1, <2>2, <2>3 DEF Scanned, Listed, Stamped
<1>3. CASE NewPackageHistory
  BY <1>3 DEF NewPackageHistory, Scanned, Listed, Stamped, Good
<1>4. CASE ListUpdates
  <2>1. Listed'
    BY <1>4, ListUpdatesLists
  <2> QED BY <1>4, <2>1 DEF ListUpdates, Scanned, Stamped
<1>5. CASE GetLastVersionTimestamp
  <2>1. pc = "stamp" /\ pc' = "done" /\ log' = log /\ updates' = updates
        /\ stamp' = updates[RunLength(updates)].time
    BY <1>5 DEF GetLastVersionTimestamp
  <2>2. Earliest' = Earliest /\ Rels' = Rels
    BY <2>1 DEF Earliest, Rels, Good
  <2>3. Listed'
    BY <2>1, <2>2 DEF Listed
  <2> QED BY <2>1, <2>3 DEF Scanned, Stamped
<1>6. CASE BuildEnds
  BY <1>6 DEF BuildEnds, Scanned, Listed, Stamped
<1>7. CASE UNCHANGED vars
  <2>1. UNCHANGED <<Good, Earliest, Rels, pc, todo, updateSet, updates, stamp>>
    BY <1>7 DEF vars, Good, Earliest, Rels
  <2> QED BY <2>1 DEF Scanned, Listed, Stamped
<1> QED BY <1>1, <1>2, <1>3, <1>4, <1>5, <1>6, <1>7 DEF Next

\* A commit that is a bump moves the end of the walk one release further from
\* the newest; after any other, nothing is promised until the next build.
LEMMA CommitKeepsLastBuild ==
    ASSUME TypeOK, LastBuild, NEW c \in Commit, MakeCommit(c)
    PROVE  LastBuild'
<1> DEFINE bump == c.ok /\ c.rel > prev.top /\ c.ver = prev.ver /\ \A d \in log : d.rel < c.rel
<1>1. /\ bumps' = (bumps /\ bump) /\ log' = log \cup {c}
      /\ prev' = IF bump THEN [prev EXCEPT !.run = @ + 1] ELSE prev
  BY DEF MakeCommit
<1>2. prev \in [stamp : Nat, top : Nat, ver : Version \cup {""}, run : Nat]
  BY DEF LastBuild
<1>3. prev' \in [stamp : Nat, top : Nat, ver : Version \cup {""}, run : Nat]
  <2>1. [prev EXCEPT !.run = @ + 1] \in [stamp : Nat, top : Nat, ver : Version \cup {""}, run : Nat]
    <3>1. prev.run \in Nat
      BY <1>2
    <3>2. prev.run + 1 \in Nat
      BY <3>1
    <3> QED BY <1>2, <3>2
  <2> HIDE DEF bump
  <2> QED BY <1>1, <1>2, <2>1, Zenon
<1>4. ASSUME bumps', Determined' PROVE (\E e \in Earliest : WalkEndsAt(e))'
  <2>1. bumps /\ bump
    BY <1>1, <1>4
  <2>2. prev'.stamp = prev.stamp /\ prev'.ver = prev.ver /\ prev'.run = prev.run + 1
        /\ prev.run \in Nat
    <3> HIDE DEF bump
    <3> QED BY <1>1, <1>2, <2>1
  <2>3. Good' = Good \cup {c} /\ Rels' = Rels \cup {c.rel}
    BY <1>1, <2>1 DEF Good, Rels
  <2>4. /\ \A g \in Good : g.rel < c.rel /\ g.rel \in Nat /\ g.rel \in Rels /\ g.rel # c.rel
                          /\ g.time \in Nat
        /\ c.rel \in Nat /\ c.time \in Nat
    <3>1. \A g \in Good : g.rel < c.rel /\ g.rel \in Nat /\ g.rel \in Rels /\ g.time \in Nat
      BY <2>1, GoodIs DEF Good
    <3>2. c.rel \in Nat /\ c.time \in Nat
      <4>1. ~[rel |-> 0, ver |-> "", time |-> 0, ok |-> FALSE].ok
        OBVIOUS
      <4>2. c \in [rel : Release, ver : Version, time : Time, ok : {TRUE}]
        BY <2>1, <4>1, Zenon DEF Commit
      <4>3. MaxRelease \in Nat /\ MaxTime \in Nat
        BY HistoryAssumption
      <4> QED BY <4>2, <4>3 DEF Release, Time
    <3> QED BY <3>1, <3>2
  <2>5. Earliest' = Earliest \cup {c}
    <3>1. Earliest' = {g \in Good \cup {c} : \A d \in Good \cup {c} : d.rel = g.rel => g.time <= d.time}
      BY <2>3 DEF Earliest
    <3>2. ASSUME NEW g \in Good
          PROVE  g \in Earliest' <=> g \in Earliest
      BY <2>4, <3>1 DEF Earliest
    <3>3. c \in Earliest'
      BY <2>4, <3>1
    <3>4. Earliest \subseteq Good /\ Earliest' \subseteq Good \cup {c}
      BY <3>1 DEF Earliest
    <3> QED BY <3>2, <3>3, <3>4
  <2>6. Determined
    BY <1>4, <2>3 DEF Determined
  <2>7. PICK e \in Earliest : WalkEndsAt(e)
    BY <2>1, <2>6 DEF LastBuild
  <2>8. e \in Good /\ e.rel < c.rel /\ e.rel \in Nat
    BY <2>4 DEF Earliest
  <2>9. Rank(Rels \cup {c.rel}, e.rel) = prev.run + 1
    <3> DEFINE U == {s \in Rels : s >= e.rel}
    <3>1. {s \in Rels \cup {c.rel} : s >= e.rel} = U \cup {c.rel}
      BY <2>4, <2>8
    <3>2. c.rel \notin U
      BY <2>4 DEF Rels
    <3>3. IsFiniteSet(U)
      <4>1. IsFiniteSet(Rels)
        BY GoodIs, Ranks
      <4>2. U \in SUBSET Rels
        OBVIOUS
      <4> QED BY <4>1, <4>2, FS_Subset
    <3>4. Cardinality(U) = prev.run
      BY <2>7 DEF WalkEndsAt, Rank
    <3> HIDE DEF U
    <3>5. Cardinality(U \cup {c.rel}) = prev.run + 1
      BY <3>2, <3>3, <3>4, FS_AddElement
    <3> QED BY <3>1, <3>5 DEF Rank
  <2>10. \/ \A r \in Rels' : r >= e.rel
         \/ \E d \in Earliest' :
               /\ d.rel < e.rel /\ d.ver # e.ver
               /\ \A f \in Earliest' : ~(d.rel < f.rel /\ f.rel < e.rel)
         \/ prev'.run >= MaxChangelogEntries
    <3>1. CASE \A r \in Rels : r >= e.rel
      BY <2>3, <2>4, <2>8, <3>1
    <3>2. ASSUME NEW d \in Earliest, d.rel < e.rel, d.ver # e.ver,
                 \A f \in Earliest : ~(d.rel < f.rel /\ f.rel < e.rel)
          PROVE  \A f \in Earliest' : ~(d.rel < f.rel /\ f.rel < e.rel)
      BY <2>4, <2>5, <2>8, <3>2
    <3>3. CASE prev.run >= MaxChangelogEntries
      BY <2>2, <3>3, HistoryAssumption
    <3> QED BY <2>5, <2>7, <3>1, <3>2, <3>3 DEF WalkEndsAt
  <2>11. /\ e.time = prev'.stamp /\ e.ver = prev'.ver
         /\ \A f \in Earliest' : f.rel >= e.rel => f.ver = e.ver
    BY <2>1, <2>2, <2>5, <2>7 DEF WalkEndsAt
  <2>12. WalkEndsAt(e)'
    BY <2>2, <2>3, <2>9, <2>10, <2>11 DEF WalkEndsAt
  <2> QED BY <2>5, <2>12
<1> QED BY <1>3, <1>4 DEF LastBuild

\* What a step must leave alone for the record of the last build to stay true.
LEMMA LastBuildStays ==
    ASSUME LastBuild, UNCHANGED <<log, prev, bumps>>
    PROVE  LastBuild'
<1>1. Good' = Good
  BY DEF Good
<1>2. Earliest' = Earliest /\ Rels' = Rels /\ Determined' = Determined
  BY <1>1 DEF Earliest, Rels, Determined
<1>3. \A c : WalkEndsAt(c)' = WalkEndsAt(c)
  BY <1>2 DEF WalkEndsAt
<1> QED BY <1>2, <1>3 DEF LastBuild

\* The end of a build records where its walk ended.
LEMMA BuildEndsRecords ==
    ASSUME IndInv, BuildEnds
    PROVE  LastBuild'
<1> USE DEF IndInv
<1>1. CASE pc = "failed"
  <2>1. prev' = prev /\ bumps' = bumps /\ log' = log
    BY <1>1 DEF BuildEnds, TypeOK
  <2> QED BY <2>1, LastBuildStays
<1>2. CASE pc = "done"
  <2> DEFINE n == RunLength(updates)
  <2>1. prev' = [stamp |-> stamp, top |-> updates[1].rel, ver |-> updates[1].ver, run |-> n]
    BY <1>2 DEF BuildEnds
  <2>2. /\ Len(updates) \in Nat \ {0}
        /\ \A i \in 1..Len(updates) : updates[i] \in Earliest
    BY <1>2, ListIs
  <2>3. n \in 1..Len(updates)
    BY <2>2, RunLengthIs
  <2>4. updates[1] \in Good
    BY <2>2, GoodIs
  <2>5. stamp \in Nat
    BY HistoryAssumption DEF TypeOK
  <2>6. updates[1].rel \in Nat /\ updates[1].ver \in Version
    BY <2>4, GoodIs
  <2> HIDE DEF n
  <2>7. prev' \in [stamp : Nat, top : Nat, ver : Version \cup {""}, run : Nat]
    <3>1. n \in Nat
      BY <2>2, <2>3
    <3>2. [stamp |-> stamp, top |-> updates[1].rel, ver |-> updates[1].ver, run |-> n]
              \in [stamp : Nat, top : Nat, ver : Version \cup {""}, run : Nat]
      BY <2>5, <2>6, <3>1
    <3> QED BY <2>1, <3>2, Zenon
  <2>8. Earliest' = Earliest /\ Rels' = Rels /\ Determined' = Determined
    BY DEF BuildEnds, Earliest, Rels, Good, Determined
  <2>9. ASSUME Determined, NEW c, c = updates[n]
        PROVE  c \in Earliest /\ WalkEndsAt(c)'
    <3>1. n = RunLength(updates) /\ c = updates[n]
      BY <2>9 DEF n
    <3>2. /\ n \in 1..Len(updates) /\ Len(updates) \in Nat
          /\ c \in Earliest /\ c.rel \in Newest(Rels) /\ c.ver = updates[1].ver
          /\ \A e \in Earliest : e.rel >= c.rel => e.ver = c.ver
          /\ Rank(Rels, c.rel) = n
          /\ \/ n = Len(updates)
             \/ \E d \in Earliest :
                   /\ d.rel < c.rel /\ d.ver # c.ver
                   /\ \A e \in Earliest : ~(d.rel < e.rel /\ e.rel < c.rel)
      BY <1>2, <2>9, <3>1, WalkIs
    <3>3. c.time = stamp
      BY <1>2, <3>1 DEF Stamped
    <3>4. prev'.stamp = stamp /\ prev'.ver = updates[1].ver /\ prev'.run = n
      BY <2>1
    <3>5. ASSUME n = Len(updates), NEW r \in Rels, ~(r >= c.rel)
          PROVE  n >= MaxChangelogEntries
      <4>1. r \in Nat /\ c.rel \in Nat /\ r < c.rel
        <5>1. r \in Nat /\ c.rel \in Nat
          BY <3>2, GoodIs, HistoryAssumption DEF Release
        <5> QED BY <3>5, <5>1
      <4>2. r \notin Newest(Rels)
        <5> SUFFICES ASSUME r \in Newest(Rels) PROVE FALSE
          OBVIOUS
        <5>1. PICK i \in 1..Len(updates) : updates[i].rel = r
          BY <1>2, ListIs
        <5>2. i = n \/ i < n
          BY <2>2, <2>3, <3>5, <5>1
        <5>3. i < n => updates[i].rel > c.rel
          BY <1>2, <2>3, <3>1, ListIs
        <5> QED BY <3>1, <4>1, <5>1, <5>2, <5>3
      <4>3. Cardinality(Newest(Rels)) = MaxChangelogEntries
        BY <4>2, GoodIs, NewestIs
      <4>4. n = MaxChangelogEntries
        BY <1>2, <3>5, <4>3 DEF Listed
      <4> QED BY <4>4, HistoryAssumption
    <3>6. \/ \A r \in Rels : r >= c.rel
          \/ \E d \in Earliest :
                /\ d.rel < c.rel /\ d.ver # c.ver
                /\ \A e \in Earliest : ~(d.rel < e.rel /\ e.rel < c.rel)
          \/ n >= MaxChangelogEntries
      BY <3>2, <3>5
    <3>7. WalkEndsAt(c)'
      BY <2>8, <3>2, <3>3, <3>4, <3>6 DEF WalkEndsAt
    <3> QED BY <3>2, <3>7
  <2>10. PICK c : c = updates[n]
    OBVIOUS
  <2>11. Determined => c \in Earliest /\ WalkEndsAt(c)'
    BY <2>9, <2>10
  <2> QED BY <2>7, <2>8, <2>11 DEF LastBuild
<1> QED BY <1>1, <1>2 DEF BuildEnds

\* IndInv is an invariant.
LEMMA IndInvHolds == Spec => []IndInv
<1>1. Init => IndInv
  BY InitIndInv
<1>2. IndInv /\ [Next]_vars => IndInv'
  <2> SUFFICES ASSUME IndInv, [Next]_vars PROVE IndInv'
    OBVIOUS
  <2>1. LastBuild'
    <3>1. TypeOK /\ LastBuild
      BY DEF IndInv
    <3>2. ASSUME NEW c \in Commit, MakeCommit(c) PROVE LastBuild'
      BY <3>1, <3>2, CommitKeepsLastBuild
    <3>3. CASE BuildEnds
      BY <3>3, BuildEndsRecords
    <3>4. CASE (\E c \in todo : ScanUpdate(c)) \/ NewPackageHistory \/ ListUpdates
               \/ GetLastVersionTimestamp \/ UNCHANGED vars
      <4>1. UNCHANGED <<log, prev, bumps>>
        BY <3>4 DEF ScanUpdate, NewPackageHistory, ListUpdates, GetLastVersionTimestamp, vars
      <4> QED BY <3>1, <4>1, LastBuildStays
    <3> QED BY <3>2, <3>3, <3>4 DEF Next
  <2> QED BY <2>1, TypeStep, BuildStep DEF IndInv
<1> QED BY <1>1, <1>2, PTL DEF Spec

-----------------------------------------------------------------------------
(***************************************************************************)
(* What the history promises                                               *)
(***************************************************************************)

\* The types of the history, among them the limit of the changelog and that of
\* the releases: for any log, any order of the scan and any limit.
THEOREM TypeCorrect == Spec => []TypeOK
<1>1. IndInv => TypeOK
  BY DEF IndInv
<1> QED BY <1>1, IndInvHolds, PTL

\* Whatever order the map gives its commits in, scanUpdates and the sort and cut
\* of NewPackageHistory show the newest releases of the log, in order, all of
\* them up to MaxChangelogEntries, each with its earliest commit.
THEOREM ChangelogRight == Spec => []ChangelogIsRight
<1>1. IndInv => ChangelogIsRight
  <2> SUFFICES ASSUME IndInv, pc = "stamp" PROVE ChangelogIsRight
    BY DEF ChangelogIsRight
  <2> DEFINE shown == {updates[i].rel : i \in DOMAIN updates}
  <2>1. TypeOK /\ Listed
    BY DEF IndInv
  <2>2. /\ DOMAIN updates = 1..Len(updates)
        /\ \A i \in 1..Len(updates) : updates[i] \in Earliest
        /\ \A i, j \in 1..Len(updates) : i < j => updates[i].rel > updates[j].rel
        /\ \A r \in Newest(Rels) : \E i \in 1..Len(updates) : updates[i].rel = r
    BY <2>1, ListIs
  <2>3. \A i \in DOMAIN updates : \A c \in Good :
            c.rel = updates[i].rel => updates[i].time <= c.time
    BY <2>2 DEF Earliest
  <2>4. shown = Newest(Rels)
    <3>1. \A i \in DOMAIN updates : updates[i].rel \in Newest(Rels)
      BY <2>1, <2>2 DEF Listed
    <3> QED BY <2>2, <3>1
  <2>5. ASSUME NEW c \in Good, c.rel \notin shown
        PROVE  Len(updates) = MaxChangelogEntries /\ \A r \in shown : r > c.rel
    <3>1. c.rel \in Rels /\ c.rel \notin Newest(Rels)
      BY <2>1, <2>4, <2>5, GoodIs
    <3>2. Len(updates) = MaxChangelogEntries
      BY <2>1, <3>1, GoodIs, NewestIs DEF Listed
    <3>3. ASSUME NEW r \in Newest(Rels) PROVE r > c.rel
      <4>1. r \in Nat /\ c.rel \in Nat
        BY <2>1, <3>1, GoodIs, NewestIs
      <4>2. ~(c.rel >= r)
        BY <2>1, <3>1, GoodIs, NewestIs
      <4> QED BY <4>1, <4>2
    <3> QED BY <2>4, <3>2, <3>3
  <2> QED BY <2>2, <2>3, <2>5 DEF ChangelogIsRight
<1> QED BY <1>1, IndInvHolds, PTL

\* The timestamp of a reproducible build is that of the release from which on
\* all have the newest version, in terms of the log alone, for any log that
\* leaves no version open.
THEOREM TimestampRight == Spec => []TimestampIsVersionChange
<1>1. IndInv => TimestampIsVersionChange
  <2> SUFFICES ASSUME IndInv, pc = "done", Determined PROVE TimestampIsVersionChange
    BY DEF TimestampIsVersionChange
  <2>1. PICK n, c : n = RunLength(updates) /\ c = updates[n]
    OBVIOUS
  <2>2. /\ c \in Earliest
        /\ \A e \in Earliest : e.rel >= c.rel => e.ver = c.ver
        /\ \/ n = Len(updates)
           \/ \E d \in Earliest :
                 /\ d.rel < c.rel /\ d.ver # c.ver
                 /\ \A e \in Earliest : ~(d.rel < e.rel /\ e.rel < c.rel)
    BY <2>1, WalkIs DEF IndInv
  <2>3. c.time = stamp
    BY <2>1 DEF IndInv, Stamped
  <2> QED BY <2>1, <2>2, <2>3 DEF TimestampIsVersionChange
<1> QED BY <1>1, IndInvHolds, PTL

\* Bumps between two builds leave the timestamp alone, however many there are,
\* as long as the changelog still reaches the version change.
THEOREM BumpsKeep == Spec => []BumpsKeepTimestamp
<1>1. IndInv => BumpsKeepTimestamp
  <2> SUFFICES ASSUME IndInv, pc = "done", bumps, Determined, prev.run <= MaxChangelogEntries
               PROVE  stamp = prev.stamp
    BY DEF BumpsKeepTimestamp
  <2>1. TypeOK /\ Listed /\ LastBuild
    BY DEF IndInv
  <2>2. PICK n, c : n = RunLength(updates) /\ c = updates[n]
    OBVIOUS
  <2>3. /\ n \in 1..Len(updates) /\ Len(updates) \in Nat
        /\ c \in Earliest /\ c.rel \in Newest(Rels)
        /\ \A e \in Earliest : e.rel >= c.rel => e.ver = c.ver
        /\ \/ n = Len(updates)
           \/ \E d \in Earliest :
                 /\ d.rel < c.rel /\ d.ver # c.ver
                 /\ \A e \in Earliest : ~(d.rel < e.rel /\ e.rel < c.rel)
    BY <2>1, <2>2, WalkIs
  <2>4. c.time = stamp
    BY <2>2 DEF IndInv, Stamped
  <2>5. PICK b \in Earliest : WalkEndsAt(b)
    BY <2>1 DEF LastBuild
  <2>6. \A e \in Earliest : e \in Good /\ e.rel \in Nat /\ e.rel \in Rels /\ e.time \in Nat
    BY <2>1, GoodIs
  <2>7. prev.run \in Nat /\ MaxChangelogEntries \in Nat
    BY <2>1, HistoryAssumption DEF LastBuild
  <2>8. /\ Rels \subseteq 1..MaxRelease /\ MaxRelease \in Nat /\ Rels \subseteq Release
        /\ IsFiniteSet(Rels)
    BY <2>1, GoodIs, Ranks
  \* The end of the last walk is not cut: it has fewer releases above it.
  <2>9. b.rel \in Newest(Rels)
    <3> DEFINE U == {s \in Rels : s >= b.rel}
               V == {s \in Rels : s > b.rel}
    <3>1. V \in SUBSET U /\ b.rel \in U /\ b.rel \notin V /\ U \in SUBSET Rels
      <4>1. \A s \in Rels : s > b.rel => s >= b.rel
        BY <2>6, <2>8
      <4>2. b.rel >= b.rel /\ ~(b.rel > b.rel)
        BY <2>6
      <4> QED BY <2>6, <4>1, <4>2
    <3>2. Cardinality(U) = prev.run /\ IsFiniteSet(U)
      BY <2>5, <2>8, <3>1, FS_Subset DEF WalkEndsAt, Rank
    <3>3. IsFiniteSet(V) /\ Cardinality(V) <= Cardinality(U) /\ Cardinality(U) # Cardinality(V)
      BY <3>1, <3>2, FS_Subset
    <3>4. Cardinality(V) \in Nat
      BY <3>3, FS_CardinalityType
    <3>5. Cardinality(V) < MaxChangelogEntries
      <4> HIDE DEF U, V
      <4> QED BY <2>7, <3>2, <3>3, <3>4
    <3> QED BY <2>6, <3>5 DEF Newest
  \* This walk does not end before it.
  <2>10. ~(c.rel > b.rel)
    <3> SUFFICES ASSUME c.rel > b.rel PROVE FALSE
      OBVIOUS
    <3>1. CASE n = Len(updates)
      <4>1. PICK i \in 1..Len(updates) : updates[i].rel = b.rel
        BY <2>1, <2>9, ListIs
      <4>2. i = n \/ i < n
        BY <2>3, <3>1
      <4>3. i < n => updates[i].rel > c.rel
        BY <2>1, <2>2, <2>3, ListIs
      <4> QED BY <2>2, <2>3, <2>5, <2>6, <4>1, <4>2, <4>3
    <3>2. ASSUME NEW d \in Earliest, d.rel < c.rel, d.ver # c.ver,
                 \A e \in Earliest : ~(d.rel < e.rel /\ e.rel < c.rel)
          PROVE  FALSE
      <4>1. d.rel >= b.rel
        BY <2>3, <2>5, <2>6, <3>2
      <4>2. c.rel >= b.rel
        BY <2>3, <2>5, <2>6
      <4> QED BY <2>3, <2>5, <3>2, <4>1, <4>2 DEF WalkEndsAt
    <3> QED BY <2>3, <3>1, <3>2
  \* Nor beyond it.
  <2>11. ~(c.rel < b.rel)
    <3> SUFFICES ASSUME c.rel < b.rel PROVE FALSE
      OBVIOUS
    <3>1. CASE \A r \in Rels : r >= b.rel
      BY <2>3, <2>5, <2>6, <3>1
    <3>2. ASSUME NEW d \in Earliest, d.rel < b.rel, d.ver # b.ver,
                 \A e \in Earliest : ~(d.rel < e.rel /\ e.rel < b.rel)
          PROVE  FALSE
      <4>1. d.rel >= c.rel
        BY <2>3, <2>5, <2>6, <3>2
      <4>2. b.rel >= c.rel
        BY <2>3, <2>5, <2>6
      <4> QED BY <2>3, <2>5, <3>2, <4>1, <4>2
    <3>3. CASE prev.run >= MaxChangelogEntries
      <4> DEFINE U == {s \in Rels : s >= b.rel}
                 V == {s \in Rels : s > c.rel}
      <4>1. U \in SUBSET V /\ V \in SUBSET Rels
        <5>1. \A s \in Rels : s >= b.rel => s > c.rel
          BY <2>3, <2>5, <2>6, <2>8
        <5> QED BY <5>1
      <4>2. IsFiniteSet(V) /\ Cardinality(V) \in Nat
        BY <2>8, <4>1, FS_Subset, FS_CardinalityType
      <4>3. Cardinality(U) <= Cardinality(V)
        BY <4>1, <4>2, FS_Subset
      <4>4. Cardinality(U) = prev.run
        BY <2>5 DEF WalkEndsAt, Rank
      <4>5. Cardinality(V) < MaxChangelogEntries
        BY <2>3 DEF Newest
      <4> HIDE DEF U, V
      <4> QED BY <2>7, <3>3, <4>2, <4>3, <4>4, <4>5
    <3> QED BY <2>5, <3>1, <3>2, <3>3 DEF WalkEndsAt
  <2>12. c.rel = b.rel
    BY <2>3, <2>5, <2>6, <2>10, <2>11
  <2>13. c.time <= b.time /\ b.time <= c.time
    BY <2>3, <2>5, <2>6, <2>12 DEF Earliest
  <2>14. c.time = b.time
    BY <2>3, <2>5, <2>6, <2>13
  <2> QED BY <2>4, <2>5, <2>14 DEF WalkEndsAt
<1> QED BY <1>1, IndInvHolds, PTL
=============================================================================
