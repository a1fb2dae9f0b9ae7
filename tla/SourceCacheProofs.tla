------------------------- MODULE SourceCacheProofs -------------------------
(***************************************************************************)
(* What holds of SourceCache for every set of fetches and blobs, whatever  *)
(* breaks off or is removed, as long as no two fetches have archives of    *)
(* one name.                                                               *)
(***************************************************************************)
EXTENDS SourceCache, TLAPS

\* No two fetches share a staging file.
OwnNames == \A f, g \in Fetch : File[f] = File[g] => f = g

\* A staging file belongs to one name.
StagingApart ==
    \A n, m \in Name : staging[n] # None /\ staging[n] = staging[m] => n = m

\* Only a download has a file open, of its own name if it is in staging.
WriterApart ==
    \A f \in Fetch : fd[f] # None =>
        /\ pc[f] = "write"
        /\ \A n \in Name : staging[n] = fd[f] => n = File[f]
        /\ \A g \in Fetch : fd[g] = fd[f] => g = f

\* A download has its file open.
WriterOpen == \A f \in Fetch : pc[f] = "write" => fd[f] # None

\* What is in the cache is in staging no more, and nobody writes it.
CacheApart ==
    \A h \in Hash, n \in Name : cache[h][n] # None =>
        /\ \A m \in Name : staging[m] # cache[h][n]
        /\ \A f \in Fetch : fd[f] # cache[h][n]

\* The hash a fetch computed is that of its staging file until it is moved.
SumHolds ==
    \A f \in Fetch : pc[f] = "rename" /\ staging[File[f]] # None =>
        content[staging[File[f]]] = sum[f]

\* A link leads to the directory of the same contents.
LinksAddressed == \A h \in Hash : links[h] # None => links[h] = h

\* The inductive invariant.  CacheAddressed alone says nothing about the
\* staging file, which is moved into the cache unread.
Apart == StagingApart /\ WriterApart /\ WriterOpen /\ CacheApart
IndInv == TypeOK /\ Apart /\ SumHolds /\ CacheAddressed /\ LinksAddressed

-----------------------------------------------------------------------------
\* A new file gets an inode nothing refers to.
LEMMA NewInodeFree ==
    ASSUME FreeInodes # {}
    PROVE  /\ NewInode \in Inode
           /\ \A n \in Name : staging[n] # NewInode
           /\ \A h \in Hash, n \in Name : cache[h][n] # NewInode
           /\ \A f \in Fetch : fd[f] # NewInode
<1>1. NewInode \in FreeInodes
  BY DEF NewInode
<1> QED BY <1>1 DEF FreeInodes

\* The cache with another inode, or none, at one place.
SetEntry(d, m, i) == [cache EXCEPT ![d][m] = i]

\* It is a cache.
LEMMA SetEntryType ==
    ASSUME cache \in [Hash -> [Name -> Inode \cup {None}]],
           NEW d \in Hash, NEW m \in Name, NEW i \in Inode \cup {None}
    PROVE  /\ SetEntry(d, m, i) \in [Hash -> [Name -> Inode \cup {None}]]
           /\ \A h \in Hash, n \in Name :
                 SetEntry(d, m, i)[h][n] = IF h = d /\ n = m THEN i ELSE cache[h][n]
<1>1. cache[d] \in [Name -> Inode \cup {None}]
  OBVIOUS
<1>2. [cache[d] EXCEPT ![m] = i] \in [Name -> Inode \cup {None}]
  BY <1>1
<1>3. SetEntry(d, m, i) = [cache EXCEPT ![d] = [cache[d] EXCEPT ![m] = i]]
  BY DEF SetEntry
<1> QED BY <1>1, <1>2, <1>3

\* IndInv holds at the start.
LEMMA InitIndInv == Init => IndInv
<1> SUFFICES ASSUME Init PROVE IndInv
  OBVIOUS
<1>1. Empty \in Hash
  BY DEF Empty, Hash, Part
<1>2. TypeOK
  BY <1>1, BoundAssumption DEF Init, TypeOK, PC
<1> QED
  BY <1>2 DEF Init, IndInv, Apart, StagingApart, WriterApart, WriterOpen, CacheApart,
              SumHolds, CacheAddressed, LinksAddressed

\* Every action keeps the types, whatever the names of the archives.
LEMMA TypeStep == TypeOK /\ WriterOpen /\ [Next]_vars => TypeOK'
<1> SUFFICES ASSUME TypeOK, WriterOpen, [Next]_vars PROVE TypeOK'
  OBVIOUS
<1> USE NamesAssumption DEF TypeOK, Goto, PC
<1>0. Empty \in Hash
  BY DEF Empty, Hash, Part
<1>1. ASSUME NEW f \in Fetch, Begin(f) PROVE TypeOK'
  BY <1>1 DEF Begin
<1>2. ASSUME NEW f \in Fetch, Open(f) PROVE TypeOK'
  <2>1. \A c \in Hash : Size(c) \in 0..2
    BY DEF Size
  <2>2. CASE staging[File[f]] # None
    <3>1. staging[File[f]] \in Inode
      BY <2>2
    <3>2. content' \in [Inode -> Hash]
      BY <1>0, <1>2, <2>2, <3>1 DEF Open
    <3>3. off' \in [Fetch -> 0..2]
      <4>1. Size(content[staging[File[f]]]) \in 0..2
        BY <2>1, <3>1
      <4> QED BY <1>2, <2>2, <4>1 DEF Open
    <3> QED BY <1>2, <2>2, <3>1, <3>2, <3>3 DEF Open
  <2>3. CASE staging[File[f]] = None
    <3>1. NewInode \in Inode
      BY <1>2, <2>3, NewInodeFree DEF Open
    <3>2. /\ staging' = [staging EXCEPT ![File[f]] = NewInode]
          /\ fd' = [fd EXCEPT ![f] = NewInode]
          /\ content' = [content EXCEPT ![NewInode] = Empty]
          /\ off' = [off EXCEPT ![f] = 0]
      BY <1>2, <2>3 DEF Open
    <3>3. /\ pc' = [pc EXCEPT ![f] = "write"]
          /\ UNCHANGED <<cache, links, sum, faults>>
      BY <1>2 DEF Open
    <3>4. content' \in [Inode -> Hash]
      BY <1>0, <3>1, <3>2
    <3>5. staging' \in [Name -> Inode \cup {None}] /\ fd' \in [Fetch -> Inode \cup {None}]
      BY <3>1, <3>2
    <3> QED BY <3>2, <3>3, <3>4, <3>5
  <2> QED BY <2>2, <2>3
<1>3. ASSUME NEW f \in Fetch, Write(f) PROVE TypeOK'
  <2>1. CASE off[f] < 2
    <3>1. fd[f] \in Inode
      BY <1>3 DEF Write, WriterOpen
    <3>2. /\ <<Served[f], content[fd[f]][2]>> \in Hash
          /\ <<content[fd[f]][1], Served[f]>> \in Hash
      BY <3>1, BlobsAssumption DEF Hash, Part
    <3>3. content' \in [Inode -> Hash]
      <4>1. \/ content' = [content EXCEPT ![fd[f]] = <<Served[f], content[fd[f]][2]>>]
            \/ content' = [content EXCEPT ![fd[f]] = <<content[fd[f]][1], Served[f]>>]
        BY <1>3, <2>1, <3>1 DEF Write
      <4> QED BY <3>1, <3>2, <4>1
    <3>4. off' \in [Fetch -> 0..2]
      BY <1>3, <2>1 DEF Write
    <3> QED BY <1>3, <2>1, <3>3, <3>4 DEF Write
  <2>2. CASE off[f] = 2
    <3>1. /\ fd' = [fd EXCEPT ![f] = None]
          /\ pc' = [pc EXCEPT ![f] = "verify"]
          /\ UNCHANGED <<content, off, staging, cache, links, sum, faults>>
      BY <1>3, <2>2 DEF Write
    <3> QED BY <3>1
  <2> QED BY <1>3, <2>1, <2>2 DEF Write
<1>4. ASSUME NEW f \in Fetch, Verify(f) PROVE TypeOK'
  BY <1>4 DEF Verify
<1>5. ASSUME NEW f \in Fetch, Sum(f) PROVE TypeOK'
  BY <1>5 DEF Sum
<1>6. ASSUME NEW f \in Fetch, Rename(f) PROVE TypeOK'
  <2>1. cache' \in [Hash -> [Name -> Inode \cup {None}]]
    <3>1. CASE staging[File[f]] # None
      <4>1. cache' = SetEntry(sum[f], File[f], staging[File[f]])
        BY <1>6, <3>1 DEF Rename, SetEntry
      <4> QED BY <4>1, SetEntryType
    <3> QED BY <1>6, <3>1 DEF Rename
  <2> QED BY <1>6, <2>1 DEF Rename
<1>7. ASSUME NEW f \in Fetch, Link(f) PROVE TypeOK'
  BY <1>7 DEF Link
<1>8. ASSUME NEW f \in Fetch, Again(f) PROVE TypeOK'
  BY <1>0, <1>8 DEF Again
<1>9. ASSUME NEW f \in Fetch, Break(f) PROVE TypeOK'
  BY <1>9, BoundAssumption DEF Break, Fault
<1>10. ASSUME DeleteCache PROVE TypeOK'
  <2>1. cache' \in [Hash -> [Name -> Inode \cup {None}]]
    <3>1. CASE \E h \in Hash, n \in Name : cache' = [cache EXCEPT ![h][n] = None]
      <4>1. PICK h \in Hash, n \in Name : cache' = SetEntry(h, n, None)
        BY <3>1 DEF SetEntry
      <4> QED BY <4>1, SetEntryType
    <3> QED BY <1>10, <3>1 DEF DeleteCache
  <2>2. staging' \in [Name -> Inode \cup {None}] /\ links' \in [Hash -> Hash \cup {None}]
    BY <1>10 DEF DeleteCache
  <2>3. faults' \in 0..MaxFaults
    BY <1>10, BoundAssumption DEF DeleteCache, Fault
  <2> QED BY <1>10, <2>1, <2>2, <2>3 DEF DeleteCache
<1>11. ASSUME UNCHANGED vars PROVE TypeOK'
  BY <1>11 DEF vars
<1> QED
  BY <1>1, <1>2, <1>3, <1>4, <1>5, <1>6, <1>7, <1>8, <1>9, <1>10, <1>11
  DEF Next, Step

\* A download keeps its file open, whatever the names of the archives.
LEMMA WriterOpenStep == TypeOK /\ WriterOpen /\ [Next]_vars => WriterOpen'
<1> SUFFICES ASSUME TypeOK, WriterOpen, [Next]_vars PROVE WriterOpen'
  OBVIOUS
<1>0. /\ staging \in [Name -> Inode \cup {None}]
      /\ pc \in [Fetch -> PC]
      /\ fd \in [Fetch -> Inode \cup {None}]
  BY DEF TypeOK
<1> USE NamesAssumption, NoneAssumption DEF WriterOpen
<1>1. ASSUME NEW f \in Fetch, Begin(f) \/ Verify(f) \/ Sum(f) \/ Rename(f) \/ Link(f) \/ Again(f)
      PROVE  WriterOpen'
  <2>1. UNCHANGED fd
    BY <1>1 DEF Begin, Verify, Sum, Rename, Link, Again
  <2>2. \E l \in PC \ {"write"} : pc' = [pc EXCEPT ![f] = l]
    BY <1>1 DEF Begin, Verify, Sum, Rename, Link, Again, Goto, PC
  <2> QED BY <1>0, <2>1, <2>2
<1>2. ASSUME NEW f \in Fetch, Open(f) PROVE WriterOpen'
  <2>1. pc' = [pc EXCEPT ![f] = "write"]
    BY <1>2 DEF Open, Goto
  <2>2. CASE staging[File[f]] # None
    <3>1. fd' = [fd EXCEPT ![f] = staging[File[f]]]
      BY <1>2, <2>2 DEF Open
    <3> QED BY <1>0, <2>1, <2>2, <3>1
  <2>3. CASE staging[File[f]] = None
    <3>1. fd' = [fd EXCEPT ![f] = NewInode] /\ FreeInodes # {}
      BY <1>2, <2>3 DEF Open
    <3>2. NewInode # None
      BY <3>1, NewInodeFree
    <3> QED BY <1>0, <2>1, <3>1, <3>2
  <2> QED BY <2>2, <2>3
<1>3. ASSUME NEW f \in Fetch, Write(f) PROVE WriterOpen'
  <2>1. CASE UNCHANGED <<pc, fd>>
    BY <2>1
  <2>2. CASE fd' = [fd EXCEPT ![f] = None] /\ pc' = [pc EXCEPT ![f] = "verify"]
    BY <1>0, <2>2
  <2> QED BY <1>3, <2>1, <2>2 DEF Write, Goto
<1>4. ASSUME NEW f \in Fetch, Break(f) PROVE WriterOpen'
  <2>1. fd' = [fd EXCEPT ![f] = None] /\ pc' = [pc EXCEPT ![f] = "failed"]
    BY <1>4 DEF Break, Goto
  <2> QED BY <1>0, <2>1
<1>5. CASE DeleteCache \/ UNCHANGED vars
  BY <1>5 DEF DeleteCache, vars
<1> QED BY <1>1, <1>2, <1>3, <1>4, <1>5 DEF Next, Step

\* Every action keeps staging files, open files and cached files apart.
LEMMA ApartStep == OwnNames /\ IndInv /\ [Next]_vars => Apart'
<1> SUFFICES ASSUME OwnNames, IndInv, [Next]_vars PROVE Apart'
  OBVIOUS
<1>0. /\ staging \in [Name -> Inode \cup {None}]
      /\ cache \in [Hash -> [Name -> Inode \cup {None}]]
      /\ pc \in [Fetch -> PC]
      /\ fd \in [Fetch -> Inode \cup {None}]
      /\ sum \in [Fetch -> Hash]
      /\ Apart
  BY DEF IndInv, TypeOK
<1> USE NamesAssumption DEF Apart, StagingApart, WriterApart, WriterOpen, CacheApart
\* An action that leaves the files alone and does not start or end a download.
<1>1. ASSUME UNCHANGED <<staging, cache, fd>>,
             \A g \in Fetch : pc'[g] = pc[g] \/ (pc[g] # "write" /\ pc'[g] # "write")
      PROVE  Apart'
  BY <1>0, <1>1
<1>2. ASSUME NEW f \in Fetch,
             Begin(f) \/ Verify(f) \/ Sum(f) \/ Link(f) \/ Again(f)
      PROVE  Apart'
  <2>1. UNCHANGED <<staging, cache, fd>> /\ pc[f] # "write"
    BY <1>2 DEF Begin, Verify, Sum, Link, Again
  <2>2. \E l \in PC \ {"write"} : pc' = [pc EXCEPT ![f] = l]
    BY <1>2 DEF Begin, Verify, Sum, Link, Again, Goto, PC
  <2> QED BY <1>0, <1>1, <2>1, <2>2
<1>3. ASSUME NEW f \in Fetch, Open(f) PROVE Apart'
  <2>1. pc' = [pc EXCEPT ![f] = "write"] /\ pc[f] = "open" /\ UNCHANGED cache
    BY <1>3 DEF Open, Goto
  <2>2. CASE staging[File[f]] # None
    <3>1. fd' = [fd EXCEPT ![f] = staging[File[f]]] /\ UNCHANGED staging
      BY <1>3, <2>2 DEF Open
    <3> QED BY <1>0, <2>1, <2>2, <3>1 DEF OwnNames
  <2>3. CASE staging[File[f]] = None
    <3>1. /\ staging' = [staging EXCEPT ![File[f]] = NewInode]
          /\ fd' = [fd EXCEPT ![f] = NewInode]
          /\ FreeInodes # {}
      BY <1>3, <2>3 DEF Open
    <3> QED BY <1>0, <2>1, <3>1, NewInodeFree, NoneAssumption
  <2> QED BY <2>2, <2>3
<1>4. ASSUME NEW f \in Fetch, Write(f) PROVE Apart'
  <2>1. UNCHANGED <<staging, cache>>
    BY <1>4 DEF Write
  <2>2. CASE UNCHANGED <<pc, fd>>
    BY <1>1, <2>1, <2>2
  <2>3. CASE fd' = [fd EXCEPT ![f] = None] /\ pc' = [pc EXCEPT ![f] = "verify"]
    BY <1>0, <2>1, <2>3
  <2> QED BY <1>4, <2>2, <2>3 DEF Write, Goto
<1>5. ASSUME NEW f \in Fetch, Rename(f) PROVE Apart'
  <2>1. pc[f] = "rename" /\ UNCHANGED fd
    BY <1>5 DEF Rename
  <2>2. CASE staging[File[f]] # None
    <3>1. /\ cache' = SetEntry(sum[f], File[f], staging[File[f]])
          /\ staging' = [staging EXCEPT ![File[f]] = None]
      BY <1>5, <2>2 DEF Rename, SetEntry
    <3>2. \E l \in {"link", "ready"} : pc' = [pc EXCEPT ![f] = l]
      BY <1>5, <2>2 DEF Rename, Goto
    <3>3. \A h \in Hash, n \in Name :
             cache'[h][n] = IF h = sum[f] /\ n = File[f] THEN staging[File[f]]
                            ELSE cache[h][n]
      <4>1. /\ sum[f] \in Hash /\ File[f] \in Name
            /\ staging[File[f]] \in Inode \cup {None}
        BY <1>0
      <4> HIDE DEF Apart, StagingApart, WriterApart, WriterOpen, CacheApart
      <4> QED BY <1>0, <3>1, <4>1, SetEntryType
    <3>4. \A g \in Fetch : fd[g] # staging[File[f]]
      BY <1>0, <2>1, <2>2 DEF OwnNames
    <3>5. StagingApart' /\ WriterApart' /\ WriterOpen'
      BY <1>0, <2>1, <3>1, <3>2
    <3>6. \A m \in Name : staging'[m] \in {None, staging[m]} /\ (m = File[f] => staging'[m] = None)
      BY <1>0, <3>1
    <3>7. CacheApart'
      <4> SUFFICES ASSUME NEW h \in Hash, NEW n \in Name, cache'[h][n] # None
                   PROVE  /\ \A m \in Name : staging'[m] # cache'[h][n]
                          /\ \A g \in Fetch : fd'[g] # cache'[h][n]
        OBVIOUS
      <4>1. CASE cache'[h][n] = cache[h][n]
        BY <1>0, <2>1, <3>6, <4>1
      <4>2. CASE cache'[h][n] = staging[File[f]]
        BY <1>0, <2>1, <2>2, <3>4, <3>6, <4>2
      <4> QED BY <3>3, <4>1, <4>2
    <3> QED BY <3>5, <3>7
  <2>3. CASE staging[File[f]] = None
    <3>1. UNCHANGED <<cache, staging>> /\ pc' = [pc EXCEPT ![f] = "failed"]
      BY <1>5, <2>3 DEF Rename, Goto
    <3> QED BY <1>0, <1>1, <2>1, <3>1
  <2> QED BY <2>2, <2>3
<1>6. ASSUME NEW f \in Fetch, Break(f) PROVE Apart'
  <2>1. /\ UNCHANGED <<staging, cache>>
        /\ fd' = [fd EXCEPT ![f] = None] /\ pc' = [pc EXCEPT ![f] = "failed"]
    BY <1>6 DEF Break, Goto
  <2> QED BY <1>0, <2>1
<1>7. ASSUME DeleteCache PROVE Apart'
  <2>1. UNCHANGED <<pc, fd>>
    BY <1>7 DEF DeleteCache
  <2>2. ASSUME NEW n \in Name, staging' = [staging EXCEPT ![n] = None], UNCHANGED cache
        PROVE  Apart'
    BY <1>0, <2>1, <2>2
  <2>3. ASSUME NEW d \in Hash, NEW n \in Name, cache' = SetEntry(d, n, None),
               UNCHANGED staging
        PROVE  Apart'
    <3>1. \A h \in Hash, m \in Name : cache'[h][m] \in {cache[h][m], None}
      BY <1>0, <2>3, SetEntryType
    <3> QED BY <1>0, <2>1, <2>3, <3>1
  <2>4. CASE UNCHANGED <<staging, cache>>
    BY <1>1, <2>1, <2>4
  <2> QED BY <1>7, <2>2, <2>3, <2>4 DEF DeleteCache, SetEntry
<1>8. ASSUME UNCHANGED vars PROVE Apart'
  BY <1>1, <1>8 DEF vars
<1> QED
  BY <1>2, <1>3, <1>4, <1>5, <1>6, <1>7, <1>8 DEF Next, Step

-----------------------------------------------------------------------------
(***************************************************************************)
(* What the files hold                                                     *)
(***************************************************************************)
Addressed == SumHolds /\ CacheAddressed /\ LinksAddressed

\* Only files that are written or new change: neither those in the cache nor
\* one that was hashed.
LEMMA OthersUnchanged ==
    ASSUME OwnNames, IndInv, NEW f \in Fetch, Open(f) \/ Write(f)
    PROVE  /\ \A h \in Hash, n \in Name : cache[h][n] # None =>
                  content'[cache[h][n]] = content[cache[h][n]]
           /\ \A g \in Fetch : g # f /\ staging[File[g]] # None =>
                  content'[staging[File[g]]] = content[staging[File[g]]]
<1>0. /\ staging \in [Name -> Inode \cup {None}]
      /\ cache \in [Hash -> [Name -> Inode \cup {None}]]
      /\ fd \in [Fetch -> Inode \cup {None}]
      /\ content \in [Inode -> Hash]
      /\ File \in [Fetch -> Name]
      /\ Apart
  BY NamesAssumption DEF IndInv, TypeOK
<1>1. \A i \in Inode : content'[i] # content[i] =>
         \/ i = fd[f]
         \/ staging[File[f]] # None /\ i = staging[File[f]]
         \/ FreeInodes # {} /\ i = NewInode
  <2>1. CASE Write(f)
    BY <1>0, <2>1 DEF Write
  <2>2. CASE Open(f)
    <3>1. CASE staging[File[f]] # None
      <4>1. content' \in {content, [content EXCEPT ![staging[File[f]]] = Empty]}
        BY <2>2, <3>1 DEF Open
      <4> QED BY <1>0, <3>1, <4>1
    <3>2. CASE staging[File[f]] = None
      <4>1. FreeInodes # {} /\ content' = [content EXCEPT ![NewInode] = Empty]
        BY <2>2, <3>2 DEF Open
      <4> QED BY <1>0, <4>1
    <3> QED BY <3>1, <3>2
  <2> QED BY <2>1, <2>2
<1>2. ASSUME NEW h \in Hash, NEW n \in Name, cache[h][n] # None
      PROVE  content'[cache[h][n]] = content[cache[h][n]]
  BY <1>0, <1>1, <1>2, NewInodeFree DEF Apart, CacheApart
<1>3. ASSUME NEW g \in Fetch, g # f, staging[File[g]] # None
      PROVE  content'[staging[File[g]]] = content[staging[File[g]]]
  BY <1>0, <1>1, <1>3, NewInodeFree DEF Apart, StagingApart, WriterApart, OwnNames
<1> QED BY <1>2, <1>3

\* Every action leaves the files of the cache where they belong.
LEMMA AddressedStep == OwnNames /\ IndInv /\ [Next]_vars => Addressed'
<1> SUFFICES ASSUME OwnNames, IndInv, [Next]_vars PROVE Addressed'
  OBVIOUS
<1>0. /\ staging \in [Name -> Inode \cup {None}]
      /\ cache \in [Hash -> [Name -> Inode \cup {None}]]
      /\ links \in [Hash -> Hash \cup {None}]
      /\ content \in [Inode -> Hash]
      /\ pc \in [Fetch -> PC]
      /\ sum \in [Fetch -> Hash]
      /\ StagingApart
      /\ Addressed
  BY DEF IndInv, TypeOK, Addressed, Apart
<1> USE NamesAssumption DEF Addressed, SumHolds, CacheAddressed, LinksAddressed
\* An action that leaves the files alone and computes no hash.
<1>1. ASSUME UNCHANGED <<staging, cache, content, links>>,
             \A g \in Fetch : pc'[g] = "rename" => pc[g] = "rename" /\ sum'[g] = sum[g]
      PROVE  Addressed'
  BY <1>0, <1>1
<1>2. ASSUME NEW f \in Fetch, Begin(f) \/ Verify(f) \/ Again(f) \/ Break(f)
      PROVE  Addressed'
  <2>1. UNCHANGED <<staging, cache, content, links>>
    BY <1>2 DEF Begin, Verify, Again, Break
  <2>2. \E l \in PC \ {"rename"} : pc' = [pc EXCEPT ![f] = l]
    BY <1>2 DEF Begin, Verify, Again, Break, Goto, PC
  <2>3. \A g \in Fetch : g # f => sum'[g] = sum[g]
    BY <1>0, <1>2 DEF Begin, Verify, Again, Break
  <2> QED BY <1>0, <1>1, <2>1, <2>2, <2>3
<1>3. ASSUME NEW f \in Fetch, Open(f) \/ Write(f) PROVE Addressed'
  <2>1. UNCHANGED <<cache, links, sum>>
    BY <1>3 DEF Open, Write
  <2>2. \A g \in Fetch : pc'[g] = "rename" => pc[g] = "rename" /\ g # f
    BY <1>0, <1>3 DEF Open, Write, Goto
  <2>3. \A g \in Fetch : g # f => staging'[File[g]] = staging[File[g]]
    BY <1>0, <1>3 DEF Open, Write, OwnNames
  <2> QED BY <1>0, <1>3, <2>1, <2>2, <2>3, OthersUnchanged
<1>4. ASSUME NEW f \in Fetch, Sum(f) PROVE Addressed'
  <2>1. UNCHANGED <<staging, cache, content, links>>
    BY <1>4 DEF Sum
  <2>2. CASE staging[File[f]] # None
    <3>1. /\ sum' = [sum EXCEPT ![f] = content[staging[File[f]]]]
          /\ pc' = [pc EXCEPT ![f] = "rename"]
      BY <1>4, <2>2 DEF Sum, Goto
    <3> QED BY <1>0, <2>1, <3>1
  <2>3. CASE staging[File[f]] = None
    <3>1. UNCHANGED sum /\ pc' = [pc EXCEPT ![f] = "failed"]
      BY <1>4, <2>3 DEF Sum, Goto
    <3> QED BY <1>0, <1>1, <2>1, <3>1
  <2> QED BY <2>2, <2>3
<1>5. ASSUME NEW f \in Fetch, Rename(f) PROVE Addressed'
  <2>1. pc[f] = "rename" /\ UNCHANGED <<links, content, sum>>
    BY <1>5 DEF Rename
  <2>2. CASE staging[File[f]] # None
    <3>1. /\ cache' = SetEntry(sum[f], File[f], staging[File[f]])
          /\ staging' = [staging EXCEPT ![File[f]] = None]
      BY <1>5, <2>2 DEF Rename, SetEntry
    <3>2. \E l \in {"link", "ready"} : pc' = [pc EXCEPT ![f] = l]
      BY <1>5, <2>2 DEF Rename, Goto
    <3>0. \A h \in Hash, n \in Name :
             cache'[h][n] = IF h = sum[f] /\ n = File[f] THEN staging[File[f]]
                            ELSE cache[h][n]
      <4>1. /\ sum[f] \in Hash /\ File[f] \in Name
            /\ staging[File[f]] \in Inode \cup {None}
        BY <1>0
      <4> HIDE DEF Addressed, SumHolds, CacheAddressed, LinksAddressed
      <4> QED BY <1>0, <3>1, <4>1, SetEntryType
    <3>3. CacheAddressed'
      BY <1>0, <2>1, <2>2, <3>0
    <3>4. SumHolds'
      BY <1>0, <2>1, <3>1, <3>2
    <3> QED BY <1>0, <2>1, <3>3, <3>4
  <2>3. CASE staging[File[f]] = None
    <3>1. UNCHANGED <<cache, staging>> /\ pc' = [pc EXCEPT ![f] = "failed"]
      BY <1>5, <2>3 DEF Rename, Goto
    <3> QED BY <1>0, <1>1, <2>1, <3>1
  <2> QED BY <2>2, <2>3
<1>6. ASSUME NEW f \in Fetch, Link(f) PROVE Addressed'
  <2> DEFINE i == cache[sum[f]][File[f]]
  <2>1. UNCHANGED <<staging, cache, content, sum>>
    BY <1>6 DEF Link
  <2>2. \E l \in {"ready", "failed"} : pc' = [pc EXCEPT ![f] = l]
    BY <1>6 DEF Link, Goto
  <2>3. LinksAddressed'
    <3>1. CASE i # None /\ links' = [links EXCEPT ![content[i]] = sum[f]]
      <4>1. content[i] = sum[f] /\ sum[f] \in Hash
        BY <1>0, <3>1
      <4> QED BY <1>0, <3>1, <4>1
    <3>2. CASE UNCHANGED links
      BY <1>0, <3>2
    <3> QED BY <1>6, <3>1, <3>2 DEF Link
  <2> QED BY <1>0, <2>1, <2>2, <2>3
<1>7. ASSUME DeleteCache PROVE Addressed'
  <2>1. UNCHANGED <<content, pc, sum>>
    BY <1>7 DEF DeleteCache
  <2>2. ASSUME NEW n \in Name, staging' = [staging EXCEPT ![n] = None],
               UNCHANGED <<cache, links>>
        PROVE  Addressed'
    BY <1>0, <2>1, <2>2
  <2>3. ASSUME NEW d \in Hash, NEW n \in Name, cache' = SetEntry(d, n, None),
               UNCHANGED <<staging, links>>
        PROVE  Addressed'
    BY <1>0, <2>1, <2>3, SetEntryType
  <2>4. ASSUME NEW d \in Hash, links' = [links EXCEPT ![d] = None],
               UNCHANGED <<staging, cache>>
        PROVE  Addressed'
    BY <1>0, <2>1, <2>4
  <2> QED BY <1>7, <2>2, <2>3, <2>4 DEF DeleteCache, SetEntry
<1>8. ASSUME UNCHANGED vars PROVE Addressed'
  BY <1>1, <1>8 DEF vars
<1> QED
  BY <1>2, <1>3, <1>4, <1>5, <1>6, <1>7, <1>8 DEF Next, Step

-----------------------------------------------------------------------------
\* Fetches of any names, two of one name included, keep to the states the
\* model has for them: a download always has a file to write its next part to,
\* and never writes past the end.
THEOREM TypeCorrect == Spec => []TypeOK
<1>1. Init => TypeOK /\ WriterOpen
  BY InitIndInv DEF IndInv, Apart
<1>2. TypeOK /\ WriterOpen /\ [Next]_vars => (TypeOK /\ WriterOpen)'
  BY TypeStep, WriterOpenStep
<1> QED BY <1>1, <1>2, PTL DEF Spec

\* A file in the cache has the hash of its directory, for any number of
\* concurrent fetches of archives with names of their own.
THEOREM CacheIsAddressed == OwnNames => (Spec => []CacheAddressed)
<1> SUFFICES ASSUME OwnNames PROVE Spec => []CacheAddressed
  OBVIOUS
<1>1. IndInv /\ [Next]_vars => IndInv'
  BY TypeStep, ApartStep, AddressedStep DEF IndInv, Apart, Addressed
<1>2. IndInv => CacheAddressed
  BY DEF IndInv
<1> QED BY InitIndInv, <1>1, <1>2, PTL DEF Spec

\* What IsFetched finds, by its sha256 or through the link of its sha1, is
\* what the validator of the package names, under the same condition.
THEOREM FetchedIsRight == OwnNames => (Spec => []FetchedIsWanted)
<1> SUFFICES ASSUME OwnNames PROVE Spec => []FetchedIsWanted
  OBVIOUS
<1>1. IndInv /\ [Next]_vars => IndInv'
  BY TypeStep, ApartStep, AddressedStep DEF IndInv, Apart, Addressed
<1>2. IndInv => FetchedIsWanted
  <2> SUFFICES ASSUME IndInv, NEW f \in Fetch, IsFetched(f)
               PROVE  LET dir == IF f \in Legacy THEN links[Validator(f)] ELSE Validator(f)
                      IN  content[cache[dir][File[f]]] = Validator(f)
    BY DEF FetchedIsWanted
  <2>1. Validator(f) \in Hash /\ File[f] \in Name
    BY NamesAssumption, BlobsAssumption DEF Validator, Whole, Hash, Part
  <2>2. CASE f \in Legacy
    BY <2>1, <2>2 DEF IndInv, CacheAddressed, LinksAddressed, IsFetched
  <2>3. CASE f \notin Legacy
    BY <2>1, <2>3 DEF IndInv, CacheAddressed, IsFetched
  <2> QED BY <2>2, <2>3
<1> QED BY InitIndInv, <1>1, <1>2, PTL DEF Spec
=============================================================================
