--------------------------- MODULE StreamerProofs ---------------------------
(***************************************************************************)
(* Proofs about FdCache, for any number of readers, paths and handles and  *)
(* any cap, and about DownloadAll, the storage that uses it.  Core is the  *)
(* cache's inductive invariant; it is stated over a map, the entries and   *)
(* the pinned handles, because readAt changes all three twice (pin, then   *)
(* evict) in one step.  The storage's steps keep it; DaInv and Backed say  *)
(* what its calls in flight may still do to blobs and completion.  The     *)
(* registry of TorrentManager, which shares no state with them, is last.   *)
(***************************************************************************)
EXTENDS DownloadAll, TorrentManager, FiniteSetTheorems, TLAPS

Holders(hh, h) == {r \in Readers : hh[r] = h}

Typed(mm, ee, hh) ==
  /\ mm \in [Paths -> Handles \cup {None}]
  /\ ee \in [Handles -> Entry]
  /\ hh \in [Readers -> Handles \cup {None}]

Live(ee, h) == ee[h].inode # 0 /\ ee[h].closes = 0

Core(mm, ee, hh) ==
  /\ \A h \in Handles : ee[h].refs = Cardinality(Holders(hh, h))
  /\ \A p \in Paths : mm[p] # None => Live(ee, mm[p]) /\ ~ee[mm[p]].dead
  /\ \A p, q \in Paths : mm[p] # None /\ mm[p] = mm[q] => p = q
  /\ \A r \in Readers : hh[r] # None => Live(ee, hh[r])
  /\ \A h \in Handles : Live(ee, h) => \/ \E p \in Paths : mm[p] = h
                                       \/ ee[h].dead /\ ee[h].refs > 0
  /\ \A h \in Handles : ee[h].closes <= 1
  /\ \A h \in Handles : ee[h].inode = 0 => ee[h].closes = 0 /\ ~ee[h].dead

IInv == TypeOK /\ Core(m, ent, held)

LEMMA HoldersFinite ==
  ASSUME NEW hh, NEW h
  PROVE  /\ IsFiniteSet(Holders(hh, h))
         /\ Cardinality(Holders(hh, h)) \in Nat
         /\ Cardinality(Holders(hh, h)) = 0 <=> Holders(hh, h) = {}
  BY FdFinite, FS_Subset, FS_CardinalityType, FS_EmptySet DEF Holders

\* Retiring any set of paths keeps Core: a pinned handle is left to its
\* readers, an unpinned one is closed once and forgotten.
LEMMA RetireKeepsCore ==
  ASSUME NEW mm, NEW ee, NEW hh, NEW S \in SUBSET Paths,
         Typed(mm, ee, hh), Core(mm, ee, hh)
  PROVE  /\ Typed(Forget(mm, S), Retire(mm, ee, S), hh)
         /\ Core(Forget(mm, S), Retire(mm, ee, S), hh)
<1> DEFINE m2 == Forget(mm, S)
           e2 == Retire(mm, ee, S)
           gone(h) == \E p \in S : mm[p] = h
<1>1. \A h \in Handles :
        e2[h] = IF gone(h)
                  THEN IF ee[h].refs = 0 THEN [ee[h] EXCEPT !.closes = @ + 1]
                                         ELSE [ee[h] EXCEPT !.dead = TRUE]
                  ELSE ee[h]
  BY DEF Retire
<1>2. \A h \in Handles : ee[h] \in Entry
  BY DEF Typed
<1>3. \A h \in Handles :
        /\ e2[h] \in Entry
        /\ e2[h].refs = ee[h].refs
        /\ e2[h].inode = ee[h].inode
        /\ ~gone(h) => e2[h] = ee[h]
        /\ gone(h) /\ ee[h].refs = 0 => e2[h].closes = ee[h].closes + 1
        /\ gone(h) /\ ee[h].refs # 0 => e2[h].closes = ee[h].closes /\ e2[h].dead
  <2> SUFFICES ASSUME NEW h \in Handles
               PROVE  /\ e2[h] \in Entry
                      /\ e2[h].refs = ee[h].refs
                      /\ e2[h].inode = ee[h].inode
                      /\ ~gone(h) => e2[h] = ee[h]
                      /\ gone(h) /\ ee[h].refs = 0 => e2[h].closes = ee[h].closes + 1
                      /\ gone(h) /\ ee[h].refs # 0 => e2[h].closes = ee[h].closes /\ e2[h].dead
    OBVIOUS
  <2> HIDE DEF e2
  <2>1. ee[h] \in Entry
    BY <1>2
  <2>2. CASE gone(h) /\ ee[h].refs = 0
    <3>1. e2[h] = [ee[h] EXCEPT !.closes = @ + 1]
      BY <1>1, <2>2
    <3> QED BY <2>1, <2>2, <3>1 DEF Entry
  <2>3. CASE gone(h) /\ ee[h].refs # 0
    <3>1. e2[h] = [ee[h] EXCEPT !.dead = TRUE]
      BY <1>1, <2>3
    <3> QED BY <2>1, <2>3, <3>1 DEF Entry
  <2>4. CASE ~gone(h)
    BY <1>1, <2>1, <2>4
  <2> QED BY <2>2, <2>3, <2>4
<1>4. Typed(m2, e2, hh)
  <2>1. e2 \in [Handles -> Entry]
    BY <1>3 DEF Retire
  <2>2. m2 \in [Paths -> Handles \cup {None}]
    BY DEF Forget, Typed
  <2> QED BY <2>1, <2>2 DEF Typed
<1>5. \A p \in Paths : m2[p] = IF p \in S THEN None ELSE mm[p]
  BY DEF Forget
<1> HIDE DEF m2, e2, gone
<1>c1. \A h \in Handles : e2[h].refs = Cardinality(Holders(hh, h))
  BY <1>3 DEF Core
<1>c2. \A p \in Paths : m2[p] # None => Live(e2, m2[p]) /\ ~e2[m2[p]].dead
  <2> SUFFICES ASSUME NEW p \in Paths, m2[p] # None
               PROVE  Live(e2, m2[p]) /\ ~e2[m2[p]].dead
    OBVIOUS
  <2>1. p \notin S /\ m2[p] = mm[p] /\ mm[p] \in Handles
    BY <1>5 DEF Typed
  <2>2. ASSUME NEW q \in S, mm[q] = mm[p] PROVE FALSE
    BY <2>1, <2>2 DEF Core, Typed
  <2>3. e2[mm[p]] = ee[mm[p]]
    BY <1>3, <2>1, <2>2 DEF gone
  <2> QED BY <2>1, <2>3 DEF Core, Live
<1>c3. \A p, q \in Paths : m2[p] # None /\ m2[p] = m2[q] => p = q
  BY <1>5 DEF Core
<1>c4. \A r \in Readers : hh[r] # None => Live(e2, hh[r])
  <2> SUFFICES ASSUME NEW r \in Readers, hh[r] # None
               PROVE  Live(e2, hh[r])
    OBVIOUS
  <2>1. hh[r] \in Handles /\ Live(ee, hh[r])
    BY DEF Typed, Core
  <2>2. ee[hh[r]].refs # 0
    <3>1. r \in Holders(hh, hh[r])
      BY DEF Holders
    <3> QED BY <2>1, <3>1, HoldersFinite DEF Core
  <2> QED BY <1>3, <2>1, <2>2 DEF Live
<1>c5. \A h \in Handles : Live(e2, h) => \/ \E p \in Paths : m2[p] = h
                                         \/ e2[h].dead /\ e2[h].refs > 0
  <2> SUFFICES ASSUME NEW h \in Handles, Live(e2, h),
                      ~(e2[h].dead /\ e2[h].refs > 0)
               PROVE  \E p \in Paths : m2[p] = h
    OBVIOUS
  <2>1. ee[h].refs \in Nat /\ ee[h].closes \in Nat /\ e2[h].closes = 0
    BY <1>2 DEF Entry, Live
  <2>2. ~gone(h)
    BY <1>3, <2>1
  <2>3. PICK p \in Paths : mm[p] = h
    BY <1>3, <2>2 DEF Core, Live
  <2> QED BY <1>5, <2>2, <2>3 DEF gone
<1>c6. \A h \in Handles : e2[h].closes <= 1
  <2> SUFFICES ASSUME NEW h \in Handles PROVE e2[h].closes <= 1
    OBVIOUS
  <2>1. CASE gone(h)
    <3>1. ee[h].closes = 0
      BY <2>1, FdConstants DEF Core, Live, gone
    <3> QED BY <1>3, <2>1, <3>1 DEF Core
  <2>2. CASE ~gone(h)
    BY <1>3, <2>2 DEF Core
  <2> QED BY <2>1, <2>2
<1>c7. \A h \in Handles : e2[h].inode = 0 => e2[h].closes = 0 /\ ~e2[h].dead
  <2> SUFFICES ASSUME NEW h \in Handles, e2[h].inode = 0
               PROVE  e2[h].closes = 0 /\ ~e2[h].dead
    OBVIOUS
  <2>1. ~gone(h)
    BY <1>3, FdConstants DEF Core, Live, gone
  <2> QED BY <1>3, <2>1 DEF Core
<1> QED
  BY <1>4, <1>c1, <1>c2, <1>c3, <1>c4, <1>c5, <1>c6, <1>c7 DEF Core, m2, e2

\* Pinning a cached handle, or a fresh one put in the map, keeps Core.
LEMMA PinKeepsCore ==
  ASSUME NEW mm, NEW ee, NEW hh, NEW r \in Readers, NEW p \in Paths,
         NEW h \in Handles, NEW inode \in Nat \ {0}, NEW tick \in Nat,
         Typed(mm, ee, hh), Core(mm, ee, hh),
         hh[r] = None,
         \/ mm[p] = h /\ inode = ee[h].inode
         \/ mm[p] = None /\ ee[h].inode = 0
  PROVE  LET m1 == [mm EXCEPT ![p] = h]
             e1 == [ee EXCEPT ![h] = Pinned(ee[h], inode, tick)]
             h1 == [hh EXCEPT ![r] = h]
         IN  Typed(m1, e1, h1) /\ Core(m1, e1, h1)
<1> DEFINE m1 == [mm EXCEPT ![p] = h]
           e1 == [ee EXCEPT ![h] = Pinned(ee[h], inode, tick)]
           h1 == [hh EXCEPT ![r] = h]
<1>1. ee[h] \in Entry /\ h # None
  BY FdConstants DEF Typed
<1>2. /\ \A x \in Handles : e1[x] \in Entry
      /\ \A x \in Handles : x # h => e1[x] = ee[x]
      /\ e1[h].inode = inode /\ e1[h].refs = ee[h].refs + 1
      /\ e1[h].closes = ee[h].closes /\ e1[h].dead = ee[h].dead
  <2>1. \A x \in Handles : x # h => e1[x] = ee[x]
    BY DEF Typed
  <2>2. e1[h] = Pinned(ee[h], inode, tick)
    BY DEF Typed
  <2>3. \A x \in Handles : ee[x] \in Entry
    BY DEF Typed
  <2> HIDE DEF e1
  <2>4. /\ e1[h] \in Entry
        /\ e1[h].inode = inode /\ e1[h].refs = ee[h].refs + 1
        /\ e1[h].closes = ee[h].closes /\ e1[h].dead = ee[h].dead
    BY <1>1, <2>2 DEF Entry, Pinned
  <2> QED BY <2>1, <2>3, <2>4
<1>3. Typed(m1, e1, h1)
  <2>1. e1 \in [Handles -> Entry]
    BY <1>2 DEF Typed
  <2>2. m1 \in [Paths -> Handles \cup {None}] /\ h1 \in [Readers -> Handles \cup {None}]
    BY DEF Typed
  <2> QED BY <2>1, <2>2 DEF Typed
<1>4. /\ \A q \in Paths : m1[q] = IF q = p THEN h ELSE mm[q]
      /\ \A q \in Readers : h1[q] = IF q = r THEN h ELSE hh[q]
  BY DEF Typed
<1> HIDE DEF m1, e1, h1
<1>5. Live(e1, h) /\ ~e1[h].dead
  BY <1>1, <1>2 DEF Core, Live
<1>c1. \A x \in Handles : e1[x].refs = Cardinality(Holders(h1, x))
  <2> SUFFICES ASSUME NEW x \in Handles
               PROVE  e1[x].refs = Cardinality(Holders(h1, x))
    OBVIOUS
  <2>1. CASE x = h
    <3>1. Holders(h1, h) = Holders(hh, h) \cup {r} /\ r \notin Holders(hh, h)
      BY <1>1, <1>4 DEF Holders
    <3>2. Cardinality(Holders(h1, h)) = Cardinality(Holders(hh, h)) + 1
      BY <3>1, HoldersFinite, FS_AddElement
    <3> QED BY <1>2, <2>1, <3>2 DEF Core
  <2>2. CASE x # h
    <3>1. Holders(h1, x) = Holders(hh, x)
      BY <1>4, <2>2, FdConstants DEF Holders
    <3> QED BY <1>2, <2>2, <3>1 DEF Core
  <2> QED BY <2>1, <2>2
<1>c2. \A q \in Paths : m1[q] # None => Live(e1, m1[q]) /\ ~e1[m1[q]].dead
  BY <1>2, <1>4, <1>5 DEF Core, Live, Typed
<1>c3. \A q, s \in Paths : m1[q] # None /\ m1[q] = m1[s] => q = s
  BY <1>1, <1>4 DEF Core, Live
<1>c4. \A q \in Readers : h1[q] # None => Live(e1, h1[q])
  BY <1>2, <1>4, <1>5 DEF Core, Live, Typed
<1>c5. \A x \in Handles : Live(e1, x) => \/ \E q \in Paths : m1[q] = x
                                         \/ e1[x].dead /\ e1[x].refs > 0
  <2> SUFFICES ASSUME NEW x \in Handles, Live(e1, x), x # h,
                      ~(e1[x].dead /\ e1[x].refs > 0)
               PROVE  \E q \in Paths : m1[q] = x
    BY <1>4
  <2>1. PICK q \in Paths : mm[q] = x
    BY <1>2 DEF Core, Live
  <2>2. q # p
    BY <2>1, FdConstants
  <2> QED BY <1>4, <2>1, <2>2
<1>c6. \A x \in Handles : e1[x].closes <= 1
  BY <1>2 DEF Core
<1>c7. \A x \in Handles : e1[x].inode = 0 => e1[x].closes = 0 /\ ~e1[x].dead
  BY <1>2 DEF Core
<1> QED
  BY <1>3, <1>c1, <1>c2, <1>c3, <1>c4, <1>c5, <1>c6, <1>c7 DEF Core, m1, e1, h1

-----------------------------------------------------------------------------

LEMMA PinAndEvictStep ==
  ASSUME IInv, NEW r \in Readers, NEW p \in Paths, NEW h \in Handles,
         NEW inode \in Nat \ {0},
         held[r] = None,
         \/ m[p] = h /\ inode = ent[h].inode
         \/ m[p] = None /\ ent[h].inode = 0,
         PinAndEvict(r, p, h, inode)
  PROVE  /\ Typed(m', ent', held') /\ Core(m', ent', held') /\ clock' \in Nat
         /\ BoundedMap'
         /\ m'[p] = h /\ held' = [held EXCEPT ![r] = h]
<1> DEFINE m1 == [m EXCEPT ![p] = h]
           e1 == [ent EXCEPT ![h] = Pinned(ent[h], inode, clock + 1)]
           h1 == [held EXCEPT ![r] = h]
<1>1. Typed(m, ent, held) /\ Core(m, ent, held) /\ clock + 1 \in Nat
  BY DEF IInv, TypeOK, Typed
<1>2. Typed(m1, e1, h1) /\ Core(m1, e1, h1)
  BY <1>1, PinKeepsCore
<1>3. PICK V \in Victims(m1, e1) : m' = Forget(m1, V) /\ ent' = Retire(m1, e1, V)
  BY DEF PinAndEvict
<1>4. held' = h1 /\ clock' = clock + 1
  BY DEF PinAndEvict
<1>5. h1[r] = h /\ m1[p] = h /\ h # None
  BY FdConstants DEF IInv, TypeOK
<1> HIDE DEF m1, e1, h1
<1>6. V \in SUBSET Paths /\ V \subseteq Unpinned(m1, e1)
  BY <1>3 DEF Victims, Unpinned, Cached
<1>7. Typed(m', ent', held') /\ Core(m', ent', held')
  BY <1>2, <1>3, <1>4, <1>6, RetireKeepsCore
<1>8. m'[p] = h
  <2>1. r \in Holders(h1, h)
    BY <1>5 DEF Holders
  <2>2. e1[h].refs # 0
    BY <1>2, <2>1, HoldersFinite DEF Core
  <2>3. p \notin V
    BY <1>5, <1>6, <2>2 DEF Unpinned
  <2> QED BY <1>3, <1>5, <2>3 DEF Forget
<1>9. Cached(m') = Cached(m1) \ V
  BY <1>3 DEF Cached, Forget
<1>10. BoundedMap'
  <2>1. IsFiniteSet(Cached(m1)) /\ IsFiniteSet(Cached(m'))
    BY FdFinite, FS_Subset DEF Cached
  <2>2. CASE Cardinality(Cached(m1)) <= Max /\ V = {}
    BY <1>9, <2>2 DEF BoundedMap
  <2>3. CASE Cardinality(Cached(m1) \ V) = Max
    BY <1>9, <2>3, FdConstants DEF BoundedMap
  <2>4. CASE V = Unpinned(m1, e1)
    <3> DEFINE reader(q) == CHOOSE x \in Readers : h1[x] = m1[q]
               f == [q \in Cached(m') |-> reader(q)]
    <3>1. \A q \in Cached(m') : \E x \in Readers : h1[x] = m1[q]
      <4> SUFFICES ASSUME NEW q \in Cached(m')
                   PROVE  \E x \in Readers : h1[x] = m1[q]
        OBVIOUS
      <4>1. q \in Paths /\ m1[q] \in Handles /\ e1[m1[q]].refs # 0
        BY <1>2, <1>9, <2>4 DEF Cached, Unpinned, Typed
      <4>2. Holders(h1, m1[q]) # {}
        BY <1>2, <4>1, HoldersFinite DEF Core
      <4> QED BY <4>2 DEF Holders
    <3>2. \A q \in Cached(m') : reader(q) \in Readers /\ h1[reader(q)] = m1[q]
      BY <3>1
    <3>3. f \in Injection(Cached(m'), Readers)
      <4>1. f \in [Cached(m') -> Readers]
        BY <3>2
      <4>2. \A x, y \in Cached(m') : f[x] = f[y] => x = y
        <5> SUFFICES ASSUME NEW x \in Cached(m'), NEW y \in Cached(m'), f[x] = f[y]
                     PROVE  x = y
          OBVIOUS
        <5>1. m1[x] = m1[y] /\ m1[x] # None /\ x \in Paths /\ y \in Paths
          BY <1>9, <3>2 DEF Cached
        <5> QED BY <1>2, <5>1 DEF Core
      <4> QED BY <4>1, <4>2 DEF Injection, IsInjective
    <3>4. Cardinality(Cached(m')) <= Cardinality(Readers)
      BY <3>3, FdFinite, FS_Injection DEF ExistsInjection
    <3> QED BY <3>4 DEF BoundedMap
  <2> QED BY <1>3, <2>2, <2>3, <2>4 DEF Victims
<1> QED BY <1>1, <1>4, <1>7, <1>8, <1>10 DEF h1

LEMMA RetirePathsStep ==
  ASSUME IInv, NEW S \in SUBSET Paths, RetirePaths(S), UNCHANGED held
  PROVE  /\ Typed(m', ent', held') /\ Core(m', ent', held')
         /\ Cached(m') \subseteq Cached(m)
<1>1. Typed(m, ent, held) /\ Core(m, ent, held)
  BY DEF IInv, TypeOK, Typed
<1>2. Typed(m', ent', held') /\ Core(m', ent', held')
  BY <1>1, RetireKeepsCore DEF RetirePaths
<1>3. Cached(m') \subseteq Cached(m)
  BY DEF RetirePaths, Forget, Cached
<1> QED BY <1>2, <1>3

LEMMA ReadEndStep ==
  ASSUME IInv, NEW r \in Readers, ReadEnd(r)
  PROVE  Typed(m', ent', held') /\ Core(m', ent', held')
<1> DEFINE h == held[r]
           holders(x) == Holders(held, x)
<1>1. h \in Handles /\ h # None /\ ent[h] \in Entry /\ m' = m
  BY DEF ReadEnd, IInv, TypeOK
<1>2. \A x \in Readers : held'[x] = IF x = r THEN None ELSE held[x]
  BY DEF ReadEnd, IInv, TypeOK
<1>3. /\ Live(ent, h)
      /\ ent[h].refs = Cardinality(Holders(held, h))
  BY <1>1 DEF IInv, Core
<1>4. /\ Cardinality(Holders(held', h)) = ent[h].refs - 1
      /\ ent[h].refs - 1 \in Nat
  <2>1. r \in Holders(held, h) /\ Holders(held', h) = Holders(held, h) \ {r}
    BY <1>1, <1>2 DEF Holders
  <2>2. Cardinality(Holders(held', h)) = Cardinality(Holders(held, h)) - 1
    BY <2>1, HoldersFinite, FS_RemoveElement
  <2> QED BY <1>3, <2>2, HoldersFinite
<1>5. /\ \A x \in Handles : x # h => ent'[x] = ent[x]
      /\ ent'[h] \in Entry
      /\ ent'[h].inode = ent[h].inode /\ ent'[h].dead = ent[h].dead
      /\ ent'[h].refs = ent[h].refs - 1
      /\ ent'[h].closes = IF ent[h].dead /\ ent[h].refs = 1 THEN 1 ELSE 0
  <2>1. /\ \A x \in Handles : x # h => ent'[x] = ent[x]
        /\ ent'[h] = Released(ent[h])
    BY DEF ReadEnd, IInv, TypeOK
  <2> QED BY <1>1, <1>3, <1>4, <2>1 DEF Entry, Live, Released
<1>6. Typed(m', ent', held')
  <2>1. held' \in [Readers -> Handles \cup {None}]
    BY DEF ReadEnd, IInv, TypeOK
  <2>2. ent' \in [Handles -> Entry]
    BY <1>5 DEF ReadEnd, IInv, TypeOK
  <2> QED BY <1>1, <2>1, <2>2 DEF Typed, IInv, TypeOK
<1> HIDE DEF h
<1>c1. \A x \in Handles : ent'[x].refs = Cardinality(Holders(held', x))
  <2> SUFFICES ASSUME NEW x \in Handles, x # h
               PROVE  ent'[x].refs = Cardinality(Holders(held', x))
    BY <1>4, <1>5
  <2>1. Holders(held', x) = Holders(held, x)
    BY <1>2, FdConstants DEF Holders, h
  <2> QED BY <1>5, <2>1 DEF IInv, Core
\* A handle that is closed here was held by r alone and is not in the map.
<1>7. ent'[h].closes = 1 => ent[h].dead /\ Holders(held', h) = {}
  BY <1>4, <1>5, HoldersFinite
<1>c2. \A p \in Paths : m'[p] # None => Live(ent', m'[p]) /\ ~ent'[m'[p]].dead
  BY <1>1, <1>5 DEF IInv, Core, Live, TypeOK
<1>c3. \A p, q \in Paths : m'[p] # None /\ m'[p] = m'[q] => p = q
  BY <1>1 DEF IInv, Core
<1>c4. \A x \in Readers : held'[x] # None => Live(ent', held'[x])
  <2> SUFFICES ASSUME NEW x \in Readers, held'[x] # None
               PROVE  Live(ent', held'[x])
    OBVIOUS
  <2>1. held'[x] = held[x] /\ held[x] \in Handles /\ Live(ent, held[x])
    BY <1>2 DEF IInv, Core, TypeOK
  <2>2. CASE held[x] # h
    BY <1>5, <2>1, <2>2 DEF Live
  <2>3. CASE held[x] = h
    <3>1. x \in Holders(held', h)
      BY <2>1, <2>3 DEF Holders
    <3> QED BY <1>5, <1>7, <2>1, <2>3, <3>1 DEF Live
  <2> QED BY <2>2, <2>3
<1>c5. \A x \in Handles : Live(ent', x) => \/ \E p \in Paths : m'[p] = x
                                           \/ ent'[x].dead /\ ent'[x].refs > 0
  <2> SUFFICES ASSUME NEW x \in Handles, Live(ent', x)
               PROVE  \/ \E p \in Paths : m'[p] = x
                      \/ ent'[x].dead /\ ent'[x].refs > 0
    OBVIOUS
  <2>1. CASE x # h
    <3>1. Live(ent, x)
      BY <1>5, <2>1 DEF Live
    <3> QED BY <1>1, <1>5, <2>1, <3>1 DEF IInv, Core
  <2>2. CASE x = h
    <3>1. ~(ent[h].dead /\ ent[h].refs = 1)
      BY <1>5, <2>2 DEF Live
    <3>2. \/ \E p \in Paths : m[p] = h
          \/ ent[h].dead /\ ent[h].refs > 0
      BY <1>1, <1>3 DEF IInv, Core
    <3>3. ent[h].dead => ent'[h].refs > 0
      BY <1>1, <1>4, <1>5, <3>1 DEF Entry
    <3> QED BY <1>1, <1>5, <2>2, <3>2, <3>3
  <2> QED BY <2>1, <2>2
<1>c6. \A x \in Handles : ent'[x].closes <= 1
  BY <1>5 DEF IInv, Core
<1>c7. \A x \in Handles : ent'[x].inode = 0 => ent'[x].closes = 0 /\ ~ent'[x].dead
  BY <1>3, <1>5 DEF IInv, Core, Live
<1> QED
  BY <1>6, <1>c1, <1>c2, <1>c3, <1>c4, <1>c5, <1>c6, <1>c7 DEF Core

Inv == IInv /\ BoundedMap

LEMMA ShrinkKeepsBound ==
  ASSUME BoundedMap, Cached(m') \subseteq Cached(m)
  PROVE  BoundedMap'
<1>1. IsFiniteSet(Cached(m))
  BY FdFinite, FS_Subset DEF Cached
<1>2. /\ Cardinality(Cached(m')) <= Cardinality(Cached(m))
      /\ Cardinality(Cached(m')) \in Nat /\ Cardinality(Cached(m)) \in Nat
  BY <1>1, FS_Subset, FS_CardinalityType
<1> QED BY <1>2, FdConstants, FdFinite, FS_CardinalityType DEF BoundedMap

LEMMA InitInv == Init => Inv
<1> SUFFICES ASSUME Init PROVE Inv
  OBVIOUS
<1>1. TypeOK
  BY DEF Init, TypeOK, Entry
<1>2. \A h \in Handles : Holders(held, h) = {}
  BY FdConstants DEF Init, Holders
<1>3. \A h \in Handles : ent[h].refs = Cardinality(Holders(held, h))
  BY <1>2, HoldersFinite DEF Init
<1>4. Core(m, ent, held)
  BY <1>3 DEF Init, Core, Live
<1>5. BoundedMap
  <2>1. Cached(m) = {}
    BY DEF Init, Cached
  <2> QED BY <2>1, FS_EmptySet, FdConstants DEF BoundedMap
<1> QED BY <1>1, <1>4, <1>5 DEF Inv, IInv

LEMMA StepInv == Inv /\ [Next]_vars => Inv'
<1> SUFFICES ASSUME Inv, [Next]_vars PROVE Inv'
  OBVIOUS
<1>0. IInv /\ BoundedMap /\ TypeOK
  BY DEF Inv, IInv
<1>1. ASSUME NEW r \in Readers, NEW p \in Paths, ReadHit(r, p) PROVE Inv'
  <2>1. m[p] \in Handles /\ ent[m[p]].inode \in Nat \ {0} /\ held[r] = None
    BY <1>0, <1>1 DEF ReadHit, IInv, TypeOK, Core, Live, Entry
  <2>2. PinAndEvict(r, p, m[p], ent[m[p]].inode)
    BY <1>1 DEF ReadHit
  <2> QED
    BY <1>0, <1>1, <2>1, <2>2, PinAndEvictStep DEF ReadHit, Inv, IInv, TypeOK, Typed
<1>2. ASSUME NEW r \in Readers, NEW p \in Paths, ReadMiss(r, p) PROVE Inv'
  <2> DEFINE h == CHOOSE x \in Unused : TRUE
  <2>1. h \in Unused
    BY <1>2 DEF ReadMiss
  <2>2. h \in Handles /\ ent[h].inode = 0
    BY <2>1 DEF Unused
  <2>3. /\ held[r] = None /\ m[p] = None /\ disk[p] \in Nat \ {0}
        /\ PinAndEvict(r, p, h, disk[p])
    BY <1>0, <1>2 DEF ReadMiss, TypeOK
  <2> HIDE DEF h
  <2> QED
    BY <1>0, <1>2, <2>2, <2>3, PinAndEvictStep DEF ReadMiss, Inv, IInv, TypeOK, Typed
<1>3. ASSUME NEW r \in Readers, ReadEnd(r) PROVE Inv'
  <2>1. Typed(m', ent', held') /\ Core(m', ent', held')
    BY <1>0, <1>3, ReadEndStep
  <2>2. Cached(m') \subseteq Cached(m)
    BY <1>3 DEF ReadEnd
  <2> QED
    BY <1>0, <1>3, <2>1, <2>2, ShrinkKeepsBound DEF ReadEnd, Inv, IInv, TypeOK, Typed
<1>4. ASSUME NEW w \in Removers, NEW p \in Paths, Drop(w, p) PROVE Inv'
  <2>1. /\ Typed(m', ent', held') /\ Core(m', ent', held')
        /\ Cached(m') \subseteq Cached(m)
    BY <1>0, <1>4, RetirePathsStep DEF Drop
  <2> QED
    BY <1>0, <1>4, <2>1, ShrinkKeepsBound DEF Drop, Inv, IInv, TypeOK, Typed
<1>5. ASSUME NEW w \in Removers, NEW d \in Dirs, DropPrefix(w, d) PROVE Inv'
  <2> DEFINE S == {p \in Paths : Dir[p] = d}
  <2>1. RetirePaths(S) /\ S \in SUBSET Paths
    BY <1>5 DEF DropPrefix
  <2>2. /\ Typed(m', ent', held') /\ Core(m', ent', held')
        /\ Cached(m') \subseteq Cached(m)
    BY <1>0, <1>5, <2>1, RetirePathsStep DEF DropPrefix
  <2> QED
    BY <1>0, <1>5, <2>2, ShrinkKeepsBound DEF DropPrefix, Inv, IInv, TypeOK, Typed
<1>6. ASSUME NEW w \in Removers, RemoveBlobs(w) PROVE Inv'
  BY <1>0, <1>6 DEF RemoveBlobs, Inv, IInv, TypeOK, BoundedMap
<1>7. ASSUME NEW p \in Paths, WriteBlob(p) PROVE Inv'
  BY <1>0, <1>7 DEF WriteBlob, Inv, IInv, TypeOK, BoundedMap
<1>8. CASE CloseAll
  <2>1. /\ Typed(m', ent', held') /\ Core(m', ent', held')
        /\ Cached(m') \subseteq Cached(m)
    BY <1>0, <1>8, RetirePathsStep DEF CloseAll
  <2> QED
    BY <1>0, <1>8, <2>1, ShrinkKeepsBound DEF CloseAll, Inv, IInv, TypeOK, Typed
<1>9. CASE UNCHANGED vars
  BY <1>9 DEF vars, Inv, IInv, TypeOK, BoundedMap
<1> QED
  BY <1>1, <1>2, <1>3, <1>4, <1>5, <1>6, <1>7, <1>8, <1>9 DEF Next

LEMMA Invariance == Spec => []Inv
  BY InitInv, StepInv, PTL DEF Spec

\* Type correctness of the handle cache, for every instance.
THEOREM TypeCorrect == Spec => []TypeOK
<1>1. Inv => TypeOK
  BY DEF Inv, IInv
<1> QED BY <1>1, Invariance, PTL

\* storage_fdcache.go:43-45: a concurrent eviction, drop or closeAll cannot
\* close a handle mid-read.
THEOREM ReadsAreSafe == Spec => []NoReadOnClosedHandle
<1>1. Inv => NoReadOnClosedHandle
  BY DEF Inv, IInv, Core, Live, NoReadOnClosedHandle, IsOpen
<1> QED BY <1>1, Invariance, PTL

\* Every open handle is cached or will be closed by the reader that holds it,
\* and none is closed twice.
THEOREM HandlesAreNotLeaked == Spec => []NoHandleLeak
<1>1. Inv => NoHandleLeak
  <2> SUFFICES ASSUME Inv, NEW h \in Handles
               PROVE  /\ IsOpen(h) => \/ \E p \in Paths : m[p] = h
                                      \/ ent[h].dead /\ \E r \in Readers : held[r] = h
                      /\ ent[h].closes <= 1
    BY DEF NoHandleLeak
  <2>1. ent[h].refs > 0 => \E r \in Readers : held[r] = h
    <3>1. ent[h].refs = Cardinality(Holders(held, h))
      BY DEF Inv, IInv, Core
    <3>2. ent[h].refs > 0 => Holders(held, h) # {}
      BY <3>1, HoldersFinite
    <3> QED BY <3>2 DEF Holders
  <2> QED BY <2>1 DEF Inv, IInv, Core, Live, IsOpen
<1> QED BY <1>1, Invariance, PTL

\* storage_fdcache.go:113-116: the overshoot of the map is bounded by the read
\* concurrency.
THEOREM MapIsBounded == Spec => []BoundedMap
<1>1. Inv => BoundedMap
  BY DEF Inv
<1> QED BY <1>1, Invariance, PTL

\* storage_fdcache.go:61-63: the entry a read has just inserted or touched is
\* not the victim of the eviction that follows.
THEOREM OwnEvictionIsSafe == Spec => ReadSurvivesItsOwnEviction
<1> DEFINE A == \A r \in Readers : held[r] = None /\ held'[r] # None
                                  => \E p \in Paths : m'[p] = held'[r]
<1>1. Inv /\ [Next]_vars => [A]_vars
  <2> SUFFICES ASSUME Inv, Next, NEW r \in Readers, held[r] = None, held'[r] # None
               PROVE  \E p \in Paths : m'[p] = held'[r]
    OBVIOUS
  <2>0. IInv /\ TypeOK
    BY DEF Inv, IInv
  <2>1. ASSUME NEW s \in Readers, NEW p \in Paths, ReadHit(s, p)
        PROVE  m'[p] = held'[r]
    <3>1. m[p] \in Handles /\ ent[m[p]].inode \in Nat \ {0} /\ held[s] = None
      BY <2>0, <2>1 DEF ReadHit, IInv, TypeOK, Core, Live, Entry
    <3>2. m'[p] = m[p] /\ held' = [held EXCEPT ![s] = m[p]]
      BY <2>0, <2>1, <3>1, PinAndEvictStep DEF ReadHit
    <3> QED BY <2>0, <3>2 DEF TypeOK
  <2>2. ASSUME NEW s \in Readers, NEW p \in Paths, ReadMiss(s, p)
        PROVE  m'[p] = held'[r]
    <3> DEFINE h == CHOOSE x \in Unused : TRUE
    <3>1. h \in Handles /\ ent[h].inode = 0
      BY <2>2 DEF ReadMiss, Unused
    <3>2. /\ held[s] = None /\ m[p] = None /\ disk[p] \in Nat \ {0}
          /\ PinAndEvict(s, p, h, disk[p])
      BY <2>0, <2>2 DEF ReadMiss, TypeOK
    <3> HIDE DEF h
    <3>3. m'[p] = h /\ held' = [held EXCEPT ![s] = h]
      BY <2>0, <3>1, <3>2, PinAndEvictStep
    <3> QED BY <2>0, <3>3 DEF TypeOK
  <2>3. ASSUME NEW s \in Readers, ReadEnd(s) PROVE FALSE
    BY <2>0, <2>3 DEF ReadEnd, TypeOK
  <2> QED
    BY <2>1, <2>2, <2>3
    DEF Next, Drop, DropPrefix, RemoveBlobs, WriteBlob, CloseAll
<1> QED BY <1>1, Invariance, PTL DEF Spec, ReadSurvivesItsOwnEviction

-----------------------------------------------------------------------------
(***************************************************************************)
(* The cache under the download-all storage.  Each step of DownloadAll is  *)
(* a step of the cache, or leaves the cache alone, or starts it afresh.    *)
(***************************************************************************)

LEMMA NoPaths == PathsOf(None) = {}
  BY FdConstants, DaConstants DEF PathsOf

LEMMA RestartInv ==
  ASSUME Inv, NEW lost, Restart(lost)
  PROVE  Inv'
<1>1. TypeOK'
  BY DEF Restart, Inv, IInv, TypeOK, Entry
<1>2. \A h \in Handles : Holders(held', h) = {}
  BY FdConstants DEF Restart, Holders
<1>3. \A h \in Handles : ent'[h].refs = Cardinality(Holders(held', h))
  BY <1>2, HoldersFinite DEF Restart
<1>4. Core(m', ent', held')
  BY <1>3 DEF Restart, Core, Live
<1>5. BoundedMap'
  <2>1. Cached(m') = {}
    BY DEF Restart, Cached
  <2> QED BY <2>1, FS_EmptySet, FdConstants DEF BoundedMap
<1> QED BY <1>1, <1>4, <1>5 DEF Inv, IInv

LEMMA CacheSteps ==
  ASSUME DaNext
  PROVE  [Next]_vars \/ \E lost \in SUBSET MayLose : Restart(lost)
<1>1. ASSUME NEW w \in Removers, CloseHandles(w) PROVE [Next]_vars
  <2>1. CASE PathsOf(call[w].dir) = {}
    BY <1>1, <2>1 DEF CloseHandles
  <2>2. CASE PathsOf(call[w].dir) # {}
    <3>1. call[w].dir \in Dirs
      BY <2>2, FdConstants DEF PathsOf
    <3> QED BY <1>1, <2>2, <3>1 DEF CloseHandles, Next
  <2> QED BY <2>1, <2>2
<1>2. ASSUME NEW w \in Removers, RemoveDir(w) PROVE [Next]_vars
  BY <1>2 DEF RemoveDir, Next
<1>3. ASSUME NEW w \in Removers, NEW p \in Paths, MarkNotComplete(w, p)
      PROVE  [Next]_vars
  BY <1>3 DEF MarkNotComplete, Next
<1>4. ASSUME NEW r \in Readers, NEW p \in Paths, ReadAt(r, p) PROVE [Next]_vars
  BY <1>4 DEF ReadAt, Next
<1>5. ASSUME NEW r \in Readers, ReadReturns(r) PROVE [Next]_vars
  BY <1>5 DEF ReadReturns, Next
<1>6. ASSUME NEW p \in Paths, WriteAt(p) PROVE [Next]_vars
  BY <1>6 DEF WriteAt, Next
<1>7. ASSUME NEW w \in Removers, RemoveBlob(w) PROVE [Next]_vars
  BY <1>7 DEF RemoveBlob, Next
<1>8. CASE Close
  BY <1>8 DEF Close, Next
<1>9. ASSUME NEW d \in Dirs, OpenTorrent(d) PROVE UNCHANGED vars
  BY <1>9 DEF OpenTorrent
<1>10. ASSUME NEW p \in Paths, NEW good \in BOOLEAN, WriteLast(p, good)
       PROVE  UNCHANGED vars
  BY <1>10 DEF WriteLast
<1>11. ASSUME NEW w \in Removers, NEW p \in Paths, HashMatches(w, p)
       PROVE  UNCHANGED vars
  BY <1>11 DEF HashMatches
<1>12. ASSUME NEW w \in Removers, MarkComplete(w) \/ ClearCompletion(w) \/ ForgetCompletion(w)
       PROVE  UNCHANGED vars
  BY <1>12 DEF MarkComplete, ClearCompletion, ForgetCompletion
<1>13. ASSUME NEW w \in Removers, NEW d \in Dirs, DropTorrent(w, d)
       PROVE  UNCHANGED vars
  BY <1>13 DEF DropTorrent
<1> QED
  BY <1>1, <1>2, <1>3, <1>4, <1>5, <1>6, <1>7, <1>8, <1>9, <1>10, <1>11, <1>12, <1>13
  DEF DaNext

LEMMA InvNames == Inv => TypeOK /\ NoReadOnClosedHandle /\ NoHandleLeak /\ BoundedMap
<1> SUFFICES ASSUME Inv
             PROVE  TypeOK /\ NoReadOnClosedHandle /\ NoHandleLeak /\ BoundedMap
  OBVIOUS
<1>1. NoReadOnClosedHandle
  BY DEF Inv, IInv, Core, Live, NoReadOnClosedHandle, IsOpen
<1>2. ASSUME NEW h \in Handles
      PROVE  /\ IsOpen(h) => \/ \E p \in Paths : m[p] = h
                             \/ ent[h].dead /\ \E r \in Readers : held[r] = h
             /\ ent[h].closes <= 1
  <2>1. ent[h].refs > 0 => \E r \in Readers : held[r] = h
    <3>1. ent[h].refs = Cardinality(Holders(held, h))
      BY DEF Inv, IInv, Core
    <3>2. ent[h].refs > 0 => Holders(held, h) # {}
      BY <3>1, HoldersFinite
    <3> QED BY <3>2 DEF Holders
  <2> QED BY <2>1 DEF Inv, IInv, Core, Live, IsOpen
<1> QED BY <1>1, <1>2 DEF Inv, IInv, NoHandleLeak

LEMMA DaStepInv == Inv /\ [DaNext]_daVars => Inv'
  BY CacheSteps, RestartInv, StepInv DEF daVars, vars

\* Whatever the storage, its client, a restart or a lost blob does, the cache
\* keeps its promises: no read on a closed handle, no leaked handle, a bounded
\* map (storage_downloadall.go: DropTorrent, MarkNotComplete and Close over the
\* cache of storage_fdcache.go).
THEOREM CacheIsSafeUnderStorage ==
  DaSpec => [](TypeOK /\ NoReadOnClosedHandle /\ NoHandleLeak /\ BoundedMap)
<1>1. DaInit => Inv
  BY InitInv DEF DaInit
<1> QED BY <1>1, DaStepInv, InvNames, PTL DEF DaSpec

-----------------------------------------------------------------------------
(***************************************************************************)
(* What the storage promises, when a drop is the only call on its torrent  *)
(* (~Overlap).  A call owns pieces, no piece has two owners, and CallOk    *)
(* says what each call may rely on from one of its steps to the next.      *)
(***************************************************************************)
OwnsOf(c) == c.keys \cup PathsOf(c.dir)
Apart == \A w, v \in Removers : w # v => OwnsOf(call[w]) \cap OwnsOf(call[v]) = {}

Calls == [pc : {"idle", "set", "remove", "unset", "close", "forget", "rmdir"},
          keys : SUBSET Paths, dir : Dirs \cup {None}]

DaTypes ==
  /\ open \in SUBSET Dirs /\ numPieces \in SUBSET Dirs
  /\ belief \in SUBSET Paths /\ verify = {} /\ bolt \in SUBSET Paths
  /\ content \in [1..MaxInode -> {"part", "good", "bad"}]
  /\ call \in [Removers -> Calls]
  /\ disk \in [Paths -> 0..MaxInode] /\ lastInode \in 0..MaxInode
  /\ removing \in [Removers -> SUBSET Paths]

\* The client believes what bolt says of an open torrent.
BeliefFollows == \A p \in bolt : Dir[p] \in open => p \in belief

Unlinking(c) ==
  CASE c.pc = "remove" -> c.keys
    [] c.pc \in {"forget", "rmdir"} -> PathsOf(c.dir)
    [] OTHER -> {}

CallOk(w) ==
  LET c == call[w] IN
  /\ c.pc = "idle" => c = NoCall
  /\ c.pc \in {"set", "remove", "unset"} => c.dir = None
  /\ c.pc \in {"close", "forget", "rmdir"} => c.dir \in Dirs \ open /\ c.keys \subseteq PathsOf(c.dir)
  /\ removing[w] = Unlinking(c)
  /\ c.pc \in {"remove", "unset"} => c.keys \cap bolt = {}
  /\ c.pc \in {"set", "remove"} => \A p \in c.keys : disk[p] # 0
  /\ c.pc = "remove" => \A p \in c.keys : content[disk[p]] # "part"

DaInv == DaTypes /\ Apart /\ BeliefFollows /\ \A w \in Removers : CallOk(w)


LEMMA OwnersAreBusy ==
  ASSUME NEW p \in Paths
  PROVE  Busy(p) <=> \E w \in Removers : p \in OwnsOf(call[w])
  BY DEF Busy, OwnsOf, PathsOf

\* A call keeps what it relies on through a step of another call that leaves
\* its pieces alone.
LEMMA CallKept ==
  ASSUME DaTypes, NEW v \in Removers, CallOk(v),
         call'[v] = call[v], removing'[v] = removing[v],
         call[v].dir \in open' => call[v].dir \in open,
         \A p \in OwnsOf(call[v]) : /\ p \in bolt' => p \in bolt
                                    /\ disk[p] # 0 => disk'[p] = disk[p],
         \A i \in 1..MaxInode : content[i] # "part" => content'[i] # "part"
  PROVE  CallOk(v)'
<1>1. call[v] \in Calls /\ call[v].keys \subseteq OwnsOf(call[v])
  BY DEF DaTypes, OwnsOf
<1>2. \A p \in Paths : disk[p] # 0 => disk[p] \in 1..MaxInode
  BY DaConstants, FdConstants DEF DaTypes
<1>3. Unlinking(call[v])' = Unlinking(call[v])
  BY DEF Unlinking, PathsOf
<1>4. call[v].pc \in {"remove", "unset"} => call[v].keys \cap bolt' = {}
  BY <1>1 DEF CallOk
<1>5. call[v].pc \in {"set", "remove"} => \A p \in call[v].keys : disk'[p] # 0
  BY <1>1 DEF CallOk
<1>6. call[v].pc = "remove" => \A p \in call[v].keys : content'[disk'[p]] # "part"
  BY <1>1, <1>2 DEF CallOk, Calls
<1>7. call[v].pc \in {"close", "forget", "rmdir"} =>
        call[v].dir \in Dirs \ open' /\ call[v].keys \subseteq PathsOf(call[v].dir)
  BY DEF CallOk
<1> QED BY <1>3, <1>4, <1>5, <1>6, <1>7 DEF CallOk, NoCall, Unlinking, PathsOf

\* A call that takes free pieces, or none but its own, leaves the others alone.
LEMMA StaysApart ==
  ASSUME DaTypes, Apart, NEW w \in Removers, NEW c \in Calls,
         call' = [call EXCEPT ![w] = c],
         \A p \in OwnsOf(c) : p \in OwnsOf(call[w]) \/ ~Busy(p)
  PROVE  Apart' /\ call' \in [Removers -> Calls]
<1>1. \A v \in Removers : call'[v] = IF v = w THEN c ELSE call[v]
  BY DEF DaTypes
<1>2. OwnsOf(c) \subseteq Paths
  BY DEF OwnsOf, Calls, PathsOf
<1>3. \A v \in Removers \ {w} : OwnsOf(c) \cap OwnsOf(call[v]) = {}
  BY <1>2, OwnersAreBusy DEF Apart
<1>4. ASSUME NEW v \in Removers, NEW u \in Removers, v # u
      PROVE  OwnsOf(call'[v]) \cap OwnsOf(call'[u]) = {}
  BY <1>1, <1>3, <1>4 DEF Apart
<1>5. Apart'
  BY <1>4 DEF Apart, OwnsOf, PathsOf
<1> QED BY <1>5 DEF DaTypes

LEMMA NoCallIsFree == NoCall \in Calls /\ OwnsOf(NoCall) = {}
  BY NoPaths DEF NoCall, Calls, OwnsOf

\* No action but Restart touches more than one call, so the invariant follows
\* from what the step does to that call, and from CallKept for the rest.
LEMMA OneCallMoves ==
  ASSUME DaInv, DaTypes', BeliefFollows', NEW w \in Removers, NEW c \in Calls,
         call' = [call EXCEPT ![w] = c],
         \A p \in OwnsOf(c) : p \in OwnsOf(call[w]) \/ ~Busy(p),
         CallOk(w)',
         \A v \in Removers \ {w} : removing'[v] = removing[v],
         \A d \in open' : d \in open,
         \A p \in Paths : \/ p \in OwnsOf(call[w]) \/ p \in OwnsOf(c)
                          \/ /\ p \in bolt' => p \in bolt
                             /\ disk[p] # 0 => disk'[p] = disk[p],
         content' = content
  PROVE  DaInv'
<1>1. Apart'
  BY StaysApart DEF DaInv
<1>2. ASSUME NEW v \in Removers \ {w} PROVE CallOk(v)'
  <2>1. call'[v] = call[v] /\ call[v] \in Calls
    BY DEF DaInv, DaTypes
  <2>2. OwnsOf(call[v]) \subseteq Paths /\ OwnsOf(call[v]) \cap OwnsOf(call[w]) = {}
    BY <2>1 DEF DaInv, Apart, OwnsOf, Calls, PathsOf
  <2>3. OwnsOf(call[v]) \cap OwnsOf(c) = {}
    BY <2>2, OwnersAreBusy
  <2> QED BY <2>1, <2>2, <2>3, CallKept DEF DaInv
<1> QED BY <1>1, <1>2 DEF DaInv

\* A step that makes no call move.
LEMMA NoCallMoves ==
  ASSUME DaInv, DaTypes', BeliefFollows', UNCHANGED <<call, removing>>,
         \A v \in Removers : call[v].dir \in open' => call[v].dir \in open,
         bolt' = bolt,
         \A p \in Paths : disk[p] # 0 => disk'[p] = disk[p],
         \A i \in 1..MaxInode : content[i] # "part" => content'[i] # "part"
  PROVE  DaInv'
<1>1. Apart'
  BY DEF DaInv, Apart, OwnsOf, PathsOf
<1>2. ASSUME NEW v \in Removers PROVE CallOk(v)'
  <2>1. call[v] \in Calls
    BY DEF DaInv, DaTypes
  <2>2. OwnsOf(call[v]) \subseteq Paths
    BY <2>1 DEF OwnsOf, Calls, PathsOf
  <2> QED BY <2>1, <2>2, CallKept DEF DaInv
<1> QED BY <1>1, <1>2 DEF DaInv

LEMMA InitDaInv == DaInit => DaInv
<1> SUFFICES ASSUME DaInit PROVE DaInv
  OBVIOUS
<1>1. DaTypes
  BY NoCallIsFree, FdConstants DEF DaInit, Init, DaTypes
<1>2. Apart
  BY NoCallIsFree DEF DaInit, Apart
<1>3. \A w \in Removers : CallOk(w)
  BY DEF DaInit, Init, CallOk, NoCall, Unlinking
<1> QED BY <1>1, <1>2, <1>3 DEF DaInit, DaInv, BeliefFollows

LEMMA OpenTorrentKeeps ==
  ASSUME DaInv, ~Overlap, NEW d \in Dirs, OpenTorrent(d)
  PROVE  DaInv'
<1>1. DaTypes'
  BY DEF OpenTorrent, DaInv, DaTypes, Completion, PathsOf, vars
<1>2. BeliefFollows'
  BY DEF OpenTorrent, DaInv, DaTypes, BeliefFollows, Completion, PathsOf
<1>3. \A v \in Removers : call[v].dir \in open' => call[v].dir \in open
  BY DEF OpenTorrent, Dropping
<1> QED BY <1>1, <1>2, <1>3, NoCallMoves DEF OpenTorrent, vars

LEMMA WritesKeep ==
  ASSUME DaInv,
         \/ \E p \in Paths : WriteAt(p)
         \/ \E p \in Paths, good \in BOOLEAN : WriteLast(p, good)
  PROVE  DaInv'
<1>1. ASSUME NEW p \in Paths, WriteAt(p) PROVE DaInv'
  <2>1. DaTypes'
    BY <1>1, FdConstants DEF WriteAt, WriteBlob, DaInv, DaTypes, clientVars, boltVars
  <2>2. BeliefFollows'
    BY <1>1 DEF WriteAt, DaInv, BeliefFollows, clientVars, boltVars
  <2>3. \A q \in Paths : disk[q] # 0 => disk'[q] = disk[q]
    BY <1>1 DEF WriteAt, WriteBlob, DaInv, DaTypes
  <2> QED BY <1>1, <2>1, <2>2, <2>3, NoCallMoves
          DEF WriteAt, WriteBlob, clientVars, boltVars
<1>2. ASSUME NEW p \in Paths, NEW good \in BOOLEAN, WriteLast(p, good) PROVE DaInv'
  <2>1. DaTypes'
    BY <1>2 DEF WriteLast, DaInv, DaTypes, clientVars, boltVars, vars
  <2>2. BeliefFollows'
    BY <1>2 DEF WriteLast, DaInv, BeliefFollows, clientVars, boltVars
  <2>3. \A i \in 1..MaxInode : content[i] # "part" => content'[i] # "part"
    BY <1>2 DEF WriteLast, DaInv, DaTypes
  <2> QED BY <1>2, <2>1, <2>2, <2>3, NoCallMoves
          DEF WriteLast, clientVars, boltVars, vars
<1> QED BY <1>1, <1>2

LEMMA ReadsKeep ==
  ASSUME DaInv,
         \/ \E r \in Readers, p \in Paths : ReadAt(r, p)
         \/ \E r \in Readers : ReadReturns(r)
         \/ Close
  PROVE  DaInv'
<1>1. UNCHANGED <<disk, lastInode, removing, clientVars, boltVars, content, call>>
  BY DEF ReadAt, ReadHit, ReadMiss, ReadReturns, ReadEnd, Close, CloseAll
<1>2. DaTypes' /\ BeliefFollows'
  BY <1>1 DEF DaInv, DaTypes, BeliefFollows, clientVars, boltVars
<1> QED BY <1>1, <1>2, NoCallMoves DEF clientVars, boltVars

LEMMA HashKeeps ==
  ASSUME DaInv, NEW w \in Removers, NEW p \in Paths,
         HashMatches(w, p) \/ MarkNotComplete(w, p)
  PROVE  DaInv'
<1> DEFINE c(pc) == [pc |-> pc, keys |-> {p}, dir |-> None]
<1>0. /\ verify = {} /\ ~Busy(p) /\ p \notin belief /\ Dir[p] \in open
      /\ disk[p] # 0 /\ content[disk[p]] # "part" /\ p \notin bolt
  BY DEF HashMatches, MarkNotComplete, Hashable, DaInv, DaTypes, BeliefFollows
<1>1. /\ c("set") = [pc |-> "set", keys |-> {p}, dir |-> None]
      /\ c("remove") = [pc |-> "remove", keys |-> {p}, dir |-> None]
      /\ c("set") \in Calls /\ c("remove") \in Calls
  BY DEF Calls
<1>2. OwnsOf(c("set")) = {p} /\ OwnsOf(c("remove")) = {p}
  BY <1>1, NoPaths DEF OwnsOf
<1> HIDE DEF c
<1>3. CASE HashMatches(w, p)
  <2>1. call' = [call EXCEPT ![w] = c("set")] /\ call'[w] = c("set")
    BY <1>3 DEF HashMatches, Call, c, DaInv, DaTypes
  <2>2. UNCHANGED <<vars, open, belief, verify, boltVars, content>>
    BY <1>0, <1>3 DEF HashMatches
  <2>3. DaTypes' /\ BeliefFollows'
    BY <1>1, <2>1, <2>2 DEF DaInv, DaTypes, BeliefFollows, vars, boltVars
  <2>4. removing[w] = {}
    BY <1>3 DEF HashMatches, DaInv, CallOk, NoCall, Unlinking
  <2>5. CallOk(w)'
    BY <1>0, <1>1, <2>1, <2>2, <2>4 DEF CallOk, Unlinking, vars, boltVars
  <2> QED BY <1>0, <1>1, <1>2, <2>1, <2>2, <2>3, <2>5, OneCallMoves DEF vars, boltVars
<1>4. CASE MarkNotComplete(w, p)
  <2>1. call' = [call EXCEPT ![w] = c("remove")] /\ call'[w] = c("remove")
    BY <1>4 DEF MarkNotComplete, Call, c, DaInv, DaTypes
  <2>2. /\ UNCHANGED <<disk, lastInode, open, belief, verify, boltVars, content>>
        /\ removing' = [removing EXCEPT ![w] = {p}]
    BY <1>0, <1>4 DEF MarkNotComplete, Drop
  <2>3. DaTypes' /\ BeliefFollows'
    BY <1>1, <2>1, <2>2 DEF DaInv, DaTypes, BeliefFollows, boltVars
  <2>4. removing'[w] = {p} /\ \A v \in Removers \ {w} : removing'[v] = removing[v]
    BY <2>2 DEF DaInv, DaTypes
  <2>5. CallOk(w)'
    BY <1>0, <1>1, <2>1, <2>2, <2>4 DEF CallOk, Unlinking, boltVars
  <2> QED BY <1>0, <1>1, <1>2, <2>1, <2>2, <2>3, <2>4, <2>5, OneCallMoves DEF boltVars
<1> QED BY <1>3, <1>4

\* The facts every later step of a call has.
LEMMA OwnPieces ==
  ASSUME DaInv, NEW w \in Removers
  PROVE  /\ call[w] \in Calls /\ CallOk(w)
         /\ \A pc \in {"set", "remove", "unset", "close", "forget", "rmdir"} :
              LET c == [call[w] EXCEPT !.pc = pc] IN
              /\ c \in Calls /\ OwnsOf(c) = OwnsOf(call[w])
              /\ c = [pc |-> pc, keys |-> call[w].keys, dir |-> call[w].dir]
         /\ \A p \in Paths : p \in call[w].keys => p \in OwnsOf(call[w])
         /\ \A p \in Paths : p \in PathsOf(call[w].dir) => p \in OwnsOf(call[w])
  BY DEF DaInv, DaTypes, Calls, OwnsOf

LEMMA MarkCompleteKeeps ==
  ASSUME DaInv, NEW w \in Removers, MarkComplete(w)
  PROVE  DaInv'
<1>1. /\ call' = [call EXCEPT ![w] = NoCall] /\ call'[w] = NoCall
      /\ UNCHANGED <<vars, open, verify, numPieces, content>>
      /\ bolt' = bolt \cup call[w].keys
  BY DEF MarkComplete, Call, DaInv, DaTypes
<1>2. DaTypes'
  BY <1>1, NoCallIsFree, OwnPieces DEF MarkComplete, DaInv, DaTypes, Calls, vars
<1>3. BeliefFollows'
  BY <1>1 DEF MarkComplete, DaInv, BeliefFollows
<1>4. removing[w] = {}
  BY OwnPieces DEF MarkComplete, CallOk, Unlinking
<1>5. CallOk(w)'
  BY <1>1, <1>4 DEF CallOk, Unlinking, NoCall, vars
<1>6. \A p \in Paths : \/ p \in OwnsOf(call[w])
                       \/ p \in bolt' => p \in bolt
  BY <1>1, OwnPieces
<1> QED BY <1>1, <1>2, <1>3, <1>5, <1>6, NoCallIsFree, OneCallMoves DEF vars

LEMMA MarkNotCompleteKeeps ==
  ASSUME DaInv, NEW w \in Removers, RemoveBlob(w) \/ ClearCompletion(w)
  PROVE  DaInv'
<1>1. CASE RemoveBlob(w)
  <2> DEFINE c == [call[w] EXCEPT !.pc = "unset"]
  <2>1. /\ call' = [call EXCEPT ![w] = c] /\ call'[w] = c
        /\ UNCHANGED <<lastInode, clientVars, boltVars, content>>
        /\ disk' = [p \in Paths |-> IF p \in removing[w] THEN 0 ELSE disk[p]]
        /\ removing' = [removing EXCEPT ![w] = {}]
    BY <1>1 DEF RemoveBlob, RemoveBlobs, Call, DaInv, DaTypes
  <2>2. /\ c \in Calls /\ OwnsOf(c) = OwnsOf(call[w])
        /\ c = [pc |-> "unset", keys |-> call[w].keys, dir |-> call[w].dir]
        /\ call[w].pc = "remove"
    BY <1>1, OwnPieces DEF RemoveBlob
  <2> HIDE DEF c
  <2>3. DaTypes' /\ BeliefFollows'
    BY <2>1, <2>2, FdConstants
    DEF DaInv, DaTypes, BeliefFollows, clientVars, boltVars
  <2>4. removing[w] = call[w].keys /\ removing'[w] = {}
        /\ \A v \in Removers \ {w} : removing'[v] = removing[v]
    BY <2>1, <2>2, OwnPieces DEF CallOk, Unlinking, DaInv, DaTypes
  <2>5. call[w].dir = None /\ call[w].keys \cap bolt = {}
    BY <2>2, OwnPieces DEF CallOk
  <2>6. CallOk(w)'
    BY <2>1, <2>2, <2>4, <2>5 DEF CallOk, Unlinking, boltVars
  <2>7. \A p \in Paths : p \in OwnsOf(call[w]) \/ disk'[p] = disk[p]
    BY <2>1, <2>4, OwnPieces
  <2> QED BY <2>1, <2>2, <2>3, <2>4, <2>6, <2>7, OneCallMoves DEF clientVars, boltVars
<1>2. CASE ClearCompletion(w)
  <2>1. /\ call' = [call EXCEPT ![w] = NoCall] /\ call'[w] = NoCall
        /\ UNCHANGED <<vars, clientVars, numPieces, content>>
        /\ bolt' = bolt \ call[w].keys /\ call[w].pc = "unset"
    BY <1>2 DEF ClearCompletion, Call, DaInv, DaTypes
  <2>2. DaTypes' /\ BeliefFollows'
    BY <2>1, NoCallIsFree DEF DaInv, DaTypes, BeliefFollows, vars, clientVars
  <2>3. removing[w] = {}
    BY <2>1, OwnPieces DEF CallOk, Unlinking
  <2>4. CallOk(w)'
    BY <2>1, <2>3 DEF CallOk, Unlinking, NoCall, vars
  <2> QED BY <2>1, <2>2, <2>4, NoCallIsFree, OneCallMoves DEF vars, clientVars
<1> QED BY <1>1, <1>2

LEMMA OwnUnlinks ==
  ASSUME DaInv, NEW w \in Removers
  PROVE  /\ call[w].pc \in {"idle", "set", "unset", "close"} => removing[w] = {}
         /\ call[w].pc = "remove" => removing[w] = call[w].keys
         /\ call[w].pc \in {"forget", "rmdir"} => removing[w] = PathsOf(call[w].dir)
<1>1. removing[w] = Unlinking(call[w])
  BY DEF DaInv, CallOk
<1> QED BY <1>1 DEF Unlinking

\* CallOk of a drop, from the record it is in after the step.
LEMMA DropIsOk ==
  ASSUME NEW w \in Removers, NEW pc \in {"close", "forget", "rmdir"}, NEW keys, NEW d \in Dirs,
         call'[w] = [pc |-> pc, keys |-> keys, dir |-> d],
         d \notin open', keys \subseteq PathsOf(d),
         removing'[w] = IF pc = "close" THEN {} ELSE PathsOf(d)
  PROVE  CallOk(w)'
<1>1. /\ call'[w].pc = pc /\ call'[w].keys = keys /\ call'[w].dir = d
      /\ pc # "idle" /\ pc \notin {"set", "remove", "unset"}
  OBVIOUS
<1>2. removing'[w] = CASE pc = "remove" -> keys
                       [] pc \in {"forget", "rmdir"} -> PathsOf(d)
                       [] OTHER -> {}
  OBVIOUS
<1> QED BY <1>1, <1>2 DEF CallOk, Unlinking, PathsOf

LEMMA DropTorrentKeeps ==
  ASSUME DaInv, ~Overlap, NEW w \in Removers, NEW d \in Dirs, DropTorrent(w, d)
  PROVE  DaInv'
<1> DEFINE c == [pc |-> "close", keys |-> IF d \in numPieces THEN PathsOf(d) ELSE {},
                 dir |-> d]
<1>1. /\ call' = [call EXCEPT ![w] = c] /\ call'[w] = c
      /\ UNCHANGED <<vars, bolt, content>> /\ open' = open \ {d}
      /\ belief' = belief \ PathsOf(d) /\ verify' = verify \ PathsOf(d)
      /\ numPieces' = numPieces \ {d}
  BY DEF DropTorrent, Call, DaInv, DaTypes
<1>2. /\ c.pc = "close" /\ c.dir = d /\ c.keys \subseteq PathsOf(d) /\ c \in Calls
      /\ OwnsOf(c) \subseteq PathsOf(d)
  BY DEF Calls, PathsOf, OwnsOf
<1> HIDE DEF c
<1>3. DaTypes' /\ BeliefFollows'
  BY <1>1, <1>2 DEF DaInv, DaTypes, BeliefFollows, PathsOf, vars
<1>4. \A p \in OwnsOf(c) : p \in OwnsOf(call[w]) \/ ~Busy(p)
  BY <1>2 DEF DropTorrent
<1>5. removing[w] = {}
  BY OwnUnlinks DEF DropTorrent, NoCall
<1>6. CallOk(w)'
  <2>1. removing'[w] = {} /\ call'[w] = c /\ d \notin open'
    BY <1>1, <1>5 DEF vars
  <2>2. c = [pc |-> "close", keys |-> c.keys, dir |-> d]
    BY DEF c
  <2> QED BY <1>2, <2>1, <2>2, DropIsOk
<1> QED BY <1>1, <1>2, <1>3, <1>4, <1>6, OneCallMoves DEF vars

LEMMA DropStepsKeep ==
  ASSUME DaInv, NEW w \in Removers,
         CloseHandles(w) \/ ForgetCompletion(w) \/ RemoveDir(w)
  PROVE  DaInv'
<1> DEFINE d == call[w].dir
<1>0. /\ call[w] \in Calls /\ d \in Dirs \ open /\ call[w].keys \subseteq PathsOf(d)
      /\ PathsOf(d) \in SUBSET Paths
  BY OwnPieces DEF CloseHandles, ForgetCompletion, RemoveDir, CallOk, PathsOf
<1>1. CASE CloseHandles(w)
  <2> DEFINE c == [call[w] EXCEPT !.pc = "forget"]
  <2>1. /\ call' = [call EXCEPT ![w] = c] /\ call'[w] = c
        /\ UNCHANGED <<disk, lastInode, clientVars, boltVars, content>>
    BY <1>1 DEF CloseHandles, DropPrefix, Call, DaInv, DaTypes, vars
  <2>2. /\ c \in Calls /\ OwnsOf(c) = OwnsOf(call[w])
        /\ c = [pc |-> "forget", keys |-> call[w].keys, dir |-> d]
    BY OwnPieces
  <2>3. removing' = [removing EXCEPT ![w] = PathsOf(d)]
    <3>1. CASE PathsOf(d) = {}
      <4>1. removing[w] = {} /\ removing' = removing
        BY <1>1, <3>1, OwnUnlinks DEF CloseHandles, vars
      <4> QED BY <3>1, <4>1 DEF DaInv, DaTypes
    <3>2. CASE PathsOf(d) # {}
      BY <1>1, <3>2 DEF CloseHandles, DropPrefix, PathsOf
    <3> QED BY <3>1, <3>2
  <2> HIDE DEF c
  <2>4. removing'[w] = PathsOf(d) /\ \A v \in Removers \ {w} : removing'[v] = removing[v]
    BY <2>3 DEF DaInv, DaTypes
  <2>5. DaTypes' /\ BeliefFollows'
    BY <1>0, <2>1, <2>2, <2>3 DEF DaInv, DaTypes, BeliefFollows, clientVars, boltVars
  <2>6. CallOk(w)'
    BY <1>0, <2>1, <2>2, <2>4, DropIsOk DEF clientVars
  <2> QED BY <2>1, <2>2, <2>4, <2>5, <2>6, OneCallMoves DEF clientVars, boltVars
<1>2. CASE ForgetCompletion(w)
  <2> DEFINE c == [call[w] EXCEPT !.pc = "rmdir"]
  <2>1. /\ call' = [call EXCEPT ![w] = c] /\ call'[w] = c
        /\ UNCHANGED <<vars, clientVars, numPieces, content>>
        /\ bolt' = bolt \ call[w].keys
    BY <1>2 DEF ForgetCompletion, Forgotten, Call, DaInv, DaTypes
  <2>2. /\ c \in Calls /\ OwnsOf(c) = OwnsOf(call[w])
        /\ c = [pc |-> "rmdir", keys |-> call[w].keys, dir |-> d]
    BY OwnPieces
  <2> HIDE DEF c
  <2>3. DaTypes' /\ BeliefFollows'
    BY <2>1, <2>2 DEF DaInv, DaTypes, BeliefFollows, clientVars, vars
  <2>4. removing'[w] = PathsOf(d)
    BY <1>2, <2>1, OwnUnlinks DEF ForgetCompletion, vars
  <2>5. CallOk(w)'
    BY <1>0, <2>1, <2>2, <2>4, DropIsOk DEF clientVars
  <2> QED BY <2>1, <2>2, <2>3, <2>5, OneCallMoves DEF clientVars, vars
<1>3. CASE RemoveDir(w)
  <2>1. /\ call' = [call EXCEPT ![w] = NoCall] /\ call'[w] = NoCall
        /\ UNCHANGED <<lastInode, clientVars, boltVars, content>>
    BY <1>3 DEF RemoveDir, RemoveBlobs, Call, DaInv, DaTypes, vars
  <2>2. removing[w] = PathsOf(d)
    BY <1>3, OwnUnlinks DEF RemoveDir
  <2>3. /\ removing' = [removing EXCEPT ![w] = {}]
        /\ disk' = [p \in Paths |-> IF p \in PathsOf(d) THEN 0 ELSE disk[p]]
    <3>1. CASE PathsOf(d) = {}
      <4>1. removing' = removing /\ disk' = disk
        BY <1>3, <3>1 DEF RemoveDir, vars
      <4> QED BY <2>2, <3>1, <4>1 DEF DaInv, DaTypes
    <3>2. CASE PathsOf(d) # {}
      BY <1>3, <2>2, <3>2 DEF RemoveDir, RemoveBlobs
    <3> QED BY <3>1, <3>2
  <2>4. removing'[w] = {} /\ \A v \in Removers \ {w} : removing'[v] = removing[v]
    BY <2>3 DEF DaInv, DaTypes
  <2>5. DaTypes' /\ BeliefFollows'
    BY <2>1, <2>3, NoCallIsFree, FdConstants
    DEF DaInv, DaTypes, BeliefFollows, clientVars, boltVars
  <2>6. CallOk(w)'
    BY <2>1, <2>4 DEF CallOk, Unlinking, NoCall
  <2>7. \A p \in Paths : p \in OwnsOf(call[w]) \/ disk'[p] = disk[p]
    BY <2>3, OwnPieces
  <2> QED BY <2>1, <2>4, <2>5, <2>6, <2>7, NoCallIsFree, OneCallMoves
          DEF clientVars, boltVars
<1> QED BY <1>1, <1>2, <1>3

LEMMA RestartKeeps ==
  ASSUME DaInv, NEW lost, Restart(lost)
  PROVE  DaInv'
<1>1. DaTypes'
  BY NoCallIsFree, FdConstants DEF Restart, DaInv, DaTypes
<1>2. Apart'
  BY NoPaths DEF Restart, Apart, OwnsOf, PathsOf, NoCall
<1>3. \A w \in Removers : CallOk(w)'
  BY DEF Restart, CallOk, NoCall, Unlinking
<1> QED BY <1>1, <1>2, <1>3 DEF Restart, DaInv, BeliefFollows

LEMMA StepDaInv == ~Overlap /\ DaInv /\ [DaNext]_daVars => DaInv'
<1> SUFFICES ASSUME ~Overlap, DaInv, [DaNext]_daVars PROVE DaInv'
  OBVIOUS
<1>1. CASE UNCHANGED daVars
  BY <1>1 DEF daVars, vars, clientVars, boltVars, DaInv, DaTypes, Apart, BeliefFollows,
              CallOk, OwnsOf, PathsOf, Unlinking
<1> QED
  BY <1>1, OpenTorrentKeeps, WritesKeep, ReadsKeep, HashKeeps, MarkCompleteKeeps,
     MarkNotCompleteKeeps, DropTorrentKeeps, DropStepsKeep, RestartKeeps DEF DaNext

\* What unlinks a blob: a drop of its torrent, or the hash of a piece that was
\* not banked and had all its chunks.
LEMMA UnlinksAreRight ==
  ASSUME DaInv, MayLose = {}, DaNext, NEW p \in Paths, disk[p] # 0, disk'[p] = 0
  PROVE  \/ Dropping(Dir[p])
         \/ p \notin bolt /\ content[disk[p]] # "part"
<1>1. ASSUME NEW w \in Removers, RemoveBlob(w)
      PROVE  p \notin bolt /\ content[disk[p]] # "part"
  <2>1. p \in removing[w] /\ call[w].pc = "remove"
    BY <1>1 DEF RemoveBlob, RemoveBlobs
  <2> QED BY <2>1, OwnPieces DEF CallOk, Unlinking
<1>2. ASSUME NEW w \in Removers, RemoveDir(w)
      PROVE  Dropping(Dir[p])
  <2>1. p \in removing[w] /\ call[w].pc = "rmdir"
    BY <1>2 DEF RemoveDir, RemoveBlobs, vars
  <2>2. p \in PathsOf(call[w].dir)
    BY <2>1, OwnUnlinks
  <2> QED BY <2>2 DEF Dropping, PathsOf
<1>3. ASSUME NEW lost \in SUBSET MayLose, Restart(lost) PROVE FALSE
  BY <1>3 DEF Restart
<1>4. ASSUME NEW q \in Paths, WriteAt(q) PROVE FALSE
  BY <1>4 DEF WriteAt, WriteBlob, DaInv, DaTypes
<1> QED
  BY <1>1, <1>2, <1>3, <1>4
  DEF DaNext, vars, OpenTorrent, WriteLast, ReadAt, ReadHit, ReadMiss, ReadReturns,
      ReadEnd, HashMatches, MarkNotComplete, Drop, MarkComplete, ClearCompletion,
      DropTorrent, CloseHandles, DropPrefix, ForgetCompletion, Close, CloseAll

\* storage_downloadall.go:25-29: watched pieces are never deleted, and only a
\* drop or the hash of a whole piece unlinks a blob, for any number of workers,
\* torrents and pieces, when no drop overlaps another call for its torrent.
THEOREM WatchedIsKept ==
  ASSUME ~Overlap, MayLose = {}
  PROVE  DaSpec => WrittenIsKept
<1> DEFINE A == \A p \in Paths : disk[p] # 0 /\ disk'[p] = 0 =>
                  \/ Dropping(Dir[p])
                  \/ p \notin bolt /\ content[disk[p]] # "part"
<1>1. DaInv /\ [DaNext]_daVars => [A]_daVars
  BY UnlinksAreRight
<1>2. DaInv /\ [DaNext]_daVars => DaInv'
  BY StepDaInv
<1> QED BY <1>1, <1>2, InitDaInv, PTL DEF DaSpec, WrittenIsKept

-----------------------------------------------------------------------------
(***************************************************************************)
(* A banked piece has its blob.  For this a drop must know the pieces of   *)
(* its torrent (~DropUnresolved), and the machine must lose none.          *)
(***************************************************************************)

DropOk(w) ==
  LET c == call[w] IN
  /\ c.pc \in {"close", "forget"} => c.keys = PathsOf(c.dir)
  /\ c.pc = "rmdir" => PathsOf(c.dir) \cap bolt = {}

Backed ==
  /\ open \subseteq numPieces
  /\ \A w \in Removers : DropOk(w)
  /\ \A p \in bolt : disk[p] # 0

LEMMA DropOkKept ==
  ASSUME Backed, NEW v \in Removers, call'[v] = call[v],
         \A p \in PathsOf(call[v].dir) : p \in bolt' => p \in bolt
  PROVE  DropOk(v)'
  BY DEF Backed, DropOk, PathsOf

\* Banking a piece: its blob is there, and no drop that has cleared its
\* completion entries owns it.
LEMMA BankingIsBacked ==
  ASSUME DaInv, Backed, NEW w \in Removers, MarkComplete(w)
  PROVE  Backed'
<1>1. /\ call' = [call EXCEPT ![w] = NoCall]
      /\ UNCHANGED <<vars, open, numPieces>>
      /\ bolt' = bolt \cup call[w].keys /\ call[w].pc = "set"
  BY DEF MarkComplete, Call
<1>2. \A v \in Removers : call'[v] = IF v = w THEN NoCall ELSE call[v]
  BY <1>1 DEF DaInv, DaTypes
<1>3. \A p \in bolt' : disk'[p] # 0
  BY <1>1, OwnPieces DEF Backed, CallOk, vars
<1>4. ASSUME NEW v \in Removers PROVE DropOk(v)'
  <2>1. CASE v = w
    BY <1>2, <2>1 DEF DropOk, NoCall
  <2>2. CASE v # w
    <3>1. PathsOf(call[v].dir) \cap call[w].keys = {}
      BY <2>2, OwnPieces DEF DaInv, Apart, OwnsOf
    <3> QED BY <1>1, <1>2, <2>2, <3>1, DropOkKept
  <2> QED BY <2>1, <2>2
<1> QED BY <1>1, <1>3, <1>4 DEF Backed

\* The steps that unlink a blob or clear completion entries.
LEMMA UnlinkingIsBacked ==
  ASSUME DaInv, Backed, NEW w \in Removers,
         \/ RemoveBlob(w) \/ ClearCompletion(w)
         \/ CloseHandles(w) \/ ForgetCompletion(w) \/ RemoveDir(w)
  PROVE  Backed'
<1>1. /\ UNCHANGED <<open, numPieces>> /\ bolt' \subseteq bolt
      /\ \A v \in Removers \ {w} : call'[v] = call[v]
  BY DEF RemoveBlob, ClearCompletion, CloseHandles, ForgetCompletion, RemoveDir,
         Call, DaInv, DaTypes, clientVars, boltVars
<1>2. \A v \in Removers \ {w} : DropOk(v)'
  BY <1>1, DropOkKept
<1>3. CASE RemoveBlob(w)
  <2>1. /\ call'[w].pc = "unset" /\ bolt' = bolt
        /\ disk' = [p \in Paths |-> IF p \in removing[w] THEN 0 ELSE disk[p]]
    BY <1>3, OwnPieces DEF RemoveBlob, RemoveBlobs, Call, DaInv, DaTypes, boltVars
  <2>2. removing[w] \cap bolt = {}
    BY <1>3, OwnPieces, OwnUnlinks DEF RemoveBlob, CallOk
  <2>3. DropOk(w)'
    BY <2>1 DEF DropOk
  <2>4. \A p \in bolt' : disk'[p] # 0
    BY <2>1, <2>2 DEF DaInv, DaTypes, Backed
  <2> QED BY <1>1, <1>2, <2>3, <2>4 DEF Backed
<1>4. CASE ClearCompletion(w)
  <2>1. call'[w] = NoCall /\ disk' = disk
    BY <1>4 DEF ClearCompletion, Call, DaInv, DaTypes, vars
  <2>2. DropOk(w)'
    BY <2>1 DEF DropOk, NoCall
  <2> QED BY <1>1, <1>2, <2>1, <2>2 DEF Backed
<1>5. CASE CloseHandles(w)
  <2>1. /\ call'[w].pc = "forget" /\ call'[w].keys = call[w].keys
        /\ call'[w].dir = call[w].dir /\ disk' = disk
    BY <1>5, OwnPieces DEF CloseHandles, DropPrefix, Call, DaInv, DaTypes, vars
  <2>2. call[w].keys = PathsOf(call[w].dir)
    BY <1>5 DEF CloseHandles, Backed, DropOk
  <2>3. DropOk(w)'
    BY <2>1, <2>2 DEF DropOk, PathsOf
  <2> QED BY <1>1, <1>2, <2>1, <2>3 DEF Backed
<1>6. CASE ForgetCompletion(w)
  <2>1. /\ call'[w].pc = "rmdir" /\ call'[w].dir = call[w].dir /\ disk' = disk
        /\ bolt' = bolt \ call[w].keys
    BY <1>6, OwnPieces DEF ForgetCompletion, Forgotten, Call, DaInv, DaTypes, vars
  <2>2. call[w].keys = PathsOf(call[w].dir)
    BY <1>6 DEF ForgetCompletion, Backed, DropOk
  <2>3. DropOk(w)'
    BY <2>1, <2>2 DEF DropOk, PathsOf
  <2> QED BY <1>1, <1>2, <2>1, <2>3 DEF Backed
<1>7. CASE RemoveDir(w)
  <2>1. call'[w] = NoCall /\ bolt' = bolt
    BY <1>7 DEF RemoveDir, Call, DaInv, DaTypes, boltVars
  <2>2. /\ removing[w] = PathsOf(call[w].dir)
        /\ PathsOf(call[w].dir) \cap bolt = {}
    BY <1>7, OwnUnlinks DEF RemoveDir, Backed, DropOk
  <2>3. \A p \in Paths : p \notin PathsOf(call[w].dir) => disk'[p] = disk[p]
    BY <1>7, <2>2 DEF RemoveDir, RemoveBlobs, vars
  <2>4. \A p \in bolt' : disk'[p] # 0
    BY <2>1, <2>2, <2>3 DEF DaInv, DaTypes, Backed
  <2>5. DropOk(w)'
    BY <2>1 DEF DropOk, NoCall
  <2> QED BY <1>1, <1>2, <2>4, <2>5 DEF Backed
<1> QED BY <1>3, <1>4, <1>5, <1>6, <1>7

\* A drop starts with all the pieces of its torrent.
LEMMA DroppingIsBacked ==
  ASSUME DaInv, Backed, ~DropUnresolved, NEW w \in Removers, NEW d \in Dirs,
         DropTorrent(w, d)
  PROVE  Backed'
<1>1. /\ UNCHANGED <<bolt, disk>> /\ open' = open \ {d} /\ numPieces' = numPieces \ {d}
      /\ d \in numPieces
      /\ call' = [call EXCEPT ![w] = [pc |-> "close", keys |-> PathsOf(d), dir |-> d]]
  BY DEF DropTorrent, Backed, Call, vars
<1>2. /\ call'[w] = [pc |-> "close", keys |-> PathsOf(d), dir |-> d]
      /\ \A v \in Removers \ {w} : call'[v] = call[v]
  BY <1>1 DEF DaInv, DaTypes
<1>3. DropOk(w)'
  BY <1>2 DEF DropOk, PathsOf
<1>4. \A v \in Removers \ {w} : DropOk(v)'
  BY <1>1, <1>2, DropOkKept
<1> QED BY <1>1, <1>3, <1>4 DEF Backed

\* The steps that neither bank a piece nor unlink one.
LEMMA OtherStepsAreBacked ==
  ASSUME DaInv, Backed, UNCHANGED bolt,
         open' \ open \subseteq numPieces', numPieces \subseteq numPieces',
         \A p \in Paths : disk[p] # 0 => disk'[p] # 0,
         \A w \in Removers : call'[w] = call[w] \/ call'[w].pc \in {"set", "remove"}
  PROVE  Backed'
<1>1. ASSUME NEW w \in Removers PROVE DropOk(w)'
  <2>1. CASE call'[w] = call[w]
    BY <2>1, DropOkKept
  <2>2. CASE call'[w].pc \in {"set", "remove"}
    BY <2>2 DEF DropOk
  <2> QED BY <2>1, <2>2
<1>2. open' \subseteq numPieces'
  BY DEF Backed
<1>3. \A p \in bolt' : disk'[p] # 0
  BY DEF Backed, DaInv, DaTypes
<1> QED BY <1>1, <1>2, <1>3 DEF Backed

LEMMA StepBacked ==
  ASSUME ~DropUnresolved, MayLose = {}, DaInv, Backed, [DaNext]_daVars
  PROVE  Backed'
<1>1. ASSUME NEW d \in Dirs, OpenTorrent(d) PROVE Backed'
  BY <1>1, OtherStepsAreBacked DEF OpenTorrent, vars
<1>2. ASSUME NEW p \in Paths, WriteAt(p) PROVE Backed'
  <2>1. \A q \in Paths : disk[q] # 0 => disk'[q] # 0
    BY <1>2 DEF WriteAt, WriteBlob, DaInv, DaTypes
  <2> QED BY <1>2, <2>1, OtherStepsAreBacked DEF WriteAt, clientVars, boltVars
<1>3. ASSUME NEW p \in Paths, NEW good \in BOOLEAN, WriteLast(p, good) PROVE Backed'
  BY <1>3, OtherStepsAreBacked DEF WriteLast, vars, clientVars, boltVars
<1>4. ASSUME \/ \E r \in Readers, p \in Paths : ReadAt(r, p)
             \/ \E r \in Readers : ReadReturns(r)
             \/ Close
      PROVE  Backed'
  <2>1. UNCHANGED <<disk, clientVars, boltVars, call>>
    BY <1>4 DEF ReadAt, ReadHit, ReadMiss, ReadReturns, ReadEnd, Close, CloseAll
  <2> QED BY <2>1, OtherStepsAreBacked DEF clientVars, boltVars
<1>5. ASSUME NEW w \in Removers, NEW p \in Paths, HashMatches(w, p) \/ MarkNotComplete(w, p)
      PROVE  Backed'
  <2>1. UNCHANGED <<disk, open, boltVars>>
    BY <1>5 DEF HashMatches, MarkNotComplete, Drop, vars
  <2>2. \A v \in Removers : call'[v] = call[v] \/ call'[v].pc \in {"set", "remove"}
    BY <1>5 DEF HashMatches, MarkNotComplete, Call, DaInv, DaTypes
  <2> QED BY <2>1, <2>2, OtherStepsAreBacked DEF boltVars
<1>6. ASSUME NEW lost \in SUBSET MayLose, Restart(lost) PROVE Backed'
  BY <1>6 DEF Restart, Backed, DropOk, NoCall, DaInv, DaTypes
<1>7. CASE UNCHANGED daVars
  BY <1>7, OtherStepsAreBacked DEF daVars, vars, clientVars, boltVars
<1> QED
  BY <1>1, <1>2, <1>3, <1>4, <1>5, <1>6, <1>7, BankingIsBacked, UnlinkingIsBacked,
     DroppingIsBacked DEF DaNext

\* storage_downloadall.go:94-97: a completion entry never outlives its blob,
\* through restarts, failed hashes and drops, for any number of them.  The
\* three hypotheses are what it takes: each one dropped, TLC finds a run that
\* breaks it.
THEOREM CompletionIsSafe ==
  ASSUME ~Overlap, ~DropUnresolved, MayLose = {}
  PROVE  DaSpec => []CompletionIsBacked
<1>1. DaInit => DaInv /\ Backed
  BY InitDaInv DEF DaInit, Backed, DropOk, NoCall
<1>2. (DaInv /\ Backed) /\ [DaNext]_daVars => (DaInv /\ Backed)'
  BY StepDaInv, StepBacked
<1>3. DaInv /\ Backed => CompletionIsBacked
  BY DEF Backed, CompletionIsBacked
<1> QED BY <1>1, <1>2, <1>3, PTL DEF DaSpec

-----------------------------------------------------------------------------
(***************************************************************************)
(* The torrent registry.  The inductive invariant TmInv adds to the two    *)
(* reader counts that a goroutine in the middle of a call has a hash, and  *)
(* that a hash without an entry counts nobody.                             *)
(***************************************************************************)
Streaming == {v \in Viewers : viewer[v].pc \in Serving \cup {"counted"}}

BusyHasHash ==
  /\ \A a \in Adders : adder[a].pc # "idle" => adder[a].ih \in Hashes
  /\ \A v \in Viewers : viewer[v].pc # "idle" => viewer[v].ih \in Hashes
  /\ \A w \in RemoverNames :
       remover[w].pc \in {"detached", "forgotten"} => remover[w].ih \in Hashes

NoEntryNoReaders == \A h \in Hashes : ~activity[h].exists => activity[h].readers = 0

TmInv == TmTypeOK /\ BusyHasHash /\ NoEntryNoReaders /\ ActiveReadersExact /\ NoPhantomReaders

USE TmConstants

LEMMA CountsFinite ==
  /\ IsFiniteSet(Streaming)
  /\ Cardinality(Streaming) \in Nat
  /\ \A h : IsFiniteSet(OpenOn(h)) /\ Cardinality(OpenOn(h)) \in Nat
<1>1. IsFiniteSet(Streaming) /\ \A h : IsFiniteSet(OpenOn(h))
  BY TmFinite, FS_Subset DEF Streaming, OpenOn
<1> QED BY <1>1, FS_CardinalityType

LEMMA CountsFinitePrime ==
  /\ IsFiniteSet(Streaming')
  /\ Cardinality(Streaming') \in Nat
  /\ \A h : IsFiniteSet(OpenOn(h)') /\ Cardinality(OpenOn(h)') \in Nat
<1>1. IsFiniteSet(Streaming') /\ \A h : IsFiniteSet(OpenOn(h)')
  BY TmFinite, FS_Subset DEF Streaming, OpenOn
<1> QED BY <1>1, FS_CardinalityType

\* Steps that leave the viewers, the counts and the entries' readers alone, or
\* only forget readers.
LEMMA ReadersKept ==
  ASSUME TmInv, UNCHANGED viewer, UNCHANGED activeReaders,
         \A h \in Hashes : activity'[h].readers \in {activity[h].readers, 0}
  PROVE  ActiveReadersExact' /\ NoPhantomReaders'
<1>1. Streaming' = Streaming /\ \A h : OpenOn(h)' = OpenOn(h)
  BY DEF Streaming, OpenOn
<1>2. ActiveReadersExact'
  BY <1>1 DEF TmInv, ActiveReadersExact, Streaming
<1>3. NoPhantomReaders'
  BY <1>1, CountsFinite DEF TmInv, NoPhantomReaders
<1> QED BY <1>2, <1>3

LEMMA InitTmInv == TmInit => TmInv
<1> SUFFICES ASSUME TmInit PROVE TmInv
  OBVIOUS
<1>1. TmTypeOK
  BY DEF TmInit, TmTypeOK, Gen, NoEntry, NoSample, Idle, Resting
<1>2. BusyHasHash
  BY DEF TmInit, BusyHasHash, Idle, Resting
<1>3. ActiveReadersExact
  <2>1. {v \in Viewers : viewer[v].pc \in Serving \cup {"counted"}} = {}
    BY DEF TmInit, Idle, Serving
  <2> QED BY <2>1, FS_EmptySet DEF TmInit, ActiveReadersExact
<1>4. NoPhantomReaders /\ NoEntryNoReaders
  BY CountsFinite DEF TmInit, NoPhantomReaders, NoEntry, NoEntryNoReaders
<1> QED BY <1>1, <1>2, <1>3, <1>4 DEF TmInv

LEMMA StepTypeOK == TmInv /\ [TmNext]_tmVars => TmTypeOK' /\ BusyHasHash'
<1> SUFFICES ASSUME TmInv, [TmNext]_tmVars PROVE TmTypeOK' /\ BusyHasHash'
  OBVIOUS
<1> USE DEF streamVars, stallVars, Gen, Idle, Serving
<1>0. TmTypeOK /\ BusyHasHash
  BY DEF TmInv
<1>1. ASSUME NEW a \in Adders, NEW h \in Hashes, ClientAdd(a, h)
      PROVE  TmTypeOK' /\ BusyHasHash'
  <2>1. CASE client[h] # 0
    <3>1. adder' = [adder EXCEPT ![a] = [pc |-> "added", ih |-> h, gen |-> client[h]]]
      BY <1>1, <2>1 DEF ClientAdd
    <3>2. UNCHANGED <<client, gens, torrents, activity, streamVars, remover, stallVars>>
      BY <1>1, <2>1 DEF ClientAdd
    <3>3. client[h] \in Gen
      BY <1>0 DEF TmTypeOK
    <3> HIDE DEF Gen
    <3> QED BY <1>0, <3>1, <3>2, <3>3 DEF TmTypeOK, BusyHasHash
  <2>2. CASE client[h] = 0
    <3>1. gens + 1 \in Gen
      BY <1>0, <1>1, <2>2 DEF ClientAdd, TmTypeOK
    <3> HIDE DEF Gen
    <3>2. adder' = [adder EXCEPT ![a] = [pc |-> "added", ih |-> h, gen |-> gens + 1]]
      BY <1>1, <2>2 DEF ClientAdd
    <3>3. /\ client' = [client EXCEPT ![h] = gens + 1] /\ gens' = gens + 1
          /\ UNCHANGED <<torrents, activity, streamVars, remover, stallVars>>
      BY <1>1, <2>2 DEF ClientAdd
    <3> QED BY <1>0, <3>1, <3>2, <3>3 DEF TmTypeOK, BusyHasHash
  <2> QED BY <2>1, <2>2
<1>2. ASSUME NEW a \in Adders, AdderStep(a) PROVE TmTypeOK' /\ BusyHasHash'
  <2> HIDE DEF Gen
  <2>1. CASE Track(a)
    <3>1. adder[a].ih \in Hashes /\ adder[a].gen \in Gen
      BY <1>0, <2>1 DEF Track, TmTypeOK, BusyHasHash
    <3>2. adder' \in [Adders -> [pc: {"idle", "added", "tracked"},
                                ih: Hashes \cup {NoHash}, gen: Gen]]
      BY <1>0, <2>1 DEF Track, TmTypeOK
    <3>3. \A x \in Adders : adder'[x].pc # "idle" => adder'[x].ih \in Hashes
      BY <1>0, <2>1, <3>1 DEF Track, TmTypeOK, BusyHasHash
    <3> QED BY <1>0, <2>1, <3>1, <3>2, <3>3 DEF Track, TmTypeOK, BusyHasHash
  <2>2. CASE TouchActivity(a)
    <3>1. 0 \in Gen
      BY DEF Gen
    <3>2. activity' \in [Hashes -> [exists: BOOLEAN, readers: Nat, aged: BOOLEAN]]
      BY <1>0, <2>2 DEF TouchActivity, Touched, TmTypeOK
    <3> QED BY <1>0, <2>2, <3>1, <3>2 DEF TouchActivity, TmTypeOK, BusyHasHash
  <2> QED BY <1>2, <2>1, <2>2 DEF AdderStep
<1>3. ASSUME NEW v \in Viewers, NEW h \in Hashes, GetTorrent(v, h)
      PROVE  TmTypeOK' /\ BusyHasHash'
  BY <1>0, <1>3 DEF GetTorrent, TmTypeOK, BusyHasHash
<1>4. ASSUME NEW v \in Viewers, OpenFails(v) \/ CountReader(v)
      PROVE  TmTypeOK' /\ BusyHasHash'
  <2>1. CASE OpenFails(v)
    BY <1>0, <2>1 DEF OpenFails, TmTypeOK, BusyHasHash
  <2>2. CASE CountReader(v)
    <3> HIDE DEF Gen
    <3> DEFINE ViewerCall == [pc: Serving \cup {"idle", "found", "counted", "closing"},
                        ih: Hashes \cup {NoHash}, gen: Gen]
               c == [viewer[v] EXCEPT !.pc = "counted"]
    <3>1. viewer \in [Viewers -> ViewerCall] /\ viewer' = [viewer EXCEPT ![v] = c]
          /\ viewer[v].pc = "found"
      BY <1>0, <2>2 DEF CountReader, TmTypeOK
    <3>2. c \in ViewerCall /\ c.ih = viewer[v].ih
      BY <3>1
    <3>3. /\ viewer' \in [Viewers -> ViewerCall]
          /\ \A x \in Viewers : viewer'[x].pc # "idle" => viewer'[x].ih \in Hashes
      <4> HIDE DEF ViewerCall
      <4>1. viewer[v].ih \in Hashes
        BY <1>0, <3>1 DEF BusyHasHash
      <4>2. \A x \in Viewers : viewer'[x] = IF x = v THEN c ELSE viewer[x]
        BY <3>1
      <4> HIDE DEF c
      <4>3. viewer' \in [Viewers -> ViewerCall]
        BY <3>1, <3>2
      <4> QED
        BY <1>0, <3>2, <4>1, <4>2, <4>3 DEF BusyHasHash
    <3>4. activeReaders' \in Nat
      BY <1>0, <2>2 DEF CountReader, TmTypeOK
    <3> QED
      BY <1>0, <2>2, <3>3, <3>4 DEF CountReader, TmTypeOK, BusyHasHash
  <2> QED BY <1>4, <2>1, <2>2
<1>5. ASSUME NEW v \in Viewers, MarkOpened(v) PROVE TmTypeOK' /\ BusyHasHash'
  <2> HIDE DEF Gen
  <2>1. activity' \in [Hashes -> [exists: BOOLEAN, readers: Nat, aged: BOOLEAN]]
    BY <1>0, <1>5 DEF MarkOpened, TmTypeOK, BusyHasHash
  <2>2. viewer' \in [Viewers -> [pc: Serving \cup {"idle", "found", "counted", "closing"},
                                ih: Hashes \cup {NoHash}, gen: Gen]]
    BY <1>0, <1>5 DEF MarkOpened, TmTypeOK
  <2>3. BusyHasHash'
    BY <1>0, <1>5 DEF MarkOpened, TmTypeOK, BusyHasHash
  <2> QED BY <1>0, <1>5, <2>1, <2>2, <2>3 DEF MarkOpened, TmTypeOK
<1>16. ASSUME NEW v \in Viewers, StartTranscode(v) \/ EndTranscode(v)
       PROVE  TmTypeOK' /\ BusyHasHash'
  <2> HIDE DEF Gen
  <2>1. PICK pc \in Serving :
          /\ viewer[v].pc # "idle" /\ pc # "idle"
          /\ viewer' = [viewer EXCEPT ![v].pc = pc]
          /\ UNCHANGED <<client, gens, torrents, activity, activeReaders, adder,
                         remover, stallVars>>
    BY <1>16 DEF StartTranscode, EndTranscode
  <2>2. viewer' \in [Viewers -> [pc: Serving \cup {"idle", "found", "counted", "closing"},
                                ih: Hashes \cup {NoHash}, gen: Gen]]
    <3> DEFINE Pcs == Serving \cup {"idle", "found", "counted", "closing"}
    <3>1. viewer \in [Viewers -> [pc: Pcs, ih: Hashes \cup {NoHash}, gen: Gen]] /\ pc \in Pcs
      BY <1>0, <2>1 DEF TmTypeOK
    <3> HIDE DEF Pcs
    <3>2. [viewer[v] EXCEPT !.pc = pc] \in [pc: Pcs, ih: Hashes \cup {NoHash}, gen: Gen]
      BY <3>1
    <3>3. viewer' \in [Viewers -> [pc: Pcs, ih: Hashes \cup {NoHash}, gen: Gen]]
      BY <2>1, <3>1, <3>2
    <3> QED BY <3>3 DEF Pcs
  <2>3. \A x \in Viewers : viewer'[x].pc # "idle" => viewer'[x].ih \in Hashes
    BY <1>0, <2>1 DEF TmTypeOK, BusyHasHash
  <2> QED BY <1>0, <2>1, <2>2, <2>3 DEF TmTypeOK, BusyHasHash
<1>6. ASSUME NEW v \in Viewers, UncountReader(v) PROVE TmTypeOK' /\ BusyHasHash'
  <2>1. v \in Streaming
    BY <1>6 DEF UncountReader, MayClose, Streaming
  <2>2. activeReaders - 1 \in Nat
    <3>1. activeReaders = Cardinality(Streaming)
      BY DEF TmInv, ActiveReadersExact, Streaming
    <3>2. Cardinality(Streaming) # 0
      BY <2>1, CountsFinite, FS_EmptySet
    <3> QED BY <3>1, <3>2, CountsFinite
  <2> QED BY <1>0, <1>6, <2>2 DEF UncountReader, MayClose, TmTypeOK, BusyHasHash
<1>7. ASSUME NEW v \in Viewers, MarkClosed(v) PROVE TmTypeOK' /\ BusyHasHash'
  BY <1>0, <1>7 DEF MarkClosed, Closed, TmTypeOK, BusyHasHash
<1>8. ASSUME NEW w \in RemoverNames, RemoverStep(w) PROVE TmTypeOK' /\ BusyHasHash'
  <2>1. ASSUME NEW h \in Hashes, RemoveMissing(w, h) PROVE TmTypeOK' /\ BusyHasHash'
    BY <1>0, <2>1 DEF RemoveMissing, TmTypeOK, BusyHasHash
  <2>2. ASSUME NEW h \in Hashes, Detach(w, h) PROVE TmTypeOK' /\ BusyHasHash'
    BY <1>0, <2>2 DEF Detach, TmTypeOK, BusyHasHash
  <2>3. CASE ForgetActivity(w)
    <3> HIDE DEF Gen
    <3>1. activity' \in [Hashes -> [exists: BOOLEAN, readers: Nat, aged: BOOLEAN]]
      BY <1>0, <2>3 DEF ForgetActivity, NoEntry, TmTypeOK
    <3>2. remover' \in [RemoverNames -> [pc: {"idle", "examine", "detached", "forgotten"},
                                     ih: Hashes \cup {NoHash}, todo: SUBSET Hashes]]
      BY <1>0, <2>3 DEF ForgetActivity, TmTypeOK
    <3>3. BusyHasHash'
      BY <1>0, <2>3 DEF ForgetActivity, TmTypeOK, BusyHasHash
    <3> QED BY <1>0, <2>3, <3>1, <3>2, <3>3 DEF ForgetActivity, TmTypeOK
  <2>4. CASE FreeStorage(w)
    BY <1>0, <2>4 DEF FreeStorage, TmTypeOK, BusyHasHash
  <2> QED BY <1>8, <2>1, <2>2, <2>3, <2>4 DEF RemoverStep
<1>9. ASSUME NEW h \in Hashes, RequestDelete(h) PROVE TmTypeOK' /\ BusyHasHash'
  BY <1>0, <1>9 DEF RequestDelete, Resting, RemoverNames, TmTypeOK, BusyHasHash
<1>10. ASSUME NEW h \in Hashes, Age(h) PROVE TmTypeOK' /\ BusyHasHash'
  <2>1. activity[h] \in [exists: BOOLEAN, readers: Nat, aged: BOOLEAN]
    BY <1>0 DEF TmTypeOK
  <2>2. [activity[h] EXCEPT !.aged = TRUE]
          \in [exists: BOOLEAN, readers: Nat, aged: BOOLEAN]
    BY <2>1
  <2>3. activity' \in [Hashes -> [exists: BOOLEAN, readers: Nat, aged: BOOLEAN]]
    BY <1>0, <1>10, <2>2 DEF Age, TmTypeOK
  <2> QED BY <1>0, <1>10, <2>3 DEF Age, TmTypeOK, BusyHasHash
<1>11. CASE ReapIdle
  BY <1>0, <1>11 DEF ReapIdle, IdleCandidates, Resting, RemoverNames, TmTypeOK, BusyHasHash
<1>12. CASE StallSnapshot
  BY <1>0, <1>12 DEF StallSnapshot, Resting, RemoverNames, TmTypeOK, BusyHasHash
<1>13. CASE StallExamine
  <2> PICK verdict \in [Watched -> {"noinfo", "complete", "moving", "stuck"}] :
        /\ remover' = [remover EXCEPT !["stall"] =
                        [pc |-> "idle", ih |-> NoHash, todo |-> Stalled(verdict)]]
        /\ seen' = [h \in Hashes |->
             CASE h \notin Watched -> NoSample
               [] h \in Stalled(verdict) -> NoSample
               [] h \in Watched /\ verdict[h] = "complete" -> NoSample
               [] h \in Watched /\ verdict[h] = "noinfo" -> seen[h]
               [] h \in Watched /\ verdict[h] = "stuck" /\ seen[h].age = "fresh" -> seen[h]
               [] OTHER -> [age |-> "fresh", gen |-> snapshot[h]]]
    BY <1>13 DEF StallExamine
  <2>1. Stalled(verdict) \in SUBSET Hashes
    BY DEF Stalled, Watched
  <2>2. seen' \in [Hashes -> [age: {"none", "fresh", "old"}, gen: Gen]]
    BY <1>0 DEF NoSample, TmTypeOK
  <2>3. remover' \in [RemoverNames -> [pc: {"idle", "examine", "detached", "forgotten"},
                                   ih: Hashes \cup {NoHash}, todo: SUBSET Hashes]]
    BY <1>0, <2>1 DEF RemoverNames, TmTypeOK
  <2>4. \A w \in RemoverNames :
          remover'[w].pc \in {"detached", "forgotten"} => remover'[w].ih \in Hashes
    BY <1>0 DEF RemoverNames, TmTypeOK, BusyHasHash
  <2> QED BY <1>0, <1>13, <2>2, <2>3, <2>4 DEF StallExamine, TmTypeOK, BusyHasHash
<1>14. ASSUME NEW h \in Hashes, AgeSample(h) PROVE TmTypeOK' /\ BusyHasHash'
  BY <1>0, <1>14 DEF AgeSample, TmTypeOK, BusyHasHash
<1>15. CASE UNCHANGED tmVars
  BY <1>0, <1>15 DEF tmVars, TmTypeOK, BusyHasHash
<1> QED
  BY <1>1, <1>2, <1>3, <1>4, <1>5, <1>6, <1>7, <1>8, <1>9, <1>10, <1>11, <1>12,
     <1>13, <1>14, <1>15, <1>16
  DEF TmNext, ViewerStep

LEMMA StepCounts == TmInv /\ [TmNext]_tmVars => ActiveReadersExact' /\ NoPhantomReaders'
<1> SUFFICES ASSUME TmInv, [TmNext]_tmVars
             PROVE  ActiveReadersExact' /\ NoPhantomReaders'
  OBVIOUS
<1> USE DEF streamVars, stallVars, Serving
<1>0. TmTypeOK /\ BusyHasHash /\ NoEntryNoReaders /\ ActiveReadersExact /\ NoPhantomReaders
  BY DEF TmInv
<1>1. ASSUME NEW a \in Adders, NEW h \in Hashes, ClientAdd(a, h)
      PROVE  ActiveReadersExact' /\ NoPhantomReaders'
  BY <1>0, <1>1, ReadersKept DEF ClientAdd, TmInv
<1>2. ASSUME NEW a \in Adders, AdderStep(a)
      PROVE  ActiveReadersExact' /\ NoPhantomReaders'
  <2>1. UNCHANGED <<viewer, activeReaders>>
    BY <1>2 DEF AdderStep, Track, TouchActivity
  <2>2. CASE Track(a)
    BY <1>0, <2>1, <2>2, ReadersKept DEF Track, TmInv
  <2>3. CASE TouchActivity(a)
    <3>1. activity' = [activity EXCEPT ![adder[a].ih] = Touched(@)]
      BY <2>3 DEF TouchActivity
    <3>2. activity \in [Hashes -> [exists: BOOLEAN, readers: Nat, aged: BOOLEAN]]
      BY <1>0 DEF TmTypeOK
    <3>3. \A x \in Hashes : activity'[x] \in {activity[x], Touched(activity[x])}
      BY <3>1, <3>2
    <3>4. \A x \in Hashes : activity'[x].readers = activity[x].readers
      BY <3>3 DEF Touched
    <3> QED BY <2>1, <3>4, ReadersKept
  <2> QED BY <1>2, <2>2, <2>3 DEF AdderStep
<1>3. ASSUME NEW v \in Viewers, NEW h \in Hashes, GetTorrent(v, h)
      PROVE  ActiveReadersExact' /\ NoPhantomReaders'
  <2>1. Streaming' = Streaming /\ \A x \in Hashes : OpenOn(x)' = OpenOn(x)
    BY <1>0, <1>3 DEF GetTorrent, TmTypeOK, Streaming, OpenOn
  <2> QED BY <1>0, <1>3, <2>1
          DEF GetTorrent, ActiveReadersExact, NoPhantomReaders, Streaming
<1>4. ASSUME NEW v \in Viewers, OpenFails(v)
      PROVE  ActiveReadersExact' /\ NoPhantomReaders'
  <2>1. Streaming' = Streaming /\ \A x \in Hashes : OpenOn(x)' = OpenOn(x)
    BY <1>0, <1>4 DEF OpenFails, Idle, TmTypeOK, Streaming, OpenOn
  <2> QED BY <1>0, <1>4, <2>1
          DEF OpenFails, ActiveReadersExact, NoPhantomReaders, Streaming
<1>5. ASSUME NEW v \in Viewers, CountReader(v)
      PROVE  ActiveReadersExact' /\ NoPhantomReaders'
  <2>1. /\ Streaming' = Streaming \cup {v} /\ v \notin Streaming
        /\ \A x \in Hashes : OpenOn(x)' = OpenOn(x)
    BY <1>0, <1>5 DEF CountReader, TmTypeOK, Streaming, OpenOn
  <2>2. Cardinality(Streaming') = Cardinality(Streaming) + 1
    BY <2>1, CountsFinite, FS_AddElement
  <2> QED BY <1>0, <1>5, <2>1, <2>2
          DEF CountReader, ActiveReadersExact, NoPhantomReaders, Streaming
<1>6. ASSUME NEW v \in Viewers, MarkOpened(v)
      PROVE  ActiveReadersExact' /\ NoPhantomReaders'
  <2> PICK i \in Hashes : i = viewer[v].ih
    BY <1>0, <1>6 DEF MarkOpened, BusyHasHash
  <2>1. /\ Streaming' = Streaming /\ i \in Hashes
        /\ OpenOn(i)' = OpenOn(i) \cup {v} /\ v \notin OpenOn(i)
        /\ \A x \in Hashes \ {i} : OpenOn(x)' = OpenOn(x)
    BY <1>0, <1>6 DEF MarkOpened, TmTypeOK, BusyHasHash, Streaming, OpenOn
  <2>2. Cardinality(OpenOn(i)') = Cardinality(OpenOn(i)) + 1
    BY <2>1, CountsFinite, FS_AddElement
  <2>3. /\ activity'[i].readers = activity[i].readers + 1
        /\ \A x \in Hashes \ {i} : activity'[x] = activity[x]
    BY <1>0, <1>6, <2>1 DEF MarkOpened, TmTypeOK
  <2>4. activity'[i].readers <= Cardinality(OpenOn(i)')
    <3>1. activity[i].readers \in Nat /\ activity[i].readers <= Cardinality(OpenOn(i))
      BY <1>0, <2>1 DEF TmTypeOK, NoPhantomReaders
    <3> QED BY <2>2, <2>3, <3>1, CountsFinite
  <2>5. NoPhantomReaders'
    BY <1>0, <2>1, <2>3, <2>4 DEF NoPhantomReaders
  <2> QED BY <1>0, <1>6, <2>1, <2>5 DEF MarkOpened, ActiveReadersExact, Streaming
<1>12. ASSUME NEW v \in Viewers, StartTranscode(v) \/ EndTranscode(v)
       PROVE  ActiveReadersExact' /\ NoPhantomReaders'
  <2>1. /\ viewer[v].pc \in Serving /\ viewer'[v].pc \in Serving
        /\ viewer'[v].ih = viewer[v].ih
        /\ \A x \in Viewers \ {v} : viewer'[x] = viewer[x]
    BY <1>0, <1>12 DEF StartTranscode, EndTranscode, TmTypeOK
  <2>2. Streaming' = Streaming /\ \A x \in Hashes : OpenOn(x)' = OpenOn(x)
    BY <2>1 DEF Streaming, OpenOn
  <2>3. UNCHANGED <<activity, activeReaders>>
    BY <1>12 DEF StartTranscode, EndTranscode
  <2> QED BY <1>0, <2>2, <2>3 DEF ActiveReadersExact, NoPhantomReaders, Streaming
<1>7. ASSUME NEW v \in Viewers, UncountReader(v)
      PROVE  ActiveReadersExact' /\ NoPhantomReaders'
  <2>1. /\ Streaming' = Streaming \ {v} /\ v \in Streaming
        /\ \A x \in Hashes : OpenOn(x)' = OpenOn(x)
    BY <1>0, <1>7 DEF UncountReader, MayClose, TmTypeOK, Streaming, OpenOn
  <2>2. Cardinality(Streaming') = Cardinality(Streaming) - 1
    BY <2>1, CountsFinite, FS_RemoveElement
  <2> QED BY <1>0, <1>7, <2>1, <2>2
          DEF UncountReader, ActiveReadersExact, NoPhantomReaders, Streaming
<1>8. ASSUME NEW v \in Viewers, MarkClosed(v)
      PROVE  ActiveReadersExact' /\ NoPhantomReaders'
  <2> PICK i \in Hashes : i = viewer[v].ih
    BY <1>0, <1>8 DEF MarkClosed, BusyHasHash
  <2>0. /\ i \in Hashes /\ viewer[v].pc = "closing"
        /\ \A x \in Viewers : viewer'[x] = IF x = v THEN Idle ELSE viewer[x]
        /\ Idle.pc = "idle" /\ Idle.ih \notin Hashes
    BY <1>0, <1>8 DEF MarkClosed, Idle, TmTypeOK, BusyHasHash
  <2>1. /\ Streaming' = Streaming /\ i \in Hashes
        /\ OpenOn(i)' = OpenOn(i) \ {v} /\ v \in OpenOn(i)
        /\ \A x \in Hashes \ {i} : OpenOn(x)' = OpenOn(x)
    BY <2>0 DEF Streaming, OpenOn
  <2>2. Cardinality(OpenOn(i)') = Cardinality(OpenOn(i)) - 1
    <3>1. IsFiniteSet(OpenOn(i))
      BY CountsFinite
    <3>2. Cardinality(OpenOn(i) \ {v}) = Cardinality(OpenOn(i)) - 1
      BY <2>1, <3>1, FS_RemoveElement
    <3> QED BY <2>1, <3>2
  <2>3. /\ activity'[i] = Closed(activity[i])
        /\ \A x \in Hashes \ {i} : activity'[x] = activity[x]
        /\ activity[i] \in [exists: BOOLEAN, readers: Nat, aged: BOOLEAN]
    BY <1>0, <1>8, <2>1 DEF MarkClosed, TmTypeOK
  <2>4. activity'[i].readers <= Cardinality(OpenOn(i)')
    <3> DEFINE n == activity[i].readers
    <3>1. n \in Nat /\ n <= Cardinality(OpenOn(i))
      BY <1>0, <2>1, <2>3 DEF NoPhantomReaders
    <3>2. Cardinality(OpenOn(i)') \in Nat
      BY CountsFinitePrime
    <3>3. activity'[i].readers = IF n > 0 THEN n - 1 ELSE 0
      BY <1>0, <2>3, <3>1 DEF Closed, NoEntryNoReaders
    <3> QED BY <2>2, <3>1, <3>2, <3>3, CountsFinite
  <2>5. NoPhantomReaders'
    BY <1>0, <2>1, <2>3, <2>4 DEF NoPhantomReaders
  <2> QED BY <1>0, <1>8, <2>1, <2>5 DEF MarkClosed, ActiveReadersExact, Streaming
<1>9. ASSUME NEW w \in RemoverNames, RemoverStep(w)
      PROVE  ActiveReadersExact' /\ NoPhantomReaders'
  <2>1. UNCHANGED <<viewer, activeReaders>>
    BY <1>9 DEF RemoverStep, RemoveMissing, Detach, ForgetActivity, FreeStorage
  <2>2. \A x \in Hashes : activity'[x].readers \in {activity[x].readers, 0}
    <3>1. activity' = activity \/ \E x \in Hashes : activity' = [activity EXCEPT ![x] = NoEntry]
      BY <1>0, <1>9
      DEF RemoverStep, RemoveMissing, Detach, ForgetActivity, FreeStorage, BusyHasHash
    <3>2. activity \in [Hashes -> [exists: BOOLEAN, readers: Nat, aged: BOOLEAN]]
      BY <1>0 DEF TmTypeOK
    <3>3. \A x \in Hashes : activity'[x] \in {activity[x], NoEntry}
      BY <3>1, <3>2
    <3> QED BY <3>3 DEF NoEntry
  <2> QED BY <2>1, <2>2, ReadersKept
<1>10. ASSUME NEW h \in Hashes, Age(h)
       PROVE  ActiveReadersExact' /\ NoPhantomReaders'
  BY <1>0, <1>10, ReadersKept DEF Age, TmTypeOK, TmInv
<1>11. CASE \/ \E h \in Hashes : RequestDelete(h) \/ AgeSample(h)
            \/ ReapIdle \/ StallSnapshot \/ StallExamine \/ UNCHANGED tmVars
  <2>1. UNCHANGED <<viewer, activeReaders, activity>>
    BY <1>11 DEF RequestDelete, AgeSample, ReapIdle, StallSnapshot, StallExamine, tmVars
  <2> QED BY <1>0, <2>1, ReadersKept DEF TmInv
<1> QED
  BY <1>1, <1>2, <1>3, <1>4, <1>5, <1>6, <1>7, <1>8, <1>9, <1>10, <1>11, <1>12
  DEF TmNext, ViewerStep

LEMMA StepNoEntry == TmInv /\ [TmNext]_tmVars => NoEntryNoReaders'
<1> SUFFICES ASSUME TmInv, [TmNext]_tmVars PROVE NoEntryNoReaders'
  OBVIOUS
<1>0. TmTypeOK /\ BusyHasHash /\ NoEntryNoReaders
  BY DEF TmInv
<1>1. ASSUME NEW a \in Adders, TouchActivity(a) PROVE NoEntryNoReaders'
  BY <1>0, <1>1 DEF TouchActivity, Touched, TmTypeOK, NoEntryNoReaders
<1>2. ASSUME NEW v \in Viewers, MarkOpened(v) PROVE NoEntryNoReaders'
  BY <1>0, <1>2 DEF MarkOpened, TmTypeOK, NoEntryNoReaders
<1>3. ASSUME NEW v \in Viewers, MarkClosed(v) PROVE NoEntryNoReaders'
  BY <1>0, <1>3 DEF MarkClosed, Closed, TmTypeOK, NoEntryNoReaders
<1>4. ASSUME NEW w \in RemoverNames, ForgetActivity(w) PROVE NoEntryNoReaders'
  BY <1>0, <1>4 DEF ForgetActivity, NoEntry, TmTypeOK, NoEntryNoReaders
<1>5. ASSUME NEW h \in Hashes, Age(h) PROVE NoEntryNoReaders'
  BY <1>0, <1>5 DEF Age, TmTypeOK, NoEntryNoReaders
<1>6. ASSUME UNCHANGED activity PROVE NoEntryNoReaders'
  BY <1>0, <1>6 DEF NoEntryNoReaders
<1> QED
  BY <1>1, <1>2, <1>3, <1>4, <1>5, <1>6
  DEF TmNext, AdderStep, ViewerStep, RemoverStep, ClientAdd, Track, GetTorrent, OpenFails,
      CountReader, StartTranscode, EndTranscode, UncountReader, RemoveMissing, Detach, FreeStorage, RequestDelete,
      ReapIdle, StallSnapshot, StallExamine, AgeSample, tmVars

LEMMA TmInvariance == TmSpec => []TmInv
<1>1. TmInv /\ [TmNext]_tmVars => TmInv'
  BY StepTypeOK, StepNoEntry, StepCounts DEF TmInv
<1> QED BY <1>1, InitTmInv, PTL DEF TmSpec

\* Type correctness, for every instance.
THEOREM RegistryTypes == TmSpec => []TmTypeOK
<1>1. TmInv => TmTypeOK
  BY DEF TmInv
<1> QED BY <1>1, TmInvariance, PTL

\* activeReaders, which readaheadFor divides the budget by, counts the open
\* readers exactly (torrent.go:611-616, 744-757).
THEOREM ReaderCountIsExact == TmSpec => []ActiveReadersExact
<1>1. TmInv => ActiveReadersExact
  BY DEF TmInv
<1> QED BY <1>1, TmInvariance, PTL

\* However removals, re-adds and late closes interleave, an activity entry
\* never counts a reader that is not open (reaper.go:33-54).
THEOREM ReadersAreReal == TmSpec => []NoPhantomReaders
<1>1. TmInv => NoPhantomReaders
  BY DEF TmInv
<1> QED BY <1>1, TmInvariance, PTL
=============================================================================
