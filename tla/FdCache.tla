------------------------------ MODULE FdCache ------------------------------
(***************************************************************************)
(* The streamer's cache of open read handles (streamer/storage_fdcache.go) *)
(* and the way the blob storages use it (storage_prefixcache.go,           *)
(* storage_downloadall.go).                                                *)
(*                                                                         *)
(* One action is one critical section of fdCache.mu, or one file system    *)
(* call made outside it.  A read takes two of them: ReadBegin looks the    *)
(* handle up (or opens it), pins it and evicts; the pread itself runs      *)
(* without the lock; ReadEnd unpins and closes a retired handle.  The      *)
(* storages drop a handle and unlink its blob in two separate steps.       *)
(***************************************************************************)
EXTENDS Naturals, FiniteSets

CONSTANTS
  Readers,    \* goroutines that read blobs (viewers, the piece hasher)
  Removers,   \* storage goroutines that discard blobs
  Paths,      \* blob paths
  Dirs,       \* torrent directories
  Dir,        \* Dir[p] is the torrent directory of blob p
  Handles,    \* fdEntry identities, each used for one open file
  None,       \* no handle
  Max,        \* fdCache.max
  MaxClock,   \* bound on fdCache.clock
  MaxInode    \* bound on the files created

ASSUME FdConstants ==
  /\ Max \in Nat
  /\ MaxClock \in Nat
  /\ MaxInode \in Nat
  /\ None \notin Handles
  /\ Dir \in [Paths -> Dirs]

ASSUME FdFinite == IsFiniteSet(Readers) /\ IsFiniteSet(Paths)

VARIABLES
  m,         \* fdCache.m: the cached handle of each path, or None
  clock,     \* fdCache.clock
  ent,       \* the fdEntry of each handle, with the file it opened
  held,      \* the handle each reader has pinned for its pread
  disk,      \* the file each path names, 0 when there is none
  lastInode, \* the newest file created
  removing   \* paths each remover has dropped and is about to unlink

vars == <<m, clock, ent, held, disk, lastInode, removing>>

\* inode = 0 marks an entry that was never allocated; closes counts Close calls.
Entry == [inode: Nat, used: Nat, refs: Nat, dead: BOOLEAN, closes: Nat]

Unused == {h \in Handles : ent[h].inode = 0}
IsOpen(h) == ent[h].inode # 0 /\ ent[h].closes = 0

Cached(mm) == {p \in Paths : mm[p] # None}
Unpinned(mm, ee) == {p \in Cached(mm) : ee[mm[p]].refs = 0}

(***************************************************************************)
(* retireLocked for every path of S: forget the entry, close its file now  *)
(* if no read holds it, otherwise leave the close to the last reader.      *)
(***************************************************************************)
Forget(mm, S) == [p \in Paths |-> IF p \in S THEN None ELSE mm[p]]

\* Faulty: the pinned handle is closed under its reader, as before reference
\* counting was added.
Retire_ClosesPinned(mm, ee, S) ==
  [h \in Handles |-> IF \E p \in S : mm[p] = h
                       THEN [ee[h] EXCEPT !.closes = @ + 1] ELSE ee[h]]

Retire(mm, ee, S) ==
  [h \in Handles |->
     IF \E p \in S : mm[p] = h
       THEN IF ee[h].refs = 0
              THEN [ee[h] EXCEPT !.closes = @ + 1]
              ELSE [ee[h] EXCEPT !.dead = TRUE]
       ELSE ee[h]]

\* Faulty: evictLocked gives up at the first pinned entry it meets.
Victims_StopsAtPinned(mm, ee) ==
  IF Unpinned(mm, ee) = Cached(mm)
    THEN {V \in SUBSET Cached(mm) :
            Cardinality(Cached(mm)) > Max /\ Cardinality(Cached(mm) \ V) = Max}
    ELSE {{}}

(***************************************************************************)
(* The paths one call of evictLocked can retire: the least recently used   *)
(* unpinned ones, until the map is under the cap or everything is pinned.  *)
(***************************************************************************)
Victims(mm, ee) ==
  {V \in SUBSET Unpinned(mm, ee) :
     /\ \/ Cardinality(Cached(mm)) <= Max /\ V = {}
        \/ Cardinality(Cached(mm) \ V) = Max
        \/ Cardinality(Cached(mm)) > Max + Cardinality(V) /\ V = Unpinned(mm, ee)
     /\ \A v \in V, u \in Unpinned(mm, ee) \ V : ee[mm[v]].used <= ee[mm[u]].used}

Init ==
  /\ m = [p \in Paths |-> None]
  /\ clock = 0
  /\ ent = [h \in Handles |-> [inode |-> 0, used |-> 0, refs |-> 0,
                               dead |-> FALSE, closes |-> 0]]
  /\ held = [r \in Readers |-> None]
  /\ disk = [p \in Paths |-> 0]
  /\ lastInode = 0
  /\ removing = [w \in Removers |-> {}]

(***************************************************************************)
(* readAt up to the first Unlock, on handle h: touch, pin, evict.          *)
(***************************************************************************)
Pinned(e, inode, tick) ==
  [inode |-> inode, used |-> tick, refs |-> e.refs + 1,
   dead |-> e.dead, closes |-> e.closes]

PinAndEvict(r, p, h, inode) ==
  LET m1 == [m EXCEPT ![p] = h]
      e1 == [ent EXCEPT ![h] = Pinned(ent[h], inode, clock + 1)]
  IN  /\ clock < MaxClock
      /\ clock' = clock + 1
      /\ held' = [held EXCEPT ![r] = h]
      /\ \E V \in Victims(m1, e1) :
           /\ m' = Forget(m1, V)
           /\ ent' = Retire(m1, e1, V)

ReadHit(r, p) ==
  /\ held[r] = None
  /\ m[p] # None
  /\ PinAndEvict(r, p, m[p], ent[m[p]].inode)
  /\ UNCHANGED <<disk, lastInode, removing>>

\* os.Open fails on a missing blob: the read then returns without a trace.
ReadMiss(r, p) ==
  /\ held[r] = None
  /\ m[p] = None
  /\ disk[p] # 0
  /\ Unused # {}
  /\ PinAndEvict(r, p, CHOOSE h \in Unused : TRUE, disk[p])
  /\ UNCHANGED <<disk, lastInode, removing>>

\* Faulty: the reader of a retired handle does not close it.
Released_KeepsOpen(e) == [e EXCEPT !.refs = @ - 1]

Released(e) ==
  [inode |-> e.inode, used |-> e.used, refs |-> e.refs - 1, dead |-> e.dead,
   closes |-> IF e.dead /\ e.refs = 1 THEN e.closes + 1 ELSE e.closes]

ReadEnd(r) ==
  LET h == held[r] IN
  /\ h # None
  /\ held' = [held EXCEPT ![r] = None]
  /\ ent' = [ent EXCEPT ![h] = Released(ent[h])]
  /\ UNCHANGED <<m, clock, disk, lastInode, removing>>

RetirePaths(S) ==
  /\ m' = Forget(m, S)
  /\ ent' = Retire(m, ent, S)

\* MarkNotComplete and the eviction loop of addCachePiece: fds.drop(path) ...
Drop(w, p) ==
  /\ removing[w] = {}
  /\ RetirePaths({p})
  /\ removing' = [removing EXCEPT ![w] = {p}]
  /\ UNCHANGED <<clock, held, disk, lastInode>>

\* DropTorrent: fds.dropPrefix(dir) ...
DropPrefix(w, d) ==
  LET S == {p \in Paths : Dir[p] = d} IN
  /\ removing[w] = {}
  /\ RetirePaths(S)
  /\ removing' = [removing EXCEPT ![w] = S]
  /\ UNCHANGED <<clock, held, disk, lastInode>>

\* ... and only then os.Remove(path) or os.RemoveAll(dir).
RemoveBlobs(w) ==
  /\ removing[w] # {}
  /\ disk' = [p \in Paths |-> IF p \in removing[w] THEN 0 ELSE disk[p]]
  /\ removing' = [removing EXCEPT ![w] = {}]
  /\ UNCHANGED <<m, clock, ent, held, lastInode>>

\* WriteAt of a blob that is not there creates it (O_CREATE); a write to an
\* existing one changes the same file in place.
WriteBlob(p) ==
  /\ disk[p] = 0
  /\ lastInode < MaxInode
  /\ lastInode' = lastInode + 1
  /\ disk' = [disk EXCEPT ![p] = lastInode + 1]
  /\ UNCHANGED <<m, clock, ent, held, removing>>

CloseAll ==
  /\ RetirePaths(Paths)
  /\ UNCHANGED <<clock, held, disk, lastInode, removing>>

Next ==
  \/ \E r \in Readers, p \in Paths : ReadHit(r, p)
  \/ \E r \in Readers, p \in Paths : ReadMiss(r, p)
  \/ \E r \in Readers : ReadEnd(r)
  \/ \E w \in Removers, p \in Paths : Drop(w, p)
  \/ \E w \in Removers, d \in Dirs : DropPrefix(w, d)
  \/ \E w \in Removers : RemoveBlobs(w)
  \/ \E p \in Paths : WriteBlob(p)
  \/ CloseAll

Spec == Init /\ [][Next]_vars

-----------------------------------------------------------------------------

\* The values the variables range over.
TypeOK ==
  /\ m \in [Paths -> Handles \cup {None}]
  /\ clock \in Nat
  /\ ent \in [Handles -> Entry]
  /\ held \in [Readers -> Handles \cup {None}]
  /\ disk \in [Paths -> Nat]
  /\ lastInode \in Nat
  /\ removing \in [Removers -> SUBSET Paths]

\* No pread runs on a handle another goroutine has closed: the reference count
\* of readAt keeps it open whatever eviction, drop and closeAll do meanwhile.
NoReadOnClosedHandle == \A r \in Readers : held[r] # None => IsOpen(held[r])

\* Every open file is still reachable: it is cached, or it is retired and a
\* reader that will close it holds it.  Nothing is leaked by a race of drop
\* with a read, and no file is closed twice.
NoHandleLeak ==
  \A h \in Handles :
    /\ IsOpen(h) => \/ \E p \in Paths : m[p] = h
                    \/ ent[h].dead /\ \E r \in Readers : held[r] = h
    /\ ent[h].closes <= 1

\* The map overshoots its cap by no more than the reads in flight (the claim of
\* evictLocked's comment): it never holds more entries than the larger of the
\* cap and the number of readers.
BoundedMap ==
  \/ Cardinality(Cached(m)) <= Max
  \/ Cardinality(Cached(m)) <= Cardinality(Readers)

\* The handle a read has just pinned survives the eviction of the same call,
\* however full the cache is (the comment "Touch and pin BEFORE evicting").
ReadSurvivesItsOwnEviction ==
  [][\A r \in Readers :
       held[r] = None /\ held'[r] # None => \E p \in Paths : m'[p] = held'[r]]_vars

\* What the comment of drop promises: "later reads re-open the fresh file".  A
\* cached handle of a blob nobody is removing is a handle of the file on disk.
CachedHandleIsFresh ==
  \A p \in Paths :
    /\ m[p] # None
    /\ disk[p] # 0
    /\ \A w \in Removers : p \notin removing[w]
    => ent[m[p]].inode = disk[p]
=============================================================================
