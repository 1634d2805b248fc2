---------------------------- MODULE PrefixCache ----------------------------
(***************************************************************************)
(* The streamer's two-tier blob storage (streamer/storage_prefixcache.go): *)
(* a persistent prefix tier whose completion lives in bolt, and a bounded  *)
(* cache tier whose completion lives in memory and whose pieces are        *)
(* evicted by read position.                                               *)
(*                                                                         *)
(* One action is one critical section of s.mu, one update of a completion  *)
(* store, or one file system call.  MarkComplete, MarkNotComplete and      *)
(* DropTorrent each take several of them, and the calls of different       *)
(* pieces interleave.  The torrent client is external: it opens torrents,  *)
(* writes and hashes pieces it believes missing, re-checks completion when *)
(* a read fails, and makes at most one storage call per piece at a time.   *)
(* Open file handles are the subject of FdCache.                           *)
(***************************************************************************)
EXTENDS Pieces, FiniteSets, FiniteSetsExt

CONSTANTS
  Hashes,     \* torrents
  Torrent,    \* the files and the piece length of each torrent
  PrefixSizes, \* what PrefixBytes may be configured to
  SuffixBytes,
  CacheCap,   \* CacheBytes
  Workers,    \* client goroutines that mark pieces
  Readers,    \* reader ids
  None,
  Droppable,  \* torrents the streamer may drop
  DropUnresolved, \* one may be dropped before its metadata is there
  MaxCrash    \* bound on restarts

ASSUME PcConstants ==
  /\ \A h \in Hashes : IsTorrent(Torrent[h])
  /\ PrefixSizes \subseteq Nat /\ PrefixSizes # {}
  /\ SuffixBytes \in Nat /\ CacheCap \in Nat
  /\ Droppable \subseteq Hashes /\ DropUnresolved \in BOOLEAN
  /\ MaxCrash \in Nat

VARIABLES
  retainHot,  \* RETAIN_HOT, fixed when the process is configured
  prefixBytes, \* PrefixBytes of this process
  open,       \* torrents the client has open (external)
  belief,     \* pieces the client believes complete (external)
  blobs,      \* pieces whose blob is on disk, in the directory of their tier
  stray,      \* pieces with a blob in the prefix directory that are not prefix now
  bolt,       \* prefixCompletion: pieces marked complete
  mapc,       \* cacheCompletion: pieces marked complete
  cache,      \* prefixCacheStorage.cache
  cacheBytes,
  prefixKeys, \* prefixCacheStorage.prefixKeys
  prefixResident,
  readers,    \* prefixCacheStorage.readers: the ids registered per torrent
  pos,        \* the playhead of each registered reader
  owner,      \* the torrent each trackedReader reads
  worker,     \* the storage call each worker is in
  dropping,   \* the DropTorrent call in progress
  crashes

vars == <<retainHot, prefixBytes, open, belief, blobs, stray, bolt, mapc, cache, cacheBytes, prefixKeys,
          prefixResident, readers, pos, owner, worker, dropping, crashes>>
configVars == <<retainHot, prefixBytes, stray>>
clientVars == <<configVars, open, belief>>
bookVars == <<cache, cacheBytes, prefixKeys, prefixResident>>
readerVars == <<readers, pos, owner>>

Keys == UNION {{h} \X PieceIndices(Torrent[h]) : h \in Hashes}
ASSUME PcNoKey == None \notin Keys

Size == [k \in Keys |-> PieceSize(Torrent[k[1]], k[2])]

\* The prefix tier under each configuration.
PrefixOf ==
  [n \in PrefixSizes |->
     {k \in Keys : k[2] \in prefixPieceIndices(Torrent[k[1]], n, SuffixBytes)}]

\* The pieces a reader of some file of the torrent can be at, its end included.
Playheads ==
  [h \in Hashes |->
     UNION {{ReaderPiece(Torrent[h], f, b) : b \in 0..f.length} : f \in Torrent[h].files}]

PrefixKeys == PrefixOf[prefixBytes]
CacheKeys == Keys \ PrefixKeys
KeysOf(h) == {k \in Keys : k[1] = h}
BytesOf(S) == UNION {{k} \X (1..Size[k]) : k \in S}
Bytes(S) == Cardinality(BytesOf(S))
Complete(k) == k \in IF k \in PrefixKeys THEN bolt ELSE mapc

NoCall == [pc |-> "idle", key |-> None, victim |-> None, evicted |-> {}]
NoDrop == [pc |-> "idle", ih |-> None, pieces |-> {}]
Busy(k) == \E w \in Workers : worker[w].key = k

Init ==
  /\ retainHot \in BOOLEAN /\ prefixBytes \in PrefixSizes
  /\ open = {} /\ belief = {} /\ blobs = {} /\ stray = {} /\ bolt = {} /\ mapc = {}
  /\ cache = {} /\ cacheBytes = 0 /\ prefixKeys = {} /\ prefixResident = 0
  /\ readers = [h \in Hashes |-> {}]
  /\ pos = [r \in Readers |-> 0]
  /\ owner = [r \in Readers |-> None]
  /\ worker = [w \in Workers |-> NoCall]
  /\ dropping = NoDrop
  /\ crashes = 0

-----------------------------------------------------------------------------
(***************************************************************************)
(* Opening, reading and writing.                                           *)
(***************************************************************************)

\* OpenTorrent re-counts the prefix pieces bolt has; the client asks for the
\* completion of every piece.  That no torrent is opened while it is dropped is
\* what DropTorrent asks of its callers (storage_prefixcache.go:183-184); that
\* they do not see to it is StorageDropIsExclusive of TorrentManager.
OpenTorrent(h) ==
  LET kept == (KeysOf(h) \cap PrefixKeys \cap bolt) \ prefixKeys IN
  /\ h \notin open
  /\ dropping.ih # h
  /\ open' = open \cup {h}
  /\ belief' = belief \cup {k \in KeysOf(h) : Complete(k)}
  /\ prefixKeys' = prefixKeys \cup kept
  /\ prefixResident' = prefixResident + Bytes(kept)
  /\ UNCHANGED <<configVars, blobs, bolt, mapc, cache, cacheBytes, readerVars, worker, dropping, crashes>>

WriteAt(k) ==
  /\ k[1] \in open
  /\ k \notin belief
  /\ k \notin blobs
  /\ \A w \in Workers : worker[w].key = k => worker[w].pc \in {"remove", "clear"}
  /\ blobs' = blobs \cup {k}
  /\ UNCHANGED <<clientVars, bolt, mapc, bookVars, readerVars, worker, dropping, crashes>>

\* A read of a piece whose blob is gone fails and the client asks Completion.
ReadFails(k) ==
  /\ k[1] \in open
  /\ k \in belief
  /\ k \notin blobs
  /\ ~Busy(k)
  /\ ~Complete(k)
  /\ belief' = belief \ {k}
  /\ UNCHANGED <<configVars, open, blobs, bolt, mapc, bookVars, readerVars, worker, dropping, crashes>>

\* The torrent the reader was made for may be dropped by now.
RegisterReader(r, h) ==
  /\ owner[r] = None
  /\ owner' = [owner EXCEPT ![r] = h]
  /\ readers' = [readers EXCEPT ![h] = @ \cup {r}]
  /\ pos' = [pos EXCEPT ![r] = 0]
  /\ UNCHANGED <<clientVars, blobs, bolt, mapc, bookVars, worker, dropping, crashes>>

\* Before a Read and after a Seek; which file the reader has is not kept.
NoteReaderPos(r, i) ==
  /\ owner[r] # None /\ i \in Playheads[owner[r]]
  /\ r \in readers[owner[r]]
  /\ pos' = [pos EXCEPT ![r] = i]
  /\ UNCHANGED <<clientVars, blobs, bolt, mapc, bookVars, readers, owner, worker, dropping, crashes>>

UnregisterReader(r) ==
  /\ owner[r] # None
  /\ owner' = [owner EXCEPT ![r] = None]
  /\ readers' = [readers EXCEPT ![owner[r]] = @ \ {r}]
  /\ pos' = [pos EXCEPT ![r] = 0]
  /\ UNCHANGED <<clientVars, blobs, bolt, mapc, bookVars, worker, dropping, crashes>>

-----------------------------------------------------------------------------
(***************************************************************************)
(* Eviction.                                                               *)
(***************************************************************************)
scoreInactiveBase == 2^30
scoreBehindBase == 2^20

ReaderScore(k, r) == IF k[2] < pos[r] THEN scoreBehindBase + (pos[r] - k[2])
                                      ELSE k[2] - pos[r]

\* Faulty: the least protective verdict of the readers counts.
evictionScore_Max(k) ==
  IF readers[k[1]] = {} THEN scoreInactiveBase + k[2]
                        ELSE Max({ReaderScore(k, r) : r \in readers[k[1]]})

evictionScore(k) ==
  IF readers[k[1]] = {} THEN scoreInactiveBase + k[2]
                        ELSE Min({ReaderScore(k, r) : r \in readers[k[1]]})

Evictable(resident, added) ==
  {k \in resident \ {added} : ~(retainHot /\ readers[k[1]] # {})}

(***************************************************************************)
(* What the loop of addCachePiece can evict: pickVictim takes a highest    *)
(* score each time, until the cache fits or nothing else is evictable.     *)
(***************************************************************************)
EvictionSets(added) ==
  LET resident == cache \cup {added}
      candidates == Evictable(resident, added)
  IN  {V \in SUBSET candidates :
         /\ Bytes(resident \ V) <= CacheCap \/ V = candidates
         /\ \A v \in V, u \in candidates \ V : evictionScore(v) >= evictionScore(u)
         /\ V # {} => \E last \in V :
              /\ \A v \in V : evictionScore(last) <= evictionScore(v)
              /\ Bytes((resident \ V) \cup {last}) > CacheCap}

-----------------------------------------------------------------------------
(***************************************************************************)
(* MarkComplete: set the completion, count the piece and evict, then       *)
(* unlink and unmark each evicted piece without the lock.                  *)
(***************************************************************************)
MarkComplete(w, k) ==
  /\ worker[w] = NoCall
  /\ k[1] \in open
  /\ k \in blobs \ belief
  /\ ~Busy(k)
  /\ bolt' = bolt \cup ({k} \cap PrefixKeys)
  /\ mapc' = mapc \cup ({k} \cap CacheKeys)
  /\ worker' = [worker EXCEPT ![w] = [NoCall EXCEPT !.pc = "add", !.key = k]]
  /\ UNCHANGED <<clientVars, blobs, bookVars, readerVars, dropping, crashes>>

addPrefixResident(w) ==
  LET k == worker[w].key IN
  /\ worker[w].pc = "add"
  /\ k \in PrefixKeys
  /\ prefixKeys' = prefixKeys \cup {k}
  /\ prefixResident' = prefixResident + Bytes({k} \ prefixKeys)
  /\ belief' = belief \cup {k}
  /\ worker' = [worker EXCEPT ![w] = NoCall]
  /\ UNCHANGED <<configVars, open, blobs, bolt, mapc, cache, cacheBytes, readerVars, dropping, crashes>>

addCachePiece(w) ==
  LET k == worker[w].key IN
  /\ worker[w].pc = "add"
  /\ k \in CacheKeys
  /\ \E V \in IF k \in cache THEN {{}} ELSE EvictionSets(k) :
       /\ cache' = (cache \cup {k}) \ V
       /\ cacheBytes' = (cacheBytes + Bytes({k} \ cache)) - Bytes(V)
       /\ worker' = [worker EXCEPT ![w].pc = "unlink", ![w].evicted = V]
  /\ UNCHANGED <<clientVars, blobs, bolt, mapc, prefixKeys, prefixResident,
                 readerVars, dropping, crashes>>

UnlinkEvicted(w, k) ==
  /\ worker[w].pc = "unlink"
  /\ k \in worker[w].evicted
  /\ blobs' = blobs \ {k}
  /\ worker' = [worker EXCEPT ![w].pc = "unmark", ![w].victim = k, ![w].evicted = @ \ {k}]
  /\ UNCHANGED <<clientVars, bolt, mapc, bookVars, readerVars, dropping, crashes>>

\* Faulty: an evicted piece stays marked complete.
UnmarkEvicted_Skip(w) ==
  /\ worker[w].pc = "unmark"
  /\ worker' = [worker EXCEPT ![w].pc = "unlink", ![w].victim = None]
  /\ UNCHANGED <<clientVars, blobs, bolt, mapc, bookVars, readerVars, dropping, crashes>>

UnmarkEvicted(w) ==
  /\ worker[w].pc = "unmark"
  /\ mapc' = mapc \ {worker[w].victim}
  /\ worker' = [worker EXCEPT ![w].pc = "unlink", ![w].victim = None]
  /\ UNCHANGED <<clientVars, blobs, bolt, bookVars, readerVars, dropping, crashes>>

MarkCompleteReturns(w) ==
  /\ worker[w].pc = "unlink"
  /\ worker[w].evicted = {}
  /\ belief' = belief \cup {worker[w].key}
  /\ worker' = [worker EXCEPT ![w] = NoCall]
  /\ UNCHANGED <<configVars, open, blobs, bolt, mapc, bookVars, readerVars, dropping, crashes>>

-----------------------------------------------------------------------------
(***************************************************************************)
(* MarkNotComplete, after a failed hash: of a piece just written, or of a  *)
(* piece no completion store has seen, which the client hashes at start,   *)
(* blob or no blob, while it may already be writing chunks of it.          *)
(***************************************************************************)
MarkNotComplete(w, k) ==
  /\ worker[w] = NoCall
  /\ k[1] \in open
  /\ ~Busy(k)
  /\ k \notin belief
  /\ blobs' = blobs \ {k}
  /\ worker' = [worker EXCEPT ![w] = [NoCall EXCEPT !.pc = "remove", !.key = k]]
  /\ UNCHANGED <<clientVars, bolt, mapc, bookVars, readerVars, dropping, crashes>>

\* Faulty: the size is subtracted whether or not the piece was resident.
RemoveResident_Unguarded(w) ==
  LET k == worker[w].key IN
  /\ worker[w].pc = "remove"
  /\ prefixKeys' = prefixKeys \ {k}
  /\ cache' = cache \ {k}
  /\ prefixResident' = prefixResident - (IF k \in PrefixKeys THEN Size[k] ELSE 0)
  /\ cacheBytes' = cacheBytes - (IF k \in CacheKeys THEN Size[k] ELSE 0)
  /\ worker' = [worker EXCEPT ![w].pc = "clear"]
  /\ UNCHANGED <<clientVars, blobs, bolt, mapc, readerVars, dropping, crashes>>

\* removePrefixResident or removeCacheEntry
RemoveResident(w) ==
  LET k == worker[w].key IN
  /\ worker[w].pc = "remove"
  /\ prefixKeys' = prefixKeys \ {k}
  /\ cache' = cache \ {k}
  /\ prefixResident' = prefixResident - Bytes({k} \cap prefixKeys)
  /\ cacheBytes' = cacheBytes - Bytes({k} \cap cache)
  /\ worker' = [worker EXCEPT ![w].pc = "clear"]
  /\ UNCHANGED <<clientVars, blobs, bolt, mapc, readerVars, dropping, crashes>>

ClearCompletion(w) ==
  /\ worker[w].pc = "clear"
  /\ bolt' = bolt \ ({worker[w].key} \cap PrefixKeys)
  /\ mapc' = mapc \ ({worker[w].key} \cap CacheKeys)
  /\ belief' = belief \ {worker[w].key}
  /\ worker' = [worker EXCEPT ![w] = NoCall]
  /\ UNCHANGED <<configVars, open, blobs, bookVars, readerVars, dropping, crashes>>

-----------------------------------------------------------------------------
(***************************************************************************)
(* DropTorrent, after the client has dropped the torrent and while no call *)
(* for it is in flight.                                                    *)
(***************************************************************************)
DropTorrent(h) ==
  LET gone == prefixKeys \cap KeysOf(h) IN
  /\ dropping = NoDrop
  /\ h \in Droppable /\ (h \in open \/ DropUnresolved)
  /\ \A k \in KeysOf(h) : ~Busy(k)
  /\ open' = open \ {h}
  /\ belief' = belief \ KeysOf(h)
  /\ cache' = cache \ KeysOf(h)
  /\ cacheBytes' = cacheBytes - Bytes(cache \cap KeysOf(h))
  /\ prefixKeys' = prefixKeys \ gone
  /\ prefixResident' = prefixResident - Bytes(gone)
  /\ readers' = [readers EXCEPT ![h] = {}]
  /\ dropping' = [pc |-> "bolt", ih |-> h, pieces |-> gone]
  /\ UNCHANGED <<configVars, blobs, bolt, mapc, pos, owner, worker, crashes>>

ClearDropped ==
  /\ dropping.pc = "bolt"
  /\ bolt' = bolt \ dropping.pieces
  /\ dropping' = [dropping EXCEPT !.pc = "rmprefix"]
  /\ UNCHANGED <<clientVars, blobs, mapc, bookVars, readerVars, worker, crashes>>

RemovePrefixDir ==
  /\ dropping.pc = "rmprefix"
  /\ blobs' = blobs \ (KeysOf(dropping.ih) \cap PrefixKeys)
  /\ stray' = stray \ KeysOf(dropping.ih)
  /\ dropping' = [dropping EXCEPT !.pc = "rmcache"]
  /\ UNCHANGED <<retainHot, prefixBytes, open, belief, bolt, mapc, bookVars, readerVars, worker, crashes>>

RemoveCacheDir ==
  /\ dropping.pc = "rmcache"
  /\ blobs' = blobs \ (KeysOf(dropping.ih) \cap CacheKeys)
  /\ dropping' = NoDrop
  /\ UNCHANGED <<clientVars, bolt, mapc, bookVars, readerVars, worker, crashes>>

\* The process stops and starts with PrefixBytes = n; newPrefixCacheStorage wipes
\* the cache directory and leaves bolt and the prefix directory alone.
Restart(n) ==
  LET kept == (blobs \cap PrefixKeys) \cup stray IN
  /\ crashes < MaxCrash
  /\ crashes' = crashes + 1
  /\ prefixBytes' = n
  /\ open' = {} /\ belief' = {} /\ mapc' = {}
  /\ cache' = {} /\ cacheBytes' = 0 /\ prefixKeys' = {} /\ prefixResident' = 0
  /\ blobs' = kept \cap PrefixOf[n] /\ stray' = kept \ PrefixOf[n]
  /\ readers' = [h \in Hashes |-> {}]
  /\ pos' = [r \in Readers |-> 0]
  /\ owner' = [r \in Readers |-> None]
  /\ worker' = [w \in Workers |-> NoCall]
  /\ dropping' = NoDrop
  /\ UNCHANGED <<retainHot, bolt>>

-----------------------------------------------------------------------------

WorkerStep(w) ==
  \/ addPrefixResident(w)
  \/ addCachePiece(w)
  \/ \E k \in CacheKeys : UnlinkEvicted(w, k)
  \/ UnmarkEvicted(w)
  \/ MarkCompleteReturns(w)
  \/ RemoveResident(w)
  \/ ClearCompletion(w)

Next ==
  \/ \E h \in Hashes : OpenTorrent(h) \/ DropTorrent(h)
  \/ \E k \in Keys : WriteAt(k) \/ ReadFails(k)
  \/ \E r \in Readers, h \in Hashes : RegisterReader(r, h)
  \/ \E r \in Readers, i \in UNION {Playheads[h] : h \in Hashes} : NoteReaderPos(r, i)
  \/ \E r \in Readers : UnregisterReader(r)
  \/ \E w \in Workers, k \in Keys : MarkComplete(w, k) \/ MarkNotComplete(w, k)
  \/ \E w \in Workers : WorkerStep(w)
  \/ ClearDropped
  \/ RemovePrefixDir
  \/ RemoveCacheDir
  \/ \E n \in PrefixSizes : Restart(n)

Spec == Init /\ [][Next]_vars

-----------------------------------------------------------------------------

\* The values the variables range over.
TypeOK ==
  /\ retainHot \in BOOLEAN /\ prefixBytes \in PrefixSizes /\ open \subseteq Hashes
  /\ belief \subseteq Keys /\ blobs \subseteq Keys /\ stray \subseteq CacheKeys
  /\ bolt \subseteq Keys /\ mapc \subseteq CacheKeys
  /\ cache \subseteq CacheKeys /\ prefixKeys \subseteq PrefixKeys
  /\ cacheBytes \in Nat /\ prefixResident \in Nat
  /\ readers \in [Hashes -> SUBSET Readers]
  /\ owner \in [Readers -> Hashes \cup {None}]
  /\ dropping.pc \in {"idle", "bolt", "rmprefix", "rmcache"}
  /\ \A w \in Workers : worker[w].pc \in {"idle", "add", "unlink", "unmark", "remove", "clear"}

\* The byte counters that bound the cache and feed Capacity are the sums of the
\* sizes of what is resident, across eviction, invalidation, drop and restart.
AccountingExact ==
  /\ cacheBytes = Bytes(cache)
  /\ prefixResident = Bytes(prefixKeys)

\* Without retainHot the cache never holds more than CacheCap, or more than the
\* one piece just inserted (storage_prefixcache.go:29-31, 417-437).
CacheIsBounded ==
  ~retainHot => cacheBytes <= CacheCap \/ \E k \in cache : cache = {k}

Evicts(k) == \E w \in Workers : worker[w].pc = "add" /\ k \in worker'[w].evicted

\* Viewers do not evict each other's windows (storage_prefixcache.go:33-40,
\* 478-483): when a piece at or ahead of some playhead of its torrent goes, each
\* piece that stays is at or ahead of a playhead too, and no further ahead of it.
EvictionProtectsPlayheads ==
  [][\A k \in cache : Evicts(k) =>
       \A r \in readers[k[1]], j \in cache \cap cache' :
         pos[r] <= k[2] =>
           \E q \in readers[j[1]] : pos[q] <= j[2] /\ j[2] - pos[q] <= k[2] - pos[r]]_vars

\* Completion is never a lie while no call for the piece is in flight: a piece
\* marked complete has its blob, so a read of it cannot fail for good.  It holds
\* for the prefix tier across failed hashes, drops and restarts, and
\* for the cache tier of torrents that are not dropped.
CompletionIsBacked ==
  \A k \in (bolt \cap PrefixKeys) \cup {j \in mapc : j[1] \notin Droppable} :
    \/ k \in blobs
    \/ \E w \in Workers : k \in {worker[w].key, worker[w].victim} \cup worker[w].evicted

\* storage_prefixcache.go:179-181: DropTorrent "frees all on-disk and in-memory
\* state for a torrent"; a re-add must not trust completion for deleted files.
DropForgetsCompletion ==
  \A h \in Hashes : h \notin open /\ dropping.ih # h =>
    \A k \in KeysOf(h) : Complete(k) => k \in blobs
=============================================================================
