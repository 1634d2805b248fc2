------------------------- MODULE PrefixCacheProofs -------------------------
(***************************************************************************)
(* Proofs about Pieces and PrefixCache, for any torrents, configuration,   *)
(* readers and workers.                                                    *)
(***************************************************************************)
EXTENDS PrefixCache, FiniteSetTheorems, WellFoundedInduction, TLAPS

-----------------------------------------------------------------------------
(***************************************************************************)
(* Pieces.                                                                 *)
(***************************************************************************)

\* What whole division means.
LEMMA PieceOfByte ==
  ASSUME NEW t, t.pieceLength \in Nat \ {0}, NEW byte \in Nat
  PROVE  /\ PieceOf(t, byte) \in Nat
         /\ PieceOf(t, byte) * t.pieceLength <= byte
         /\ byte < (PieceOf(t, byte) + 1) * t.pieceLength
<1> DEFINE p == t.pieceLength
<1>1. ASSUME NEW q \in Nat \ {0}, NEW b \in Nat
      PROVE  b \div q \in Nat /\ (b \div q) * q <= b /\ b < ((b \div q) + 1) * q
  BY <1>1, SMTT(30)
<1> QED
  BY <1>1 DEF PieceOf

LEMMA Scaled ==
  ASSUME NEW p \in Nat, NEW m \in Nat, NEW n \in Nat, m <= n
  PROVE  m * p \in Nat /\ n * p \in Nat /\ m * p <= n * p
<1>1. PICK d \in Nat : n = m + d
  <2>1. n - m \in Nat /\ n = m + (n - m)
    OBVIOUS
  <2> QED
    BY <2>1
<1>2. n * p = m * p + d * p
  BY <1>1
<1>3. d * p \in Nat /\ m * p \in Nat
  OBVIOUS
<1> QED
  BY <1>2, <1>3

\* A later byte is in no earlier piece.
LEMMA PiecesAreOrdered ==
  ASSUME NEW p \in Nat \ {0}, NEW a \in Nat, NEW b \in Nat, NEW i \in Nat, NEW j \in Nat,
         a <= b, i * p <= a, b < (j + 1) * p
  PROVE  i <= j
<1>1. SUFFICES ASSUME j + 1 <= i PROVE FALSE
  OBVIOUS
<1>2. (j + 1) * p \in Nat /\ i * p \in Nat /\ (j + 1) * p <= i * p
  BY <1>1, Scaled
<1> QED
  BY <1>2

\* The pieces of a range of bytes are those that hold one of its bytes: addRange
\* skips none in the middle and adds none beyond.
LEMMA PiecesOfBytes ==
  ASSUME NEW t, t.pieceLength \in Nat \ {0}, NEW lo \in Nat, NEW hi \in Nat, lo <= hi
  PROVE  PiecesOf(t, lo, hi) = {PieceOf(t, b) : b \in lo .. hi}
<1> DEFINE p == t.pieceLength
<1>0. p \in Nat \ {0}
  OBVIOUS
<1>1. \A b \in Nat : /\ PieceOf(t, b) \in Nat
                     /\ PieceOf(t, b) * p <= b
                     /\ b < (PieceOf(t, b) + 1) * p
  BY PieceOfByte
<1>2. PiecesOf(t, lo, hi) = PieceOf(t, lo) .. PieceOf(t, hi)
  BY DEF PiecesOf
<1> HIDE DEF p
<1>3. ASSUME NEW b \in lo .. hi PROVE PieceOf(t, b) \in PiecesOf(t, lo, hi)
  <2>0. b \in Nat /\ lo <= b /\ b <= hi
    OBVIOUS
  <2>1. PieceOf(t, lo) <= PieceOf(t, b)
    BY <1>0, <1>1, <2>0, PiecesAreOrdered
  <2>2. PieceOf(t, b) <= PieceOf(t, hi)
    BY <1>0, <1>1, <2>0, PiecesAreOrdered
  <2> QED
    BY <1>1, <1>2, <2>0, <2>1, <2>2
<1>4. ASSUME NEW i \in PiecesOf(t, lo, hi) PROVE \E b \in lo .. hi : PieceOf(t, b) = i
  <2>1. i \in Nat /\ PieceOf(t, lo) <= i /\ i <= PieceOf(t, hi)
    BY <1>1, <1>2
  <2>2. CASE i = PieceOf(t, lo)
    BY <2>2
  <2>3. CASE PieceOf(t, lo) + 1 <= i
    <3>1. i * p \in Nat /\ (i + 1) * p \in Nat /\ (i + 1) * p = i * p + p
      BY <1>0, <2>1
    <3>2. /\ PieceOf(t, i * p) \in Nat
          /\ PieceOf(t, i * p) * p <= i * p
          /\ i * p < (PieceOf(t, i * p) + 1) * p
      BY <1>1, <3>1
    <3>3. PieceOf(t, i * p) <= i
      BY <1>0, <2>1, <3>1, <3>2, PiecesAreOrdered
    <3>4. i <= PieceOf(t, i * p)
      BY <1>0, <2>1, <3>1, <3>2, PiecesAreOrdered
    <3>5. lo <= i * p
      <4>1. /\ (PieceOf(t, lo) + 1) * p <= i * p
            /\ (PieceOf(t, lo) + 1) * p \in Nat
        BY <1>0, <1>1, <2>1, <2>3, Scaled
      <4> QED
        BY <1>1, <3>1, <4>1
    <3>6. i * p <= hi
      <4>1. i * p <= PieceOf(t, hi) * p /\ PieceOf(t, hi) * p \in Nat
        BY <1>0, <1>1, <2>1, Scaled
      <4> QED
        BY <1>1, <3>1, <4>1
    <3> QED
      BY <2>1, <3>1, <3>2, <3>3, <3>4, <3>5, <3>6
  <2> QED
    BY <1>1, <2>1, <2>2, <2>3
<1> QED
  BY <1>3, <1>4

\* Byte b is one that makes its piece stay resident.
Pinned(f, prefix, suffix, b) ==
  /\ f.offset <= b /\ b < f.offset + f.length
  /\ b < f.offset + prefix \/ f.offset + f.length <= b + suffix

\* storage.go:110-160: the pinned pieces are exactly those that hold one of the
\* first prefixBytes or of the last suffixBytes bytes of a video, wherever the
\* files of the torrent meet the boundaries of its pieces.
THEOREM PinnedIsPrefixAndSuffix ==
  ASSUME NEW t, IsTorrent(t), NEW prefix \in Nat, NEW suffix \in Nat
  PROVE  prefixPieceIndices(t, prefix, suffix) =
           UNION {{PieceOf(t, b) : b \in {n \in 0 .. t.length : Pinned(f, prefix, suffix, n)}} :
                    f \in VideoFiles(t)}
<1> DEFINE Bytes0(f) == {n \in 0 .. t.length : Pinned(f, prefix, suffix, n)}
<1>0. t.pieceLength \in Nat \ {0} /\ t.length \in Nat
  BY DEF IsTorrent
<1>1. ASSUME NEW f \in VideoFiles(t)
      PROVE  FirstPieces(t, f, prefix) \cup LastPieces(t, f, suffix) = {PieceOf(t, b) : b \in Bytes0(f)}
  <2>1. /\ f.offset \in Nat /\ f.length \in Nat /\ f.length > 0
        /\ f.offset + f.length <= t.length
    BY DEF VideoFiles, IsTorrent, File
  <2> DEFINE head == Lesser(prefix, f.length)
             tail == Lesser(suffix, f.length)
             last == f.offset + f.length - 1
  <2>2. /\ head \in Nat /\ head <= prefix /\ head <= f.length
        /\ tail \in Nat /\ tail <= suffix /\ tail <= f.length
        /\ head = prefix \/ head = f.length
        /\ tail = suffix \/ tail = f.length
    BY <2>1 DEF Lesser
  <2> HIDE DEF head, tail
  <2>3. FirstPieces(t, f, prefix) = {PieceOf(t, b) : b \in f.offset .. (f.offset + head - 1)}
    <3>1. CASE prefix = 0
      <4>1. f.offset .. (f.offset + head - 1) = {}
        BY <2>1, <2>2, <3>1
      <4> QED
        BY <3>1, <4>1 DEF FirstPieces
    <3>2. CASE prefix > 0
      <4>1. /\ f.offset + head - 1 \in Nat /\ f.offset <= f.offset + head - 1
        BY <2>1, <2>2, <3>2
      <4> QED
        BY <1>0, <2>1, <3>2, <4>1, PiecesOfBytes DEF FirstPieces, head
    <3> QED
      BY <3>1, <3>2
  <2>4. LastPieces(t, f, suffix) = {PieceOf(t, b) : b \in (last - tail + 1) .. last}
    <3>1. CASE suffix = 0
      <4>1. (last - tail + 1) .. last = {}
        BY <2>1, <2>2, <3>1
      <4> QED
        BY <3>1, <4>1 DEF LastPieces
    <3>2. CASE suffix > 0
      <4>1. last - tail + 1 \in Nat /\ last \in Nat /\ last - tail + 1 <= last
        BY <2>1, <2>2, <3>2
      <4> QED
        BY <1>0, <3>2, <4>1, PiecesOfBytes DEF LastPieces, tail
    <3> QED
      BY <3>1, <3>2
  <2>5. f.offset .. (f.offset + head - 1) \cup (last - tail + 1) .. last = Bytes0(f)
    <3>1. ASSUME NEW b \in Nat
          PROVE  b \in f.offset .. (f.offset + head - 1) \cup (last - tail + 1) .. last <=> b \in Bytes0(f)
      <4>1. b \in Bytes0(f) <=> b <= t.length /\ Pinned(f, prefix, suffix, b)
        BY <1>0
      <4>2. b \in f.offset .. (f.offset + head - 1) <=> f.offset <= b /\ b < f.offset + head
        BY <2>1, <2>2
      <4>3. b \in (last - tail + 1) .. last <=> f.offset + f.length <= b + tail /\ b < f.offset + f.length
        BY <2>1, <2>2
      <4> HIDE DEF Bytes0
      <4> QED
        BY <1>0, <2>1, <2>2, <4>1, <4>2, <4>3 DEF Pinned
    <3>2. last - tail + 1 >= 0
      BY <2>1, <2>2
    <3>3. \A b \in f.offset .. (f.offset + head - 1) \cup (last - tail + 1) .. last : b \in Nat
      BY <2>1, <2>2, <3>2
    <3> QED
      BY <3>1, <3>3
  <2> HIDE DEF last
  <2> QED
    BY <2>3, <2>4, <2>5
<1> HIDE DEF Bytes0
<1>2. prefixPieceIndices(t, prefix, suffix) = UNION {{PieceOf(t, b) : b \in Bytes0(f)} : f \in VideoFiles(t)}
  BY <1>1 DEF prefixPieceIndices
<1> QED
  BY <1>2 DEF Bytes0

\* A video whose start is pinned has the piece its player blocks on among the
\* pinned ones: the piece requested at once is also kept.
THEOREM StartIsPinned ==
  ASSUME NEW t, IsTorrent(t), NEW prefix \in Nat \ {0}, NEW suffix \in Nat
  PROVE  videoFileStartPieces(t) \subseteq prefixPieceIndices(t, prefix, suffix)
<1>1. ASSUME NEW f \in VideoFiles(t)
      PROVE  /\ f.offset \in 0 .. t.length
             /\ Pinned(f, prefix, suffix, f.offset)
  BY DEF VideoFiles, IsTorrent, File, Pinned
<1> QED
  BY <1>1, PinnedIsPrefixAndSuffix DEF videoFileStartPieces

-----------------------------------------------------------------------------
(***************************************************************************)
(* Types, and what each step of a storage call still has to do.            *)
(***************************************************************************)
WorkerCall == [pc: {"idle", "add", "unlink", "unmark", "remove", "clear"}, key: Keys \cup {None},
               victim: CacheKeys \cup {None}, evicted: SUBSET CacheKeys]
DropCall == [pc: {"idle", "bolt", "rmprefix", "rmcache"}, ih: Hashes \cup {None}, pieces: SUBSET Keys]

Sets ==
  /\ prefixBytes \in PrefixSizes
  /\ open \subseteq Hashes /\ belief \subseteq Keys /\ blobs \subseteq Keys /\ bolt \subseteq Keys
  /\ mapc \subseteq CacheKeys /\ cache \subseteq CacheKeys /\ prefixKeys \subseteq PrefixKeys

Calls ==
  /\ worker \in [Workers -> WorkerCall]
  /\ dropping \in DropCall
  /\ dropping.pc # "idle" => dropping.ih \in Droppable
  /\ \A w \in Workers :
       /\ worker[w].pc # "idle" => worker[w].key \in Keys
       /\ worker[w].pc = "unmark" <=> worker[w].victim # None
       /\ worker[w].pc \notin {"unlink", "unmark"} => worker[w].evicted = {}

Types == Sets /\ Calls

LEMMA TierOfKeys == CacheKeys \subseteq Keys /\ PrefixKeys \cap CacheKeys = {}
  BY DEF CacheKeys

LEMMA PrefixKeysAreKeys == prefixBytes \in PrefixSizes => PrefixKeys \subseteq Keys
  BY DEF PrefixKeys, PrefixOf

LEMMA KeysHaveHashes == \A k \in Keys : k[1] \in Hashes
  BY DEF Keys

LEMMA EvictedAreCached ==
  \A k : \A V \in EvictionSets(k) : V \subseteq cache \ {k}
  BY DEF EvictionSets, Evictable

LEMMA InitTypes == Init => Types
  BY DEF Init, Types, Sets, Calls, NoCall, NoDrop, WorkerCall, DropCall, PrefixKeys

\* One storage call moves on, the others stay where they are.
LEMMA CallMoves ==
  ASSUME Calls, NEW w \in Workers, NEW c, worker' = [worker EXCEPT ![w] = c],
         UNCHANGED <<dropping, prefixBytes>>,
         c \in WorkerCall,
         c.pc # "idle" => c.key \in Keys,
         c.pc = "unmark" <=> c.victim # None,
         c.pc \notin {"unlink", "unmark"} => c.evicted = {}
  PROVE  Calls'
<1>1. \A v \in Workers : worker'[v] = IF v = w THEN c ELSE worker[v]
  BY DEF Calls
<1>2. CacheKeys' = CacheKeys /\ WorkerCall' = WorkerCall
  BY DEF CacheKeys, PrefixKeys, WorkerCall
<1>3. worker' \in [Workers -> WorkerCall']
  BY <1>2 DEF Calls
<1> QED
  BY <1>1, <1>3 DEF Calls

LEMMA StepTypes == Types /\ [Next]_vars => Types'
<1> SUFFICES ASSUME Types, [Next]_vars PROVE Types'
  OBVIOUS
<1>0. /\ PrefixKeys \subseteq Keys /\ CacheKeys \subseteq Keys /\ PrefixKeys \cap CacheKeys = {}
      /\ NoCall \in WorkerCall
      /\ \A w \in Workers : worker[w] \in WorkerCall
  BY TierOfKeys, PrefixKeysAreKeys DEF Types, Sets, Calls, NoCall, WorkerCall
<1>1. ASSUME UNCHANGED prefixBytes PROVE PrefixKeys' = PrefixKeys /\ CacheKeys' = CacheKeys /\ WorkerCall' = WorkerCall
  BY <1>1 DEF PrefixKeys, CacheKeys, WorkerCall
<1>2. ASSUME UNCHANGED <<worker, dropping, prefixBytes>> PROVE Calls'
  BY <1>1, <1>2 DEF Types, Calls
<1>3. ASSUME NEW h \in Hashes, OpenTorrent(h) PROVE Types'
  BY <1>1, <1>2, <1>3 DEF OpenTorrent, configVars, readerVars, KeysOf, Types, Sets
<1>4. ASSUME NEW k \in Keys, WriteAt(k) \/ ReadFails(k) PROVE Types'
  BY <1>1, <1>2, <1>4 DEF WriteAt, ReadFails, clientVars, configVars, bookVars, readerVars,
       Types, Sets
<1>5. ASSUME \/ \E r \in Readers, h \in Hashes : RegisterReader(r, h)
             \/ \E r \in Readers, i \in UNION {Playheads[h] : h \in Hashes} : NoteReaderPos(r, i)
             \/ \E r \in Readers : UnregisterReader(r)
      PROVE  Types'
  BY <1>1, <1>2, <1>5 DEF RegisterReader, NoteReaderPos, UnregisterReader, clientVars,
       configVars, bookVars,
                          Types, Sets
<1>6. ASSUME NEW w \in Workers, NEW k \in Keys, MarkComplete(w, k) \/ MarkNotComplete(w, k) PROVE Types'
  <2>1. \A pc \in {"add", "remove"} :
          LET c == [NoCall EXCEPT !.pc = pc, !.key = k] IN
            c \in WorkerCall /\ c.pc = pc /\ c.key = k /\ c.victim = None /\ c.evicted = {}
    BY DEF NoCall, WorkerCall
  <2>2. Calls'
    BY <1>6, <2>1, CallMoves DEF MarkComplete, MarkNotComplete, clientVars, configVars, Types
  <2>3. Sets'
    BY <1>0, <1>1, <1>6 DEF MarkComplete, MarkNotComplete, clientVars, configVars, bookVars,
         Types, Sets
  <2> QED
    BY <2>2, <2>3 DEF Types
<1>7. ASSUME NEW w \in Workers, addPrefixResident(w) PROVE Types'
  <2>1. Calls'
    BY <1>0, <1>7, CallMoves DEF addPrefixResident, configVars, NoCall, Types
  <2> QED
    BY <1>0, <1>1, <1>7, <2>1 DEF addPrefixResident, configVars, readerVars, Types, Sets
<1>8. ASSUME NEW w \in Workers, addCachePiece(w) PROVE Types'
  <2>1. PICK V \in SUBSET cache :
          /\ cache' = (cache \cup {worker[w].key}) \ V
          /\ worker' = [worker EXCEPT ![w] = [worker[w] EXCEPT !.pc = "unlink", !.evicted = V]]
    <3>1. PICK V \in IF worker[w].key \in cache THEN {{}} ELSE EvictionSets(worker[w].key) :
            /\ cache' = (cache \cup {worker[w].key}) \ V
            /\ worker' = [worker EXCEPT ![w].pc = "unlink", ![w].evicted = V]
      BY <1>8 DEF addCachePiece
    <3>2. V \subseteq cache
      BY <3>1, EvictedAreCached
    <3>3. worker' = [worker EXCEPT ![w] = [worker[w] EXCEPT !.pc = "unlink", !.evicted = V]]
      BY <3>1
    <3> QED
      BY <3>1, <3>2, <3>3
  <2>2. [worker[w] EXCEPT !.pc = "unlink", !.evicted = V] \in WorkerCall
    BY <1>0, <2>1 DEF WorkerCall, Types, Sets
  <2>3. Calls'
    BY <1>0, <1>8, <2>1, <2>2, CallMoves DEF addCachePiece, clientVars, configVars,
         WorkerCall, Types, Calls
  <2> QED
    BY <1>0, <1>1, <1>8, <2>1, <2>3 DEF addCachePiece, clientVars, configVars, readerVars,
         Types, Sets
<1>9. ASSUME NEW w \in Workers, NEW k \in CacheKeys, UnlinkEvicted(w, k) PROVE Types'
  <2>1. [worker[w] EXCEPT !.pc = "unmark", !.victim = k, !.evicted = @ \ {k}] \in WorkerCall
    BY <1>0 DEF WorkerCall
  <2>2. worker' = [worker EXCEPT ![w] = [worker[w] EXCEPT !.pc = "unmark", !.victim = k, !.evicted = @ \ {k}]]
    BY <1>9 DEF UnlinkEvicted
  <2>3. k # None
    BY <1>0, PcNoKey
  <2>4. Calls'
    BY <1>0, <1>9, <2>1, <2>2, <2>3, CallMoves
       DEF UnlinkEvicted, clientVars, configVars, WorkerCall, Types, Calls
  <2> QED
    BY <1>0, <1>1, <1>9, <2>4 DEF UnlinkEvicted, clientVars, configVars, bookVars, Types, Sets
<1>10. ASSUME NEW w \in Workers, UnmarkEvicted(w) PROVE Types'
  <2>1. [worker[w] EXCEPT !.pc = "unlink", !.victim = None] \in WorkerCall
    BY <1>0 DEF WorkerCall
  <2>2. worker' = [worker EXCEPT ![w] = [worker[w] EXCEPT !.pc = "unlink", !.victim = None]]
    BY <1>10 DEF UnmarkEvicted
  <2>3. Calls'
    BY <1>0, <1>10, <2>1, <2>2, CallMoves
       DEF UnmarkEvicted, clientVars, configVars, WorkerCall, Types, Calls
  <2> QED
    BY <1>0, <1>1, <1>10, <2>3 DEF UnmarkEvicted, clientVars, configVars, bookVars, Types, Sets
<1>11. ASSUME NEW w \in Workers, MarkCompleteReturns(w) \/ ClearCompletion(w) PROVE Types'
  <2>1. Calls'
    BY <1>0, <1>11, CallMoves DEF MarkCompleteReturns, ClearCompletion, configVars, NoCall,
         Types
  <2>2. worker[w].key \in Keys
    BY <1>11 DEF MarkCompleteReturns, ClearCompletion, Types, Calls
  <2> QED
    BY <1>0, <1>1, <1>11, <2>1, <2>2 DEF MarkCompleteReturns, ClearCompletion, configVars,
         bookVars, Types, Sets
<1>12. ASSUME NEW w \in Workers, RemoveResident(w) PROVE Types'
  <2>1. [worker[w] EXCEPT !.pc = "clear"] \in WorkerCall
    BY <1>0 DEF WorkerCall
  <2>2. worker' = [worker EXCEPT ![w] = [worker[w] EXCEPT !.pc = "clear"]]
    BY <1>12 DEF RemoveResident
  <2>3. Calls'
    <3>1. /\ worker[w].pc = "remove" /\ worker[w].key \in Keys
          /\ worker[w].victim = None /\ worker[w].evicted = {}
      BY <1>12 DEF RemoveResident, Types, Calls
    <3> DEFINE c == [worker[w] EXCEPT !.pc = "clear"]
    <3>2. c.pc = "clear" /\ c.key \in Keys /\ c.victim = None /\ c.evicted = {}
      BY <1>0, <3>1 DEF WorkerCall
    <3>3. UNCHANGED <<dropping, prefixBytes>>
      BY <1>12 DEF RemoveResident, clientVars, configVars
    <3> QED
      BY <1>0, <1>1, <2>1, <2>2, <3>2, <3>3, CallMoves DEF Types
  <2> QED
    BY <1>0, <1>1, <1>12, <2>3 DEF RemoveResident, clientVars, configVars, readerVars, Types,
         Sets
<1>13. ASSUME NEW h \in Hashes, DropTorrent(h) PROVE Types'
  <2>1. /\ dropping' = [pc |-> "bolt", ih |-> h, pieces |-> prefixKeys \cap KeysOf(h)]
        /\ h \in Droppable /\ UNCHANGED <<worker, prefixBytes>>
    BY <1>13 DEF DropTorrent, configVars
  <2>2. dropping' \in DropCall /\ dropping'.ih = h
    BY <2>1 DEF DropCall, KeysOf
  <2>3. Calls'
    BY <1>1, <2>1, <2>2 DEF Types, Calls
  <2> QED
    BY <1>1, <1>13, <2>1, <2>3 DEF DropTorrent, configVars, Types, Sets
<1>14. CASE ClearDropped \/ RemovePrefixDir \/ RemoveCacheDir
  <2>1. /\ UNCHANGED <<worker, prefixBytes>>
        /\ \/ dropping' = NoDrop
           \/ \E pc \in {"rmprefix", "rmcache"} :
                dropping.pc # "idle" /\ dropping' = [dropping EXCEPT !.pc = pc]
    BY <1>14 DEF ClearDropped, RemovePrefixDir, RemoveCacheDir, clientVars, configVars
  <2>2. /\ dropping' \in DropCall
        /\ dropping'.pc # "idle" => dropping'.ih \in Droppable
    BY <2>1 DEF NoDrop, DropCall, Types, Calls
  <2>3. Calls'
    BY <1>1, <2>1, <2>2 DEF Types, Calls
  <2> QED
    BY <1>1, <1>14, <2>1, <2>3 DEF ClearDropped, RemovePrefixDir, RemoveCacheDir, clientVars,
         configVars,
                                   bookVars, Types, Sets
<1>15. ASSUME NEW n \in PrefixSizes, Restart(n) PROVE Types'
  <2>1. NoCall \in WorkerCall' /\ NoDrop \in DropCall
    BY DEF NoCall, NoDrop, WorkerCall, DropCall
  <2>2. NoCall.pc = "idle" /\ NoCall.victim = None /\ NoCall.evicted = {} /\ NoDrop.pc = "idle"
    BY DEF NoCall, NoDrop
  <2>3. Calls'
    BY <1>15, <2>1, <2>2 DEF Restart, Calls
  <2>4. blobs' \subseteq Keys
    BY <1>15 DEF Restart, PrefixOf
  <2> QED
    BY <1>15, <2>3, <2>4 DEF Restart, Types, Sets
<1>16. CASE UNCHANGED vars
  BY <1>1, <1>2, <1>16 DEF vars, Types, Sets
<1> QED
  BY <1>3, <1>4, <1>5, <1>6, <1>7, <1>8, <1>9, <1>10, <1>11, <1>12, <1>13, <1>14, <1>15, <1>16
     DEF Next, WorkerStep

\* The variables of the prefix storage keep their types for every configuration,
\* a changed one included (storage_prefixcache.go).  That the two counters are
\* naturals as well follows from AccountingIsExact.
THEOREM PrefixCacheTypes == Spec => []Types
  BY InitTypes, StepTypes, PTL DEF Spec

-----------------------------------------------------------------------------
(***************************************************************************)
(* The cache tier.                                                         *)
(***************************************************************************)

\* Some call is about to unmark k.
Leaving(k) == \E w \in Workers :
  \/ k = worker[w].victim
  \/ k \in worker[w].evicted
  \/ k = worker[w].key /\ worker[w].pc \in {"remove", "clear"}

CacheTier == \A k \in mapc : k[1] \notin Droppable => k \in blobs \/ Leaving(k)

\* A call that moves on and keeps what it is about to unmark.
LEMMA StillLeaving ==
  ASSUME Types, NEW w \in Workers, NEW c, worker' = [worker EXCEPT ![w] = c], NEW k, Leaving(k),
         \/ k = c.victim \/ k \in c.evicted
         \/ k = c.key /\ c.pc \in {"remove", "clear"}
         \/ /\ k # worker[w].victim /\ k \notin worker[w].evicted
            /\ k = worker[w].key => worker[w].pc \notin {"remove", "clear"}
  PROVE  Leaving(k)'
<1>1. \A v \in Workers : worker'[v] = IF v = w THEN c ELSE worker[v]
  BY DEF Types, Calls
<1> QED
  BY <1>1 DEF Leaving

LEMMA StepCacheTier == Types /\ CacheTier /\ [Next]_vars => CacheTier'
<1> SUFFICES ASSUME Types, CacheTier, [Next]_vars, NEW k \in mapc', k[1] \notin Droppable
             PROVE  k \in blobs' \/ Leaving(k)'
  BY DEF CacheTier
<1>0. /\ mapc \subseteq CacheKeys /\ PrefixKeys \cap CacheKeys = {} /\ CacheKeys \subseteq Keys
      /\ k \in mapc => k # None
      /\ \A w \in Workers : /\ worker[w] \in WorkerCall
                            /\ worker[w].pc = "unmark" <=> worker[w].victim # None
                            /\ worker[w].pc \notin {"unlink", "unmark"} => worker[w].evicted = {}
  BY TierOfKeys, PcNoKey DEF Types, Sets, Calls
<1>1. ASSUME k \in mapc, blobs \subseteq blobs', UNCHANGED worker PROVE k \in blobs' \/ Leaving(k)'
  BY <1>1 DEF CacheTier, Leaving
<1>2. ASSUME NEW h \in Hashes, OpenTorrent(h) \/ DropTorrent(h) PROVE k \in blobs' \/ Leaving(k)'
  BY <1>1, <1>2 DEF OpenTorrent, DropTorrent
<1>3. ASSUME NEW j \in Keys, WriteAt(j) \/ ReadFails(j) PROVE k \in blobs' \/ Leaving(k)'
  BY <1>1, <1>3 DEF WriteAt, ReadFails
<1>4. ASSUME \/ \E r \in Readers, h \in Hashes : RegisterReader(r, h)
             \/ \E r \in Readers, i \in UNION {Playheads[h] : h \in Hashes} : NoteReaderPos(r, i)
             \/ \E r \in Readers : UnregisterReader(r)
             \/ ClearDropped
             \/ UNCHANGED vars
      PROVE  k \in blobs' \/ Leaving(k)'
  BY <1>1, <1>4 DEF RegisterReader, NoteReaderPos, UnregisterReader, ClearDropped, vars
<1>5. ASSUME NEW w \in Workers, NEW j \in Keys, MarkComplete(w, j) PROVE k \in blobs' \/ Leaving(k)'
  <2>1. CASE k \in mapc
    <3>1. k # worker[w].victim /\ k \notin worker[w].evicted
          /\ worker[w].pc \notin {"remove", "clear"}
      BY <1>0, <1>5, <2>1 DEF MarkComplete, NoCall
    <3>2. UNCHANGED blobs /\ worker' = [worker EXCEPT ![w] = [NoCall EXCEPT !.pc = "add", !.key = j]]
      BY <1>5 DEF MarkComplete
    <3> QED
      BY <2>1, <3>1, <3>2, StillLeaving DEF CacheTier
  <2>2. CASE k \notin mapc
    BY <1>5, <2>2 DEF MarkComplete
  <2> QED
    BY <2>1, <2>2
<1>6. ASSUME NEW w \in Workers, NEW j \in Keys, MarkNotComplete(w, j) PROVE k \in blobs' \/ Leaving(k)'
  <2>1. /\ k \in mapc /\ blobs' = blobs \ {j}
        /\ worker' = [worker EXCEPT ![w] = [NoCall EXCEPT !.pc = "remove", !.key = j]]
        /\ worker[w] = NoCall
    BY <1>6 DEF MarkNotComplete
  <2>2. CASE k = j
    <3>1. worker'[w].key = j /\ worker'[w].pc = "remove"
      BY <2>1 DEF NoCall, Types, Calls
    <3> QED
      BY <2>2, <3>1 DEF Leaving
  <2>3. CASE k # j
    <3>1. k # worker[w].victim /\ k \notin worker[w].evicted
          /\ worker[w].pc \notin {"remove", "clear"}
      BY <1>0, <2>1 DEF NoCall
    <3> QED
      BY <2>1, <2>3, <3>1, StillLeaving DEF CacheTier
  <2> QED
    BY <2>2, <2>3
<1>7. ASSUME NEW w \in Workers, addPrefixResident(w) PROVE k \in blobs' \/ Leaving(k)'
  <2>1. k \in mapc /\ UNCHANGED blobs /\ worker[w].pc = "add" /\ worker' = [worker EXCEPT ![w] = NoCall]
    BY <1>7 DEF addPrefixResident
  <2>2. k # worker[w].victim /\ k \notin worker[w].evicted
    BY <1>0, <2>1
  <2> QED
    BY <2>1, <2>2, StillLeaving DEF CacheTier
<1>8. ASSUME NEW w \in Workers, addCachePiece(w) PROVE k \in blobs' \/ Leaving(k)'
  <2>1. /\ k \in mapc /\ UNCHANGED blobs /\ worker[w].pc = "add"
        /\ \E V : worker' = [worker EXCEPT ![w] = [worker[w] EXCEPT !.pc = "unlink", !.evicted = V]]
    BY <1>8 DEF addCachePiece
  <2>2. k # worker[w].victim /\ k \notin worker[w].evicted
    BY <1>0, <2>1
  <2> QED
    BY <2>1, <2>2, StillLeaving DEF CacheTier
<1>9. ASSUME NEW w \in Workers, NEW j \in CacheKeys, UnlinkEvicted(w, j) PROVE k \in blobs' \/ Leaving(k)'
  <2> DEFINE c == [worker[w] EXCEPT !.pc = "unmark", !.victim = j, !.evicted = @ \ {j}]
  <2>1. /\ k \in mapc /\ worker[w].pc = "unlink" /\ blobs' = blobs \ {j}
        /\ worker' = [worker EXCEPT ![w] = c]
    BY <1>9 DEF UnlinkEvicted
  <2>2. c.victim = j /\ c.evicted = worker[w].evicted \ {j} /\ worker'[w] = c
    BY <1>0, <2>1 DEF WorkerCall, Types, Calls
  <2>3. k # worker[w].victim
    BY <1>0, <2>1
  <2> HIDE DEF c
  <2>4. CASE k = j
    BY <2>2, <2>4 DEF Leaving
  <2>5. CASE k # j /\ k \in worker[w].evicted
    BY <2>2, <2>5 DEF Leaving
  <2>6. CASE k # j /\ k \notin worker[w].evicted
    BY <2>1, <2>3, <2>6, StillLeaving DEF CacheTier
  <2> QED
    BY <2>4, <2>5, <2>6
<1>10. ASSUME NEW w \in Workers, UnmarkEvicted(w) PROVE k \in blobs' \/ Leaving(k)'
  <2> DEFINE c == [worker[w] EXCEPT !.pc = "unlink", !.victim = None]
  <2>1. /\ k \in mapc /\ k # worker[w].victim /\ worker[w].pc = "unmark" /\ UNCHANGED blobs
        /\ worker' = [worker EXCEPT ![w] = c]
    BY <1>10 DEF UnmarkEvicted
  <2>2. c.evicted = worker[w].evicted
    BY <1>0 DEF WorkerCall
  <2> HIDE DEF c
  <2> QED
    BY <2>1, <2>2, StillLeaving DEF CacheTier
<1>11. ASSUME NEW w \in Workers, MarkCompleteReturns(w) PROVE k \in blobs' \/ Leaving(k)'
  <2>1. /\ k \in mapc /\ worker[w].pc = "unlink" /\ worker[w].evicted = {} /\ UNCHANGED blobs
        /\ worker' = [worker EXCEPT ![w] = NoCall]
    BY <1>11 DEF MarkCompleteReturns
  <2>2. k # worker[w].victim
    BY <1>0, <2>1
  <2> QED
    BY <2>1, <2>2, StillLeaving DEF CacheTier
<1>12. ASSUME NEW w \in Workers, RemoveResident(w) PROVE k \in blobs' \/ Leaving(k)'
  <2> DEFINE c == [worker[w] EXCEPT !.pc = "clear"]
  <2>1. k \in mapc /\ worker[w].pc = "remove" /\ UNCHANGED blobs /\ worker' = [worker EXCEPT ![w] = c]
    BY <1>12 DEF RemoveResident
  <2>2. c.pc = "clear" /\ c.key = worker[w].key /\ k # worker[w].victim /\ k \notin worker[w].evicted
    BY <1>0, <2>1 DEF WorkerCall
  <2> HIDE DEF c
  <2> QED
    BY <2>1, <2>2, StillLeaving DEF CacheTier
<1>13. ASSUME NEW w \in Workers, ClearCompletion(w) PROVE k \in blobs' \/ Leaving(k)'
  <2>1. /\ k \in mapc /\ k # worker[w].key /\ worker[w].pc = "clear" /\ UNCHANGED blobs
        /\ worker' = [worker EXCEPT ![w] = NoCall]
    BY <1>0, <1>13 DEF ClearCompletion
  <2>2. k # worker[w].victim /\ k \notin worker[w].evicted
    BY <1>0, <2>1
  <2> QED
    BY <2>1, <2>2, StillLeaving DEF CacheTier
<1>14. CASE RemovePrefixDir
  <2>1. k \in mapc /\ UNCHANGED worker /\ k \notin PrefixKeys /\ blobs' = blobs \ (KeysOf(dropping.ih) \cap PrefixKeys)
    BY <1>0, <1>14 DEF RemovePrefixDir
  <2> QED
    BY <2>1 DEF CacheTier, Leaving
<1>15. CASE RemoveCacheDir
  <2>1. k \in mapc /\ UNCHANGED worker /\ blobs' = blobs \ (KeysOf(dropping.ih) \cap CacheKeys)
    BY <1>15 DEF RemoveCacheDir
  <2>2. k \notin KeysOf(dropping.ih)
    BY <1>15 DEF RemoveCacheDir, KeysOf, Types, Calls
  <2> QED
    BY <2>1, <2>2 DEF CacheTier, Leaving
<1>16. ASSUME NEW n \in PrefixSizes, Restart(n) PROVE k \in blobs' \/ Leaving(k)'
  BY <1>16 DEF Restart
<1> QED
  BY <1>2, <1>3, <1>4, <1>5, <1>6, <1>7, <1>8, <1>9, <1>10, <1>11, <1>12, <1>13, <1>14, <1>15,
       <1>16
     DEF Next, WorkerStep

-----------------------------------------------------------------------------
(***************************************************************************)
(* The prefix tier, under one configuration, when no torrent is dropped    *)
(* before its metadata is there (the two cases PrefixCacheGaps refutes).   *)
(***************************************************************************)
OneConfiguration == ~DropUnresolved /\ \A n1, n2 \in PrefixSizes : n1 = n2

Marked == bolt \cap PrefixKeys
Marking(k) == \E w \in Workers : worker[w].key = k /\ worker[w].pc = "add"

PrefixTier ==
  /\ Marked \subseteq blobs
  /\ \A k \in Marked : k[1] \in open =>
       \/ k \in belief /\ k \in prefixKeys
       \/ Marking(k)
  /\ \A w \in Workers : worker[w].pc \in {"remove", "clear"} => worker[w].key \notin Marked
  /\ dropping.pc # "idle" => dropping.ih \notin open
  /\ dropping.pc = "bolt" => Marked \cap KeysOf(dropping.ih) \subseteq dropping.pieces
  /\ dropping.pc = "rmprefix" => Marked \cap KeysOf(dropping.ih) = {}

\* Calls move on, and what the store says does not grow.
LEMMA PrefixTierKept ==
  ASSUME PrefixTier, UNCHANGED <<open, dropping, prefixBytes>>, bolt' \subseteq bolt,
         \A k \in Marked : k \in bolt' => (k \in blobs => k \in blobs'),
         \A k \in Marked : k \in bolt' =>
           \/ k \in belief /\ k \in prefixKeys => k \in belief' /\ k \in prefixKeys'
           \/ Marking(k)',
         \A k \in Marked : k \in bolt' /\ k[1] \in open /\ Marking(k) =>
           \/ Marking(k)'
           \/ k \in belief' /\ k \in prefixKeys',
         \A w \in Workers : worker'[w].pc \in {"remove", "clear"} => worker'[w].key \notin Marked'
  PROVE  PrefixTier'
<1>1. Marked' = Marked \cap bolt'
  BY DEF Marked, PrefixKeys
<1> QED
  BY <1>1 DEF PrefixTier, KeysOf

LEMMA StepPrefixTier ==
  ASSUME OneConfiguration
  PROVE  Types /\ PrefixTier /\ [Next]_vars => PrefixTier'
<1> SUFFICES ASSUME Types, PrefixTier, [Next]_vars PROVE PrefixTier'
  OBVIOUS
<1>0. /\ PrefixKeys \cap CacheKeys = {} /\ Marked \subseteq PrefixKeys /\ Marked \subseteq Keys
      /\ None \notin Marked
      /\ \A w \in Workers : worker[w] \in WorkerCall
      /\ worker \in [Workers -> WorkerCall]
  BY TierOfKeys, PcNoKey DEF Marked, Types, Sets, Calls
<1>1. ASSUME UNCHANGED <<worker, open, dropping, prefixBytes, bolt, prefixKeys>>,
             blobs \subseteq blobs', \A k \in Marked : k \in belief => k \in belief'
      PROVE  PrefixTier'
  BY <1>1, PrefixTierKept DEF PrefixTier, Marking, Marked, PrefixKeys
<1>2. ASSUME NEW h \in Hashes, OpenTorrent(h) PROVE PrefixTier'
  <2>1. /\ UNCHANGED <<worker, dropping, prefixBytes, bolt, blobs>>
        /\ open' = open \cup {h} /\ dropping.ih # h
        /\ belief \subseteq belief' /\ prefixKeys \subseteq prefixKeys'
    BY <1>2 DEF OpenTorrent, configVars
  <2>2. Marked' = Marked /\ \A k : Marking(k)' <=> Marking(k)
    BY <2>1 DEF Marked, PrefixKeys, Marking
  <2>3. ASSUME NEW k \in Marked, k[1] = h PROVE k \in belief' /\ k \in prefixKeys'
    <3>1. k \in KeysOf(h) /\ Complete(k) /\ k \in PrefixKeys /\ k \in bolt
      BY <1>0, <2>3 DEF KeysOf, Complete, Marked
    <3> QED
      BY <1>2, <3>1 DEF OpenTorrent
  <2> QED
    BY <2>1, <2>2, <2>3 DEF PrefixTier, KeysOf
<1>3. ASSUME NEW k \in Keys, WriteAt(k) PROVE PrefixTier'
  BY <1>1, <1>3 DEF WriteAt, clientVars, configVars, bookVars
<1>4. ASSUME NEW k \in Keys, ReadFails(k) PROVE PrefixTier'
  <2>1. k \notin Marked
    BY <1>4 DEF ReadFails, Complete, Marked
  <2> QED
    BY <1>1, <1>4, <2>1 DEF ReadFails, configVars, bookVars
<1>5. ASSUME \/ \E r \in Readers, h \in Hashes : RegisterReader(r, h)
             \/ \E r \in Readers, i \in UNION {Playheads[h] : h \in Hashes} : NoteReaderPos(r, i)
             \/ \E r \in Readers : UnregisterReader(r)
             \/ UNCHANGED vars
      PROVE  PrefixTier'
  BY <1>1, <1>5 DEF RegisterReader, NoteReaderPos, UnregisterReader, clientVars, configVars,
       bookVars, vars
<1>6. ASSUME NEW w \in Workers, NEW j \in Keys, MarkComplete(w, j) PROVE PrefixTier'
  <2> DEFINE c == [NoCall EXCEPT !.pc = "add", !.key = j]
  <2>1. /\ UNCHANGED <<open, belief, dropping, prefixBytes, blobs, prefixKeys>>
        /\ worker' = [worker EXCEPT ![w] = c]
        /\ worker[w] = NoCall /\ j[1] \in open /\ j \in blobs /\ ~Busy(j)
        /\ Marked' = Marked \cup ({j} \cap PrefixKeys)
    BY <1>6 DEF MarkComplete, clientVars, configVars, bookVars, Marked, PrefixKeys
  <2>2. c.pc = "add" /\ c.key = j /\ NoCall.pc = "idle"
    BY DEF NoCall
  <2> HIDE DEF c
  <2>3. \A v \in Workers : worker'[v] = IF v = w THEN c ELSE worker[v]
    BY <1>0, <2>1
  <2>4. Marking(j)' /\ \A k : Marking(k) => Marking(k)'
    BY <2>1, <2>2, <2>3 DEF Marking
  <2>5. \A v \in Workers : worker'[v].pc \in {"remove", "clear"} => worker'[v].key \notin Marked'
    BY <2>1, <2>2, <2>3 DEF PrefixTier, Busy
  <2>6. dropping.pc # "idle" => j \notin KeysOf(dropping.ih)
    BY <2>1 DEF PrefixTier, KeysOf
  <2> QED
    BY <2>1, <2>4, <2>5, <2>6 DEF PrefixTier, KeysOf
<1>7. ASSUME NEW w \in Workers, NEW j \in Keys, MarkNotComplete(w, j) PROVE PrefixTier'
  <2> DEFINE c == [NoCall EXCEPT !.pc = "remove", !.key = j]
  <2>1. /\ UNCHANGED <<open, belief, dropping, prefixBytes, bolt, prefixKeys>>
        /\ worker' = [worker EXCEPT ![w] = c] /\ blobs' = blobs \ {j}
        /\ worker[w] = NoCall /\ j[1] \in open /\ j \notin belief /\ ~Busy(j)
    BY <1>7 DEF MarkNotComplete, clientVars, configVars, bookVars
  <2>2. c.pc = "remove" /\ c.key = j /\ NoCall.pc = "idle"
    BY DEF NoCall
  <2> HIDE DEF c
  <2>3. \A v \in Workers : worker'[v] = IF v = w THEN c ELSE worker[v]
    BY <1>0, <2>1
  <2>4. j \notin Marked /\ Marked' = Marked
    BY <2>1 DEF PrefixTier, Marking, Busy, Marked, PrefixKeys
  <2>5. \A k : Marking(k) => Marking(k)'
    BY <2>1, <2>2, <2>3 DEF Marking
  <2>6. \A v \in Workers : worker'[v].pc \in {"remove", "clear"} => worker'[v].key \notin Marked'
    BY <2>2, <2>3, <2>4 DEF PrefixTier
  <2> QED
    BY <2>1, <2>4, <2>5, <2>6, PrefixTierKept
<1>8. ASSUME NEW w \in Workers, addPrefixResident(w) PROVE PrefixTier'
  <2>1. /\ UNCHANGED <<open, dropping, prefixBytes, bolt, blobs>>
        /\ worker' = [worker EXCEPT ![w] = NoCall]
        /\ prefixKeys' = prefixKeys \cup {worker[w].key} /\ belief' = belief \cup {worker[w].key}
    BY <1>8 DEF addPrefixResident, configVars
  <2>2. NoCall.pc = "idle"
    BY DEF NoCall
  <2>3. \A v \in Workers : worker'[v] = IF v = w THEN NoCall ELSE worker[v]
    BY <1>0, <2>1
  <2>4. Marked' = Marked
    BY <2>1 DEF Marked, PrefixKeys
  <2>5. \A k : Marking(k) => Marking(k)' \/ k = worker[w].key
    BY <2>3 DEF Marking
  <2>6. \A v \in Workers : worker'[v].pc \in {"remove", "clear"} => worker'[v].key \notin Marked'
    BY <2>2, <2>3, <2>4 DEF PrefixTier
  <2> QED
    BY <2>1, <2>5, <2>6, PrefixTierKept
<1>9. ASSUME NEW w \in Workers, NEW c, c.key = worker[w].key, worker' = [worker EXCEPT ![w] = c],
             worker[w].pc # "add" \/ worker[w].key \in CacheKeys,
             c.pc \in {"remove", "clear"} => worker[w].pc \in {"remove", "clear"},
             UNCHANGED <<open, dropping, prefixBytes, bolt>>,
             \A k \in Marked : k \in blobs => k \in blobs',
             \A k \in Marked : k \in belief => k \in belief',
             \A k \in Marked : k \in prefixKeys => k \in prefixKeys'
      PROVE  PrefixTier'
  <2>1. \A v \in Workers : worker'[v] = IF v = w THEN c ELSE worker[v]
    BY <1>0, <1>9
  <2>2. Marked' = Marked
    BY <1>9 DEF Marked, PrefixKeys
  <2>3. \A k \in Marked : Marking(k) => Marking(k)'
    BY <1>0, <1>9, <2>1 DEF Marking
  <2>4. \A v \in Workers : worker'[v].pc \in {"remove", "clear"} => worker'[v].key \notin Marked'
    BY <1>9, <2>1, <2>2 DEF PrefixTier
  <2> QED
    BY <1>9, <2>3, <2>4, PrefixTierKept
<1>10. ASSUME NEW w \in Workers, addCachePiece(w) PROVE PrefixTier'
  <2>1. PICK V : worker' = [worker EXCEPT ![w] = [worker[w] EXCEPT !.pc = "unlink", !.evicted = V]]
    BY <1>10 DEF addCachePiece
  <2> DEFINE c == [worker[w] EXCEPT !.pc = "unlink", !.evicted = V]
  <2>2. c.key = worker[w].key /\ c.pc = "unlink"
    BY <1>0 DEF WorkerCall
  <2>3. /\ worker[w].key \in CacheKeys
        /\ UNCHANGED <<open, dropping, prefixBytes, bolt, blobs, belief, prefixKeys>>
    BY <1>10 DEF addCachePiece, clientVars, configVars
  <2> HIDE DEF c
  <2>4. worker' = [worker EXCEPT ![w] = c]
    BY <2>1 DEF c
  <2> QED
    BY <1>9, <2>2, <2>3, <2>4
<1>11. ASSUME NEW w \in Workers, NEW j \in CacheKeys, UnlinkEvicted(w, j) PROVE PrefixTier'
  <2> DEFINE c == [worker[w] EXCEPT !.pc = "unmark", !.victim = j, !.evicted = @ \ {j}]
  <2>1. c.key = worker[w].key /\ c.pc = "unmark"
    BY <1>0 DEF WorkerCall
  <2>2. /\ worker[w].pc = "unlink" /\ blobs' = blobs \ {j} /\ j \notin Marked
        /\ UNCHANGED <<open, dropping, prefixBytes, bolt, belief, prefixKeys>>
    BY <1>0, <1>11 DEF UnlinkEvicted, clientVars, configVars, bookVars
  <2>3. worker' = [worker EXCEPT ![w] = c]
    BY <1>11 DEF UnlinkEvicted
  <2> HIDE DEF c
  <2> QED
    BY <1>9, <2>1, <2>2, <2>3
<1>12. ASSUME NEW w \in Workers, UnmarkEvicted(w) PROVE PrefixTier'
  <2> DEFINE c == [worker[w] EXCEPT !.pc = "unlink", !.victim = None]
  <2>1. c.key = worker[w].key /\ c.pc = "unlink"
    BY <1>0 DEF WorkerCall
  <2>2. /\ worker[w].pc = "unmark"
        /\ UNCHANGED <<open, dropping, prefixBytes, bolt, blobs, belief, prefixKeys>>
    BY <1>12 DEF UnmarkEvicted, clientVars, configVars, bookVars
  <2>3. worker' = [worker EXCEPT ![w] = c]
    BY <1>12 DEF UnmarkEvicted
  <2> HIDE DEF c
  <2> QED
    BY <1>9, <2>1, <2>2, <2>3
<1>13. ASSUME NEW w \in Workers, MarkCompleteReturns(w) PROVE PrefixTier'
  <2>1. /\ UNCHANGED <<open, dropping, prefixBytes, bolt, blobs, prefixKeys>>
        /\ worker' = [worker EXCEPT ![w] = NoCall] /\ belief \subseteq belief'
        /\ worker[w].pc = "unlink"
    BY <1>13 DEF MarkCompleteReturns, configVars, bookVars
  <2>2. NoCall.pc = "idle"
    BY DEF NoCall
  <2>3. \A v \in Workers : worker'[v] = IF v = w THEN NoCall ELSE worker[v]
    BY <1>0, <2>1
  <2>4. Marked' = Marked
    BY <2>1 DEF Marked, PrefixKeys
  <2>5. \A k : Marking(k) => Marking(k)'
    BY <2>1, <2>3 DEF Marking
  <2>6. \A v \in Workers : worker'[v].pc \in {"remove", "clear"} => worker'[v].key \notin Marked'
    BY <2>2, <2>3, <2>4 DEF PrefixTier
  <2> QED
    BY <2>1, <2>5, <2>6, PrefixTierKept
<1>14. ASSUME NEW w \in Workers, RemoveResident(w) PROVE PrefixTier'
  <2> DEFINE c == [worker[w] EXCEPT !.pc = "clear"]
  <2>1. c.key = worker[w].key /\ c.pc = "clear"
    BY <1>0 DEF WorkerCall
  <2>2. /\ worker[w].pc = "remove" /\ prefixKeys' = prefixKeys \ {worker[w].key}
        /\ UNCHANGED <<open, dropping, prefixBytes, bolt, blobs, belief>>
    BY <1>14 DEF RemoveResident, clientVars, configVars
  <2>3. worker' = [worker EXCEPT ![w] = c]
    BY <1>14 DEF RemoveResident
  <2>4. worker[w].key \notin Marked
    BY <2>2 DEF PrefixTier
  <2> HIDE DEF c
  <2> QED
    BY <1>9, <2>1, <2>2, <2>3, <2>4
<1>15. ASSUME NEW w \in Workers, ClearCompletion(w) PROVE PrefixTier'
  <2>1. /\ UNCHANGED <<open, dropping, prefixBytes, blobs, prefixKeys>>
        /\ worker' = [worker EXCEPT ![w] = NoCall] /\ belief' = belief \ {worker[w].key}
        /\ bolt' = bolt \ ({worker[w].key} \cap PrefixKeys)
        /\ worker[w].pc = "clear"
    BY <1>15 DEF ClearCompletion, configVars, bookVars
  <2>2. NoCall.pc = "idle"
    BY DEF NoCall
  <2>3. \A v \in Workers : worker'[v] = IF v = w THEN NoCall ELSE worker[v]
    BY <1>0, <2>1
  <2>4. worker[w].key \notin Marked /\ Marked' = Marked
    BY <2>1 DEF PrefixTier, Marked, PrefixKeys
  <2>5. \A k : Marking(k) => Marking(k)'
    BY <2>1, <2>3 DEF Marking
  <2>6. \A v \in Workers : worker'[v].pc \in {"remove", "clear"} => worker'[v].key \notin Marked'
    BY <2>2, <2>3, <2>4 DEF PrefixTier
  <2> QED
    BY <2>1, <2>4, <2>5, <2>6, PrefixTierKept
<1>16. ASSUME NEW h \in Hashes, DropTorrent(h) PROVE PrefixTier'
  <2>1. /\ UNCHANGED <<worker, prefixBytes, bolt, blobs>>
        /\ open' = open \ {h} /\ h \in open
        /\ belief' = belief \ KeysOf(h) /\ prefixKeys' = prefixKeys \ (prefixKeys \cap KeysOf(h))
        /\ dropping' = [pc |-> "bolt", ih |-> h, pieces |-> prefixKeys \cap KeysOf(h)]
        /\ \A k \in KeysOf(h) : ~Busy(k)
    BY <1>16 DEF DropTorrent, OneConfiguration, configVars
  <2>2. /\ dropping'.pc = "bolt" /\ dropping'.ih = h
        /\ dropping'.pieces = prefixKeys \cap KeysOf(h)
    BY <2>1
  <2>3. Marked' = Marked /\ \A k : Marking(k)' <=> Marking(k)
    BY <2>1 DEF Marked, PrefixKeys, Marking
  <2>4. Marked \cap KeysOf(h) \subseteq prefixKeys
    BY <2>1 DEF PrefixTier, Marking, Busy, KeysOf
  <2>5. \A k \in Marked : k[1] \in open' => k \notin KeysOf(h)
    BY <2>1 DEF KeysOf
  <2> QED
    BY <2>1, <2>2, <2>3, <2>4, <2>5 DEF PrefixTier, KeysOf
<1>17. CASE ClearDropped
  <2>1. /\ UNCHANGED <<worker, prefixBytes, open, belief, blobs, prefixKeys>>
        /\ bolt' = bolt \ dropping.pieces /\ dropping.pc = "bolt"
        /\ dropping' = [dropping EXCEPT !.pc = "rmprefix"]
    BY <1>17 DEF ClearDropped, clientVars, configVars, bookVars
  <2>2. dropping'.pc = "rmprefix" /\ dropping'.ih = dropping.ih
    BY <2>1 DEF Types, Calls, DropCall
  <2>3. Marked' = Marked \ dropping.pieces /\ \A k : Marking(k)' <=> Marking(k)
    BY <2>1 DEF Marked, PrefixKeys, Marking
  <2> QED
    BY <2>1, <2>2, <2>3 DEF PrefixTier, KeysOf
<1>18. CASE RemovePrefixDir
  <2>1. /\ UNCHANGED <<worker, prefixBytes, open, belief, bolt, prefixKeys>>
        /\ blobs' = blobs \ (KeysOf(dropping.ih) \cap PrefixKeys) /\ dropping.pc = "rmprefix"
        /\ dropping' = [dropping EXCEPT !.pc = "rmcache"]
    BY <1>18 DEF RemovePrefixDir, bookVars
  <2>2. dropping'.pc = "rmcache" /\ dropping'.ih = dropping.ih
    BY <2>1 DEF Types, Calls, DropCall
  <2>3. Marked' = Marked /\ \A k : Marking(k)' <=> Marking(k)
    BY <2>1 DEF Marked, PrefixKeys, Marking
  <2> QED
    BY <2>1, <2>2, <2>3 DEF PrefixTier
<1>19. CASE RemoveCacheDir
  <2>1. /\ UNCHANGED <<worker, prefixBytes, open, belief, bolt, prefixKeys>>
        /\ blobs' = blobs \ (KeysOf(dropping.ih) \cap CacheKeys)
        /\ dropping' = NoDrop
    BY <1>19 DEF RemoveCacheDir, clientVars, configVars, bookVars
  <2>2. dropping'.pc = "idle"
    BY <2>1 DEF NoDrop
  <2>3. Marked' = Marked /\ \A k : Marking(k)' <=> Marking(k)
    BY <2>1 DEF Marked, PrefixKeys, Marking
  <2> QED
    BY <1>0, <2>1, <2>2, <2>3 DEF PrefixTier
<1>20. ASSUME NEW n \in PrefixSizes, Restart(n) PROVE PrefixTier'
  <2>1. prefixBytes' = prefixBytes /\ n = prefixBytes
    BY <1>20 DEF Restart, OneConfiguration, Types, Sets
  <2>2. Marked' = Marked
    BY <1>20, <2>1 DEF Restart, Marked, PrefixKeys
  <2>3. Marked \subseteq blobs'
    BY <1>20, <2>1 DEF Restart, Marked, PrefixKeys, PrefixTier
  <2>4. open' = {} /\ dropping' = NoDrop /\ NoDrop.pc = "idle" /\ NoCall.pc = "idle"
        /\ worker' = [w \in Workers |-> NoCall]
    BY <1>20 DEF Restart, NoDrop, NoCall
  <2> QED
    BY <2>2, <2>3, <2>4 DEF PrefixTier
<1> QED
  BY <1>2, <1>3, <1>4, <1>5, <1>6, <1>7, <1>8, <1>10, <1>11, <1>12, <1>13, <1>14, <1>15,
       <1>16, <1>17,
     <1>18, <1>19, <1>20 DEF Next, WorkerStep

\* storage_prefixcache.go:165-266 and 386-561: a piece marked complete has its
\* blob, or a call that is about to take the mark back, across eviction, failed
\* hashes, drops and restarts, for any torrents, cap and number of workers.
THEOREM CompletionIsBackedSafe ==
  ASSUME OneConfiguration
  PROVE  Spec => []CompletionIsBacked
<1>1. Init => CacheTier /\ PrefixTier
  BY DEF Init, CacheTier, PrefixTier, Marked, NoCall, NoDrop
<1>2. Types /\ CacheTier /\ PrefixTier => CompletionIsBacked
  <2> SUFFICES ASSUME Types, CacheTier, PrefixTier,
                      NEW k \in (bolt \cap PrefixKeys) \cup {j \in mapc : j[1] \notin Droppable}
               PROVE  \/ k \in blobs
                      \/ \E w \in Workers : k \in {worker[w].key, worker[w].victim} \cup worker[w].evicted
    BY DEF CompletionIsBacked
  <2> QED
    BY DEF CacheTier, PrefixTier, Marked, Leaving
<1> QED
  BY <1>1, <1>2, StepCacheTier, StepPrefixTier, PrefixCacheTypes, PTL DEF Spec

-----------------------------------------------------------------------------
(***************************************************************************)
(* Counting bytes.                                                         *)
(***************************************************************************)
LEMMA SizeOfPiece ==
  ASSUME NEW k \in Keys
  PROVE  /\ Torrent[k[1]].pieceLength \in Nat
         /\ Size[k] \in Int /\ Size[k] <= Torrent[k[1]].pieceLength
<1> DEFINE p == Torrent[k[1]].pieceLength
           len == Torrent[k[1]].length
           i == k[2]
<1>1. p \in Nat /\ len \in Nat /\ i \in Nat
  BY PcConstants DEF Keys, PieceIndices, IsTorrent
<1>2. Size[k] = IF (i + 1) * p <= len THEN p ELSE len - i * p
  BY DEF Size, PieceSize
<1> HIDE DEF p, len, i
<1>3. i * p \in Nat /\ (i + 1) * p = i * p + p
  BY <1>1
<1> QED
  BY <1>1, <1>2, <1>3 DEF p

\* A torrent has finitely many bytes.
LEMMA BytesOfTorrent ==
  ASSUME NEW h \in Hashes, NEW S \in SUBSET KeysOf(h)
  PROVE  IsFiniteSet(BytesOf(S))
<1> DEFINE p == Torrent[h].pieceLength
           All == ({h} \X (0 .. Torrent[h].length)) \X (1 .. p)
<1>1. p \in Nat /\ Torrent[h].length \in Nat
  BY PcConstants DEF IsTorrent
<1>2. IsFiniteSet(All)
  <2>0. \A n \in Nat : 0 \in Int /\ 1 \in Int /\ n \in Int
    OBVIOUS
  <2>1. IsFiniteSet({h}) /\ IsFiniteSet(0 .. Torrent[h].length) /\ IsFiniteSet(1 .. p)
    <3> HIDE DEF p
    <3>1. IsFiniteSet({h})
      BY FS_Singleton
    <3>2. \A n \in Nat : IsFiniteSet(0 .. n) /\ IsFiniteSet(1 .. n)
      BY <2>0, FS_Interval
    <3> QED
      BY <1>1, <3>1, <3>2
  <2>2. IsFiniteSet({h} \X (0 .. Torrent[h].length))
    BY <2>1, FS_Product
  <2> QED
    BY <2>1, <2>2, FS_Product
<1>3. ASSUME NEW k \in S PROVE {k} \X (1 .. Size[k]) \subseteq All
  <2>1. k \in Keys /\ k[1] = h
    BY DEF KeysOf
  <2>2. k \in {h} \X (0 .. Torrent[h].length)
    BY <2>1 DEF Keys, PieceIndices
  <2>3. 1 .. Size[k] \subseteq 1 .. p
    BY <1>1, <2>1, SizeOfPiece
  <2> QED
    BY <2>2, <2>3
<1>4. BytesOf(S) \in SUBSET All
  BY <1>3 DEF BytesOf
<1> QED
  BY <1>2, <1>4, FS_Subset

LEMMA BytesOfPiece ==
  ASSUME NEW k \in Keys, NEW S \in SUBSET {k}
  PROVE  IsFiniteSet(BytesOf(S))
<1>1. k[1] \in Hashes /\ S \in SUBSET KeysOf(k[1])
  BY KeysHaveHashes DEF KeysOf
<1> QED
  BY <1>1, BytesOfTorrent

\* Pieces share no byte.
LEMMA BytesJoin ==
  ASSUME NEW A, NEW B, IsFiniteSet(BytesOf(A)), IsFiniteSet(BytesOf(B)), A \cap B = {}
  PROVE  /\ IsFiniteSet(BytesOf(A \cup B))
         /\ Bytes(A) \in Nat /\ Bytes(B) \in Nat
         /\ Bytes(A \cup B) = Bytes(A) + Bytes(B)
<1>0. BytesOf(A) \cap BytesOf(B) = {}
  <2>1. ASSUME NEW x \in BytesOf(A) PROVE x[1] \in A
    BY DEF BytesOf
  <2>2. ASSUME NEW x \in BytesOf(B) PROVE x[1] \in B
    BY DEF BytesOf
  <2> QED
    BY <2>1, <2>2
<1>1. BytesOf(A \cup B) = BytesOf(A) \cup BytesOf(B)
  BY DEF BytesOf
<1>2. Cardinality(BytesOf(A)) \in Nat /\ Cardinality(BytesOf(B)) \in Nat
  BY FS_CardinalityType
<1>3. /\ IsFiniteSet(BytesOf(A) \cup BytesOf(B))
      /\ Cardinality(BytesOf(A) \cup BytesOf(B)) =
           Cardinality(BytesOf(A)) + Cardinality(BytesOf(B)) - Cardinality(BytesOf(A) \cap BytesOf(B))
  BY FS_Union
<1>4. Cardinality(BytesOf(A) \cap BytesOf(B)) = 0
  BY <1>0, FS_EmptySet
<1>5. IsFiniteSet(BytesOf(A \cup B))
  BY <1>1, <1>3
<1>6. Bytes(A \cup B) = Cardinality(BytesOf(A) \cup BytesOf(B))
  BY <1>1 DEF Bytes
<1>7. Bytes(A \cup B) = Bytes(A) + Bytes(B)
  BY <1>2, <1>3, <1>4, <1>6 DEF Bytes
<1> QED
  BY <1>2, <1>5, <1>7 DEF Bytes

LEMMA BytesCut ==
  ASSUME NEW A, NEW B, IsFiniteSet(BytesOf(A))
  PROVE  /\ IsFiniteSet(BytesOf(A \ B)) /\ IsFiniteSet(BytesOf(A \cap B))
         /\ Bytes(A) \in Nat /\ Bytes(A \cap B) \in Nat
         /\ Bytes(A \ B) = Bytes(A) - Bytes(A \cap B)
<1>1. BytesOf(A \ B) \in SUBSET BytesOf(A) /\ BytesOf(A \cap B) \in SUBSET BytesOf(A)
  BY DEF BytesOf
<1>2. IsFiniteSet(BytesOf(A \ B)) /\ IsFiniteSet(BytesOf(A \cap B))
  BY <1>1, FS_Subset
<1>3. A = (A \ B) \cup (A \cap B) /\ (A \ B) \cap (A \cap B) = {}
  OBVIOUS
<1>4. /\ Bytes(A \ B) \in Nat /\ Bytes(A \cap B) \in Nat
      /\ Bytes((A \ B) \cup (A \cap B)) = Bytes(A \ B) + Bytes(A \cap B)
  BY <1>2, <1>3, BytesJoin
<1>5. Bytes(A) = Bytes(A \ B) + Bytes(A \cap B)
  BY <1>3, <1>4
<1> QED
  BY <1>2, <1>4, <1>5

LEMMA NoBytes == IsFiniteSet(BytesOf({})) /\ Bytes({}) = 0
<1>1. BytesOf({}) = {}
  BY DEF BytesOf
<1> QED
  BY <1>1, FS_EmptySet DEF Bytes

Counted == AccountingExact /\ IsFiniteSet(BytesOf(cache)) /\ IsFiniteSet(BytesOf(prefixKeys))

LEMMA StepCounted == Types /\ Counted /\ [Next]_vars => Counted'
<1> SUFFICES ASSUME Types, Counted, [Next]_vars PROVE Counted'
  OBVIOUS
<1> USE DEF Counted, AccountingExact
<1>0. \A w \in Workers : worker[w].pc # "idle" => worker[w].key \in Keys
  BY DEF Types, Calls
<1>1. ASSUME NEW h \in Hashes, OpenTorrent(h) PROVE Counted'
  <2> DEFINE kept == (KeysOf(h) \cap PrefixKeys \cap bolt) \ prefixKeys
  <2>1. IsFiniteSet(BytesOf(kept)) /\ prefixKeys \cap kept = {}
    BY BytesOfTorrent
  <2>2. /\ prefixKeys' = prefixKeys \cup kept /\ prefixResident' = prefixResident + Bytes(kept)
        /\ UNCHANGED <<cache, cacheBytes>>
    BY <1>1 DEF OpenTorrent
  <2> HIDE DEF kept
  <2> QED
    BY <2>1, <2>2, BytesJoin
<1>2. ASSUME NEW w \in Workers, addPrefixResident(w) PROVE Counted'
  <2> DEFINE k == worker[w].key
             new == {k} \ prefixKeys
  <2>1. k \in Keys
    BY <1>0, <1>2 DEF addPrefixResident
  <2>2. IsFiniteSet(BytesOf(new)) /\ prefixKeys \cap new = {} /\ prefixKeys \cup {k} = prefixKeys \cup new
    BY <2>1, BytesOfPiece
  <2>3. /\ prefixKeys' = prefixKeys \cup {k} /\ prefixResident' = prefixResident + Bytes(new)
        /\ UNCHANGED <<cache, cacheBytes>>
    BY <1>2 DEF addPrefixResident
  <2> HIDE DEF new
  <2> QED
    BY <2>2, <2>3, BytesJoin
<1>3. ASSUME NEW w \in Workers, addCachePiece(w) PROVE Counted'
  <2> DEFINE k == worker[w].key
             new == {k} \ cache
             all == cache \cup {k}
  <2>1. k \in Keys
    BY <1>0, <1>3 DEF addCachePiece
  <2>2. IsFiniteSet(BytesOf(new)) /\ cache \cap new = {} /\ all = cache \cup new
    BY <2>1, BytesOfPiece
  <2>3. IsFiniteSet(BytesOf(all)) /\ Bytes(all) = cacheBytes + Bytes(new)
    <3> HIDE DEF new, all
    <3> QED
      BY <2>2, BytesJoin
  <2>4. PICK V \in IF k \in cache THEN {{}} ELSE EvictionSets(k) :
          cache' = all \ V /\ cacheBytes' = (cacheBytes + Bytes(new)) - Bytes(V)
    BY <1>3 DEF addCachePiece
  <2>5. V \subseteq cache /\ all \cap V = V
    BY <2>4, EvictedAreCached
  <2>6. IsFiniteSet(BytesOf(all \ V)) /\ Bytes(all \ V) = Bytes(all) - Bytes(all \cap V)
    <3> HIDE DEF all
    <3> QED
      BY <2>3, BytesCut
  <2>7. UNCHANGED <<prefixKeys, prefixResident>>
    BY <1>3 DEF addCachePiece
  <2> HIDE DEF new, all
  <2> QED
    BY <2>3, <2>4, <2>5, <2>6, <2>7
<1>4. ASSUME NEW w \in Workers, RemoveResident(w) PROVE Counted'
  <2> DEFINE k == worker[w].key
  <2>1. /\ prefixKeys' = prefixKeys \ {k} /\ prefixResident' = prefixResident - Bytes({k} \cap prefixKeys)
        /\ cache' = cache \ {k} /\ cacheBytes' = cacheBytes - Bytes({k} \cap cache)
    BY <1>4 DEF RemoveResident
  <2>2. {k} \cap prefixKeys = prefixKeys \cap {k} /\ {k} \cap cache = cache \cap {k}
    OBVIOUS
  <2>3. /\ prefixResident' = prefixResident - Bytes(prefixKeys \cap {k})
        /\ cacheBytes' = cacheBytes - Bytes(cache \cap {k})
    BY <2>1, <2>2
  <2> QED
    BY <2>1, <2>3, BytesCut
<1>5. ASSUME NEW h \in Hashes, DropTorrent(h) PROVE Counted'
  <2>1. /\ prefixKeys' = prefixKeys \ (prefixKeys \cap KeysOf(h))
        /\ prefixResident' = prefixResident - Bytes(prefixKeys \cap KeysOf(h))
        /\ cache' = cache \ KeysOf(h) /\ cacheBytes' = cacheBytes - Bytes(cache \cap KeysOf(h))
    BY <1>5 DEF DropTorrent
  <2>2. prefixKeys \ (prefixKeys \cap KeysOf(h)) = prefixKeys \ KeysOf(h)
    OBVIOUS
  <2> QED
    BY <2>1, <2>2, BytesCut
<1>6. ASSUME NEW n \in PrefixSizes, Restart(n) PROVE Counted'
  BY <1>6, NoBytes DEF Restart
<1>7. CASE UNCHANGED bookVars
  BY <1>7 DEF bookVars
<1> QED
  BY <1>1, <1>2, <1>3, <1>4, <1>5, <1>6, <1>7
     DEF Next, WorkerStep, WriteAt, ReadFails, RegisterReader, NoteReaderPos, UnregisterReader, MarkComplete,
         MarkNotComplete, UnlinkEvicted, UnmarkEvicted, MarkCompleteReturns, ClearCompletion, ClearDropped,
         RemovePrefixDir, RemoveCacheDir, bookVars, vars

LEMMA InitCounted == Init => Counted
  BY NoBytes DEF Init, Counted, AccountingExact

\* storage_prefixcache.go:365-455 and 585-640: whatever torrents are opened,
\* written, evicted, invalidated, dropped and restarted, in whatever order their
\* calls interleave, the counters are the bytes of the pieces that are resident.
THEOREM AccountingIsExact == Spec => []AccountingExact
<1>1. Counted => AccountingExact
  BY DEF Counted
<1> QED
  BY <1>1, InitCounted, StepCounted, PrefixCacheTypes, PTL DEF Spec

-----------------------------------------------------------------------------
(***************************************************************************)
(* The bound of the cache.                                                 *)
(***************************************************************************)

\* What fits still fits when pieces go.
Fits(S) == Bytes(S) <= CacheCap \/ \E k \in S : S = {k}

LEMMA FewerFit ==
  ASSUME NEW S, IsFiniteSet(BytesOf(S)), Fits(S), NEW T
  PROVE  Fits(S \ T)
<1>1. Bytes(S) \in Nat /\ Bytes(S \ T) \in Nat /\ Bytes(S \ T) <= Bytes(S)
  <2>1. /\ IsFiniteSet(BytesOf(S \ T)) /\ Bytes(S) \in Nat /\ Bytes(S \cap T) \in Nat
        /\ Bytes(S \ T) = Bytes(S) - Bytes(S \cap T)
    BY BytesCut
  <2>2. Bytes(S \ T) \in Nat
    BY <2>1, FS_CardinalityType DEF Bytes
  <2> QED
    BY <2>1, <2>2
<1>2. CASE Bytes(S) <= CacheCap
  BY <1>1, <1>2, PcConstants DEF Fits
<1>3. ASSUME NEW k \in S, S = {k} PROVE Fits(S \ T)
  <2>1. S \ T = S \/ S \ T = {}
    BY <1>3
  <2>2. 0 <= CacheCap
    BY PcConstants
  <2> QED
    BY <1>3, <2>1, <2>2, NoBytes DEF Fits
<1> QED
  BY <1>2, <1>3 DEF Fits

Bounded == retainHot \/ Fits(cache)

LEMMA StepBounded == Types /\ Counted /\ Bounded /\ [Next]_vars => Bounded'
<1> SUFFICES ASSUME Types, Counted, Bounded, [Next]_vars PROVE Bounded'
  OBVIOUS
<1>0. UNCHANGED retainHot
  BY DEF Next, WorkerStep, OpenTorrent, DropTorrent, WriteAt, ReadFails, RegisterReader,
       NoteReaderPos,
         UnregisterReader, MarkComplete, MarkNotComplete, addPrefixResident, addCachePiece, UnlinkEvicted,
         UnmarkEvicted, MarkCompleteReturns, RemoveResident, ClearCompletion, ClearDropped, RemovePrefixDir,
         RemoveCacheDir, Restart, clientVars, configVars, vars
<1>1. SUFFICES ASSUME ~retainHot, Fits(cache) PROVE Fits(cache)'
  BY <1>0 DEF Bounded
<1>2. ASSUME NEW T, cache' = cache \ T PROVE Fits(cache)'
  BY <1>1, <1>2, FewerFit DEF Counted, Fits
<1>3. ASSUME NEW w \in Workers, addCachePiece(w) PROVE Fits(cache)'
  <2> DEFINE k == worker[w].key
  <2>1. PICK V \in IF k \in cache THEN {{}} ELSE EvictionSets(k) : cache' = (cache \cup {k}) \ V
    BY <1>3 DEF addCachePiece
  <2>2. CASE k \in cache
    <3>1. cache' = cache
      BY <2>1, <2>2
    <3> QED
      BY <1>1, <3>1 DEF Fits
  <2>3. CASE V \in EvictionSets(k) /\ Bytes((cache \cup {k}) \ V) <= CacheCap
    BY <2>1, <2>3 DEF Fits
  <2>4. CASE V = Evictable(cache \cup {k}, k)
    <3>1. V = (cache \cup {k}) \ {k}
      BY <1>1, <2>4 DEF Evictable
    <3>2. cache' = {k}
      BY <2>1, <3>1
    <3> QED
      BY <3>2 DEF Fits
  <2> QED
    BY <2>1, <2>2, <2>3, <2>4 DEF EvictionSets
<1>4. ASSUME NEW n \in PrefixSizes, Restart(n) PROVE Fits(cache)'
  <2>1. cache' = cache \ cache
    BY <1>4 DEF Restart
  <2> QED
    BY <1>2, <2>1
<1>5. ASSUME NEW w \in Workers, RemoveResident(w) PROVE Fits(cache)'
  BY <1>2, <1>5 DEF RemoveResident
<1>6. ASSUME NEW h \in Hashes, DropTorrent(h) PROVE Fits(cache)'
  BY <1>2, <1>6 DEF DropTorrent
<1>7. CASE UNCHANGED cache
  BY <1>1, <1>7 DEF Fits
<1> QED
  BY <1>3, <1>4, <1>5, <1>6, <1>7
     DEF Next, WorkerStep, OpenTorrent, WriteAt, ReadFails, RegisterReader, NoteReaderPos, UnregisterReader,
         MarkComplete, MarkNotComplete, addPrefixResident, UnlinkEvicted, UnmarkEvicted, MarkCompleteReturns,
         ClearCompletion, ClearDropped, RemovePrefixDir, RemoveCacheDir, bookVars, vars

\* storage_prefixcache.go:29-31 and 417-437: the loop that evicts always gets the
\* cache under its cap, or down to the piece just inserted, and no other step
\* brings it above again, whatever the sizes of the pieces.
THEOREM CacheIsBoundedSafe == Spec => []CacheIsBounded
<1>1. Init => Bounded
  <2>1. 0 <= CacheCap
    BY PcConstants
  <2> QED
    BY <2>1, NoBytes DEF Init, Bounded, Fits
<1>2. Counted /\ Bounded => CacheIsBounded
  BY DEF Counted, AccountingExact, Bounded, Fits, CacheIsBounded
<1> QED
  BY <1>1, <1>2, InitCounted, StepCounted, StepBounded, PrefixCacheTypes, PTL DEF Spec

-----------------------------------------------------------------------------
(***************************************************************************)
(* Eviction.                                                               *)
(***************************************************************************)

\* A set of scores has a smallest one.
LEMMA MinOfScores ==
  ASSUME NEW S \in SUBSET Nat, S # {}
  PROVE  Min(S) \in S /\ \A x \in S : Min(S) <= x
<1>1. PICK x \in S : \A y \in S : ~ (<<y, x>> \in OpToRel(<, Nat))
  BY NatLessThanWellFounded, WFMin
<1>2. \A y \in S : x <= y
  <2>1. ASSUME NEW y \in S, y < x PROVE FALSE
    <3>1. <<y, x>> \in Nat \X Nat /\ <<y, x>>[1] < <<y, x>>[2]
      BY <2>1
    <3>2. <<y, x>> \in {ss \in Nat \X Nat : ss[1] < ss[2]}
      BY <3>1
    <3>3. OpToRel(<, Nat) = {ss \in Nat \X Nat : ss[1] < ss[2]}
      BY DEF OpToRel
    <3> QED
      BY <1>1, <3>2, <3>3
  <2> QED
    BY <2>1
<1> QED
  BY <1>2 DEF Min

LEMMA Bases ==
  /\ scoreBehindBase \in Nat /\ scoreInactiveBase \in Nat
  /\ scoreBehindBase <= scoreInactiveBase
  BY DEF scoreBehindBase, scoreInactiveBase

\* Where the readers can be.
Playing ==
  /\ readers \in [Hashes -> SUBSET Readers]
  /\ pos \in [Readers -> Nat]
  /\ owner \in [Readers -> Hashes \cup {None}]

LEMMA PlayheadsAreNaturals == \A h \in Hashes : Playheads[h] \subseteq Nat
<1> SUFFICES ASSUME NEW h \in Hashes, NEW f \in Torrent[h].files, NEW b \in 0 .. f.length
             PROVE  ReaderPiece(Torrent[h], f, b) \in Nat
  BY DEF Playheads
<1>1. Torrent[h].pieceLength \in Nat \ {0} /\ f.offset \in Nat /\ f.length \in Nat
  BY PcConstants DEF IsTorrent, File
<1>2. f.offset + b \in Nat
  BY <1>1
<1> QED
  BY <1>1, <1>2, PieceOfByte DEF ReaderPiece

LEMMA StepPlaying == Playing /\ [Next]_vars => Playing'
<1> SUFFICES ASSUME Playing, [Next]_vars PROVE Playing'
  OBVIOUS
<1>1. ASSUME NEW r \in Readers, NEW h \in Hashes, RegisterReader(r, h) PROVE Playing'
  BY <1>1 DEF RegisterReader, Playing
<1>2. ASSUME NEW r \in Readers, NEW i, NoteReaderPos(r, i) PROVE Playing'
  <2>1. i \in Nat
    BY <1>2, PlayheadsAreNaturals DEF NoteReaderPos, Playing
  <2> QED
    BY <1>2, <2>1 DEF NoteReaderPos, Playing
<1>3. ASSUME NEW r \in Readers, UnregisterReader(r) PROVE Playing'
  BY <1>3 DEF UnregisterReader, Playing
<1>4. ASSUME NEW h \in Hashes, DropTorrent(h) PROVE Playing'
  BY <1>4 DEF DropTorrent, Playing
<1>5. ASSUME NEW n \in PrefixSizes, Restart(n) PROVE Playing'
  BY <1>5 DEF Restart, Playing
<1>6. CASE UNCHANGED readerVars
  BY <1>6 DEF readerVars, Playing
<1> QED
  BY <1>1, <1>2, <1>3, <1>4, <1>5, <1>6
     DEF Next, WorkerStep, OpenTorrent, WriteAt, ReadFails, MarkComplete, MarkNotComplete, addPrefixResident,
         addCachePiece, UnlinkEvicted, UnmarkEvicted, MarkCompleteReturns, RemoveResident, ClearCompletion,
         ClearDropped, RemovePrefixDir, RemoveCacheDir, readerVars, vars

LEMMA ScoresAreNaturals ==
  ASSUME Playing, NEW k \in Keys
  PROVE  /\ k[2] \in Nat
         /\ \A r \in readers[k[1]] : r \in Readers /\ pos[r] \in Nat /\ ReaderScore(k, r) \in Nat
<1>1. k[2] \in Nat /\ k[1] \in Hashes
  BY PcConstants DEF Keys, PieceIndices, IsTorrent
<1> QED
  BY <1>1, Bases DEF Playing, ReaderScore

\* A piece some reader is at or before has the smallest score of its readers.
LEMMA ScoreOfWatched ==
  ASSUME Playing, NEW k \in Keys, readers[k[1]] # {}
  PROVE  /\ \E q \in readers[k[1]] : evictionScore(k) = ReaderScore(k, q)
         /\ \A r \in readers[k[1]] : evictionScore(k) <= ReaderScore(k, r)
<1> DEFINE S == {ReaderScore(k, r) : r \in readers[k[1]]}
<1>1. S \subseteq Nat /\ S # {}
  BY ScoresAreNaturals
<1>2. evictionScore(k) = Min(S)
  BY DEF evictionScore
<1>3. Min(S) \in S /\ \A x \in S : Min(S) <= x
  <2> HIDE DEF S
  <2> QED
    BY <1>1, MinOfScores
<1> QED
  BY <1>2, <1>3

\* Torrents whose pieces all have a place before those that are behind a reader.
SmallTorrents == \A k \in Keys : k[2] < scoreBehindBase

\* Of the pieces that could go, one whose score is lowest stays.
LEMMA EvictedScoresHigher ==
  ASSUME Types, Playing, NEW c, NEW V \in EvictionSets(c), NEW k \in V, NEW j \in cache \ V,
         c \notin cache, readers[k[1]] # {}
  PROVE  evictionScore(j) <= evictionScore(k)
<1>1. k \in Evictable(cache \cup {c}, c)
  BY DEF EvictionSets
<1>2. ~retainHot
  BY <1>1 DEF Evictable
<1>3. j \in Evictable(cache \cup {c}, c) \ V
  BY <1>2 DEF Evictable
<1>4. evictionScore(k) >= evictionScore(j)
  BY <1>3 DEF EvictionSets
<1>5. j \in Keys /\ k \in Keys
  BY <1>1, TierOfKeys, EvictedAreCached DEF Types, Sets
<1>6. \A i \in Keys : evictionScore(i) \in Nat
  <2>1. ASSUME NEW i \in Keys, readers[i[1]] = {} PROVE evictionScore(i) \in Nat
    BY <2>1, ScoresAreNaturals, Bases DEF evictionScore
  <2>2. ASSUME NEW i \in Keys, readers[i[1]] # {} PROVE evictionScore(i) \in Nat
    BY <2>2, ScoreOfWatched, ScoresAreNaturals
  <2> QED
    BY <2>1, <2>2
<1> QED
  BY <1>4, <1>5, <1>6

\* storage_prefixcache.go:33-40 and 439-519: whatever the readers of whatever
\* torrents do, a piece that lies before a viewer goes only when every piece
\* that stays lies before a viewer too, and no further off.
THEOREM EvictionProtectsPlayheadsSafe ==
  ASSUME SmallTorrents
  PROVE  Spec => EvictionProtectsPlayheads
<1> DEFINE Protects ==
      \A k \in cache : Evicts(k) =>
        \A r \in readers[k[1]], j \in cache \cap cache' :
          pos[r] <= k[2] =>
            \E q \in readers[j[1]] : pos[q] <= j[2] /\ j[2] - pos[q] <= k[2] - pos[r]
<1>1. Init => Playing
  BY DEF Init, Playing
<1>2. Types /\ Playing /\ [Next]_vars => [Protects]_vars
  <2> SUFFICES ASSUME Types, Playing, Next, NEW k \in cache, Evicts(k),
                      NEW r \in readers[k[1]], NEW j \in cache \cap cache', pos[r] <= k[2]
               PROVE  \E q \in readers[j[1]] : pos[q] <= j[2] /\ j[2] - pos[q] <= k[2] - pos[r]
    OBVIOUS
  <2>1. PICK w \in Workers : worker[w].pc = "add" /\ k \in worker'[w].evicted
    BY DEF Evicts
  <2>2. worker[w].evicted = {} /\ worker[w] \in WorkerCall /\ NoCall.evicted = {}
    BY <2>1 DEF Types, Calls, NoCall
  <2>3. worker'[w].evicted # worker[w].evicted
    BY <2>1, <2>2
  <2>4. addCachePiece(w)
    <3>1. ASSUME NEW v \in Workers, NEW c, worker' = [worker EXCEPT ![v] = c] PROVE v = w
      BY <2>3, <3>1 DEF Types, Calls
    <3>2. ASSUME NEW c, worker' = [worker EXCEPT ![w] = c], c.evicted \subseteq worker[w].evicted PROVE FALSE
      BY <2>1, <2>2, <3>2 DEF Types, Calls
    <3>3. ASSUME NEW v \in Workers, NEW i \in Keys, MarkComplete(v, i) \/ MarkNotComplete(v, i) PROVE FALSE
      <4>1. v = w
        BY <3>1, <3>3 DEF MarkComplete, MarkNotComplete
      <4> QED
        BY <2>1, <3>3, <4>1 DEF MarkComplete, MarkNotComplete, NoCall
    <3>4. ASSUME NEW v \in Workers, WorkerStep(v) PROVE addCachePiece(w)
      <4>1. v = w
        BY <2>3, <3>4 DEF WorkerStep, addPrefixResident, addCachePiece, UnlinkEvicted,
             UnmarkEvicted,
                          MarkCompleteReturns, RemoveResident, ClearCompletion, Types, Calls
      <4>2. ~addPrefixResident(w)
        BY <2>2, <3>2 DEF addPrefixResident
      <4> QED
        BY <2>1, <3>4, <4>1, <4>2 DEF WorkerStep, UnlinkEvicted, UnmarkEvicted,
             MarkCompleteReturns,
                                      RemoveResident, ClearCompletion
    <3>5. ASSUME NEW n \in PrefixSizes, Restart(n) PROVE FALSE
      BY <2>1, <2>2, <3>5 DEF Restart
    <3>6. CASE UNCHANGED worker
      BY <2>3, <3>6
    <3> QED
      BY <3>3, <3>4, <3>5, <3>6 DEF Next, OpenTorrent, DropTorrent, WriteAt, ReadFails,
           RegisterReader,
         NoteReaderPos, UnregisterReader, ClearDropped, RemovePrefixDir, RemoveCacheDir
  <2>5. PICK V \in IF worker[w].key \in cache THEN {{}} ELSE EvictionSets(worker[w].key) :
          /\ cache' = (cache \cup {worker[w].key}) \ V
          /\ worker' = [worker EXCEPT ![w].pc = "unlink", ![w].evicted = V]
    BY <2>4 DEF addCachePiece
  <2>6. k \in V
    BY <2>1, <2>2, <2>5 DEF Types, Calls, WorkerCall
  <2>7. worker[w].key \notin cache /\ V \in EvictionSets(worker[w].key) /\ j \in cache \ V
    BY <2>5, <2>6
  <2>8. k \in Keys /\ j \in Keys
    BY TierOfKeys DEF Types, Sets
  <2>9. evictionScore(j) <= evictionScore(k)
    BY <2>6, <2>7, EvictedScoresHigher
  <2>10. /\ evictionScore(k) <= k[2] - pos[r] /\ k[2] - pos[r] \in Nat
         /\ evictionScore(k) \in Nat /\ k[2] - pos[r] < scoreBehindBase
    <3>1. k[2] \in Nat /\ pos[r] \in Nat /\ k[2] < scoreBehindBase
      BY <2>8, ScoresAreNaturals DEF SmallTorrents
    <3>2. ReaderScore(k, r) = k[2] - pos[r]
      BY <3>1 DEF ReaderScore
    <3>3. evictionScore(k) <= ReaderScore(k, r) /\ evictionScore(k) \in Nat
      BY <2>8, ScoreOfWatched, ScoresAreNaturals
    <3> QED
      BY <3>1, <3>2, <3>3, Bases
  <2>11. readers[j[1]] # {}
    <3>1. SUFFICES ASSUME readers[j[1]] = {} PROVE FALSE
      OBVIOUS
    <3>2. evictionScore(j) = scoreInactiveBase + j[2] /\ j[2] \in Nat
      BY <2>8, <3>1, ScoresAreNaturals DEF evictionScore
    <3> QED
      BY <2>9, <2>10, <3>2, Bases
  <2>12. PICK q \in readers[j[1]] : evictionScore(j) = ReaderScore(j, q)
    BY <2>8, <2>11, ScoreOfWatched
  <2>13. ReaderScore(j, q) <= k[2] - pos[r] /\ ReaderScore(j, q) \in Nat /\ j[2] \in Nat /\ pos[q] \in Nat
    BY <2>8, <2>9, <2>10, <2>12, ScoresAreNaturals
  <2>14. pos[q] <= j[2] /\ j[2] - pos[q] <= k[2] - pos[r]
    BY <2>10, <2>13, Bases DEF ReaderScore
  <2> QED
    BY <2>14
<1> QED
  BY <1>1, <1>2, StepPlaying, PrefixCacheTypes, PTL DEF Spec, EvictionProtectsPlayheads
=============================================================================
