--------------------------- MODULE TorrentManager ---------------------------
(***************************************************************************)
(* The streamer's torrent registry and the bookkeeping that decides when a *)
(* torrent is dropped (streamer/torrent.go, streamer/reaper.go).           *)
(*                                                                         *)
(* Adders run AddMagnet or AddTorrentFile, viewers run GetFileReader and   *)
(* the trackedReader it returns, and three removers run RemoveTorrent: the *)
(* idle reaper, the stall checker and the DELETE handler.  One action is   *)
(* one critical section of m.mu or of activityMu, or one call of the       *)
(* torrent client; nothing is locked across two of them.                   *)
(*                                                                         *)
(* A torrent object of the client is its generation, a positive number.    *)
(* The wall clock is reduced to what the code compares: an activity entry  *)
(* is aged when lastUsed is more than idleTTL ago, a stall sample is old   *)
(* when it was taken more than stallTimeout ago.                           *)
(***************************************************************************)
EXTENDS Integers, FiniteSets

CONSTANTS
  Hashes,   \* info hashes
  Adders,   \* goroutines that add torrents
  Viewers,  \* goroutines that stream a file
  Transcoders, \* of them, those whose file goes through ffmpeg
  NoHash,   \* no info hash
  MaxGen    \* bound on the torrent objects the client creates

ASSUME TmConstants ==
  MaxGen \in Nat /\ NoHash \notin Hashes /\ Transcoders \subseteq Viewers

ASSUME TmFinite == IsFiniteSet(Viewers)

RemoverNames == {"reaper", "stall", "api"}

VARIABLES
  client,        \* the client's live torrent of each hash, 0 if none (external)
  gens,          \* torrent objects created so far
  torrents,      \* TorrentManager.torrents: the tracked torrent, 0 if none
  activity,      \* TorrentManager.activity; exists = the map has the key
  activeReaders, \* TorrentManager.activeReaders
  adder,         \* what each adder is doing
  viewer,        \* what each viewer is doing
  remover,       \* the removal each remover is in, and the hashes still to go
  seen,          \* the stall checker's samples
  snapshot       \* the stall checker's copy of torrents during a pass

tmVars == <<client, gens, torrents, activity, activeReaders, adder, viewer,
          remover, seen, snapshot>>
streamVars == <<activeReaders, viewer>>
stallVars == <<seen, snapshot>>

Gen == 0..MaxGen
NoEntry == [exists |-> FALSE, readers |-> 0, aged |-> FALSE]
NoSample == [age |-> "none", gen |-> 0]
Idle == [pc |-> "idle", ih |-> NoHash, gen |-> 0]
Resting == [pc |-> "idle", ih |-> NoHash, todo |-> {}]

TmInit ==
  /\ client = [h \in Hashes |-> 0]
  /\ gens = 0
  /\ torrents = [h \in Hashes |-> 0]
  /\ activity = [h \in Hashes |-> NoEntry]
  /\ activeReaders = 0
  /\ adder = [a \in Adders |-> Idle]
  /\ viewer = [v \in Viewers |-> Idle]
  /\ remover = [w \in RemoverNames |-> Resting]
  /\ seen = [h \in Hashes |-> NoSample]
  /\ snapshot = [h \in Hashes |-> 0]

-----------------------------------------------------------------------------
(***************************************************************************)
(* AddMagnet and AddTorrentFile: ask the client, track, start the clock.   *)
(***************************************************************************)

\* The client returns the torrent it already has, or creates one.
ClientAdd(a, h) ==
  /\ adder[a].pc = "idle"
  /\ \/ /\ client[h] # 0
        /\ adder' = [adder EXCEPT ![a] = [pc |-> "added", ih |-> h, gen |-> client[h]]]
        /\ UNCHANGED <<client, gens>>
     \/ /\ client[h] = 0
        /\ gens < MaxGen
        /\ gens' = gens + 1
        /\ client' = [client EXCEPT ![h] = gens + 1]
        /\ adder' = [adder EXCEPT ![a] = [pc |-> "added", ih |-> h, gen |-> gens + 1]]
  /\ UNCHANGED <<torrents, activity, streamVars, remover, stallVars>>

Track(a) ==
  /\ adder[a].pc = "added"
  /\ torrents' = [torrents EXCEPT ![adder[a].ih] = adder[a].gen]
  /\ adder' = [adder EXCEPT ![a].pc = "tracked"]
  /\ UNCHANGED <<client, gens, activity, streamVars, remover, stallVars>>

\* touchActivity
Touched(e) == [exists |-> TRUE, readers |-> e.readers, aged |-> FALSE]

TouchActivity(a) ==
  /\ adder[a].pc = "tracked"
  /\ activity' = [activity EXCEPT ![adder[a].ih] = Touched(@)]
  /\ adder' = [adder EXCEPT ![a] = Idle]
  /\ UNCHANGED <<client, gens, torrents, streamVars, remover, stallVars>>

-----------------------------------------------------------------------------
(***************************************************************************)
(* GetFileReader and trackedReader.Close.                                  *)
(***************************************************************************)

GetTorrent(v, h) ==
  /\ viewer[v].pc = "idle"
  /\ torrents[h] # 0
  /\ viewer' = [viewer EXCEPT ![v] = [pc |-> "found", ih |-> h, gen |-> torrents[h]]]
  /\ UNCHANGED <<client, gens, torrents, activity, activeReaders, adder, remover, stallVars>>

\* The torrent has no metadata yet or no such file: the request fails.
OpenFails(v) ==
  /\ viewer[v].pc = "found"
  /\ viewer' = [viewer EXCEPT ![v] = Idle]
  /\ UNCHANGED <<client, gens, torrents, activity, activeReaders, adder, remover, stallVars>>

CountReader(v) ==
  /\ viewer[v].pc = "found"
  /\ activeReaders' = activeReaders + 1
  /\ viewer' = [viewer EXCEPT ![v].pc = "counted"]
  /\ UNCHANGED <<client, gens, torrents, activity, adder, remover, stallVars>>

\* markReaderOpened
MarkOpened(v) ==
  /\ viewer[v].pc = "counted"
  /\ activity' = [activity EXCEPT ![viewer[v].ih] =
                    [exists |-> TRUE, readers |-> @.readers + 1, aged |-> FALSE]]
  /\ viewer' = [viewer EXCEPT ![v].pc = "open"]
  /\ UNCHANGED <<client, gens, torrents, activeReaders, adder, remover, stallVars>>

\* transcodeStream: ffmpeg is fed from the reader until the client hangs up,
\* ffmpeg exits or its output cannot be written; or it does not start.
StartTranscode(v) ==
  /\ v \in Transcoders /\ viewer[v].pc = "open"
  /\ viewer' = [viewer EXCEPT ![v].pc = "converting"]
  /\ UNCHANGED <<client, gens, torrents, activity, activeReaders, adder, remover, stallVars>>

EndTranscode(v) ==
  /\ v \in Transcoders /\ viewer[v].pc \in {"open", "converting"}
  /\ viewer' = [viewer EXCEPT ![v].pc = "ended"]
  /\ UNCHANGED <<client, gens, torrents, activity, activeReaders, adder, remover, stallVars>>

\* handleStream: direct play closes the reader when the request is over,
\* transcodeStream before it waits for ffmpeg.
MayClose(v) == viewer[v].pc = IF v \in Transcoders THEN "ended" ELSE "open"

\* Faulty: every Close runs onDone, not only the first one.
UncountReader_Twice(v) ==
  /\ MayClose(v)
  /\ activeReaders > 0
  /\ activeReaders' = activeReaders - 1
  /\ viewer' = [viewer EXCEPT ![v].pc = IF activeReaders = 1 THEN "closing" ELSE @]
  /\ UNCHANGED <<client, gens, torrents, activity, adder, remover, stallVars>>

\* Faulty: the reader is closed after the wait for ffmpeg, which waits for the
\* copy to its stdin, which waits for pieces while the torrent is there.
UncountReader_AfterWait(v) ==
  /\ MayClose(v)
  /\ v \in Transcoders => client[viewer[v].ih] # viewer[v].gen
  /\ activeReaders' = activeReaders - 1
  /\ viewer' = [viewer EXCEPT ![v].pc = "closing"]
  /\ UNCHANGED <<client, gens, torrents, activity, adder, remover, stallVars>>

UncountReader(v) ==
  /\ MayClose(v)
  /\ activeReaders' = activeReaders - 1
  /\ viewer' = [viewer EXCEPT ![v].pc = "closing"]
  /\ UNCHANGED <<client, gens, torrents, activity, adder, remover, stallVars>>

\* Faulty: a close only restarts the idle clock.
Closed_KeepsCount(e) ==
  IF e.exists THEN [exists |-> TRUE, readers |-> e.readers, aged |-> FALSE] ELSE e

\* markReaderClosed does nothing without an entry, and never counts below 0.
Closed(e) ==
  IF e.exists
    THEN [exists |-> TRUE, aged |-> FALSE,
          readers |-> IF e.readers > 0 THEN e.readers - 1 ELSE 0]
    ELSE e

MarkClosed(v) ==
  /\ viewer[v].pc = "closing"
  /\ activity' = [activity EXCEPT ![viewer[v].ih] = Closed(@)]
  /\ viewer' = [viewer EXCEPT ![v] = Idle]
  /\ UNCHANGED <<client, gens, torrents, activeReaders, adder, remover, stallVars>>

-----------------------------------------------------------------------------
(***************************************************************************)
(* RemoveTorrent, run by each remover for the hashes of its todo set.      *)
(***************************************************************************)

\* "torrent not found": nothing is touched, the activity entry included.
RemoveMissing(w, h) ==
  /\ remover[w].pc = "idle"
  /\ h \in remover[w].todo
  /\ torrents[h] = 0
  /\ remover' = [remover EXCEPT ![w].todo = @ \ {h}]
  /\ UNCHANGED <<client, gens, torrents, activity, streamVars, adder, stallVars>>

\* Under m.mu: t.Drop() and forget the torrent.
Detach(w, h) ==
  /\ remover[w].pc = "idle"
  /\ h \in remover[w].todo
  /\ torrents[h] # 0
  /\ client' = [client EXCEPT ![h] = IF @ = torrents[h] THEN 0 ELSE @]
  /\ torrents' = [torrents EXCEPT ![h] = 0]
  /\ remover' = [remover EXCEPT ![w] = [pc |-> "detached", ih |-> h, todo |-> @.todo \ {h}]]
  /\ UNCHANGED <<gens, activity, streamVars, adder, stallVars>>

ForgetActivity(w) ==
  /\ remover[w].pc = "detached"
  /\ activity' = [activity EXCEPT ![remover[w].ih] = NoEntry]
  /\ remover' = [remover EXCEPT ![w].pc = "forgotten"]
  /\ UNCHANGED <<client, gens, torrents, streamVars, adder, stallVars>>

\* storageImpl.DropTorrent deletes the blobs.
FreeStorage(w) ==
  /\ remover[w].pc = "forgotten"
  /\ remover' = [remover EXCEPT ![w] = [pc |-> "idle", ih |-> NoHash, todo |-> @.todo]]
  /\ UNCHANGED <<client, gens, torrents, activity, streamVars, adder, stallVars>>

\* DELETE /api/torrents/{infoHash}
RequestDelete(h) ==
  /\ remover["api"] = Resting
  /\ remover' = [remover EXCEPT !["api"].todo = {h}]
  /\ UNCHANGED <<client, gens, torrents, activity, streamVars, adder, stallVars>>

-----------------------------------------------------------------------------
(***************************************************************************)
(* The idle reaper: candidates are collected under activityMu, removed     *)
(* without it.                                                             *)
(***************************************************************************)

\* More than idleTTL has passed since lastUsed.
Age(h) ==
  /\ activity[h].exists
  /\ ~activity[h].aged
  /\ activity' = [activity EXCEPT ![h].aged = TRUE]
  /\ UNCHANGED <<client, gens, torrents, streamVars, adder, remover, stallVars>>

IdleCandidates == {h \in Hashes : /\ activity[h].exists
                                  /\ activity[h].readers = 0
                                  /\ activity[h].aged}

ReapIdle ==
  /\ remover["reaper"] = Resting
  /\ IdleCandidates # {}
  /\ remover' = [remover EXCEPT !["reaper"].todo = IdleCandidates]
  /\ UNCHANGED <<client, gens, torrents, activity, streamVars, adder, stallVars>>

-----------------------------------------------------------------------------
(***************************************************************************)
(* The stall checker: copy the torrents, then examine each one's readers   *)
(* and progress, then remove the stalled ones.                             *)
(***************************************************************************)

StallSnapshot ==
  /\ remover["stall"] = Resting
  /\ \E h \in Hashes : torrents[h] # 0
  /\ remover' = [remover EXCEPT !["stall"].pc = "examine"]
  /\ snapshot' = torrents
  /\ UNCHANGED <<client, gens, torrents, activity, streamVars, adder, seen>>

Watched == {h \in Hashes : snapshot[h] # 0 /\ activity[h].readers > 0}

\* verdict[h] is what the torrent itself says: it has no metadata, it is complete,
\* it has new bytes or a seeder, or it has neither.
Stalled(verdict) ==
  {h \in Watched : verdict[h] = "stuck" /\ seen[h].age = "old"}

StallExamine ==
  /\ remover["stall"].pc = "examine"
  /\ \E verdict \in [Watched -> {"noinfo", "complete", "moving", "stuck"}] :
       /\ remover' = [remover EXCEPT !["stall"] =
                        [pc |-> "idle", ih |-> NoHash, todo |-> Stalled(verdict)]]
       /\ seen' = [h \in Hashes |->
            CASE h \notin Watched -> NoSample
              [] h \in Stalled(verdict) -> NoSample
              [] h \in Watched /\ verdict[h] = "complete" -> NoSample
              [] h \in Watched /\ verdict[h] = "noinfo" -> seen[h]
              [] h \in Watched /\ verdict[h] = "stuck" /\ seen[h].age = "fresh" -> seen[h]
              [] OTHER -> [age |-> "fresh", gen |-> snapshot[h]]]
  /\ snapshot' = [h \in Hashes |-> 0]
  /\ UNCHANGED <<client, gens, torrents, activity, streamVars, adder>>

\* stallTimeout has passed since the sample.
AgeSample(h) ==
  /\ seen[h].age = "fresh"
  /\ seen' = [seen EXCEPT ![h].age = "old"]
  /\ UNCHANGED <<client, gens, torrents, activity, streamVars, adder, remover, snapshot>>

-----------------------------------------------------------------------------

AdderStep(a) == Track(a) \/ TouchActivity(a)
ViewerStep(v) ==
  \/ MarkOpened(v) \/ StartTranscode(v) \/ EndTranscode(v)
  \/ UncountReader(v) \/ MarkClosed(v)
RemoverStep(w) ==
  \/ \E h \in Hashes : RemoveMissing(w, h) \/ Detach(w, h)
  \/ ForgetActivity(w)
  \/ FreeStorage(w)

TmNext ==
  \/ \E a \in Adders, h \in Hashes : ClientAdd(a, h)
  \/ \E a \in Adders : AdderStep(a)
  \/ \E v \in Viewers, h \in Hashes : GetTorrent(v, h)
  \/ \E v \in Viewers : OpenFails(v) \/ CountReader(v) \/ ViewerStep(v)
  \/ \E w \in RemoverNames : RemoverStep(w)
  \/ \E h \in Hashes : RequestDelete(h)
  \/ \E h \in Hashes : Age(h)
  \/ ReapIdle
  \/ StallSnapshot
  \/ StallExamine
  \/ \E h \in Hashes : AgeSample(h)

TmSpec == TmInit /\ [][TmNext]_tmVars

(***************************************************************************)
(* Goroutines finish the calls they are in, the two tickers keep firing    *)
(* and time passes.  Nothing makes a viewer come, stay or leave.           *)
(***************************************************************************)
TmFairSpec ==
  /\ TmSpec
  /\ \A a \in Adders : WF_tmVars(AdderStep(a))
  /\ \A v \in Viewers : WF_tmVars(MarkOpened(v) \/ MarkClosed(v))
  /\ \A v \in Transcoders : WF_tmVars(UncountReader(v))
  /\ \A w \in RemoverNames : WF_tmVars(RemoverStep(w))
  /\ \A h \in Hashes : WF_tmVars(Age(h))
  /\ WF_tmVars(ReapIdle)
  /\ WF_tmVars(StallExamine)

(***************************************************************************)
(* The behaviours in which adds, opens and removals never overlap: what a  *)
(* lock held across each of these calls would leave.                       *)
(***************************************************************************)
Underway ==
  {a \in Adders : adder[a].pc # "idle"}
    \cup {v \in Viewers : viewer[v].pc \in {"found", "counted", "ended", "closing"}}
    \cup {w \in RemoverNames : remover[w].pc # "idle"}

TmSerialSpec == TmInit /\ [][TmNext /\ Cardinality(Underway') <= 1]_tmVars

-----------------------------------------------------------------------------

\* A viewer that streams, and one whose reader is not closed for its entry yet.
Serving == {"open", "converting", "ended"}
OpenOn(h) == {v \in Viewers : viewer[v].pc \in Serving \cup {"closing"} /\ viewer[v].ih = h}

\* Nothing is being added or removed.
Quiescent ==
  /\ \A a \in Adders : adder[a] = Idle
  /\ \A w \in RemoverNames : remover[w] = Resting

\* The values the variables range over.
TmTypeOK ==
  /\ client \in [Hashes -> Gen]
  /\ gens \in Gen
  /\ torrents \in [Hashes -> Gen]
  /\ activity \in [Hashes -> [exists: BOOLEAN, readers: Nat, aged: BOOLEAN]]
  /\ activeReaders \in Nat
  /\ adder \in [Adders -> [pc: {"idle", "added", "tracked"},
                           ih: Hashes \cup {NoHash}, gen: Gen]]
  /\ viewer \in [Viewers -> [pc: Serving \cup {"idle", "found", "counted", "closing"},
                             ih: Hashes \cup {NoHash}, gen: Gen]]
  /\ remover \in [RemoverNames -> [pc: {"idle", "examine", "detached", "forgotten"},
                               ih: Hashes \cup {NoHash}, todo: SUBSET Hashes]]
  /\ seen \in [Hashes -> [age: {"none", "fresh", "old"}, gen: Gen]]
  /\ snapshot \in [Hashes -> Gen]

\* The count that divides the readahead budget (readaheadFor) is exactly the
\* number of readers handed out and not yet closed: it neither drifts up, which
\* would starve every later reader, nor goes negative.
ActiveReadersExact ==
  activeReaders = Cardinality({v \in Viewers : viewer[v].pc \in Serving \cup {"counted"}})

\* An entry never counts more readers than are open on its torrent, whatever
\* removals and re-adds happened in between: no phantom reader keeps an
\* abandoned torrent out of the reaper's reach.  It may count fewer: see
\* CandidatesAreUnwatched.
NoPhantomReaders ==
  \A h \in Hashes : activity[h].readers <= Cardinality(OpenOn(h))

\* A tracked torrent that has an activity entry and that nobody adds, opens or
\* streams does not stay: it is reaped in the end (reaper.go:11-15).  A stream
\* that is over, because the client or ffmpeg is gone, does not hold it, even
\* when its reader waits for pieces that never come (transcode.go:81-83).
IdleIsReaped ==
  \A h \in Hashes :
    []<>(\/ torrents[h] = 0
         \/ ~activity[h].exists
         \/ \E v \in Viewers : viewer[v].ih = h /\ viewer[v].pc # "ended"
         \/ \E a \in Adders : adder[a].ih = h)

-----------------------------------------------------------------------------
(***************************************************************************)
(* What the comments of the code say, and the code does not do.            *)
(***************************************************************************)

\* storage_prefixcache.go:183-184: DropTorrent runs with "no concurrent
\* reads/writes" for the torrent, that is, the client does not have it.
StorageDropIsExclusive ==
  \A w \in RemoverNames : remover[w].pc = "forgotten" => client[remover[w].ih] = 0

\* reaper.go:81-84: a viewer that starts between the reaper's snapshot and its
\* removal keeps a torrent; the reaper drops no torrent that is being streamed.
ReapSparesNewViewer ==
  [][\A h \in Hashes : Detach("reaper", h) =>
       ~\E v \in Viewers : /\ viewer[v].pc \in {"open", "converting"}
                           /\ viewer[v].ih = h
                           /\ viewer[v].gen = torrents[h]]_tmVars

\* reaper.go:83, the other half of the same sentence: what the newcomer gets is
\* "a freshly re-added torrent", one the client has not dropped.
TrackedIsLive ==
  Quiescent => \A h \in Hashes : torrents[h] \in {0, client[h]}

\* torrent.go:616: a reader marks the torrent in use "so the idle reaper won't
\* drop it while it streams": no candidate of the reaper is being streamed.
CandidatesAreUnwatched ==
  [][ReapIdle => \A h \in IdleCandidates, v \in Viewers :
       ~(/\ viewer[v].pc \in {"open", "converting"} /\ viewer[v].ih = h
         /\ viewer[v].gen = torrents[h] /\ viewer[v].gen = client[h])]_tmVars

\* reaper.go:14: "A torrent with no open readers and no use within idleTTL is
\* reaped"; for that it needs an entry in activity.
TrackedIsReapable ==
  Quiescent => \A h \in Hashes :
    torrents[h] # 0 /\ torrents[h] = client[h] => activity[h].exists

\* reaper.go:84: "at worst one reap is a no-op".  A reap that finds no torrent
\* leaves no entry behind that the next tick would try again, unless another
\* call that will take care of it is under way.
NoopReapIsLast ==
  [][\A h \in Hashes :
       /\ RemoveMissing("reaper", h)
       /\ remover["api"] = Resting /\ remover["stall"] = Resting
       /\ \A v \in Viewers : viewer[v] = Idle
       => ~activity[h].exists]_tmVars

\* reaper.go:110-113: a torrent is dropped as stalled when it had no new bytes
\* for stallTimeout; the sample it is judged by is a sample of that torrent.
StallClockIsOwn ==
  [][StallExamine => \A h \in remover'["stall"].todo : seen[h].gen = snapshot[h]]_tmVars
=============================================================================
