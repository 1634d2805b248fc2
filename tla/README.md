# TLA+ models of phimtor

phimtor streams films from BitTorrent swarms to browsers and televisions.  This
directory holds TLA+ models of the parts of it that are concurrent, distributed
or recover from failure, the TLC configurations that check them and, for most of
them, proofs for every value of the constants.

## The system

| Part | Source | State it keeps | Operations | Talks to |
|---|---|---|---|---|
| streamer: torrent registry | `streamer/torrent.go`, `reaper.go` | `torrents`, `activity`, `activeReaders`, stall samples | add, open and close a reader, remove; background reaper and stall checker | the torrent client, the storage |
| streamer: prefix-cache storage | `streamer/storage_prefixcache.go` | blobs, bolt and in-memory completion, residency and byte counters, playheads | write, read, mark complete or not, evict, drop a torrent, restart | called by the torrent client and the registry |
| streamer: handle cache | `streamer/storage_fdcache.go` | open files with reference counts | read, drop, close all | called by both storages |
| streamer: download-all storage | `streamer/storage_downloadall.go` | blobs, bolt completion | write, read, mark, drop | as above |
| streamer: manager client | `streamer/manager_client.go` | session token, registered or not | register, heartbeat, deregister | HTTP to the manager |
| streamer: HTTP, ffmpeg | `streamer/server.go`, `transcode.go` | one process per stream | stream, probe, transcode | the registry |
| manager: enrollment, registry | `manager/enrollment.go`, `registry.go`, `server.go` | allow-list (memory and disk), live instances, sessions | register, heartbeat, deregister, approve, revoke, expire, restart | streamers, operator |
| manager: router | `manager/router.go`, `registry.go` | owner map | place an add, resolve, get, delete, reconcile | HTTP to streamers |
| viewer: watch tracker | `viewer/watchtracker.go` | sessions, counts, pending drop timers | beat, leave, sweep, timer function | delete through the manager |
| viewer: watch log | `viewer/watchlog.go` | prepared videos, dirty sessions | prepared, beat, flush | MySQL |
| viewer: device pairing | `viewer/device.go`, `store.go`, `session.go`, `auth.go`; `tv/.../Pairing.kt`, `Nav.kt` | pairing rows, approval windows; the television's code and token | ask for a code, poll, approve, unpair, block, call with a token | MySQL, the television |
| viewer: crypto billing | `viewer/billing.go`, `billing_http.go`, `chain_evm.go` | invoices with their amounts, scan cursors, entitlements | create an invoice, expire, scan, settle, play | MySQL, chains |
| viewer: rate limiter | `viewer/ratelimit.go` | stamps per key | allow | its callers |
| viewer: accounts, saved titles | `viewer/auth.go`, `session.go`, `static/bookmarks.js` | cookies, user rows, bookmarks, the browser's local list | sign in and out, add, remove, merge, block | Google, MySQL, browsers |
| viewer and admin: subtitles | `viewer/subtitles_http.go`, `admin/server.go`, `crawl.go` | rows, files in a blob store, the vietsub flag | save, upload, crawl, delete | providers, MySQL, the blob store |
| admin: catalogue | `admin/crawl.go`, `harvest.go`, `translation_backfill.go`, `store.go` | titles, videos, torrent sources, the backfill's cursor | crawl, import, harvest, refresh, delete | MySQL, TMDB, YTS, streamers |
| admin: featured list | `admin/store.go` | positions | add, move, remove | MySQL, the viewer's hero |
| tv: player | `tv/app/...` | player, watch session, updater | play, recover, update | viewer, streamers |

A browser or a television prepares a title through the viewer, which asks the
manager, which places it on a streamer.  From then on the client streams from
that streamer and beats to the viewer.  When the last session of a title has
gone, the viewer deletes it through the manager; the streamer's reaper is the
second line when that fails.

What is hard in it: the streamer holds no lock across the steps of an add, an
open or a removal; its storage updates a completion store, a counter and a file
in turn, and may crash between any two; handles are closed by one goroutine
while another reads; timer functions run after they were stopped; the manager's
handlers check under one lock and act under another, across HTTP calls that may
time out after they took effect; the owner map is a cache of what the streamers
have.  The viewer and the admin are processes of their own on one database and
one blob store: a handler is a chain of statements without a transaction, any of
which may fail or be the last one before a crash, and jobs, operators and
visitors interleave between them.  PROJECT.json lists these hazards line by
line, with the properties that cover each.

## The modules

| Module | Models | Checked by | Proved in |
|---|---|---|---|
| `FdCache` | `storage_fdcache.go`, and the unlink of a dropped blob | with `DownloadAll` | `StreamerProofs` |
| `DownloadAll` | `storage_downloadall.go`; extends `FdCache` | `MCDownloadAll` | `StreamerProofs` |
| `Pieces` | `storage.go`, `trackedReader` in `torrent.go`: bytes and pieces | with `PrefixCache` | `PrefixCacheProofs` |
| `PrefixCache` | `storage_prefixcache.go`; extends `Pieces` | `MCPrefixCache` | `PrefixCacheProofs` |
| `TorrentManager` | `torrent.go`, `reaper.go`, the stream of `transcode.go` | `MCTorrentManager` | `StreamerProofs` |
| `Enrollment` | `enrollment.go`, registration in `registry.go` and `server.go`, `streamer/manager_client.go` | `MCEnrollment` | `EnrollmentProofs` |
| `Router` | `router.go`, `loadbalance.go`, owners and reconcile in `registry.go` | `Router` | `RouterProofs` |
| `Viewership` | the promise of `watchtracker.go`, abstractly | as a property of `WatchTracker` | `ViewerProofs` |
| `WatchTracker` | `watchtracker.go` | `WatchTracker` | `ViewerProofs` |
| `WatchLog` | `watchlog.go`, its upsert in `store.go`, the shutdown of `main.go` | `MCWatchLog` | `WatchLogProofs` |
| `ViewerWorld` | what `Billing` and `Pairing` share: users, the database's clock, the budget of faults | with both | |
| `Billing` | `billing.go`, `billing_http.go`, `chain_evm.go`, the gate of paid titles; extends `ViewerWorld` | `Billing` | `StoreProofs` |
| `RateLimiter` | `ratelimit.go`, as operators | with `Pairing` | `StoreProofs` |
| `Pairing` | `device.go`, bearer tokens, the television's `Pairing.kt` and `Nav.kt`; extends `ViewerWorld` and `RateLimiter` | `Pairing` | `StoreProofs` |
| `Accounts` | `auth.go`, `googleauth.go`, `session.go`, the saved-titles API, `bookmarks.js` | `MCAccounts` | `ViewerProofs` |
| `Subtitles` | saves, uploads, crawls and deletions of subtitles in viewer and admin | `Subtitles` | `AdminProofs` |
| `Catalogue` | `crawl.go`, `harvest.go`, `translation_backfill.go`, and what they and the operator write | `MCCatalogue` | `AdminProofs` |
| `Featured` | the featured list of `admin/store.go` | by hand | `StoreProofs` |

In all of them one action is one critical section, one call of a library, one
SQL statement or transaction, or one HTTP exchange; what the code does between
two of those is state of the caller (`adder`, `viewer`, `remover`, `worker`,
`calls`, `request`).  Variables have the names of the fields they stand for.
Definitions named `X_Y` with the comment "Faulty" are bugs one could make in
`X`; no specification uses them. They serve to see that each property can fail.

### FdCache

`m`, `clock` and `ent` are `fdCache.m`, `clock` and the entries.  `ReadHit` and
`ReadMiss` are `readAt` up to its first `Unlock`: touch, pin, then evict.
`ReadEnd` is the rest.  `Drop` and `DropPrefix` are what the storages call before
they unlink (`RemoveBlobs`), `WriteBlob` creates a blob again.  A file is a
number, so that "the handle of a file that is no longer at its path" can be said.

### DownloadAll

The second storage, over the cache it uses: its actions are steps of `FdCache`
with what they mean for a piece.  `bolt` is the completion that survives a
restart, `content` says of a file how much of it has arrived and whether it is
good, `belief` is what the torrent client takes to be complete; the client is
external and makes one call per piece at a time, hashes a piece when all of it
has arrived, and asks for completion again when a read fails.  `numPieces` is
known only once a torrent has metadata.  Three constants let a configuration ask
for what the storage does not withstand: `DropUnresolved` (a drop before the
metadata), `Overlap` (a drop beside other calls) and `MayLose` (blobs a power
failure takes, since nothing is synced). Failing system calls are left out, and `DropTorrent` forgets and unlinks all its
pieces in one action each.

### TorrentManager

A torrent object of the client is a generation number: the same hash added
twice has two.  `client` is what the client has, `torrents` what the manager
tracks, and they differ between `ClientAdd` and `Track`, and between `Detach`
and later.  The three removers run the same four steps of `RemoveTorrent`.  Time
is reduced to the comparisons the code makes: an entry is aged or not, a sample
fresh or old.  `StallExamine` is one action although the code takes
`activityMu` once per torrent; with several torrents that is one read per
torrent of its own entry.  A pass over no torrents is left out.  One of the viewers streams through ffmpeg: its reader
belongs to the handler, is read by the process's stdin copier, and is closed
when the handler leaves, before `Wait`.  Download rates and piece priorities are
left out.

### Pieces and PrefixCache

`Pieces` is arithmetic: a torrent is its piece length, its length and its files,
and `prefixPieceIndices`, `videoFileStartPieces` and `ReaderPiece` say which
pieces a byte range covers.  The run uses torrents whose files meet inside a
piece.  `PrefixCache` has both tiers, with their completion stores, the resident
sets and the two byte counters.  The torrent client is external; what it does is
taken from how it is used: it makes one storage call per piece at a time, writes
only pieces it believes missing, hashes pieces it knows nothing about, and asks
for completion when a read fails.  `retainHot` is a variable that `Init` chooses
and nothing changes.  An eviction set is any set the loop over `pickVictim` may
choose, ties broken by the iteration order of a Go map.  No torrent is opened while it is
dropped, which `DropTorrent` asks for and `StorageDropIsExclusive` shows its caller
not to see to.  `prefixBytes` may
change at a restart, which is how operators reconfigure it, and `stray` are the
blobs that a change leaves in the prefix directory.  Errors of `os.Remove` and
of a completion store are not modelled.

### Viewership and WatchTracker

`sessions`, `counts` and `pending` are the fields of `watchTracker`.  A timer is
a slot with a state: armed, fired (its function waits for `t.mu`), dropping, or
off.  `time.Timer.Stop` reaches an armed timer only, so a stopped timer may
still run its function, as in Go.  `Viewership` has no timers and no counts:
tabs watch, and a drop begins only while nobody watches.  The refinement maps
`dropping` to the timers that are past their check.

### WatchLog

`prepares` and `sessions` are the maps of `watchLog`; a key is a tab and a video,
the user being the one signed in on the tab.  A flush is three actions, since
the write runs without the lock: `FlushCopy`, then `FlushWrite` or `FlushFails`,
then `FlushSettle`.  `db` is `watch_sessions` and `Upserted` the statement's
`GREATEST`; a write that fails may have stored any of its rows, because they go
out in chunks and an answer may be lost.  `Stop`, `Drained` and `Exit` are the
shutdown of `main.go`: requests are served until `Drained`, while `run` makes its
final flush.  The time-outs of that shutdown are not modelled; a process that
does not wait ends like one that crashes.  `heard` is history: what a session is
owed, the capped gaps between all its beats.

### Enrollment

Calls in flight are records with a program counter, so a handler that verified
and has not registered yet is visible, a call may outlive the streamer's
time-out, and its answer may come to nobody.  Tokens are model values taken
from a finite set; a new one is any that nobody holds.  A failed write of
`enrollments.json` is a fault; `saved` is history and says whether the last write
succeeded.  `granted` remembers every decision of the operator for
`OnlyApprovedMachines`.

### Router

Owners are `Instance` objects and not identifiers, as in the code: a streamer
that registers anew gets a new object and requests in flight keep the old one.
`Strategy` names the balancer: round-robin may pick any healthy instance,
least-torrents and least-bandwidth one of those they find the least loaded.  An
add comes as JSON, as a form or as anything else, whole or cut off, with a
magnet that may name its hash in hexadecimal; only then is an owner looked up
before.  `up` says which streamers answer.  `steady` is history: the instances
that have served the torrent all the time since the request began.  The owner,
the healthy instances and their counts are read one after the other, each under a
read lock; here these reads are one action.  `ScanMissesNothing` is about the
answer of `resolveOwner`.  The fetch that `getTorrent` makes after it asks that one
streamer only, and calls the torrent gone when it fails (`GetGone`): over both,
`StaleOwnerIsNotFatal` is refuted.

### Billing

The clock is the database's.  An invoice is known to the chain by its amount
alone, which creation nudges until no open invoice has it (`MaxDust`).  A poller
is a program counter through one tick: expire, count the open invoices, ask for
the tip, read the logs of a chunk of blocks, settle each match, write the
cursor; two pollers are a deploy that overlaps, or two processes.  Chains and
buyers are external: a transfer is mined into the next block, and a block that
is not `MinConf` deep may be reorganised.  Wide chains have more digits than an
amount has, so a payment may be wrong in digits the code cuts or keeps.
`ScanLag` is a timing assumption: fewer blocks are mined between a poller's
count and its scan than make one deep.  `comped`, `credited` and `played` are
history.  A tick reads the cursor, the tip and the logs in one action, for
which `ScanLag` makes up.  A failing `ExpireInvoices`, after which the tick goes on
with amounts reserved that matching no longer looks at, and a failing count, which
ends the scan before it reads anything, are left out.

### RateLimiter and Pairing

`RateLimiter` has the filtering, the count and the sweep of `allow` as operators;
each call holds the lock, so it is one step of its caller.  `Pairing` extends it.
A row of `tv_devices` is an open code, an approved one or nothing; `poll` is the
television's poll between its request and its answer, `phone` an approval and
`req` a request with a bearer token, each of two statements that others may come
between.  Only codes that are taken are typed: any other costs a try and nothing else.
`Slack` says whether the poll interval fits between two ticks of the
clock.  A statement may fail, an answer may be lost, a restart clears the limiter,
a row is reaped.  `linked`, `ended`, `accepted`, `cut` and `blips` are history; the
stamps in `accepted` are trimmed with the window.  Its definitions that would
meet those of `Billing` carry the prefix `Pa`, so that one proof module can
extend both.

### Accounts

A browser has a session cookie, a state cookie and a local list, which its tabs
share.  A navigation leaves with the cookies of that moment and its answer sets
cookies when it arrives, so two flows overlap as they do in a browser; the
callback may open in another tab, or in another browser.  The calls of
`bookmarks.js` run beside the pages: sent, authenticated, written, answered, the
answer possibly lost.  A page load is handled when it arrives, and the upsert of
the user with the read that follows is one step, because no other statement
writes what it reads.  The local list is only ever filled before a sign-in, as
in the script.  Google is external.

### Subtitles

A save is a record with a program counter: limiter and duplicate check,
download and write of the file, insert of the row, refresh of the flag.  Nothing
another call could see is read or written between the download and the write, so
the two are one action that may fail at either.  The viewer's, the operator's and the crawl's saves differ in what they check and in
what they undo when a call fails; a client that hangs up is a refresh that fails.
`FilesAreAccountedFor` speaks of files by `lost`, which holds exactly the keys a
fault or a cascade gave up.

### Catalogue

A title's row id matters because a title that is deleted and created again has a
new one while jobs in flight hold the old.  A crawl job or a click is a record
through the torrents YTS offers: look the torrent up, download its file from
the address YTS gives, insert the video and the source.  `Offers` are those
torrents; a movie without any may still be listed by YTS, and a crawl of
top-rated movies then creates it without a video.  `translated` abstracts the
translation rows to whether one is missing; television shows have more tables and
the same control, but a season or episode that a refresh adds does not make its
title untranslated again.  Harvester, button and backfill are actions of their own.

### Featured

`AddFeatured` and `MoveFeatured` are transactions at the default isolation level:
their reads are of a snapshot and lock nothing, their writes hold row locks to
the commit, so that the writes and the commit are one step.  `SerialSpec` lets no
two transactions overlap.

## The runs

One run per module checks what its module promises.

| Run | Shows | Instance |
|---|---|---|
| `FdCache` | no read on a closed handle, no leak, overshoot at most the number of readers; a piece marked complete has its blob; a watched piece goes only with its torrent | 3 blobs of one torrent, 2 readers, 1 worker, room for 1 handle, 1 fault |
| `TorrentManager` | reader counts exact, no phantom readers, idle torrents reaped | 1 hash, 1 adder, a direct and a transcoding viewer, 3 removers, 2 torrent objects |
| `PrefixCache` | counters exact, complete pieces have their blobs, evictions spare what playheads are about to reach | 2 torrents of which one has a prefix, pieces of size 1 and 2, room for 3; 2 workers, 2 readers, 1 restart; `RETAIN_HOT` on and off |
| `Enrollment` | personal sessions, decisions survive restarts, an approved running streamer is registered again and again | 2 machines claiming 1 id, 2 calls in flight, 2 faults (time-out, stop, crash, restart, failed write) |
| `Router` | `resolveOwner` overlooks no instance that had the torrent all along; the owner map converges | 2 streamers with 2 `Instance` objects each, 2 requests, 1 round, 5 outside events, least-bandwidth |
| `WatchTracker` | counts exact, refinement of `Viewership`, abandoned titles are dropped | 2 tabs, 2 titles, 3 timers each |
| `WatchLog` | nothing counted twice, an entry cleared or forgotten only when the database has it, every beat written in the end | 1 tab, 1 video the admin may delete, clock to 5 with a gap cap of 1, eviction after 1, giving up after 2, pruning after 3 ticks; 2 faults (refused write, stop, crash) |
| `Billing` | a pass is as long as was paid for, nothing plays that was not paid for exactly, no payment is skipped, a failing scan catches up | 1 buyer, a pass and a title, 2 invoices, 2 transfers, 2 pollers, one wide chain of 3 blocks, 1 fault |
| `Catalogue` | stored files are not lost, each offer is stored, each title translated, each magnet filled, in the end | 2 titles, 2 torrents, a crawl job, a click, the button, harvester and backfill; 2 faults |
| `Subtitles` | an answered save is served, the flag tells what rows say, only faults leave files | a visitor, an operator, a crawl of two results, a deletion; 1 movie, 2 files, 2 saves that reach the store, 1 fault |
| `Accounts` | sign-ins do not mix, a local list is dropped only once an account has it, a blocked account gets nothing new | 2 tabs in either of 2 browsers, 2 Google accounts, 1 title, 1 call in flight, 2 sign-ins, 1 fault |
| `Pairing` | only a live token of an approved code is served, nobody tries more codes than the quota, an approved code signs the television in | 1 television, 2 phones, 2 codes shown, a clock to 5, 1 fault |

Why the bounds are enough: each of these races needs one more of something than
the code handles under one lock or in one transaction.  Two readers and one
worker give every pair of handle cache calls on one blob; room for one handle
makes every insertion evict.  Two torrent objects are what "the torrent and its
successor" needs.  Three timers let one be armed while an older one has fired
and a still older one is dropping.  Two generations of an instance are the old
object and the new; five events let each streamer lose, regain and change its
torrents.  Room for 3 with pieces of size 1 and 2 makes an insertion evict none,
one or two pieces.  One session is enough for `WatchLog`: entries meet only in
the outcome of a common write, and a failed write stores any subset of its rows;
five ticks let an entry be written, evicted and begun again, or refused until it
is given up.  Two invoices of one price contend for one amount, and a second
poller repeats every observation of the first.  Two sign-ins in two tabs are one
flow and the one that overtakes it.  Two codes on a television are the one that
expires and its successor.

`MaxClock`, `MaxInode`, `MaxGen`, `MaxTimers`, `MaxCalls`, `MaxFaults`,
`MaxCrash`, `MaxEvents`, `MaxTime`, `MaxHeight`, `MaxInvoices`, `MaxTransfers`,
`MaxRows`, `MaxNonce`, `MaxId`, `MaxCopies` and `MaxKeys` bound what the code
does not (in `RateLimiter` and so in `Pairing`, `MaxKeys` is the code's own
`maxRateLimitKeys`); they disable only the action that would exceed them.  An
invoice is created only when it can also expire before `MaxTime`.  `MaxId` never
binds: two faults cannot use the ids up.

The runs check for deadlock, but for three: `Pairing` ends at the bound of its
clock, `Subtitles` when the keys are used up, and `FeaturedGaps` when its calls
have been made.

Symmetric sets: readers and blobs of `FdCache`, workers and readers of
`PrefixCache`, browsers, tabs and accounts of `Accounts`, files of `Subtitles`.
None of the runs with symmetry checks a liveness property.

## What the code does not keep

The configurations whose names end in `Gaps`, and `PairingBlip`, check what a
comment says and the code does not do; each property is refuted.  They are run
by hand, one property at a time (`tlc -config FeaturedGaps.cfg Featured`); the
comment at the top of a configuration says which constants to change for which
property. The findings of PROJECT.json quote the source's comment and tell each
story.

| Configuration | Property | Comment in the code | What happens |
|---|---|---|---|
| `DownloadAllGaps` | `CachedHandleIsFresh`, `BankedIsVerified` | later reads re-open the fresh file | a handle opened between drop and unlink stays, and a hash read through it banks another file |
| | `DropForgetsBank`, `CompletionIsBacked` | a re-add must not trust completion | a torrent dropped before its metadata keeps its bolt entries |
| | `LostIsFetchedAgain` | a vanished blob is re-downloaded | completion never looks at the blob |
| `PrefixCacheGaps` | `DropForgetsCompletion` | frees all state of the torrent | `cacheCompletion` is never cleared |
| | `CompletionIsBacked` | as above | bolt entries that this process did not count stay |
| `TorrentManagerGaps` | `CandidatesAreUnwatched` | the reaper won't drop it while it streams | a late close of an earlier reader is counted against a later one; calls need not overlap |
| | `StorageDropIsExclusive` | no concurrent reads or writes | a re-add overlaps `DropTorrent` |
| | `ReapSparesNewViewer` | the gap of the reaper is harmless | a new viewer loses the torrent |
| | `TrackedIsLive` | a freshly re-added torrent | a dropped torrent is tracked |
| | `TrackedIsReapable` | an idle torrent is reaped | a re-added torrent without an activity entry |
| | `NoopReapIsLast` | at worst one reap is a no-op | an entry without a torrent is tried for ever |
| | `StallClockIsOwn` | no new bytes for `stallTimeout` | the sample of an earlier torrent decides |
| `EnrollmentGaps` | `RevokedIsDropped` | drop the live instance too | a registration in flight comes after it |
| | `DeregisterNeedsSession` | only with the session token | another registration in between is removed |
| `RouterGaps` | `OneCopy` | lands on the streamer that owns it | two adds both find no owner |
| | `DeleteLeavesNothing` | already in the desired state | the owner did not answer |
| | `StaleOwnerIsNotFatal` | a stale entry is never fatal; not found means no instance has it | the fetch from the resolved owner fails, and nobody else is asked |
| `WatchTrackerGaps` | `NoDropUnderViewer` | never yanked out from under them | the viewer came back after the check |
| | `GraceIsHonoured` | waits the grace after the last viewer | a late timer function untracks the newer timer |
| `WatchLogGaps` | `TotalsAreCumulative` | each entry holds cumulative totals | a tab that wakes up starts again at zero, and the row keeps the larger part |
| | `DeployLosesNothing` | a deploy loses nothing | a beat handled during the final flush is lost |
| | `BeatsCountTheirVideo` | an infohash does not say which episode plays | two tabs on one season pack count for the episode prepared last |
| `BillingGaps` | `PaysItsInvoice`, `OneCreditPerPayment` | the amount identifies the invoice | a late or repeated observation meets a later invoice with the same amount |
| | `PaidInTimeIsCredited` | a payment made in time counts | it is matched against the time of the scan |
| | `NoPaymentIsSkipped` | the cursor passes what was read | blocks mined between count and tip, or before a chain's first scan, are never read |
| `PairingBlip` | `TvKeepsItsToken` | signed out means unpaired | one failed statement answers "not signed in", and the television forgets its token |
| | `LinkedTvIsPaired` | an approved code signs in | an approval in the last interval, or a failed read, is given up |
| `AccountsGaps` | `DoubleClickIsHarmless` | a double-click is harmless | the two calls are written in the other order |
| | `RemovedStaysRemoved` | the merge is idempotent | a merge whose answer was lost is made again |
| | `RemembersWhereHeaded` | remembers where to go | the state cookie is another tab's |
| `SubtitlesGaps` | `RowHasItsFile` | do not orphan the blob | the flag's refresh fails after the row is in, and the file is removed |
| | `DeletedLeavesNoFile` | no file nothing references | a deleted title's files stay |
| | `NoDuplicateDownload`, `CrawlAddsOnlyNew` | a duplicate spends no quota; only new files | check and insert are two steps |
| `CatalogueGaps` | `ImportedOnce` | skip a torrent already imported | job and click both find it missing |
| | `ListedIsPlayable` | no title without a source | sources outlive a deleted title, and a re-crawl skips them |
| | `BackfillOnlyRefreshes` | refreshes existing rows | a title deleted meanwhile is created again |
| | `BytesAreBackfilled` | bytes are filled in where the stored ones are NULL | a save that brings a file replaces the stored one |
| | `CrawlNeedsTorrent` | no movie is created without a torrent | a new movie's torrents are not looked at |
| `FeaturedGaps` | `PositionsDistinct`, `AddAppends`, `MovesAreOneSlot` | in display order; appends; one slot | overlapping transactions compute positions from snapshots |

Also by hand: the `TypeOK`s that no run lists (TLC holds them on the instances
above; all are proved, that of `Featured` under `SerialSpec`), and
`CacheIsBounded`, `OnlyApprovedMachines`, `PendingIsUnwatched` and
`VideosAreWhole`, which are proved.

## Fairness

- `TorrentManager`: a goroutine inside a call finishes it, both tickers fire,
  time passes, and the handler of a conversion closes its reader once the stream
  has ended.  Nobody has to come, and a direct reader need not be closed.
- `WatchTracker`: timers expire, goroutines go on, and the sweep, which `run`
  calls for ever, is strongly fair because the bound on timers disables it at
  times where the code does not.
- `WatchLog`: the ticker fires and a write ends (`Flush`), and a stopping server
  comes to its end (`Shutdown`).  Both are what `run` and `main` wait for.
- `Enrollment`: the streamer's loop ticks and the manager handles the calls that
  reach it.  Strong fairness of the streamer's step stands for a loop that
  retries while its call is now and then in flight.
- `Router`: rounds and requests go on; events outside are bounded, so that
  "nothing changes any more" is a state of affairs the run reaches.
- `Billing`: time passes and each poller goes on through its tick (its ticker).
- `Catalogue`: the tickers of the jobs, of the harvester and of the backfill fire, and a job, an
  import, the harvester and the backfill go on.  No operator has to click.
- `Pairing`: time passes and the television's coroutine goes on; no phone has to
  approve.
- `DownloadAll` has fairness in `LossSpec` only, for the counterexample to
  `LostIsFetchedAgain`: a read that fails is reported, and a missing piece written.
- `Subtitles`, `Accounts` and `Featured` promise nothing of the "in the end" kind:
  each call is made by somebody who may go away.

## What is proved

`TLAPS` checks the following for all values of the constants, under the
assumptions named in the modules: that sets of readers, paths, viewers, hashes,
machines, identifiers or sessions are finite where they are counted, that `None`
is no member of a set the code takes values from (`PcNoKey` and its like), that
bounds and tunables are natural numbers, that the kinds of callers of `Subtitles`
are apart (`SbConstants`), and that there are enough tokens for
every call (`EnrFinite`: the code's tokens are 32 random bytes, so one that
nobody holds always exists).

**StreamerProofs, storage.**  The invariant has two parts beside the types.  `Core` says that
an entry's `refs` is the number of readers that hold it, that a cached entry is
open, neither dead nor cached at two paths, and that an uncached open entry is
dead and held.  Without the exact count nothing prevents an eviction from closing
a handle in use; without the uniqueness a retired entry might stay in the map.
`RetireKeepsCore` and `PinKeepsCore` state what the two helpers preserve, on
arbitrary maps, since `PinAndEvict` applies one after the other.  From it follow
`ReadsAreSafe`, `HandlesAreNotLeaked`, `MapIsBounded` (eviction leaves only
pinned entries, and each is pinned by a different reader) and the action
property `OwnEvictionIsSafe`.

The same module proves the storage above the cache.  `CacheIsSafeUnderStorage`:
every step of `DownloadAll` is a step of the cache, or one that keeps its
invariant, so the cache's promises hold under the storage as well.  For the
other two `DaInv` says of each call in flight what it may still do: which calls
exclude each other (`Apart`), what the client believes against what is on disk
(`BeliefFollows`) and what a drop has closed and not yet unlinked (`CallOk`).
`WatchedIsKept` follows when drops do not overlap other calls.  `CompletionIsSafe`
adds `Backed`, that the blob of a marked piece is there or a call is about to
take the mark back, and holds when drops do not overlap, resolve their torrent,
and no blob is lost.  Each of the three hypotheses is one that TLC refutes the
property without; they are the rows of `DownloadAllGaps` above.

**StreamerProofs, registry.**  `ActiveReadersExact` and `NoPhantomReaders` with the
types, with `BusyHasHash` (whoever is inside a call has a hash) and
`NoEntryNoReaders` (an absent entry counts as zero).  They are inductive
together: the close of a reader of an earlier torrent lowers an entry at most to
zero, which keeps the inequality although it breaks the equality one would like
to have, and that equality is what `CandidatesAreUnwatched` would need and
`TorrentManagerGaps` refutes.

**ViewerProofs, tracker.**  `CountsExact` and `PendingIsUnwatched` are inductive
with the types.  `ReleaseExact` counts what `release` leaves for any set of
sessions, since a sweep ends several at once; `RescheduleSafe` says what the
timers may look like after `scheduleDrop` and `cancelPending`.  `RefinesPromise`
is the refinement of `Viewership`: a step of the tracker that begins a drop sees
a count of zero, which by `CountsExact` is a title nobody watches.

**ViewerProofs, accounts.**  `AcInv` follows a flow from its cookie to its page.
The nonce of a flow that stands at the consent screen is in the state cookie of
the browser it left from, or nowhere: a newer flow takes a newer nonce, and a
cookie is only ever replaced or cleared (`StatesGo`).  So a callback that is
accepted is in that browser, whatever tab it opens in, with the page and the
account of that flow (`TabOk`), and `SignInsAreSafe` follows.  `May` says of a
user id that its account consented in a browser; what is on record is not taken
back (`RecordsGrow`), so it survives all other steps.  A call whose page is still
there is made for such an account (`CallOk`), and a merge carries the whole local
list, which meanwhile only shrinks: hence `ListsAreSafe`.  That a sign-in refreshes
one row or takes a free one is a pigeonhole over the accounts (`NextRowIsFree`).
`BlockedAccountsAreSafe` needs little of it: whatever loads an account goes through
`UserByID`, and no step makes a page or a call of an account it has not loaded.

**WatchLogProofs.**  A total exists in memory, in the rows of a flush and in the
database.  `Owed` bounds each by the time the session is owed; `RowsAreOld` says
that a row is no newer than its entry and has its total when their times agree;
`RowsAreStored` that after a successful write the database is no older than the
row.  The last two are what makes it right to clear an entry by comparing
times alone, and without them `CleanIsSaved` is not inductive.  `WrittenSafe`
states what a write does to any set of rows, so that complete and failed writes
share one proof.

**PrefixCacheProofs.**  `PinnedIsPrefixAndSuffix` and `StartIsPinned` are about
`Pieces` alone: the interval arithmetic of `addRange` gives exactly the pieces
that hold a byte of the prefix or suffix, wherever files meet inside a piece.
`CompletionIsBackedSafe` needs both tiers apart: `CacheTier` and `PrefixTier`
say where the blob of a marked piece is, and who is about to take the mark or
the blob away while a call is between two critical sections.  It holds under
`OneConfiguration` (no drop before the metadata, one prefix size over all
restarts); without it TLC refutes the property.  `EvictionProtectsPlayheadsSafe`
holds under `SmallTorrents`: piece numbers are below `scoreBehindBase`, so that
a piece behind every playhead always scores worse than one ahead.  The constant
is 2^20 in the code, and a torrent would need a million pieces for the two to
meet.  Its invariant `Playing` ties the registered readers to positions, and the
least score exists by well-founded induction on the naturals.
`AccountingIsExact` does not add sizes up: a set of pieces has as many bytes as
the set of its (piece, offset) pairs has elements, so that a piece inserted or
evicted is a disjoint union of finite sets, and no induction over a sum is
needed.  `CacheIsBoundedSafe` is about the whole eviction loop at once, for any
sizes of pieces: without `RETAIN_HOT`, what an insertion leaves fits the cap or
is the piece just inserted.

**EnrollmentProofs.**  `Stored` relates memory, disk and `saved`, and gives
`RestartKeepsDecisionsSafe`.  `Checked` remembers for a call that is past `verify`
that the operator had approved its machine, which is what survives of the check
when `Register` runs later (`OnlyApprovedMachinesSafe`).  `SessionIsPersonalSafe`
needs that a new token is new to everything that may still speak of it: answers
under way, calls that timed out and instances; `Bounded` counts those, and
`TokenLeft` is the pigeonhole that one is left.

**RouterProofs.**  `ScanCovers` is the invariant of the scan in `resolveOwner`:
every instance that has had the torrent since the request began is still on
the list of those to ask, whatever rounds, registrations and expiries do to the
owner map.  `ScanMissesNothingSafe` follows: a scan that ends without an
answer has nobody left who had it.  It says nothing of the fetch after the scan,
for which `RouterGaps` has the counterexample.  `LeastLoadedIsUnique` says that ties of the
balancer are broken by identifier.

**StoreProofs, billing.**  `Granted` is the invariant behind `PassesAreExact` and
`PlayIsPaid`.  It says when things came to be: an invoice is no older than the
clock, a transfer is mined after the invoice it was made for, a poller's row was
read before it settles (`InvoicesAge`, `TransfersAge`, `RowsOk`).  With it
`PaidIsTransferred` holds (a paid invoice was transferred exactly; `ScalingIsExact`
shows that no digit `scaleDecimal` drops can make another amount look like it),
`UnlocksArePaid`, and the bounds of `PassIsExact`, since only a pending invoice
settles and a pass grows from the later of its end and now.  `PlayIsPaid` says of
the one who played what was transferred, not by whom: that is what
`PaysItsInvoice` refutes.

`PaymentsAreNotSkipped` has two hypotheses, and TLC refutes it without either:
`ScanLag <= MinConf`, no chain grows by more than `MinConf` blocks between the
count of the pending invoices and the scan; and no chain is new, each has a
cursor before the first invoice.  Its invariant `Unskipped` follows a payment
through a poller: it is ahead of the cursor, or in the range a scan has read
and then among what that scan observed, or the row it is about to settle.  The
part that makes it inductive is `LockedApart`: two invoices that hold their
amounts have different ones, so a transfer cannot match another invoice while
its own is open.

**StoreProofs, pairing.**  A token stands for its user as long as its row is
approved.  `RowsFollow` ties the rows to their history: an approved row's user
approved it while the code was open, an unpaired one is revoked for ever, ids are
not used twice.  `TvOk` says of every screen, poll and request which of those
facts it carries over from the statement before; it survives the steps of others
because what is on record is never taken back (`OnRecord`), so that a step needs
to be looked at only for the television it moves (`TvKept`).  `AccessIsLive`
follows.  `QuotaOk` numbers the calls of each moment, which is why no two are
taken for one (`OneMoreCall`), and a prune or a sweep keeps the numbering
(`LiveCalls`): `TriesAreLimited`, for any limit, window and sweep size, and
`TriesAreCounted`, without which the former might hold because calls get lost.

**StoreProofs, featured.**  The three properties that `FeaturedGaps` refutes, for
`SerialSpec`: it is overlapping transactions and nothing else that breaks them.

**AdminProofs, subtitles.**  What the files' safety hangs on are the keys and the ids.
A row, a save past its write and a deletion that has read its row each know an id
and a key, and `Numbered` says that whoever knows one of both knows the other:
two saves never share a key, the row with a save's key or id is the row that save
inserted, and a deletion past its `DELETE` names a row that is gone.  So what a
rollback or a deletion removes is not the file of another row.  `Kept` says which
rows have their file: the answered ones, and that of a save which still refreshes
the flag, since its answer would follow.  It cannot say it of all rows: the row of
a save whose refresh failed loses its file (`RowHasItsFile` above).
`AnsweredIsServed` follows.  `FlagTellsTheRows` needs from the numbering that a
deletion removes at most the row it read, hence of the title whose flag it then
refreshes; a refresh that was missed stays on record until another one is made.
`NoFileIsForgotten` is a case analysis of who knows a key before and after a step
(`Settled`).  Most steps only forget, and the lemmas named `...Shrinks` say so once
for each of the invariant's parts.

**AdminProofs, catalogue.**  `CtInv` says that the ids of titles are apart and
never above the last one handed out, and that every video has its title and its
torrent.  Of an importer it needs only that there is a movie or a torrent where
its step uses one (`ImportersReady`): the id it looked up may be of a title long
deleted, and since an id is not used again the insert is then refused rather than
put on another title.  `VideosStayWhole` is in it; it would fail if `DeleteVideo`
dropped a torrent another video plays from.  `FilesAreNotLost` is a property of
steps: only a save, a harvested file and the deletion of a last video change a
torrent at all, and what the first two store depends on the row as it is then
(`SourceIsSaved`, `FillsIn`), never on what the writer read earlier.
`AloneImportsOnce` says what `ImportedOnce`, which `CatalogueGaps` refutes, is
worth: with one importer and no saves by hand a torrent that is about to be added
is still unknown (`StillMissing`), through failures, deletions and restarts.

## What is only model-checked

Liveness (`IdleIsReaped`, `ApprovedIsServed`, `OwnersConverge`,
`AbandonedIsDropped`, `BeatsAreWritten`, `ScanCatchesUp`, `ApprovedIsPaired`,
and those of `Catalogue`): the prover has no rules for fairness and `ENABLED`.
The counterexamples of the section above need no proof.

## What is not modelled

HTML, SQL text, JSON, configuration, translations of the interface, read-only
pages and listings: they change no state.  The SQL console of the admin runs
what the operator types.  The torrent client, MySQL, Google, TMDB, YTS, the
subtitle providers and the chains appear only by what the code asks of them.
The streamer's SQLite storage only configures a library.  Download rates,
priorities and the size of the readahead change nothing that the actions
depend on.  The television's player is not modelled yet; of the television only
pairing is.  In each module the paragraph above, and the note of its component
in PROJECT.json, say what is abstracted.

## Plan

1. Television: `WatchSession` composed with `WatchTracker` over a network that
   reorders, `Player` (recovery budget), `Updater`.
2. A composition of watch tracker, router and torrent registry: whether a title
   somebody watches survives the drops of all three.
3. Pure functions: range parsing of `server.go`, `formatAmount`, quality
   choice, version comparison, against reference definitions.
4. Proofs: every safety property of a run is proved.  What is left are the refuted
   ones where their hazard cannot occur, as `AloneImportsOnce` has it
   (`DeregisterNeedsSession` without revocations), and abstract specifications of
   the kind of `Viewership` for the enrollment and the owner map.

## Running

`tlc -config <run>.cfg <module>` checks a run, `tlapm <module>.tla` a proof
module.  PROJECT.json says which module goes with which configuration; a
configuration named `XGaps` goes with `MCX` where there is one and with `X` where
there is none, `PairingBlip` with `Pairing`.
