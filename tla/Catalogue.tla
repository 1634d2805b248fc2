----------------------------- MODULE Catalogue ------------------------------
(***************************************************************************)
(* The admin's catalogue: titles, their videos and the torrents these play *)
(* from (store.go), and everything that writes them: the two crawl jobs    *)
(* and the one-click import (crawl.go), the operator's pages (server.go),  *)
(* the harvester that fills in .torrent files (harvest.go) and the         *)
(* translation backfill (translation_backfill.go).                         *)
(*                                                                         *)
(* One action is one SQL statement or transaction, or the answer of an     *)
(* outside service.  TMDB, YTS and the streamers are external.             *)
(***************************************************************************)
EXTENDS Integers, FiniteSets

CONSTANTS
  Titles,     \* movies and shows, by TMDB id
  Hashes,     \* torrents, by infohash
  Offers,     \* Offers[t]: the torrents YTS has for title t
  Jobs,       \* the crawl jobs that run, of "newMovies" and "topRated"
  Clicks,     \* requests for a one-click import
  Fetches,    \* requests for the .torrent file of a source
  Nil,
  MaxId, MaxCopies,  \* bounds on title ids, on videos of one torrent on one title
  MaxEvents   \* bound on failures, deletions, saves and restarts

ASSUME CtConstants ==
  /\ Offers \in [Titles -> SUBSET Hashes]
  /\ Jobs \subseteq {"newMovies", "topRated"} /\ Jobs \cap Clicks = {}
  /\ Nil \notin Titles \cup Hashes
  /\ {MaxId, MaxCopies, MaxEvents} \subseteq Nat

Importers == Jobs \cup Clicks
Ids == 1..MaxId              \* title ids, 0 for no row
Owned == Ids \X Hashes
Origins == {"yts", "upload", "streamed"}   \* where .torrent bytes came from

VARIABLES
  titles,     \* the row id of each title
  lastTitle,  \* AUTO_INCREMENT of titles
  translated, \* title ids none of whose translation rows is missing
  videos,     \* how many videos each torrent is on each title
  sources,    \* torrent_sources: "absent", "magnet" for no file, or a file
  imports,    \* where each crawl job and one-click import is
  harvest,    \* the harvester's tick
  fetches,    \* where each request for a .torrent file is
  backfill,   \* the translation backfill: its cursor and the title it fetches
  streamers,  \* torrents on the streamers: "none", "live", "resolved" (external)
  events

ctVars == <<titles, lastTitle, translated, videos, sources, imports, harvest,
          fetches, backfill, streamers, events>>
titleVars == <<titles, lastTitle, translated>>
torrents == <<videos, sources>>
workers == <<imports, harvest, fetches, backfill>>

NotImporting == [pc |-> "idle", todo |-> {}, title |-> Nil, id |-> 0,
                 left |-> {}, hash |-> Nil]
NotHarvesting == [need |-> {}, hash |-> Nil]
NotFetching == [pc |-> "idle", hash |-> Nil]
NotFilling == [cursor |-> 0, title |-> Nil]

CtInit ==
  /\ titles = [t \in Titles |-> 0] /\ lastTitle = 0 /\ translated = {}
  /\ videos = [v \in Owned |-> 0]
  /\ sources = [h \in Hashes |-> "absent"]
  /\ imports = [p \in Importers |-> NotImporting]
  /\ harvest = NotHarvesting
  /\ fetches = [f \in Fetches |-> NotFetching]
  /\ backfill = NotFilling
  /\ streamers = [h \in Hashes |-> "none"]
  /\ events = 0

-----------------------------------------------------------------------------
(***************************************************************************)
(* The store.                                                              *)
(***************************************************************************)
Strike == events < MaxEvents /\ events' = events + 1

LiveIds == {titles[t] : t \in Titles} \ {0}

\* FetchTitle: the primary language, and the fallback one unless that failed;
\* the pages of a title that lacks the second one stay untranslated.
\* A failed fallback is an event.
FetchTitle(full) == IF full THEN UNCHANGED events ELSE Strike

\* A title that is there keeps its id, and with it everything attached to it.
\* Seasons and episodes that a later refresh adds are not told apart from it.
UpsertTitle(t, full) ==
  /\ IF titles[t] = 0
     THEN /\ lastTitle < MaxId   \* bound
          /\ lastTitle' = lastTitle + 1 /\ titles' = [titles EXCEPT ![t] = lastTitle + 1]
     ELSE UNCHANGED <<titles, lastTitle>>
  /\ translated' = IF full THEN translated \cup {titles'[t]} ELSE translated

TorrentSourceExists(h) == sources[h] # "absent"

\* Faulty: a save without a file forgets the stored one.
upsertTorrentSource_Overwrite(h, file) ==
  sources' = [sources EXCEPT ![h] = file]
\* A file that comes with the torrent replaces what is stored, a bare magnet
\* replaces nothing.
upsertTorrentSource(h, file) ==
  sources' = [sources EXCEPT ![h] =
    IF file # "magnet" \/ sources[h] = "absent" THEN file ELSE sources[h]]

\* n videos of one torrent on title row id, in one transaction; the foreign
\* key refuses a title that is gone.
AddVideos(id, h, n, file) ==
  /\ id \in LiveIds
  /\ upsertTorrentSource(h, file)
  /\ videos' = [videos EXCEPT ![<<id, h>>] = @ + n]

-----------------------------------------------------------------------------
(***************************************************************************)
(* The operator.                                                           *)
(***************************************************************************)
\* handleDeleteTitle: the row and, by foreign key, its videos.  The torrents
\* these played from keep their rows.
DeleteTitle(t) ==
  /\ titles[t] # 0
  /\ titles' = [titles EXCEPT ![t] = 0]
  /\ translated' = translated \ {titles[t]}
  /\ videos' = [v \in Owned |-> IF v[1] = titles[t] THEN 0 ELSE videos[v]]
  /\ Strike
  /\ UNCHANGED <<lastTitle, sources, workers, streamers>>

\* handleDeleteVideo: the torrent goes with its last video.
DeleteVideo(v) ==
  /\ videos[v] > 0
  /\ videos' = [videos EXCEPT ![v] = @ - 1]
  /\ sources' = [sources EXCEPT ![v[2]] =
       IF \E i \in Ids : videos'[<<i, v[2]>>] > 0 THEN @ ELSE "absent"]
  /\ Strike
  /\ UNCHANGED <<titleVars, workers, streamers>>

\* handleImport and handleRefreshTMDB.
ImportTitle(t, full) ==
  /\ UpsertTitle(t, full) /\ FetchTitle(full)
  /\ UNCHANGED <<torrents, workers, streamers>>

\* handleSaveVideo: one video, from a magnet or an uploaded file.
SaveVideo(t, h, file) ==
  /\ titles[t] # 0 /\ videos[<<titles[t], h>>] < MaxCopies   \* bound
  /\ AddVideos(titles[t], h, 1, file)
  /\ Strike
  /\ UNCHANGED <<titleVars, workers, streamers>>

\* handleSaveVideoBatch: a season pack, one torrent for several episodes.
SaveVideoBatch(t, h, n, file) ==
  /\ titles[t] # 0 /\ n >= 1 /\ videos[<<titles[t], h>>] + n <= MaxCopies   \* bound
  /\ AddVideos(titles[t], h, n, file)
  /\ Strike
  /\ UNCHANGED <<titleVars, workers, streamers>>

-----------------------------------------------------------------------------
(***************************************************************************)
(* Crawl jobs and the one-click import.                                    *)
(***************************************************************************)
Importing(p, pc, change) == imports' = [imports EXCEPT ![p] = [change EXCEPT !.pc = pc]]
Done(p) == imports' = [imports EXCEPT ![p] = NotImporting]
ImportAt(p, pc) == imports[p].pc = pc
\* What a job does with the movie it is at ends here, a click ends altogether.
NextMovie(p) ==
  IF p \in Clicks THEN Done(p)
  ELSE imports' = [imports EXCEPT ![p] =
         [NotImporting EXCEPT !.pc = "next", !.todo = imports[p].todo]]

\* StartNewMoviesCrawl and StartTopRatedCrawl, by a tick of runSchedule or by
\* the operator: one run of a job at a time.
StartCrawl(j) ==
  /\ ImportAt(j, "idle")
  /\ Importing(j, "next", [imports[j] EXCEPT !.todo = Titles])
  /\ UNCHANGED <<titleVars, torrents, harvest, fetches, backfill, streamers, events>>

\* The next movie of the list.  A top-rated one that is not in the catalogue is
\* imported if YTS lists it, with or without torrents, the others if it has a
\* torrent that is new.
TakeMovie(j, t) ==
  /\ ImportAt(j, "next") /\ t \in imports[j].todo
  /\ LET rest == [imports[j] EXCEPT !.todo = @ \ {t}, !.title = t]
         new == j = "topRated" /\ titles[t] = 0
     IN \/ Offers[t] = {} /\ Importing(j, "next", [rest EXCEPT !.title = Nil])
        \/ new /\ Importing(j, "fetch", rest)
        \/ Offers[t] # {} /\ ~new /\ Importing(j, "known", rest)
  /\ UNCHANGED <<titleVars, torrents, harvest, fetches, backfill, streamers, events>>

\* Faulty: a movie that has one of its torrents is taken to have them all.
hasNewTorrent_None(t) == \A h \in Offers[t] : ~TorrentSourceExists(h)
hasNewTorrent(t) == \E h \in Offers[t] : ~TorrentSourceExists(h)

SkipKnown(j) ==
  /\ ImportAt(j, "known")
  /\ IF hasNewTorrent(imports[j].title)
     THEN Importing(j, "fetch", imports[j]) ELSE NextMovie(j)
  /\ UNCHANGED <<titleVars, torrents, harvest, fetches, backfill, streamers, events>>

\* importMovie up to its torrents.
ImportMovie(j, full) ==
  /\ ImportAt(j, "fetch")
  /\ LET t == imports[j].title
     IN /\ UpsertTitle(t, full)
        /\ Importing(j, "torrents", [imports[j] EXCEPT !.id = titles'[t], !.left = Offers[t]])
  /\ FetchTitle(full)
  /\ UNCHANGED <<torrents, harvest, fetches, backfill, streamers>>

\* handleFetchYTSTorrents and ImportTorrentsForTitle: the title is looked up
\* once, before YTS is asked.
ClickImport(c, t) ==
  /\ ImportAt(c, "idle") /\ titles[t] # 0 /\ Offers[t] # {}
  /\ Importing(c, "torrents",
       [imports[c] EXCEPT !.title = t, !.id = titles[t], !.left = Offers[t]])
  /\ Strike   \* bound: a click
  /\ UNCHANGED <<titleVars, torrents, harvest, fetches, backfill, streamers>>

\* addMovieTorrents, one turn of its loop in two steps: look, then fetch the
\* .torrent file and store it.
CheckTorrent(p, h) ==
  /\ ImportAt(p, "torrents") /\ h \in imports[p].left
  /\ LET rest == [imports[p] EXCEPT !.left = @ \ {h}]
     IN IF TorrentSourceExists(h) THEN Importing(p, "torrents", rest)
        ELSE Importing(p, "add", [rest EXCEPT !.hash = h])
  /\ UNCHANGED <<titleVars, torrents, harvest, fetches, backfill, streamers, events>>

AddTorrent(p) ==
  /\ ImportAt(p, "add")
  /\ IF imports[p].id \in LiveIds
     THEN AddVideos(imports[p].id, imports[p].hash, 1, "yts")
     ELSE UNCHANGED torrents   \* the row is refused, the loop goes on
  /\ Importing(p, "torrents", [imports[p] EXCEPT !.hash = Nil])
  /\ UNCHANGED <<titleVars, harvest, fetches, backfill, streamers, events>>

\* A file that cannot be fetched or parsed: the loop goes on.
SkipTorrent(p) ==
  /\ ImportAt(p, "add")
  /\ Importing(p, "torrents", [imports[p] EXCEPT !.hash = Nil])
  /\ Strike
  /\ UNCHANGED <<titleVars, torrents, harvest, fetches, backfill, streamers>>

MovieDone(p) ==
  /\ ImportAt(p, "torrents") /\ imports[p].left = {}
  /\ NextMovie(p)
  /\ UNCHANGED <<titleVars, torrents, harvest, fetches, backfill, streamers, events>>

\* TMDB, YTS or the store fails for one movie.
MovieFails(p) ==
  /\ imports[p].pc \in {"known", "fetch", "torrents"}
  /\ NextMovie(p)
  /\ Strike
  /\ UNCHANGED <<titleVars, torrents, harvest, fetches, backfill, streamers>>

\* finish: the list is done.
FinishCrawl(j) ==
  /\ ImportAt(j, "next") /\ imports[j].todo = {}
  /\ Done(j)
  /\ UNCHANGED <<titleVars, torrents, harvest, fetches, backfill, streamers, events>>

\* finish: a page of the list fails, or the run's time is up.
AbortCrawl(j) ==
  /\ ~ImportAt(j, "idle")
  /\ Done(j)
  /\ Strike
  /\ UNCHANGED <<titleVars, torrents, harvest, fetches, backfill, streamers>>

CrawlStep(j) ==
  \/ \E t \in Titles : TakeMovie(j, t)
  \/ SkipKnown(j)
  \/ \E full \in BOOLEAN : ImportMovie(j, full)
  \/ FinishCrawl(j)
ImportStep(p) ==
  \/ \E h \in Hashes : CheckTorrent(p, h)
  \/ AddTorrent(p)
  \/ SkipTorrent(p)
  \/ MovieDone(p)

-----------------------------------------------------------------------------
(***************************************************************************)
(* .torrent files of magnets: the harvester and the operator's button.     *)
(***************************************************************************)
MagnetOnly(h) == sources[h] = "magnet"

BackfillTorrentFile(h) ==
  sources' = [sources EXCEPT ![h] = IF @ = "magnet" THEN "streamed" ELSE @]

\* tick: the torrents the streamers hold, of them those without a file.
HarvestTick ==
  /\ harvest = NotHarvesting
  /\ harvest' = [harvest EXCEPT !.need =
       {h \in Hashes : streamers[h] # "none" /\ MagnetOnly(h)}]
  /\ UNCHANGED <<titleVars, torrents, imports, fetches, backfill, streamers, events>>

\* Faulty: the round ends at a torrent that is not resolved.
HarvestFile_Stop(h) ==
  /\ harvest.hash = Nil /\ h \in harvest.need
  /\ harvest' = IF streamers[h] = "resolved"
                THEN [need |-> harvest.need \ {h}, hash |-> h]
                ELSE NotHarvesting
  /\ UNCHANGED <<titleVars, torrents, imports, fetches, backfill, streamers, events>>
\* getMetainfo of one of them; the next one if it is not resolved.
HarvestFile(h) ==
  /\ harvest.hash = Nil /\ h \in harvest.need
  /\ harvest' = [need |-> harvest.need \ {h},
                 hash |-> IF streamers[h] = "resolved" THEN h ELSE Nil]
  /\ UNCHANGED <<titleVars, torrents, imports, fetches, backfill, streamers, events>>

HarvestStore ==
  /\ harvest.hash # Nil
  /\ BackfillTorrentFile(harvest.hash)
  /\ harvest' = [harvest EXCEPT !.hash = Nil]
  /\ UNCHANGED <<titleVars, videos, imports, fetches, backfill, streamers, events>>

\* The manager or the store fails for one torrent: it waits for the next tick.
HarvestFails(h) ==
  /\ \/ harvest.hash = h /\ harvest' = [harvest EXCEPT !.hash = Nil]
     \/ /\ harvest.hash = Nil /\ h \in harvest.need
        /\ harvest' = [harvest EXCEPT !.need = @ \ {h}]
  /\ Strike
  /\ UNCHANGED <<titleVars, torrents, imports, fetches, backfill, streamers>>

HarvestStep == HarvestTick \/ (\E h \in Hashes : HarvestFile(h)) \/ HarvestStore

\* handleFetchTorrentFile: the magnet is added to a streamer ...
FetchFile(f, h) ==
  /\ fetches[f].pc = "idle"
  /\ \E i \in Ids : videos[<<i, h>>] > 0
  /\ MagnetOnly(h)
  /\ streamers' = [streamers EXCEPT ![h] = IF @ = "none" THEN "live" ELSE @]
  /\ fetches' = [fetches EXCEPT ![f] = [pc |-> "poll", hash |-> h]]
  /\ Strike   \* bound: a click
  /\ UNCHANGED <<titleVars, torrents, imports, harvest, backfill>>

\* ... and polled until it is resolved (pollMetainfo), or no longer.
PollMetainfo(f) ==
  /\ fetches[f].pc = "poll"
  /\ \/ streamers[fetches[f].hash] = "resolved"
        /\ fetches' = [fetches EXCEPT ![f].pc = "store"]
     \/ fetches' = [fetches EXCEPT ![f] = NotFetching]
  /\ UNCHANGED <<titleVars, torrents, imports, harvest, backfill, streamers, events>>

FetchStore(f) ==
  /\ fetches[f].pc = "store"
  /\ BackfillTorrentFile(fetches[f].hash)
  /\ fetches' = [fetches EXCEPT ![f] = NotFetching]
  /\ UNCHANGED <<titleVars, videos, imports, harvest, backfill, streamers, events>>

\* The streamers (external): somebody plays a torrent, its metadata resolves
\* (at once if the add carries a file), and it is dropped again.
Play(h) ==
  /\ streamers[h] = "none"
  /\ \E i \in Ids : videos[<<i, h>>] > 0
  /\ streamers' = [streamers EXCEPT ![h] = IF MagnetOnly(h) THEN "live" ELSE "resolved"]
  /\ UNCHANGED <<titleVars, torrents, workers, events>>
Resolve(h) ==
  /\ streamers[h] = "live"
  /\ streamers' = [streamers EXCEPT ![h] = "resolved"]
  /\ UNCHANGED <<titleVars, torrents, workers, events>>
DropTorrent(h) ==
  /\ streamers[h] # "none"
  /\ streamers' = [streamers EXCEPT ![h] = "none"]
  /\ Strike
  /\ UNCHANGED <<titleVars, torrents, workers>>

-----------------------------------------------------------------------------
(***************************************************************************)
(* The translation backfill: one title a tick, in the order of their ids.  *)
(***************************************************************************)
Missing(t) == titles[t] > backfill.cursor /\ titles[t] \notin translated
NextMissingTranslation(t) ==
  Missing(t) /\ \A u \in Titles : Missing(u) => titles[t] <= titles[u]

SelectMissing(t) ==
  /\ backfill.title = Nil /\ NextMissingTranslation(t)
  /\ backfill' = [cursor |-> titles[t], title |-> t]
  /\ UNCHANGED <<titleVars, torrents, imports, harvest, fetches, streamers, events>>

\* Faulty: the next round goes on where the last one ended.
RestartRound_Never ==
  /\ backfill.title = Nil /\ \A t \in Titles : ~Missing(t)
  /\ UNCHANGED ctVars
RestartRound ==
  /\ backfill.title = Nil /\ backfill.cursor # 0 /\ \A t \in Titles : ~Missing(t)
  /\ backfill' = [backfill EXCEPT !.cursor = 0]
  /\ UNCHANGED <<titleVars, torrents, imports, harvest, fetches, streamers, events>>

FillTranslation(full) ==
  /\ backfill.title # Nil
  /\ UpsertTitle(backfill.title, full) /\ FetchTitle(full)
  /\ backfill' = [backfill EXCEPT !.title = Nil]
  /\ UNCHANGED <<torrents, imports, harvest, fetches, streamers>>

\* TMDB or the store fails: the title waits for the next round.
FillFails ==
  /\ backfill.title # Nil
  /\ backfill' = [backfill EXCEPT !.title = Nil]
  /\ Strike
  /\ UNCHANGED <<titleVars, torrents, imports, harvest, fetches, streamers>>

BackfillStep ==
  \/ \E t \in Titles : SelectMissing(t)
  \/ RestartRound
  \/ \E full \in BOOLEAN : FillTranslation(full)

\* The admin process stops and starts again: nothing that runs survives.
Restart ==
  /\ imports' = [p \in Importers |-> NotImporting]
  /\ harvest' = NotHarvesting
  /\ fetches' = [f \in Fetches |-> NotFetching]
  /\ backfill' = NotFilling
  /\ Strike
  /\ UNCHANGED <<titleVars, torrents, streamers>>

Operator ==
  \/ \E t \in Titles : DeleteTitle(t) \/ \E full \in BOOLEAN : ImportTitle(t, full)
  \/ \E v \in Owned : DeleteVideo(v)
  \/ \E t \in Titles, h \in Hashes, file \in {"magnet", "upload"} :
       \/ SaveVideo(t, h, file)
       \/ \E n \in 1..MaxCopies : SaveVideoBatch(t, h, n, file)
  \/ \E c \in Clicks, t \in Titles : ClickImport(c, t)
  \/ \E f \in Fetches, h \in Hashes : FetchFile(f, h)

CtNext ==
  \/ Operator
  \/ \E j \in Jobs : StartCrawl(j) \/ CrawlStep(j) \/ AbortCrawl(j)
  \/ \E p \in Importers : ImportStep(p) \/ MovieFails(p)
  \/ HarvestStep
  \/ \E f \in Fetches : PollMetainfo(f) \/ FetchStore(f)
  \/ \E h \in Hashes : HarvestFails(h) \/ Play(h) \/ Resolve(h) \/ DropTorrent(h)
  \/ BackfillStep \/ FillFails
  \/ Restart

CtSpec == CtInit /\ [][CtNext]_ctVars

\* The tickers of runSchedule, of the harvester and of the backfill run as
\* long as the process does, and what they start goes on by itself.
CtFairSpec ==
  /\ CtSpec
  /\ \A j \in Jobs : WF_ctVars(StartCrawl(j)) /\ WF_ctVars(CrawlStep(j))
  /\ \A p \in Importers : WF_ctVars(ImportStep(p))
  /\ WF_ctVars(HarvestStep)
  /\ WF_ctVars(BackfillStep)

-----------------------------------------------------------------------------
CtTypeOK ==
  /\ titles \in [Titles -> 0..MaxId] /\ lastTitle \in 0..MaxId
  /\ translated \subseteq Ids
  /\ videos \in [Owned -> Nat]
  /\ sources \in [Hashes -> {"absent", "magnet"} \cup Origins]
  /\ imports \in [Importers ->
       [pc : {"idle", "next", "known", "fetch", "torrents", "add"},
        todo : SUBSET Titles, title : Titles \cup {Nil}, id : 0..MaxId,
        left : SUBSET Hashes, hash : Hashes \cup {Nil}]]
  /\ harvest \in [need : SUBSET Hashes, hash : Hashes \cup {Nil}]
  /\ fetches \in [Fetches -> [pc : {"idle", "poll", "store"}, hash : Hashes \cup {Nil}]]
  /\ backfill \in [cursor : 0..MaxId, title : Titles \cup {Nil}]
  /\ streamers \in [Hashes -> {"none", "live", "resolved"}]
  /\ events \in 0..MaxEvents

\* The bytes of a .torrent file are not lost: a later save of the bare magnet
\* leaves them, and so does what a streamer answers, however the harvester, the
\* button, the crawl and the operator interleave, and they go only with the last
\* video of their torrent (upsertTorrentSource, BackfillTorrentFile, DeleteVideo:
\* "a concurrent harvest and manual fetch can't clobber each other").  A save that
\* brings a file may put it in their place: see BytesAreBackfilled.
BytesAreNotLost ==
  [][\A h \in Hashes : sources[h] \in Origins =>
       /\ sources'[h] # "magnet"
       /\ sources'[h] = "streamed" => sources[h] = "streamed"
       /\ sources'[h] = "absent" => \A i \in Ids : videos'[<<i, h>>] = 0]_ctVars

\* A video never outlives its title or the torrent it plays from: DeleteVideo drops a
\* torrent with its last video only, so the cascade from torrent_sources to videos
\* has nothing to take, and what an import adds late goes to no deleted title.
VideosAreWhole ==
  \A v \in Owned : videos[v] > 0 => v[1] \in LiveIds /\ TorrentSourceExists(v[2])

\* Every torrent YTS has for a movie is stored in the end, and stored again when
\* it went with its last video: a movie of which some torrents failed, or were
\* removed, is not taken to be complete (hasNewTorrent, addMovieTorrents).  That
\* a video plays from it is more than this: see ListedIsPlayable.
EveryOfferIsImported ==
  \A t \in Titles : \A h \in Offers[t] : []<>(TorrentSourceExists(h))

\* A title that stays gets its second language, also when the first attempts
\* at it fail (runTranslationBackfill: the cursor starts over after a round).
EventuallyTranslated ==
  \A t \in Titles : []<>(titles[t] \in {0} \cup translated)

\* A magnet does not stay without its file while a streamer has it resolved,
\* even if another torrent of the harvester's rounds never resolves (tick).
MagnetsAreFilled ==
  \A h \in Hashes : []<>(~(MagnetOnly(h) /\ streamers[h] = "resolved"))

\* The crawl jobs and the one-click import add a torrent once ("skip a torrent
\* they've already imported", store.go:711); no operator saves it as well.
ImportedOnce == \A v \in Owned : videos[v] <= 1

\* A movie with torrents on YTS that is in the catalogue has a video in the end
\* ("a title with no playable source isn't created", crawl.go:249).
ListedIsPlayable ==
  \A t \in Titles : Offers[t] # {} =>
    []<>(titles[t] = 0 \/ \E h \in Hashes : videos[<<titles[t], h>>] > 0)

\* upsertTorrentSource is documented as "backfilling the .torrent bytes if this
\* call supplies them and the stored ones are NULL" (store.go:749-751): bytes that
\* are stored stay as they are until the torrent goes.
BytesAreBackfilled ==
  [][\A h \in Hashes : sources[h] \in Origins => sources'[h] \in {sources[h], "absent"}]_ctVars

\* A crawl job creates no movie without a torrent ("importing only movies that
\* also have a YTS torrent", crawl.go:247-248).
CrawlNeedsTorrent ==
  [][\A j \in Jobs, t \in Titles :
       titles[t] = 0 /\ titles'[t] # 0 /\ imports'[j] # imports[j] => Offers[t] # {}]_ctVars

\* The backfill creates no title ("gradually refreshes pre-existing catalog
\* rows", translation_backfill.go:9).
BackfillOnlyRefreshes ==
  [][\A t \in Titles : titles[t] = 0 /\ titles'[t] # 0 => backfill' = backfill]_ctVars
=============================================================================
