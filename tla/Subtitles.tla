----------------------------- MODULE Subtitles ------------------------------
(***************************************************************************)
(* Saved subtitles: a row in the database and a file in the blob store the *)
(* viewer and the admin share.  They are written by visitors               *)
(* (viewer/subtitles_http.go), by the operator (admin/server.go) and by    *)
(* the crawl jobs (admin/crawl.go), and removed by the operator.           *)
(*                                                                         *)
(* A save is a chain of calls that share no transaction: download, write   *)
(* of the file, insert of the row, refresh of the title's vietsub flag.    *)
(* One action is one call, but for a download and the write that follows.  *)
(* Providers, the disk and the network are external; the limiters in front *)
(* of a download are those of RateLimiter, and here may refuse at any      *)
(* time.                                                                   *)
(***************************************************************************)
EXTENDS Integers, FiniteSets

LOCAL INSTANCE TLC

CONSTANTS
  Visitors,   \* saves by visitors of the viewer
  Operators,  \* saves and uploads by operators of the admin
  Crawls,     \* crawl jobs that fetch subtitles
  Deleters,   \* deletions by operators
  Movies, Episodes,   \* what a subtitle belongs to
  Files,      \* the providers' files
  Manual,     \* stands for an uploaded file
  None,
  MaxCount,   \* subtitleOptions.MaxCount
  MaxKeys, MaxFaults  \* bounds on saves that reach the store, on faults

Owners == Movies \cup Episodes
Savers == Visitors \cup Operators \cup Crawls
Keys == Nat
\* A row: whose subtitle it is, the provider's file, whether its language is
\* "vi", and the key of its file.  A draft is one without id or key (0).
Subs == [id : Keys, owner : Owners, file : Files \cup {Manual}, vi : BOOLEAN, key : Keys]
Draft(o, f, vi) == [id |-> 0, owner |-> o, file |-> f, vi |-> vi, key |-> 0]

ASSUME SbConstants ==
  /\ Visitors \cap (Operators \cup Crawls \cup Deleters) = {}
  /\ Deleters \cap (Operators \cup Crawls) = {} /\ Operators \cap Crawls = {}
  /\ Movies \cap Episodes = {} /\ Manual \notin Files
  /\ None \notin Subs
  /\ MaxCount \in Nat \ {0} /\ {MaxKeys, MaxFaults} \subseteq Nat

VARIABLES
  owners,   \* movies and episodes in the catalogue
  rows,     \* the table subtitles
  vietsub,  \* titles.has_vietsub
  blobs,    \* keys of the files in the blob store
  saves,    \* where each save is
  deletes,  \* where each deletion is
  lastKey, lastId,  \* the clock that makes keys unique; AUTO_INCREMENT
  faults,
  acked,    \* history: ids of the rows whose save was answered with success
  missed,   \* history: movies whose last due refresh was not made
  lost      \* history: keys whose file was given up by a fault or a cascade

vars == <<owners, rows, vietsub, blobs, saves, deletes, lastKey, lastId,
          faults, acked, missed, lost>>
table == <<owners, rows, vietsub, lastId, acked, missed>>
disk == <<blobs, lastKey, lost>>


\* A save: the row it is making, and, of a crawl, the results it did not look
\* at yet and how many it may still add.
NoSave == [pc |-> "idle", sub |-> None, todo |-> {}, room |-> 0]
NoDelete == [pc |-> "idle", sub |-> None]

Init ==
  /\ owners = Owners /\ rows = {} /\ vietsub = [m \in Movies |-> FALSE]
  /\ blobs = {} /\ lastKey = 0 /\ lastId = 0
  /\ saves = [p \in Savers |-> NoSave] /\ deletes = [d \in Deleters |-> NoDelete]
  /\ faults = 0 /\ acked = {} /\ missed = {} /\ lost = {}

Fault == faults < MaxFaults /\ faults' = faults + 1
At(p, pc) == saves[p].pc = pc
Goes(p, pc) == saves' = [saves EXCEPT ![p].pc = pc]
Drafts(p, pc, sub) == saves' = [saves EXCEPT ![p].pc = pc, ![p].sub = sub]
\* A request is over; a crawl goes on to its next result.
Ends(p, added) ==
  saves' = [saves EXCEPT ![p] =
    IF p \notin Crawls THEN NoSave
    ELSE [pc |-> "pick", sub |-> Draft(@.sub.owner, Manual, TRUE), todo |-> @.todo,
          room |-> @.room - added]]

-----------------------------------------------------------------------------
(***************************************************************************)
(* The start of a save.                                                    *)
(***************************************************************************)
FindSubtitleByProviderFile(o, f) == {r \in rows : r.owner = o /\ r.file = f}

\* handleSaveSubtitle of the viewer: the owner is there, and has no row of the
\* same file yet.
VisitorSave(p, o, f, vi) ==
  /\ At(p, "idle") /\ o \in owners
  /\ FindSubtitleByProviderFile(o, f) = {}
  /\ Drafts(p, "download", Draft(o, f, vi))
  /\ UNCHANGED <<table, disk, deletes, faults>>

\* handleSaveSubtitle of the admin checks neither.
OperatorSave(p, o, f, vi) ==
  /\ At(p, "idle")
  /\ Drafts(p, "download", Draft(o, f, vi))
  /\ UNCHANGED <<table, disk, deletes, faults>>

\* handleUploadSubtitle: the file comes with the request.
UploadSubtitle(p, o, vi) ==
  /\ At(p, "idle")
  /\ Drafts(p, "download", Draft(o, Manual, vi))
  /\ UNCHANGED <<table, disk, deletes, faults>>

\* downloadSubtitlesForMovie: what the movie has, and what a search finds.
TopUp(p, o, found) ==
  /\ At(p, "idle") /\ o \in owners
  /\ LET have == {r.file : r \in {s \in rows : s.owner = o}} \ {Manual}
     IN /\ Cardinality(have) < MaxCount
        /\ saves' = [saves EXCEPT ![p] =
             [pc |-> "pick", sub |-> Draft(o, Manual, TRUE), todo |-> found \ have,
              room |-> MaxCount - Cardinality(have)]]
  /\ UNCHANGED <<table, disk, deletes, faults>>

PickResult(p, f) ==
  /\ At(p, "pick") /\ saves[p].room > 0 /\ f \in saves[p].todo
  /\ saves' = [saves EXCEPT ![p].pc = "download", ![p].sub.file = f, ![p].todo = @ \ {f}]
  /\ UNCHANGED <<table, disk, deletes, faults>>

TopUpDone(p) ==
  /\ At(p, "pick")
  /\ saves[p].room = 0 \/ saves[p].todo = {}
  /\ saves' = [saves EXCEPT ![p] = NoSave]
  /\ UNCHANGED <<table, disk, deletes, faults>>

-----------------------------------------------------------------------------
(***************************************************************************)
(* The rest of a save, the same for all.                                   *)
(***************************************************************************)
\* The provider fails, or a limiter refuses the visitor.
DownloadFails(p) ==
  /\ At(p, "download") /\ saves[p].sub.file # Manual
  /\ Ends(p, 0)
  /\ Fault
  /\ UNCHANGED <<table, disk, deletes>>

\* Faulty: saves of one file for one owner share a key.
subtitleStorageKey_Plain(sub) ==
  LET same == FindSubtitleByProviderFile(sub.owner, sub.file)
  IN IF same = {} THEN lastKey + 1 ELSE (CHOOSE r \in same : TRUE).key
\* The nanosecond suffix: no two saves have one key.
subtitleStorageKey(sub) == lastKey + 1

\* The download and the write of what it gave: between them nothing is read or
\* written that another call could see.
Put(p) ==
  /\ At(p, "download") /\ lastKey < MaxKeys   \* bound
  /\ LET key == subtitleStorageKey(saves[p].sub)
     IN /\ blobs' = blobs \cup {key}
        /\ Drafts(p, "insert", [saves[p].sub EXCEPT !.key = key])
  /\ lastKey' = lastKey + 1
  /\ UNCHANGED <<table, lost, deletes, faults>>

\* A write that fails may leave a part of the file, and nobody removes it.
PutFails(p) ==
  /\ At(p, "download") /\ lastKey < MaxKeys   \* bound
  /\ LET key == subtitleStorageKey(saves[p].sub)
     IN /\ blobs' \in {blobs, blobs \cup {key}}
        /\ lost' = lost \cup {key}
  /\ lastKey' = lastKey + 1
  /\ Ends(p, 0)
  /\ Fault
  /\ UNCHANGED <<table, deletes>>

\* AddSubtitle: the row.  The foreign key refuses an owner that is gone; the
\* flag is refreshed for a movie only.
InsertSubtitle(p) ==
  /\ At(p, "insert") /\ saves[p].sub.owner \in owners
  /\ LET sub == [saves[p].sub EXCEPT !.id = lastId + 1]
         movie == sub.owner \in Movies
     IN /\ rows' = rows \cup {sub} /\ lastId' = lastId + 1
        /\ IF movie THEN Drafts(p, "refresh", sub) ELSE Ends(p, 1)
        /\ acked' = IF movie THEN acked ELSE acked \cup {sub.id}
  /\ UNCHANGED <<owners, vietsub, missed, disk, deletes, faults>>

InsertFails(p) ==
  /\ At(p, "insert")
  /\ \/ saves[p].sub.owner \notin owners /\ UNCHANGED faults
     \/ Fault
  /\ Goes(p, "rollback")
  /\ UNCHANGED <<table, disk, deletes>>

HasVietsub(m) == \E r \in rows : r.owner = m /\ r.vi
\* Faulty: the flag is set to what the caller did to the table.
refreshTitleVietsub_Blind(m, vi) ==
  vietsub' = IF m \in owners THEN [vietsub EXCEPT ![m] = vi] ELSE vietsub
\* The flag is computed from the rows, whatever the caller did to them.
refreshTitleVietsub(m, vi) ==
  vietsub' = IF m \in owners THEN [vietsub EXCEPT ![m] = HasVietsub(m)] ELSE vietsub

RefreshAfterInsert(p) ==
  /\ At(p, "refresh")
  /\ refreshTitleVietsub(saves[p].sub.owner, saves[p].sub.vi)
  /\ acked' = acked \cup {saves[p].sub.id}
  /\ missed' = missed \ {saves[p].sub.owner}
  /\ Ends(p, 1)
  /\ UNCHANGED <<owners, rows, lastId, disk, deletes, faults>>

\* AddSubtitle fails although its row is there.
RefreshFails(p) ==
  /\ At(p, "refresh")
  /\ Goes(p, "rollback")
  /\ missed' = missed \cup {saves[p].sub.owner}
  /\ Fault
  /\ UNCHANGED <<owners, rows, vietsub, lastId, acked, disk, deletes>>

\* Faulty: the file of a save that failed stays.
RollbackFile_Keeps(key) == UNCHANGED <<blobs, lost>>
RollbackFile(key) == blobs' = blobs \ {key} /\ UNCHANGED lost

Rollback(p) ==
  /\ At(p, "rollback")
  /\ RollbackFile(saves[p].sub.key)
  /\ Ends(p, 0)
  /\ UNCHANGED <<table, lastKey, deletes, faults>>

RollbackFails(p) ==
  /\ At(p, "rollback")
  /\ lost' = lost \cup {saves[p].sub.key}
  /\ Ends(p, 0)
  /\ Fault
  /\ UNCHANGED <<table, blobs, lastKey, deletes>>

-----------------------------------------------------------------------------
(***************************************************************************)
(* Deletions.                                                              *)
(***************************************************************************)
Deletes(d, pc, sub) == deletes' = [deletes EXCEPT ![d] = [pc |-> pc, sub |-> sub]]
Over(d) == deletes' = [deletes EXCEPT ![d] = NoDelete]

\* Store.DeleteSubtitle: the row is read, ...
GetSubtitle(d, r) ==
  /\ deletes[d].pc = "idle" /\ r \in rows
  /\ Deletes(d, "row", r)
  /\ UNCHANGED <<table, disk, saves, faults>>

\* ... deleted, if it is still there, ...
DeleteRow(d) ==
  /\ deletes[d].pc = "row"
  /\ rows' = {r \in rows : r.id # deletes[d].sub.id}
  /\ Deletes(d, IF deletes[d].sub.owner \in Movies THEN "refresh" ELSE "file", deletes[d].sub)
  /\ UNCHANGED <<owners, vietsub, lastId, acked, missed, disk, saves, faults>>

\* ... the flag refreshed, and then (handleDeleteSubtitle) the file deleted.
RefreshAfterDelete(d) ==
  /\ deletes[d].pc = "refresh"
  /\ refreshTitleVietsub(deletes[d].sub.owner, FALSE)
  /\ missed' = missed \ {deletes[d].sub.owner}
  /\ Deletes(d, "file", deletes[d].sub)
  /\ UNCHANGED <<owners, rows, lastId, acked, disk, saves, faults>>

DeleteFile(d) ==
  /\ deletes[d].pc = "file"
  /\ blobs' = blobs \ {deletes[d].sub.key}
  /\ Over(d)
  /\ UNCHANGED <<table, lastKey, lost, saves, faults>>

\* A call of a deletion fails: those after it are not made.
DeleteFails(d) ==
  /\ deletes[d].pc # "idle"
  /\ lost' = IF deletes[d].pc = "row" THEN lost ELSE lost \cup {deletes[d].sub.key}
  /\ missed' = IF deletes[d].pc = "refresh" THEN missed \cup {deletes[d].sub.owner} ELSE missed
  /\ Over(d)
  /\ Fault
  /\ UNCHANGED <<owners, rows, vietsub, lastId, acked, blobs, lastKey, saves>>

\* Store.DeleteTitle, with the episodes of a show: the rows go by foreign key,
\* their files stay.
DeleteOwner(o) ==
  /\ o \in owners
  /\ owners' = owners \ {o}
  /\ rows' = {r \in rows : r.owner # o}
  /\ lost' = lost \cup {r.key : r \in rows \ rows'}
  /\ UNCHANGED <<vietsub, lastId, acked, missed, blobs, lastKey, saves, deletes, faults>>

\* handleSubtitleFile: the row, and then the file it refers to.
Served(r) == r.key \in blobs

-----------------------------------------------------------------------------
\* A process dies between two calls of the saves S and deletions D it runs.
Crash(S, D) ==
  /\ saves' = [p \in Savers |-> IF p \in S THEN NoSave ELSE saves[p]]
  /\ deletes' = [d \in Deleters |-> IF d \in D THEN NoDelete ELSE deletes[d]]
  /\ missed' = missed \cup {saves[p].sub.owner : p \in {q \in S : At(q, "refresh")}}
                      \cup {deletes[d].sub.owner : d \in {e \in D : deletes[e].pc = "refresh"}}
  /\ lost' = lost \cup {saves[p].sub.key : p \in {q \in S : saves[q].pc \in {"insert", "rollback"}}}
                  \cup {deletes[d].sub.key : d \in {e \in D : deletes[e].pc \in {"refresh", "file"}}}
  /\ Fault
  /\ UNCHANGED <<owners, rows, vietsub, lastId, acked, blobs, lastKey>>

Start ==
  \/ \E p \in Visitors, o \in Owners, f \in Files, vi \in BOOLEAN : VisitorSave(p, o, f, vi)
  \/ \E p \in Operators, o \in Owners, vi \in BOOLEAN :
       UploadSubtitle(p, o, vi) \/ \E f \in Files : OperatorSave(p, o, f, vi)
  \/ \E p \in Crawls, o \in Movies, found \in SUBSET Files : TopUp(p, o, found)

Proceed(p) ==
  \/ \E f \in Files : PickResult(p, f)
  \/ TopUpDone(p)
  \/ DownloadFails(p)
  \/ Put(p) \/ PutFails(p)
  \/ InsertSubtitle(p) \/ InsertFails(p)
  \/ RefreshAfterInsert(p) \/ RefreshFails(p)
  \/ Rollback(p) \/ RollbackFails(p)

Delete ==
  \/ \E d \in Deleters :
       \/ \E r \in rows : GetSubtitle(d, r)
       \/ DeleteRow(d) \/ RefreshAfterDelete(d) \/ DeleteFile(d) \/ DeleteFails(d)
  \/ \E o \in Owners : DeleteOwner(o)

Next ==
  \/ Start
  \/ \E p \in Savers : Proceed(p)
  \/ Delete
  \/ Crash(Visitors, {})                      \* the viewer
  \/ Crash(Operators \cup Crawls, Deleters)   \* the admin

Spec == Init /\ [][Next]_vars

\* No file is told apart from the others.
FileSymmetry == Permutations(Files)

-----------------------------------------------------------------------------
TypeOK ==
  /\ owners \subseteq Owners /\ rows \subseteq Subs /\ vietsub \in [Movies -> BOOLEAN]
  /\ blobs \subseteq Keys /\ lost \subseteq Keys
  /\ saves \in [Savers ->
       [pc : {"idle", "pick", "download", "insert", "refresh", "rollback"},
        sub : Subs \cup {None}, todo : SUBSET Files, room : 0..MaxCount]]
  /\ deletes \in [Deleters ->
       [pc : {"idle", "row", "refresh", "file"}, sub : Subs \cup {None}]]
  /\ lastKey \in Keys /\ lastId \in Keys /\ faults \in 0..MaxFaults
  /\ acked \subseteq Keys /\ missed \subseteq Movies

\* A subtitle whose save was answered with success is served until its row is
\* deleted: no rollback of another save, no deletion of another row, no fault
\* takes its file (subtitleStorageKey: "so deleting one never removes another's
\* file"; handleSubtitleFile reads the row and then the file).
SavedIsServed == \A r \in rows : r.id \in acked => Served(r)

\* The vietsub flag tells the truth, but between a change of the rows and the
\* refresh that follows it, and after a refresh that failed until the next one
\* (refreshTitleVietsub: "recompute-from-truth, so it is idempotent and handles
\* deleting one of several Vietnamese subtitles").
Refreshing(m) ==
  \/ \E p \in Savers : At(p, "refresh") /\ saves[p].sub.owner = m
  \/ \E d \in Deleters : deletes[d].pc = "refresh" /\ deletes[d].sub.owner = m
VietsubTells ==
  \A m \in Movies \cap owners :
    vietsub[m] = HasVietsub(m) \/ m \in missed \/ Refreshing(m)

\* A file nobody refers to was left by a fault or by the deletion of its title:
\* a save that is refused on its way removes what it wrote ("Roll the blob back,
\* or a failed save leaves a file on a shared volume that nothing references").
FilesAreAccountedFor ==
  \A k \in blobs \ lost :
    \/ \E r \in rows : r.key = k
    \/ \E p \in Savers : saves[p].pc \in {"insert", "rollback"} /\ saves[p].sub.key = k
    \/ \E d \in Deleters : deletes[d].pc \in {"refresh", "file"} /\ deletes[d].sub.key = k

\* What a row refers to exists, whatever call failed or process died ("Don't
\* orphan the blob we just wrote if the row insert fails", admin/server.go:1706).
RowHasItsFile == \A r \in rows : Served(r)

\* Deleting a title leaves no file that nothing refers to ("a file on a shared
\* volume that nothing references and nobody will ever clean up",
\* subtitles_http.go:266-267, is what the code wants to avoid).
DeletedLeavesNoFile ==
  faults = 0 =>
    \A k \in blobs :
      \/ \E r \in rows : r.key = k
      \/ \E p \in Savers : saves[p].sub # None /\ saves[p].sub.key = k
      \/ \E d \in Deleters : deletes[d].sub # None /\ deletes[d].sub.key = k

\* Visitors do not save one provider file for one owner twice ("a duplicate can
\* never spend a unit of the shared quota").
NoDuplicateDownload ==
  \A p \in Visitors : At(p, "download") =>
    /\ FindSubtitleByProviderFile(saves[p].sub.owner, saves[p].sub.file) = {}
    /\ \A q \in Visitors : ~At(q, "idle") /\ saves[q].sub.owner = saves[p].sub.owner
                           /\ saves[q].sub.file = saves[p].sub.file => q = p

\* A crawl adds no file the movie has ("skipping any provider file already saved
\* so a re-crawl adds only new subtitles", crawl.go:422).
CrawlAddsOnlyNew ==
  [][\A p \in Crawls : At(p, "insert") /\ saves'[p].pc = "refresh" =>
       FindSubtitleByProviderFile(saves[p].sub.owner, saves[p].sub.file) = {}]_vars
=============================================================================
