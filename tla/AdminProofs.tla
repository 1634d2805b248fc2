---------------------------- MODULE AdminProofs -----------------------------
(***************************************************************************)
(* Proofs about the two models of what the admin stores: Subtitles, for    *)
(* any visitors, operators, crawls, titles, episodes and files, and        *)
(* Catalogue, for any titles, torrents, offers, jobs and requests; both    *)
(* for any bounds.                                                         *)
(*                                                                         *)
(* Subtitles.  The keys and ids are what the safety of the files hangs on: *)
(* a row, a save that is past its write and a deletion that has read its   *)
(* row each know an id and a key, and whoever knows one of both knows the  *)
(* other (Numbered).  So what a rollback or a deletion removes is never    *)
(* the file of another row.  Kept says which rows have their file: those   *)
(* that were answered, and the one of a save that is still refreshing the  *)
(* flag.                                                                   *)
(*                                                                         *)
(* Catalogue.  Title ids are never handed out twice (IdsApart), so the     *)
(* videos that go with a title are its own, and an import that comes late  *)
(* finds no other title under the id it looked up.  A torrent goes with    *)
(* its last video only (VideosAreWhole), and what is stored for one that   *)
(* stays depends on what is there already, never on what the writer saw.   *)
(***************************************************************************)
EXTENDS Subtitles, Catalogue, FiniteSetTheorems, TLAPS

SavePcs == {"idle", "pick", "download", "insert", "refresh", "rollback"}
DeletePcs == {"idle", "row", "refresh", "file"}
Save == [pc : SavePcs, sub : Subs \cup {None}, todo : SUBSET Files, room : 0..MaxCount]
Deletion == [pc : DeletePcs, sub : Subs \cup {None}]

\* A save that wrote its file and is not over.
Holding == {"insert", "refresh", "rollback"}

Types ==
  /\ TypeOK
  /\ IsFiniteSet(rows)
  /\ \A p \in Savers :
       /\ saves[p].pc # "idle" => saves[p].sub \in Subs
       /\ saves[p].pc \in {"pick", "download"} => saves[p].sub.id = 0
       /\ saves[p].pc = "refresh" => saves[p].sub.owner \in Movies
       /\ p \in Crawls /\ saves[p].pc \notin {"idle", "pick"} => saves[p].room > 0
  /\ \A d \in Deleters :
       /\ deletes[d].pc # "idle" => deletes[d].sub \in Subs
       /\ deletes[d].pc = "refresh" => deletes[d].sub.owner \in Movies

RowsNumbered ==
  /\ \A r \in rows : r.id \in 1..lastId /\ r.key \in 1..lastKey
  /\ \A r, s \in rows : r.id = s.id \/ r.key = s.key => r = s
  /\ acked \subseteq 1..lastId

\* What the save p wrote, and the row it inserted if it did.
SaveNumbered(p) ==
  LET sub == saves[p].sub IN
  saves[p].pc \in Holding =>
    /\ sub.key \in 1..lastKey /\ sub.id \in 0..lastId /\ sub.id \notin acked
    /\ saves[p].pc = "insert" => sub.id = 0
    /\ saves[p].pc = "refresh" => sub.id # 0
    /\ \A r \in rows : r.id = sub.id \/ r.key = sub.key => r = sub

SavesApart(p, q) ==
  p # q /\ saves[p].pc \in Holding /\ saves[q].pc \in Holding =>
    /\ saves[p].sub.key # saves[q].sub.key
    /\ saves[p].sub.id = saves[q].sub.id => saves[p].sub.id = 0

DeleteNumbered(d) ==
  LET sub == deletes[d].sub IN
  deletes[d].pc # "idle" =>
    /\ sub.id \in 1..lastId /\ sub.key \in 1..lastKey
    /\ \A r \in rows : r.id = sub.id \/ r.key = sub.key => r = sub
    /\ deletes[d].pc # "row" => sub \notin rows
    /\ \A p \in Savers : saves[p].pc = "insert" => saves[p].sub.key # sub.key

Numbered ==
  /\ RowsNumbered
  /\ \A p \in Savers : SaveNumbered(p)
  /\ \A p, q \in Savers : SavesApart(p, q)
  /\ \A d \in Deleters : DeleteNumbered(d)

Kept ==
  /\ SavedIsServed
  /\ \A p \in Savers :
       /\ saves[p].pc = "insert" => saves[p].sub.key \in blobs
       /\ saves[p].pc = "refresh" /\ saves[p].sub \in rows => saves[p].sub.key \in blobs

IInv == Types /\ Numbered /\ Kept /\ VietsubTells /\ FilesAreAccountedFor

-----------------------------------------------------------------------------
(***************************************************************************)
(* What the steps of a save do to its record.                              *)
(***************************************************************************)
OthersStay(p) == \A q \in Savers \ {p} : saves'[q] = saves[q]

\* The save p is now at pc, with the row sub.
Moved(p, pc, sub) ==
  /\ saves' \in [Savers -> Save]
  /\ saves'[p].pc = pc /\ saves'[p].sub = sub
  /\ p \in Crawls /\ pc \notin {"idle", "pick"} => saves'[p].room > 0
  /\ OthersStay(p)

\* The save p is over, or a crawl that goes on.
Left(p) ==
  /\ saves' \in [Savers -> Save]
  /\ saves'[p].pc \in {"idle", "pick"}
  /\ saves'[p].pc # "idle" => saves'[p].sub \in Subs /\ saves'[p].sub.id = 0
  /\ OthersStay(p)

LEMMA SaveTypes ==
  ASSUME Types, NEW p \in Savers
  PROVE  /\ saves \in [Savers -> Save] /\ saves[p] \in Save
         /\ saves[p] = [pc |-> saves[p].pc, sub |-> saves[p].sub, todo |-> saves[p].todo,
                        room |-> saves[p].room]
  BY DEF Types, TypeOK, Save, SavePcs

LEMMA DraftTypes ==
  ASSUME NEW o \in Owners, NEW f \in Files \cup {Manual}, NEW vi \in BOOLEAN
  PROVE  Draft(o, f, vi) \in Subs /\ Draft(o, f, vi).id = 0
  BY DEF Draft, Subs, Keys

LEMMA GoesMoves ==
  ASSUME Types, NEW p \in Savers, NEW pc \in Holding \cup {"download"}, Goes(p, pc),
         saves[p].pc \notin {"idle", "pick"}
  PROVE  Moved(p, pc, saves[p].sub)
<1>1. saves \in [Savers -> Save] /\ saves[p] \in Save
  BY SaveTypes
<1>2. saves' = [saves EXCEPT ![p] = [saves[p] EXCEPT !.pc = pc]]
  BY DEF Goes
<1>3. [saves[p] EXCEPT !.pc = pc] \in Save
  BY <1>1 DEF Save, SavePcs, Holding
<1>4. p \in Crawls => saves[p].room > 0
  BY DEF Types
<1> QED BY <1>1, <1>2, <1>3, <1>4 DEF Moved, OthersStay, Save

LEMMA DraftsMoves ==
  ASSUME Types, NEW p \in Savers, NEW pc \in Holding \cup {"download"}, NEW sub \in Subs,
         Drafts(p, pc, sub),
         saves[p].pc \notin {"idle", "pick"} \/ p \notin Crawls
  PROVE  Moved(p, pc, sub)
<1>1. saves \in [Savers -> Save] /\ saves[p] \in Save
  BY SaveTypes
<1>2. saves' = [saves EXCEPT ![p] = [saves[p] EXCEPT !.pc = pc, !.sub = sub]]
  BY DEF Drafts
<1>3. [saves[p] EXCEPT !.pc = pc, !.sub = sub] \in Save
  BY <1>1 DEF Save, SavePcs, Holding
<1>4. p \in Crawls => saves[p].room > 0
  BY DEF Types
<1> QED BY <1>1, <1>2, <1>3, <1>4 DEF Moved, OthersStay, Save

LEMMA EndsLeaves ==
  ASSUME Types, NEW p \in Savers, NEW added \in {0, 1}, Ends(p, added),
         saves[p].pc \notin {"idle", "pick"}
  PROVE  Left(p)
<1>1. saves \in [Savers -> Save] /\ saves[p] \in Save /\ saves[p].sub \in Subs
  BY SaveTypes DEF Types
<1>2. CASE p \notin Crawls
  <2>1. saves' = [saves EXCEPT ![p] = NoSave]
    BY <1>2 DEF Ends
  <2>2. NoSave \in Save
    BY SbConstants DEF NoSave, Save, SavePcs
  <2> QED BY <1>1, <2>1, <2>2 DEF Left, OthersStay, NoSave
<1>3. CASE p \in Crawls
  <2> DEFINE s == saves[p]
             t == [pc |-> "pick", sub |-> Draft(s.sub.owner, Manual, TRUE), todo |-> s.todo,
                   room |-> s.room - added]
  <2>3. saves' = [saves EXCEPT ![p] = t]
    BY <1>3 DEF Ends
  <2>4. Draft(s.sub.owner, Manual, TRUE) \in Subs
    BY <1>1, DraftTypes DEF Subs
  <2>5. s.room - added \in 0..MaxCount /\ s.todo \in SUBSET Files
    <3>1. s.room \in 0..MaxCount /\ s.room > 0 /\ s.todo \in SUBSET Files
      BY <1>1, <1>3 DEF Types, Save
    <3> QED BY <3>1, SbConstants
  <2>6. t \in Save
    BY <2>4, <2>5 DEF Save, SavePcs
  <2>7. t.pc = "pick" /\ t.sub \in Subs /\ t.sub.id = 0
    BY <2>4 DEF Draft
  <2> HIDE DEF t
  <2> QED BY <1>1, <2>3, <2>6, <2>7 DEF Left, OthersStay
<1> QED BY <1>2, <1>3

-----------------------------------------------------------------------------
(***************************************************************************)
(* Types.                                                                  *)
(***************************************************************************)
LEMMA InitTypes == Init => Types
<1> SUFFICES ASSUME Init PROVE Types
  OBVIOUS
<1>1. TypeOK
  BY SbConstants DEF Init, TypeOK, NoSave, NoDelete, Keys
<1>2. IsFiniteSet(rows)
  BY FS_EmptySet DEF Init
<1> QED BY <1>1, <1>2 DEF Init, Types, NoSave, NoDelete

\* The rows stay a finite set of subtitles, and so on: all of TypeOK but the
\* saves and the deletions.
TableTypes ==
  /\ owners \subseteq Owners /\ rows \subseteq Subs /\ vietsub \in [Movies -> BOOLEAN]
  /\ IsFiniteSet(rows) /\ lastId \in Keys /\ acked \subseteq Keys /\ missed \subseteq Movies
DiskTypes ==
  /\ blobs \subseteq Keys /\ lost \subseteq Keys /\ lastKey \in Keys /\ faults \in 0..MaxFaults
SaveRecords ==
  /\ saves \in [Savers -> Save]
  /\ \A p \in Savers :
       /\ saves[p].pc # "idle" => saves[p].sub \in Subs
       /\ saves[p].pc \in {"pick", "download"} => saves[p].sub.id = 0
       /\ saves[p].pc = "refresh" => saves[p].sub.owner \in Movies
       /\ p \in Crawls /\ saves[p].pc \notin {"idle", "pick"} => saves[p].room > 0
DeleteRecords ==
  /\ deletes \in [Deleters -> Deletion]
  /\ \A d \in Deleters :
       /\ deletes[d].pc # "idle" => deletes[d].sub \in Subs
       /\ deletes[d].pc = "refresh" => deletes[d].sub.owner \in Movies

LEMMA TypesAre == Types <=> TableTypes /\ DiskTypes /\ SaveRecords /\ DeleteRecords
  BY DEF Types, TypeOK, TableTypes, DiskTypes, SaveRecords, DeleteRecords, Save, SavePcs,
         Deletion, DeletePcs

LEMMA TypesArePrime ==
  ASSUME TableTypes', DiskTypes', SaveRecords', DeleteRecords' PROVE Types'
  BY DEF Types, TypeOK, TableTypes, DiskTypes, SaveRecords, DeleteRecords, Save, SavePcs,
         Deletion, DeletePcs

LEMMA MovedRecords ==
  ASSUME Types, NEW p \in Savers, NEW pc \in Holding \cup {"download"}, NEW sub \in Subs,
         Moved(p, pc, sub), pc = "refresh" => sub.owner \in Movies, pc = "download" => sub.id = 0
  PROVE  SaveRecords'
  BY DEF Types, SaveRecords, Moved, OthersStay, Holding

LEMMA LeftRecords ==
  ASSUME Types, NEW p \in Savers, Left(p)
  PROVE  SaveRecords'
  BY DEF Types, SaveRecords, Left, OthersStay

LEMMA FaultTypes ==
  ASSUME Types, Fault PROVE faults' \in 0..MaxFaults
  BY SbConstants DEF Types, TypeOK, Fault

LEMMA RefreshTypes ==
  ASSUME Types, NEW m \in Movies, NEW vi, refreshTitleVietsub(m, vi)
  PROVE  vietsub' \in [Movies -> BOOLEAN]
  BY DEF Types, TypeOK, refreshTitleVietsub, HasVietsub

LEMMA KeyTypes ==
  ASSUME Types, NEW sub
  PROVE  subtitleStorageKey(sub) \in Keys /\ subtitleStorageKey(sub) = lastKey + 1
  BY DEF Types, TypeOK, Keys, subtitleStorageKey

\* What a movie has is finite, so what a crawl may add is a number.
LEMMA RoomTypes ==
  ASSUME Types, NEW o,
         LET have == {r.file : r \in {s \in rows : s.owner = o}} \ {Manual}
         IN Cardinality(have) < MaxCount
  PROVE  LET have == {r.file : r \in {s \in rows : s.owner = o}} \ {Manual}
         IN MaxCount - Cardinality(have) \in 0..MaxCount
<1> DEFINE mine == {s \in rows : s.owner = o}
           all == {r.file : r \in mine}
           have == all \ {Manual}
<1>1. IsFiniteSet(mine)
  BY FS_Subset DEF Types
<1>2. IsFiniteSet(all)
  <2> DEFINE f == [r \in mine |-> r.file]
  <2>1. f \in Surjection(mine, all)
    BY DEF Surjection
  <2> QED BY <1>1, <2>1, FS_Surjection DEF ExistsSurjection
<1>3. IsFiniteSet(have)
  BY <1>2, FS_Subset
<1>4. Cardinality(have) \in Nat
  BY <1>3, FS_CardinalityType
<1>5. Cardinality(have) < MaxCount
  OBVIOUS
<1> HIDE DEF have
<1>6. MaxCount - Cardinality(have) \in 0..MaxCount
  BY <1>4, <1>5, SbConstants
<1> QED BY <1>6 DEF have

LEMMA StartTypes == ASSUME Types, Start PROVE Types'
<1>1. TableTypes' /\ DiskTypes' /\ DeleteRecords'
  BY TypesAre DEF Start, VisitorSave, UploadSubtitle, OperatorSave, TopUp, table, disk, TableTypes,
     DiskTypes, DeleteRecords
<1>2. ASSUME NEW p \in Visitors, NEW o \in Owners, NEW f \in Files, NEW vi \in BOOLEAN,
             VisitorSave(p, o, f, vi)
      PROVE  SaveRecords'
  <2>1. Moved(p, "download", Draft(o, f, vi))
    BY <1>2, DraftTypes, DraftsMoves, SbConstants DEF VisitorSave, Savers, At
  <2> QED BY <2>1, DraftTypes, MovedRecords DEF Savers
<1>3. ASSUME NEW p \in Operators, NEW o \in Owners, NEW vi \in BOOLEAN, UploadSubtitle(p, o, vi)
      PROVE  SaveRecords'
  <2>1. Moved(p, "download", Draft(o, Manual, vi))
    BY <1>3, DraftTypes, DraftsMoves, SbConstants DEF UploadSubtitle, Savers, At
  <2> QED BY <2>1, DraftTypes, MovedRecords DEF Savers
<1>4. ASSUME NEW p \in Operators, NEW o \in Owners, NEW f \in Files, NEW vi \in BOOLEAN,
             OperatorSave(p, o, f, vi)
      PROVE  SaveRecords'
  <2>1. Moved(p, "download", Draft(o, f, vi))
    BY <1>4, DraftTypes, DraftsMoves, SbConstants DEF OperatorSave, Savers, At
  <2> QED BY <2>1, DraftTypes, MovedRecords DEF Savers
<1>5. ASSUME NEW p \in Crawls, NEW o \in Movies, NEW found \in SUBSET Files, TopUp(p, o, found)
      PROVE  SaveRecords'
  <2> DEFINE have == {r.file : r \in {s \in rows : s.owner = o}} \ {Manual}
             t == [pc |-> "pick", sub |-> Draft(o, Manual, TRUE), todo |-> found \ have,
                   room |-> MaxCount - Cardinality(have)]
  <2>1. Cardinality(have) < MaxCount /\ saves' = [saves EXCEPT ![p] = t]
    BY <1>5 DEF TopUp
  <2>2. MaxCount - Cardinality(have) \in 0..MaxCount
    BY <2>1, RoomTypes
  <2>3. Draft(o, Manual, TRUE) \in Subs
    BY DraftTypes DEF Owners
  <2>4. t \in Save
    BY <2>2, <2>3 DEF Save, SavePcs
  <2>5. t.pc = "pick" /\ t.sub \in Subs /\ t.sub.id = 0
    BY <2>3 DEF Draft
  <2> HIDE DEF t
  <2>6. saves \in [Savers -> Save] /\ p \in Savers
    BY SaveTypes DEF Savers, Types, TypeOK, Save, SavePcs
  <2> QED BY <2>1, <2>4, <2>5, <2>6, TypesAre DEF SaveRecords
<1> QED BY <1>1, <1>2, <1>3, <1>4, <1>5, TypesArePrime DEF Start

\* Where a save goes: one line for each of its steps.
LEMMA Steps ==
  ASSUME Types, NEW p \in Savers
  PROVE  /\ \A f \in Files : PickResult(p, f) =>
              Moved(p, "download", [saves[p].sub EXCEPT !.file = f])
         /\ TopUpDone(p) \/ DownloadFails(p) \/ PutFails(p) => Left(p)
         /\ Put(p) => Moved(p, "insert", [saves[p].sub EXCEPT !.key = lastKey + 1])
         /\ InsertSubtitle(p) /\ saves[p].sub.owner \in Movies =>
              Moved(p, "refresh", [saves[p].sub EXCEPT !.id = lastId + 1])
         /\ InsertSubtitle(p) /\ saves[p].sub.owner \notin Movies => Left(p)
         /\ InsertFails(p) \/ RefreshFails(p) => Moved(p, "rollback", saves[p].sub)
         /\ RefreshAfterInsert(p) \/ Rollback(p) \/ RollbackFails(p) => Left(p)
<1>1. /\ saves \in [Savers -> Save] /\ saves[p] \in Save
      /\ saves[p].pc # "idle" => saves[p].sub \in Subs
  BY SaveTypes DEF Types
<1>2. ASSUME NEW f \in Files, PickResult(p, f)
      PROVE  Moved(p, "download", [saves[p].sub EXCEPT !.file = f])
  <2> DEFINE s == saves[p]
             sub == [s.sub EXCEPT !.file = f]
  <2>1. saves'[p].pc = "download" /\ saves'[p].sub = sub /\ saves'[p].todo = s.todo \ {f}
        /\ saves'[p].room = s.room /\ s.room > 0 /\ s.sub \in Subs
    BY <1>1, <1>2 DEF PickResult, At, Save
  <2>2. sub \in Subs
    BY <2>1 DEF Subs
  <2>3. saves' = [saves EXCEPT ![p] = saves'[p]] /\ saves'[p] \in Save
    BY <1>1, <1>2, <2>1, <2>2 DEF PickResult, Save, SavePcs
  <2> QED BY <1>1, <2>1, <2>3 DEF Moved, OthersStay
<1>3. ASSUME TopUpDone(p) PROVE Left(p)
  <2>1. NoSave \in Save
    BY SbConstants DEF NoSave, Save, SavePcs
  <2> QED BY <1>1, <1>3, <2>1 DEF TopUpDone, Left, OthersStay, NoSave
<1>4. ASSUME DownloadFails(p) \/ PutFails(p) \/ RefreshAfterInsert(p) \/ Rollback(p)
             \/ RollbackFails(p)
      PROVE  Left(p)
  <2>1. (Ends(p, 0) \/ Ends(p, 1)) /\ saves[p].pc \notin {"idle", "pick"}
    BY <1>4 DEF DownloadFails, PutFails, RefreshAfterInsert, Rollback, RollbackFails, At
  <2> QED BY <2>1, EndsLeaves
<1>5. ASSUME Put(p) PROVE Moved(p, "insert", [saves[p].sub EXCEPT !.key = lastKey + 1])
  <2>1. [saves[p].sub EXCEPT !.key = lastKey + 1] \in Subs
    BY <1>1, <1>5 DEF Put, At, Subs, Keys, Types, TypeOK
  <2> QED BY <1>5, <2>1, KeyTypes, DraftsMoves DEF Put, At, Holding
<1>6. ASSUME InsertSubtitle(p), saves[p].sub.owner \in Movies
      PROVE  Moved(p, "refresh", [saves[p].sub EXCEPT !.id = lastId + 1])
  <2>1. /\ saves[p].sub \in Subs
        /\ [saves[p].sub EXCEPT !.id = lastId + 1] \in Subs
    BY <1>1, <1>6 DEF InsertSubtitle, At, Subs, Keys, Types, TypeOK
  <2>2. [saves[p].sub EXCEPT !.id = lastId + 1].owner \in Movies
    BY <1>6, <2>1 DEF Subs
  <2>3. Drafts(p, "refresh", [saves[p].sub EXCEPT !.id = lastId + 1])
    BY <1>6, <2>2 DEF InsertSubtitle
  <2> QED BY <1>6, <2>1, <2>3, DraftsMoves DEF InsertSubtitle, At, Holding
<1>7. ASSUME InsertSubtitle(p), saves[p].sub.owner \notin Movies PROVE Left(p)
  <2>1. saves[p].sub \in Subs
    BY <1>1, <1>7 DEF InsertSubtitle, At
  <2>2. [saves[p].sub EXCEPT !.id = lastId + 1].owner \notin Movies
    BY <1>7, <2>1 DEF Subs
  <2>3. Ends(p, 1)
    BY <1>7, <2>2 DEF InsertSubtitle
  <2> QED BY <1>7, <2>3, EndsLeaves DEF InsertSubtitle, At
<1>8. ASSUME InsertFails(p) \/ RefreshFails(p) PROVE Moved(p, "rollback", saves[p].sub)
  BY <1>8, GoesMoves DEF InsertFails, RefreshFails, At, Holding
<1> QED BY <1>2, <1>3, <1>4, <1>5, <1>6, <1>7, <1>8

LEMMA ProceedTypes == ASSUME Types, NEW p \in Savers, Proceed(p) PROVE Types'
<1>0. /\ TableTypes /\ DiskTypes /\ DeleteRecords
      /\ saves[p].pc # "idle" => saves[p].sub \in Subs
  BY TypesAre DEF Types
<1>1. ASSUME NEW f \in Files, PickResult(p, f) PROVE Types'
  <2>1. saves[p].sub \in Subs /\ saves[p].sub.id = 0
    BY <1>0, <1>1 DEF PickResult, At, Types
  <2>2. [saves[p].sub EXCEPT !.file = f] \in Subs /\ [saves[p].sub EXCEPT !.file = f].id = 0
    BY <2>1 DEF Subs
  <2>3. SaveRecords'
    BY <1>1, <2>2, Steps, MovedRecords
  <2> QED
    BY <1>0, <1>1, <2>3, TypesArePrime
    DEF PickResult, table, disk, TableTypes, DiskTypes, DeleteRecords
<1>2. ASSUME TopUpDone(p) PROVE Types'
  <2>1. SaveRecords'
    BY <1>2, Steps, LeftRecords
  <2> QED
    BY <1>0, <1>2, <2>1, TypesArePrime
    DEF TopUpDone, table, disk, TableTypes, DiskTypes, DeleteRecords
<1>3. ASSUME DownloadFails(p) PROVE Types'
  <2>1. SaveRecords'
    BY <1>3, Steps, LeftRecords
  <2>2. faults' \in 0..MaxFaults
    BY <1>3, FaultTypes DEF DownloadFails
  <2> QED
    BY <1>0, <1>3, <2>1, <2>2, TypesArePrime
    DEF DownloadFails, table, disk, TableTypes, DiskTypes, DeleteRecords
<1>4. ASSUME Put(p) PROVE Types'
  <2>1. saves[p].sub \in Subs /\ lastKey + 1 \in Keys
    BY <1>0, <1>4 DEF Put, At, DiskTypes, Keys
  <2>2. [saves[p].sub EXCEPT !.key = lastKey + 1] \in Subs
    BY <2>1 DEF Subs
  <2>3. SaveRecords'
    BY <1>4, <2>2, Steps, MovedRecords DEF Holding
  <2>4. DiskTypes'
    BY <1>0, <1>4, <2>1, KeyTypes DEF Put, DiskTypes
  <2> QED BY <1>0, <1>4, <2>3, <2>4, TypesArePrime DEF Put, table, TableTypes, DeleteRecords
<1>5. ASSUME PutFails(p) PROVE Types'
  <2>1. lastKey + 1 \in Keys
    BY <1>0 DEF DiskTypes, Keys
  <2>2. SaveRecords'
    BY <1>5, Steps, LeftRecords
  <2>3. faults' \in 0..MaxFaults
    BY <1>5, FaultTypes DEF PutFails
  <2>4. DiskTypes'
    BY <1>0, <1>5, <2>1, <2>3, KeyTypes DEF PutFails, DiskTypes
  <2> QED BY <1>0, <1>5, <2>2, <2>4, TypesArePrime DEF PutFails, table, TableTypes, DeleteRecords
<1>6. ASSUME InsertSubtitle(p) PROVE Types'
  <2> DEFINE sub == [saves[p].sub EXCEPT !.id = lastId + 1]
  <2>1. saves[p].sub \in Subs /\ lastId + 1 \in Keys
    BY <1>0, <1>6 DEF InsertSubtitle, At, TableTypes, Keys
  <2>2. sub \in Subs /\ sub.id = lastId + 1 /\ sub.owner = saves[p].sub.owner
    BY <2>1 DEF Subs
  <2>3. /\ rows' = rows \cup {sub} /\ lastId' = lastId + 1
        /\ acked' \in {acked, acked \cup {sub.id}}
        /\ UNCHANGED <<owners, vietsub, missed, disk, deletes, faults>>
    BY <1>6 DEF InsertSubtitle
  <2>4. SaveRecords'
    BY <1>6, <2>2, Steps, MovedRecords, LeftRecords DEF Holding
  <2> HIDE DEF sub
  <2>5. IsFiniteSet(rows')
    BY <1>0, <2>3, FS_AddElement DEF TableTypes
  <2>6. TableTypes'
    BY <1>0, <2>1, <2>2, <2>3, <2>5 DEF TableTypes
  <2> QED BY <1>0, <2>3, <2>4, <2>6, TypesArePrime DEF disk, DiskTypes, DeleteRecords
<1>7. ASSUME InsertFails(p) PROVE Types'
  <2>1. saves[p].sub \in Subs
    BY <1>0, <1>7 DEF InsertFails, At
  <2>2. SaveRecords'
    BY <1>7, <2>1, Steps, MovedRecords DEF Holding
  <2>3. faults' \in 0..MaxFaults
    BY <1>0, <1>7, FaultTypes DEF InsertFails, DiskTypes
  <2> QED
    BY <1>0, <1>7, <2>2, <2>3, TypesArePrime
    DEF InsertFails, table, disk, TableTypes, DiskTypes, DeleteRecords
<1>8. ASSUME RefreshAfterInsert(p) PROVE Types'
  <2>1. saves[p].sub \in Subs /\ saves[p].sub.owner \in Movies /\ saves[p].sub.id \in Keys
    BY <1>0, <1>8 DEF RefreshAfterInsert, At, Types, Subs
  <2>2. SaveRecords'
    BY <1>8, Steps, LeftRecords
  <2>3. vietsub' \in [Movies -> BOOLEAN]
    BY <1>8, <2>1, RefreshTypes DEF RefreshAfterInsert
  <2> QED
    BY <1>0, <1>8, <2>1, <2>2, <2>3, TypesArePrime
    DEF RefreshAfterInsert, disk, TableTypes, DiskTypes, DeleteRecords
<1>9. ASSUME RefreshFails(p) PROVE Types'
  <2>1. saves[p].sub \in Subs /\ saves[p].sub.owner \in Movies
    BY <1>0, <1>9 DEF RefreshFails, At, Types
  <2>2. SaveRecords'
    BY <1>9, <2>1, Steps, MovedRecords DEF Holding
  <2>3. faults' \in 0..MaxFaults
    BY <1>9, FaultTypes DEF RefreshFails
  <2> QED
    BY <1>0, <1>9, <2>1, <2>2, <2>3, TypesArePrime
    DEF RefreshFails, disk, TableTypes, DiskTypes, DeleteRecords
<1>10. ASSUME Rollback(p) PROVE Types'
  <2>1. SaveRecords'
    BY <1>10, Steps, LeftRecords
  <2> QED
    BY <1>0, <1>10, <2>1, TypesArePrime
    DEF Rollback, RollbackFile, table, TableTypes, DiskTypes, DeleteRecords
<1>11. ASSUME RollbackFails(p) PROVE Types'
  <2>1. saves[p].sub.key \in Keys
    BY <1>0, <1>11 DEF RollbackFails, At, Subs
  <2>2. SaveRecords'
    BY <1>11, Steps, LeftRecords
  <2>3. faults' \in 0..MaxFaults
    BY <1>11, FaultTypes DEF RollbackFails
  <2> QED
    BY <1>0, <1>11, <2>1, <2>2, <2>3, TypesArePrime
    DEF RollbackFails, table, TableTypes, DiskTypes, DeleteRecords
<1> QED
  BY <1>1, <1>2, <1>3, <1>4, <1>5, <1>6, <1>7, <1>8, <1>9, <1>10, <1>11 DEF Proceed

\* What a deletion does to its record.
DeleteMoved(d, pc, sub) ==
  deletes' = [deletes EXCEPT ![d] = [pc |-> pc, sub |-> sub]]

LEMMA DeleteMovedRecords ==
  ASSUME Types, NEW d \in Deleters, NEW pc \in {"row", "refresh", "file"}, NEW sub \in Subs,
         DeleteMoved(d, pc, sub), pc = "refresh" => sub.owner \in Movies
  PROVE  DeleteRecords'
<1> DEFINE t == [pc |-> pc, sub |-> sub]
<1>1. t \in Deletion /\ t.pc = pc /\ t.sub = sub
  BY DEF Deletion, DeletePcs
<1>2. DeleteRecords /\ deletes' = [deletes EXCEPT ![d] = t]
  BY TypesAre DEF DeleteMoved
<1> HIDE DEF t
<1> QED BY <1>1, <1>2 DEF DeleteRecords

LEMMA OverRecords ==
  ASSUME Types, NEW d \in Deleters, Over(d)
  PROVE  DeleteRecords'
<1>1. NoDelete \in Deletion /\ NoDelete.pc = "idle"
  BY DEF NoDelete, Deletion, DeletePcs
<1> QED BY <1>1, TypesAre DEF Over, DeleteRecords

LEMMA DeleteTypes == ASSUME Types, Delete PROVE Types'
<1>0. TableTypes /\ DiskTypes /\ SaveRecords /\ DeleteRecords
  BY TypesAre
<1>1. ASSUME NEW d \in Deleters, NEW r \in rows, GetSubtitle(d, r) PROVE Types'
  <2>1. DeleteRecords'
    BY <1>0, <1>1, DeleteMovedRecords DEF GetSubtitle, Deletes, DeleteMoved, TableTypes
  <2> QED
    BY <1>0, <1>1, <2>1, TypesArePrime
    DEF GetSubtitle, table, disk, TableTypes, DiskTypes, SaveRecords
<1>2. ASSUME NEW d \in Deleters, DeleteRow(d) PROVE Types'
  <2>1. DeleteRecords'
    BY <1>0, <1>2, DeleteMovedRecords DEF DeleteRow, Deletes, DeleteMoved, DeleteRecords
  <2>2. rows' \subseteq rows
    BY <1>2 DEF DeleteRow
  <2>3. IsFiniteSet(rows')
    BY <1>0, <2>2, FS_Subset DEF TableTypes
  <2> QED
    BY <1>0, <1>2, <2>1, <2>2, <2>3, TypesArePrime
    DEF DeleteRow, disk, TableTypes, DiskTypes, SaveRecords
<1>3. ASSUME NEW d \in Deleters, RefreshAfterDelete(d) PROVE Types'
  <2>1. deletes[d].sub \in Subs /\ deletes[d].sub.owner \in Movies
    BY <1>0, <1>3 DEF RefreshAfterDelete, DeleteRecords
  <2>2. DeleteRecords'
    BY <1>3, <2>1, DeleteMovedRecords DEF RefreshAfterDelete, Deletes, DeleteMoved
  <2>3. vietsub' \in [Movies -> BOOLEAN]
    BY <1>3, <2>1, RefreshTypes DEF RefreshAfterDelete
  <2> QED
    BY <1>0, <1>3, <2>2, <2>3, TypesArePrime
    DEF RefreshAfterDelete, disk, TableTypes, DiskTypes, SaveRecords
<1>4. ASSUME NEW d \in Deleters, DeleteFile(d) PROVE Types'
  <2>1. DeleteRecords'
    BY <1>4, OverRecords DEF DeleteFile
  <2> QED
    BY <1>0, <1>4, <2>1, TypesArePrime
    DEF DeleteFile, table, TableTypes, DiskTypes, SaveRecords
<1>5. ASSUME NEW d \in Deleters, DeleteFails(d) PROVE Types'
  <2>1. DeleteRecords' /\ faults' \in 0..MaxFaults
    BY <1>5, OverRecords, FaultTypes DEF DeleteFails
  <2>2. /\ deletes[d].sub.key \in Keys
        /\ deletes[d].pc = "refresh" => deletes[d].sub.owner \in Movies
    BY <1>0, <1>5 DEF DeleteFails, DeleteRecords, Subs
  <2> QED
    BY <1>0, <1>5, <2>1, <2>2, TypesArePrime
    DEF DeleteFails, TableTypes, DiskTypes, SaveRecords
<1>6. ASSUME NEW o \in Owners, DeleteOwner(o) PROVE Types'
  <2>1. rows' \subseteq rows
    BY <1>6 DEF DeleteOwner
  <2>2. IsFiniteSet(rows')
    BY <1>0, <2>1, FS_Subset DEF TableTypes
  <2>3. \A r \in rows : r.key \in Keys
    BY <1>0 DEF TableTypes, Subs
  <2> QED
    BY <1>0, <1>6, <2>1, <2>2, <2>3, TypesArePrime
    DEF DeleteOwner, TableTypes, DiskTypes, SaveRecords, DeleteRecords
<1> QED BY <1>1, <1>2, <1>3, <1>4, <1>5, <1>6 DEF Delete

LEMMA CrashTypes ==
  ASSUME Types, NEW S \in SUBSET Savers, NEW D \in SUBSET Deleters, Crash(S, D)
  PROVE  Types'
<1>0. TableTypes /\ DiskTypes /\ SaveRecords /\ DeleteRecords
  BY TypesAre
<1>1. SaveRecords'
  <2>1. NoSave \in Save /\ NoSave.pc = "idle"
    BY SbConstants DEF NoSave, Save, SavePcs
  <2> QED BY <1>0, <2>1 DEF Crash, SaveRecords
<1>2. DeleteRecords'
  <2>1. NoDelete \in Deletion /\ NoDelete.pc = "idle"
    BY DEF NoDelete, Deletion, DeletePcs
  <2> QED BY <1>0, <2>1 DEF Crash, DeleteRecords
<1>3. missed' \subseteq Movies
  BY <1>0 DEF Crash, At, TableTypes, SaveRecords, DeleteRecords
<1>4. lost' \subseteq Keys
  <2>1. \A p \in Savers : saves[p].pc \in {"insert", "rollback"} => saves[p].sub.key \in Keys
    BY <1>0 DEF SaveRecords, Subs
  <2>2. \A d \in Deleters : deletes[d].pc \in {"refresh", "file"} => deletes[d].sub.key \in Keys
    BY <1>0 DEF DeleteRecords, Subs
  <2> QED BY <1>0, <2>1, <2>2 DEF Crash, DiskTypes
<1>5. faults' \in 0..MaxFaults
  BY FaultTypes DEF Crash
<1> QED BY <1>0, <1>1, <1>2, <1>3, <1>4, <1>5, TypesArePrime DEF Crash, TableTypes, DiskTypes

LEMMA StepTypes == ASSUME Types, [Next]_vars PROVE Types'
<1>1. CASE UNCHANGED vars
  BY <1>1, TypesAre, TypesArePrime
  DEF vars, TableTypes, DiskTypes, SaveRecords, DeleteRecords
<1>2. CASE Crash(Visitors, {}) \/ Crash(Operators \cup Crawls, Deleters)
  BY <1>2, CrashTypes DEF Savers
<1> QED BY <1>1, <1>2, StartTypes, ProceedTypes, DeleteTypes DEF Next
-----------------------------------------------------------------------------
(***************************************************************************)
(* Keys and ids.                                                           *)
(***************************************************************************)

\* No save begins to hold what it did not hold, nor goes back.
SavesShrink ==
  \A p \in Savers : saves'[p].pc \in Holding =>
    /\ saves[p].pc \in Holding /\ saves'[p].sub = saves[p].sub
    /\ saves'[p].pc # "rollback" => saves'[p].pc = saves[p].pc
DeletesShrink ==
  \A d \in Deleters : deletes'[d].pc # "idle" =>
    /\ deletes[d].pc # "idle" /\ deletes'[d].sub = deletes[d].sub
    /\ deletes'[d].pc # "row" => deletes'[d].sub \notin rows'

\* Most steps only forget: rows, saves and deletions are fewer or the same, and
\* nothing is answered.
LEMMA NumberedShrinks ==
  ASSUME Types, Numbered, rows' \subseteq rows, acked' = acked, lastId' = lastId,
         lastKey' \in {lastKey, lastKey + 1}, SavesShrink, DeletesShrink
  PROVE  Numbered'
<1>0. lastKey \in Nat /\ lastId \in Nat /\ lastKey' \in Nat /\ lastKey <= lastKey'
  BY DEF Types, TypeOK, Keys
<1>1. RowsNumbered'
  BY <1>0 DEF Numbered, RowsNumbered
<1>2. ASSUME NEW p \in Savers PROVE SaveNumbered(p)'
  <2>1. SaveNumbered(p)
    BY DEF Numbered
  <2> QED BY <1>0, <2>1 DEF SaveNumbered, SavesShrink, Holding
<1>3. ASSUME NEW p \in Savers, NEW q \in Savers PROVE SavesApart(p, q)'
  <2>1. SavesApart(p, q)
    BY DEF Numbered
  <2> QED BY <2>1 DEF SavesApart, SavesShrink
<1>4. ASSUME NEW d \in Deleters PROVE DeleteNumbered(d)'
  <2>1. DeleteNumbered(d)
    BY DEF Numbered
  <2>2. \A p \in Savers : saves'[p].pc = "insert" =>
          saves[p].pc = "insert" /\ saves'[p].sub = saves[p].sub
    BY DEF SavesShrink, Holding
  <2> QED BY <1>0, <2>1, <2>2 DEF DeleteNumbered, DeletesShrink
<1> QED BY <1>1, <1>2, <1>3, <1>4 DEF Numbered

\* The deletions when they are left alone.
LEMMA DeletesStay ==
  ASSUME Numbered, UNCHANGED <<deletes, rows>> PROVE DeletesShrink
  BY DEF Numbered, DeleteNumbered, DeletesShrink

LEMMA MovedShrinks ==
  ASSUME NEW p \in Savers, NEW pc, NEW sub, Moved(p, pc, sub),
         pc \notin Holding \/ (pc = "rollback" /\ saves[p].pc \in Holding /\ sub = saves[p].sub)
  PROVE  SavesShrink
  BY DEF Moved, OthersStay, SavesShrink

LEMMA LeftShrinks ==
  ASSUME NEW p \in Savers, Left(p) PROVE SavesShrink
  BY DEF Left, OthersStay, SavesShrink, Holding

LEMMA InitNumbered == Init => Numbered
  BY DEF Init, Numbered, RowsNumbered, SaveNumbered, SavesApart, DeleteNumbered, NoSave, NoDelete,
         Holding

LEMMA StartShrinks ==
  ASSUME Types, Start
  PROVE  /\ SavesShrink /\ UNCHANGED <<table, disk, deletes>>
         /\ \A p \in Savers : saves'[p] # saves[p] =>
              saves[p].pc = "idle" /\ saves'[p].pc \in {"pick", "download"}
<1> DEFINE Begins(p) ==
      /\ \A q \in Savers \ {p} : saves'[q] = saves[q]
      /\ saves[p].pc = "idle" /\ saves'[p].pc \in {"pick", "download"}
      /\ UNCHANGED <<table, disk, deletes>>
<1>0. saves \in [Savers -> Save]
  BY DEF Types, TypeOK, Save, SavePcs
<1>1. \E p \in Savers : Begins(p)
  <2>1. ASSUME NEW p \in Visitors, NEW o \in Owners, NEW f \in Files, NEW vi \in BOOLEAN,
               VisitorSave(p, o, f, vi)
        PROVE  Begins(p) /\ p \in Savers
    BY <1>0, <2>1 DEF VisitorSave, At, Drafts, Savers, Save
  <2>2. ASSUME NEW p \in Operators, NEW o \in Owners, NEW vi \in BOOLEAN, UploadSubtitle(p, o, vi)
        PROVE  Begins(p) /\ p \in Savers
    BY <1>0, <2>2 DEF UploadSubtitle, At, Drafts, Savers, Save
  <2>3. ASSUME NEW p \in Operators, NEW o \in Owners, NEW f \in Files, NEW vi \in BOOLEAN,
               OperatorSave(p, o, f, vi)
        PROVE  Begins(p) /\ p \in Savers
    BY <1>0, <2>3 DEF OperatorSave, At, Drafts, Savers, Save
  <2>4. ASSUME NEW p \in Crawls, NEW o \in Movies, NEW found \in SUBSET Files, TopUp(p, o, found)
        PROVE  Begins(p) /\ p \in Savers
    BY <1>0, <2>4 DEF TopUp, At, Savers, Save
  <2> HIDE DEF Begins
  <2> QED BY <2>1, <2>2, <2>3, <2>4 DEF Start
<1>2. PICK p \in Savers : Begins(p)
  BY <1>1
<1>3. SavesShrink
  BY <1>2 DEF SavesShrink, Holding
<1> QED BY <1>2, <1>3

\* A save writes its file under a key nobody has.
LEMMA PutNumbered ==
  ASSUME Types, Numbered, NEW p \in Savers, Put(p)
  PROVE  Numbered'
<1> DEFINE sub == saves[p].sub
           new == [sub EXCEPT !.key = lastKey + 1]
<1>0. lastKey \in Nat /\ lastId \in Nat
  BY DEF Types, TypeOK, Keys
<1>1. sub \in Subs
  BY DEF Put, At, Types
<1>2. new.key = lastKey + 1 /\ new.id = sub.id
  BY <1>1 DEF Subs
<1>3. Moved(p, "insert", new)
  BY Steps
<1>4. UNCHANGED <<rows, acked, lastId, deletes>> /\ lastKey' = lastKey + 1
  BY DEF Put, table
<1>5. sub.id = 0
  BY DEF Put, At, Types
<1> HIDE DEF new
<1>6. RowsNumbered'
  BY <1>0, <1>4 DEF Numbered, RowsNumbered
<1>7. ASSUME NEW q \in Savers PROVE SaveNumbered(q)'
  <2>1. CASE q = p
    BY <1>0, <1>2, <1>3, <1>4, <1>5, <2>1 DEF Moved, SaveNumbered, Numbered, RowsNumbered
  <2>2. CASE q # p
    <3>1. saves'[q] = saves[q] /\ SaveNumbered(q)
      BY <1>3, <2>2 DEF Moved, OthersStay, Numbered
    <3> QED BY <1>0, <1>4, <3>1 DEF SaveNumbered
  <2> QED BY <2>1, <2>2
<1>8. ASSUME NEW q \in Savers, NEW r \in Savers PROVE SavesApart(q, r)'
  <2>1. SavesApart(q, r) /\ SaveNumbered(q) /\ SaveNumbered(r)
    BY DEF Numbered
  <2>2. ASSUME NEW x \in Savers, x # p, saves'[x].pc \in Holding
        PROVE  saves'[x] = saves[x] /\ saves[x].sub.key \in 1..lastKey
    BY <1>3, <2>2 DEF Moved, OthersStay, Numbered, SaveNumbered
  <2>3. saves'[p].sub = new /\ new.key \notin 1..lastKey
    BY <1>0, <1>2, <1>3 DEF Moved
  <2> QED BY <1>2, <1>5, <2>1, <2>2, <2>3 DEF SavesApart
<1>9. ASSUME NEW d \in Deleters PROVE DeleteNumbered(d)'
  <2>1. DeleteNumbered(d)
    BY DEF Numbered
  <2>2. \A q \in Savers : saves'[q].pc = "insert" => q = p \/ saves'[q] = saves[q]
    BY <1>3 DEF Moved, OthersStay
  <2>3. saves'[p].sub.key = lastKey + 1
    BY <1>2, <1>3 DEF Moved
  <2> QED BY <1>0, <1>4, <2>1, <2>2, <2>3 DEF DeleteNumbered
<1> QED BY <1>6, <1>7, <1>8, <1>9 DEF Numbered

\* The row is inserted under an id nobody has and the key of its save.
LEMMA InsertNumbered ==
  ASSUME Types, Numbered, NEW p \in Savers, InsertSubtitle(p)
  PROVE  Numbered'
<1> DEFINE sub == saves[p].sub
           new == [sub EXCEPT !.id = lastId + 1]
           movie == sub.owner \in Movies
<1>0. lastKey \in Nat /\ lastId \in Nat
  BY DEF Types, TypeOK, Keys
<1>1. sub \in Subs /\ sub.id = 0 /\ sub.key \in 1..lastKey /\ saves[p].pc = "insert"
      /\ \A r \in rows : r.key # sub.key
  <2>1. saves[p].pc = "insert" /\ sub \in Subs /\ SaveNumbered(p) /\ RowsNumbered
    BY DEF InsertSubtitle, At, Types, Numbered
  <2> QED BY <2>1 DEF SaveNumbered, Holding, RowsNumbered
<1>2. new.key = sub.key /\ new.id = lastId + 1 /\ new.owner = sub.owner
  BY <1>1 DEF Subs
<1>3. /\ rows' = rows \cup {new} /\ lastId' = lastId + 1 /\ UNCHANGED <<lastKey, deletes>>
      /\ acked' = IF movie THEN acked ELSE acked \cup {lastId + 1}
  BY <1>2 DEF InsertSubtitle, disk
<1>4. /\ OthersStay(p)
      /\ saves'[p].pc \in Holding => movie /\ saves'[p].pc = "refresh" /\ saves'[p].sub = new
  BY Steps DEF Moved, Left, Holding
<1> HIDE DEF new, movie
<1>5. RowsNumbered'
  <2>1. RowsNumbered
    BY DEF Numbered
  <2> QED BY <1>0, <1>1, <1>2, <1>3, <2>1 DEF RowsNumbered
<1>6. ASSUME NEW q \in Savers PROVE SaveNumbered(q)'
  <2>1. CASE q = p
    <3>1. ASSUME saves'[p].pc \in Holding
          PROVE  /\ new.id \in 0..lastId' /\ new.id \notin acked' /\ new.id # 0
                 /\ \A r \in rows' : r.id = new.id \/ r.key = new.key => r = new
      BY <1>0, <1>1, <1>2, <1>3, <1>4, <3>1 DEF Numbered, RowsNumbered
    <3> QED BY <1>0, <1>1, <1>2, <1>3, <1>4, <2>1, <3>1 DEF SaveNumbered
  <2>2. CASE q # p
    <3>1. saves'[q] = saves[q] /\ SaveNumbered(q) /\ SavesApart(p, q)
      BY <1>4, <2>2 DEF OthersStay, Numbered
    <3>2. saves[q].pc \in Holding => saves[q].sub.key # new.key /\ saves[q].sub.id \in 0..lastId
      BY <1>1, <1>2, <2>2, <3>1 DEF SavesApart, SaveNumbered, Holding
    <3>3. saves[q].pc \in Holding => saves[q].sub.id \notin acked'
      BY <1>0, <1>3, <3>1, <3>2 DEF SaveNumbered
    <3> QED BY <1>0, <1>2, <1>3, <3>1, <3>2, <3>3 DEF SaveNumbered
  <2> QED BY <2>1, <2>2
<1>7. ASSUME NEW q \in Savers, NEW r \in Savers PROVE SavesApart(q, r)'
  <2>1. SavesApart(q, r) /\ SavesApart(r, q) /\ SaveNumbered(q) /\ SaveNumbered(r)
    BY DEF Numbered
  <2>2. \A x \in Savers : x # p => saves'[x] = saves[x]
    BY <1>4 DEF OthersStay
  <2>3. CASE q # p /\ r # p
    BY <2>1, <2>2, <2>3 DEF SavesApart
  <2>4. CASE q = p /\ r # p
    <3>1. saves'[r].pc \in Holding => saves'[r].sub.key # sub.key /\ saves'[r].sub.id # lastId + 1
      BY <1>0, <1>1, <2>1, <2>2, <2>4 DEF SavesApart, SaveNumbered, Holding
    <3> QED BY <1>2, <1>4, <2>4, <3>1 DEF SavesApart
  <2>5. CASE q # p /\ r = p
    <3>1. saves'[q].pc \in Holding => saves'[q].sub.key # sub.key /\ saves'[q].sub.id # lastId + 1
      BY <1>0, <1>1, <2>1, <2>2, <2>5 DEF SavesApart, SaveNumbered, Holding
    <3> QED BY <1>2, <1>4, <2>5, <3>1 DEF SavesApart
  <2>6. CASE q = p /\ r = p
    BY <2>6 DEF SavesApart
  <2> QED BY <2>3, <2>4, <2>5, <2>6
<1>8. ASSUME NEW d \in Deleters PROVE DeleteNumbered(d)'
  <2>1. DeleteNumbered(d)
    BY DEF Numbered
  <2>2. \A q \in Savers : saves'[q].pc = "insert" => saves'[q] = saves[q] /\ saves[q].pc = "insert"
    BY <1>4 DEF OthersStay, Holding
  <2>3. deletes[d].pc # "idle" => deletes[d].sub.key # new.key /\ deletes[d].sub.id # new.id
    BY <1>0, <1>1, <1>2, <2>1 DEF DeleteNumbered
  <2> QED BY <1>0, <1>3, <2>1, <2>2, <2>3 DEF DeleteNumbered
<1> QED BY <1>5, <1>6, <1>7, <1>8 DEF Numbered

\* An answer of success is for one row, which no other save knows.
LEMMA AckNumbered ==
  ASSUME Types, Numbered, NEW p \in Savers, RefreshAfterInsert(p)
  PROVE  Numbered'
<1> DEFINE sub == saves[p].sub
<1>0. lastKey \in Nat /\ lastId \in Nat
  BY DEF Types, TypeOK, Keys
<1>1. /\ saves[p].pc = "refresh" /\ UNCHANGED <<rows, lastId, lastKey, deletes>>
      /\ acked' = acked \cup {sub.id}
  BY DEF RefreshAfterInsert, At, disk
<1>2. Left(p)
  BY Steps
<1>3. sub.id \in 1..lastId
  BY <1>0, <1>1 DEF Numbered, SaveNumbered, Holding
<1>4. RowsNumbered'
  BY <1>1, <1>3 DEF Numbered, RowsNumbered
<1>5. ASSUME NEW q \in Savers PROVE SaveNumbered(q)'
  <2>1. CASE q = p
    BY <1>2, <2>1 DEF Left, SaveNumbered, Holding
  <2>2. CASE q # p
    <3>1. saves'[q] = saves[q] /\ SaveNumbered(q) /\ SavesApart(p, q)
      BY <1>2, <2>2 DEF Left, OthersStay, Numbered
    <3>2. saves[q].pc \in Holding => saves[q].sub.id # sub.id
      BY <1>0, <1>1, <1>3, <2>2, <3>1 DEF SavesApart, Holding
    <3> QED BY <1>1, <3>1, <3>2 DEF SaveNumbered
  <2> QED BY <2>1, <2>2
<1>6. ASSUME NEW q \in Savers, NEW r \in Savers PROVE SavesApart(q, r)'
  <2>1. SavesApart(q, r)
    BY DEF Numbered
  <2> QED BY <1>2, <2>1 DEF Left, OthersStay, SavesApart, Holding
<1>7. ASSUME NEW d \in Deleters PROVE DeleteNumbered(d)'
  <2>1. DeleteNumbered(d)
    BY DEF Numbered
  <2>2. \A q \in Savers : saves'[q].pc = "insert" => saves'[q] = saves[q]
    BY <1>2 DEF Left, OthersStay
  <2> QED BY <1>1, <2>1, <2>2 DEF DeleteNumbered
<1> QED BY <1>4, <1>5, <1>6, <1>7 DEF Numbered

\* A deletion that reads its row knows its id and its key.
LEMMA GetNumbered ==
  ASSUME Types, Numbered, NEW d \in Deleters, NEW r \in rows, GetSubtitle(d, r)
  PROVE  Numbered'
<1>1. /\ UNCHANGED <<rows, acked, lastId, lastKey, saves>>
      /\ deletes' = [deletes EXCEPT ![d] = [pc |-> "row", sub |-> r]]
  BY DEF GetSubtitle, Deletes, table, disk
<1>2. RowsNumbered /\ RowsNumbered'
  BY <1>1 DEF Numbered, RowsNumbered
<1>3. \A p \in Savers : SaveNumbered(p)'
  BY <1>1 DEF Numbered, SaveNumbered
<1>4. \A p, q \in Savers : SavesApart(p, q)'
  BY <1>1 DEF Numbered, SavesApart
<1>5. ASSUME NEW e \in Deleters PROVE DeleteNumbered(e)'
  <2>1. CASE e = d
    <3>1. deletes'[d].pc = "row" /\ deletes'[d].sub = r
      BY <1>1 DEF Types, TypeOK
    <3>2. ASSUME NEW p \in Savers, saves[p].pc = "insert" PROVE saves[p].sub.key # r.key
      BY <1>2, <3>2 DEF Numbered, SaveNumbered, RowsNumbered, Holding
    <3> QED BY <1>1, <1>2, <2>1, <3>1, <3>2 DEF DeleteNumbered, RowsNumbered
  <2>2. CASE e # d
    <3>1. deletes'[e] = deletes[e] /\ DeleteNumbered(e)
      BY <1>1, <2>2 DEF Types, TypeOK, Numbered
    <3> QED BY <1>1, <3>1 DEF DeleteNumbered
  <2> QED BY <2>1, <2>2
<1> QED BY <1>2, <1>3, <1>4, <1>5 DEF Numbered

\* The other steps of a deletion only forget.
LEMMA DeleteRowShrinks ==
  ASSUME Types, Numbered, NEW d \in Deleters, DeleteRow(d)
  PROVE  DeletesShrink /\ \A r \in rows \ rows' : r = deletes[d].sub
<1> DEFINE sub == deletes[d].sub
           pc == IF sub.owner \in Movies THEN "refresh" ELSE "file"
<1>1. /\ deletes[d].pc = "row" /\ rows' = {r \in rows : r.id # sub.id}
      /\ deletes' = [deletes EXCEPT ![d] = [pc |-> pc, sub |-> sub]]
  BY DEF DeleteRow, Deletes
<1>2. DeleteNumbered(d)
  BY DEF Numbered
<1>3. deletes'[d].sub = sub /\ sub \notin rows'
  BY <1>1 DEF Types, TypeOK
<1>4. ASSUME NEW e \in Deleters, e # d, deletes'[e].pc # "idle"
      PROVE  /\ deletes'[e] = deletes[e]
             /\ deletes'[e].pc # "row" => deletes'[e].sub \notin rows'
  <2>1. deletes'[e] = deletes[e] /\ DeleteNumbered(e)
    BY <1>1, <1>4 DEF Types, TypeOK, Numbered
  <2> QED BY <1>1, <1>4, <2>1 DEF DeleteNumbered
<1>5. DeletesShrink
  BY <1>1, <1>3, <1>4 DEF DeletesShrink
<1>6. \A r \in rows \ rows' : r = sub
  BY <1>1, <1>2 DEF DeleteNumbered
<1> QED BY <1>5, <1>6

DeletesGo ==
  \A d \in Deleters : \/ deletes'[d] = deletes[d]
                      \/ deletes'[d].pc = "idle"
                      \/ deletes[d].pc = "refresh" /\ deletes'[d].sub = deletes[d].sub

LEMMA DeletesGone == ASSUME Numbered, rows' \subseteq rows, DeletesGo PROVE DeletesShrink
<1> SUFFICES ASSUME NEW d \in Deleters, deletes'[d].pc # "idle"
             PROVE  /\ deletes[d].pc # "idle" /\ deletes'[d].sub = deletes[d].sub
                    /\ deletes'[d].pc # "row" => deletes'[d].sub \notin rows'
  BY DEF DeletesShrink
<1>1. DeleteNumbered(d)
  BY DEF Numbered
<1> QED BY <1>1 DEF DeleteNumbered, DeletesGo

\* What the steps of a deletion do to the deletions.
LEMMA RefreshGoes ==
  ASSUME Types, NEW d \in Deleters, RefreshAfterDelete(d)
  PROVE  /\ deletes[d].pc = "refresh"
         /\ deletes'[d].pc = "file" /\ deletes'[d].sub = deletes[d].sub
         /\ \A e \in Deleters : e # d => deletes'[e] = deletes[e]
         /\ DeletesGo
  BY DEF RefreshAfterDelete, Deletes, Types, TypeOK, DeletesGo

LEMMA OverGoes ==
  ASSUME Types, NEW d \in Deleters, DeleteFile(d) \/ DeleteFails(d)
  PROVE  /\ deletes'[d].pc = "idle"
         /\ \A e \in Deleters : e # d => deletes'[e] = deletes[e]
         /\ DeletesGo
  BY DEF DeleteFile, DeleteFails, Over, NoDelete, Types, TypeOK, DeletesGo

LEMMA CrashShrinks ==
  ASSUME Types, Numbered, NEW S \in SUBSET Savers, NEW D \in SUBSET Deleters, Crash(S, D)
  PROVE  SavesShrink /\ DeletesShrink
<1>1. SavesShrink
  BY DEF Crash, SavesShrink, NoSave, Holding
<1>2. DeletesShrink
  <2>1. rows' \subseteq rows /\ DeletesGo
    BY DEF Crash, NoDelete, DeletesGo
  <2> QED BY <2>1, DeletesGone
<1> QED BY <1>1, <1>2

LEMMA StepNumbered == ASSUME Types, Numbered, [Next]_vars PROVE Numbered'
<1>0. lastKey \in Nat /\ lastId \in Nat
  BY DEF Types, TypeOK, Keys
<1>1. CASE Start
  <2>1. SavesShrink /\ UNCHANGED <<rows, acked, lastId, lastKey, deletes>>
    BY <1>1, StartShrinks DEF table, disk
  <2> QED BY <2>1, DeletesStay, NumberedShrinks
<1>2. ASSUME NEW p \in Savers, Proceed(p) PROVE Numbered'
  <2>1. ASSUME NEW f \in Files, PickResult(p, f) PROVE Numbered'
    <3>1. Moved(p, "download", [saves[p].sub EXCEPT !.file = f])
      BY <2>1, Steps
    <3>3. SavesShrink
      BY <3>1 DEF Moved, OthersStay, SavesShrink, Holding
    <3>2. UNCHANGED <<rows, acked, lastId, lastKey, deletes>>
      BY <2>1 DEF PickResult, table, disk
    <3> QED BY <3>3, <3>2, DeletesStay, NumberedShrinks
  <2>2. ASSUME TopUpDone(p) \/ DownloadFails(p) \/ PutFails(p) \/ Rollback(p) \/ RollbackFails(p)
        PROVE  Numbered'
    <3>1. SavesShrink
      BY <2>2, Steps, LeftShrinks
    <3>2. UNCHANGED <<rows, acked, lastId, deletes>> /\ lastKey' \in {lastKey, lastKey + 1}
      BY <2>2 DEF TopUpDone, DownloadFails, PutFails, Rollback, RollbackFails, table, disk
    <3> QED BY <3>1, <3>2, DeletesStay, NumberedShrinks
  <2>3. ASSUME InsertFails(p) \/ RefreshFails(p) PROVE Numbered'
    <3>1. SavesShrink
      BY <2>3, Steps, MovedShrinks DEF Holding, InsertFails, RefreshFails, At
    <3>2. UNCHANGED <<rows, acked, lastId, lastKey, deletes>>
      BY <2>3 DEF InsertFails, RefreshFails, table, disk
    <3> QED BY <3>1, <3>2, DeletesStay, NumberedShrinks
  <2> QED
    BY <1>2, <2>1, <2>2, <2>3, PutNumbered, InsertNumbered, AckNumbered DEF Proceed
<1>3. ASSUME NEW d \in Deleters, DeleteRow(d) PROVE Numbered'
  <2>1. DeletesShrink
    BY <1>3, DeleteRowShrinks
  <2>2. rows' \subseteq rows /\ UNCHANGED <<acked, lastId, lastKey, saves>>
    BY <1>3 DEF DeleteRow, disk
  <2>3. SavesShrink
    BY <2>2 DEF SavesShrink
  <2> QED BY <2>1, <2>2, <2>3, NumberedShrinks
<1>4. ASSUME NEW d \in Deleters, RefreshAfterDelete(d) \/ DeleteFile(d) \/ DeleteFails(d)
      PROVE  Numbered'
  <2>1. UNCHANGED <<rows, acked, lastId, lastKey, saves>>
    BY <1>4 DEF RefreshAfterDelete, DeleteFile, DeleteFails, table, disk
  <2>2. DeletesGo
    BY <1>4, RefreshGoes, OverGoes
  <2>3. DeletesShrink
    BY <2>1, <2>2, DeletesGone
  <2>4. SavesShrink
    BY <2>1 DEF SavesShrink
  <2> QED BY <2>1, <2>3, <2>4, NumberedShrinks
<1>5. ASSUME NEW o \in Owners, DeleteOwner(o) PROVE Numbered'
  <2>1. rows' \subseteq rows /\ UNCHANGED <<acked, lastId, lastKey, saves, deletes>>
    BY <1>5 DEF DeleteOwner
  <2>2. DeletesShrink
    BY <2>1, DeletesGone DEF DeletesGo
  <2>3. SavesShrink
    BY <2>1 DEF SavesShrink
  <2> QED BY <2>1, <2>2, <2>3, NumberedShrinks
<1>6. ASSUME NEW S \in SUBSET Savers, NEW D \in SUBSET Deleters, Crash(S, D) PROVE Numbered'
  <2>1. UNCHANGED <<rows, acked, lastId, lastKey>>
    BY <1>6 DEF Crash
  <2> QED BY <1>6, <2>1, CrashShrinks, NumberedShrinks
<1>7. CASE Crash(Visitors, {}) \/ Crash(Operators \cup Crawls, Deleters)
  BY <1>6, <1>7 DEF Savers
<1>8. CASE UNCHANGED vars
  <2>1. UNCHANGED <<rows, acked, lastId, lastKey, deletes, saves>>
    BY <1>8 DEF vars
  <2>2. SavesShrink
    BY <2>1 DEF SavesShrink
  <2> QED BY <2>1, <2>2, DeletesStay, NumberedShrinks
<1>9. CASE Delete
  BY <1>3, <1>4, <1>5, <1>9, GetNumbered DEF Delete
<1> QED BY <1>1, <1>2, <1>7, <1>8, <1>9 DEF Next
-----------------------------------------------------------------------------
(***************************************************************************)
(* The files of the rows.                                                  *)
(***************************************************************************)
KeptBySaves ==
  \A p \in Savers :
    /\ saves[p].pc = "insert" => saves[p].sub.key \in blobs
    /\ saves[p].pc = "refresh" /\ saves[p].sub \in rows => saves[p].sub.key \in blobs

LEMMA KeptIs == Kept <=> SavedIsServed /\ KeptBySaves
  BY DEF Kept, KeptBySaves
LEMMA KeptIsPrime == ASSUME SavedIsServed', KeptBySaves' PROVE Kept'
  BY DEF Kept, KeptBySaves

\* The file k may go: no answered row and no save on its way needs it.
Unneeded(k) ==
  /\ \A x \in blobs : x # k => x \in blobs'
  /\ \A r \in rows' : r.id \in acked => r.key # k
  /\ \A p \in Savers :
       /\ saves'[p].pc = "insert" => saves[p].sub.key # k
       /\ saves'[p].pc = "refresh" /\ saves[p].sub \in rows => saves[p].sub.key # k

LEMMA KeptShrinks ==
  ASSUME Kept, rows' \subseteq rows, acked' = acked, SavesShrink,
         blobs \subseteq blobs' \/ \E k : Unneeded(k)
  PROVE  Kept'
<1>1. SavedIsServed'
  BY KeptIs DEF SavedIsServed, Served, Unneeded
<1>2. KeptBySaves'
  <2> SUFFICES ASSUME NEW p \in Savers
               PROVE  /\ saves'[p].pc = "insert" => saves'[p].sub.key \in blobs'
                      /\ saves'[p].pc = "refresh" /\ saves'[p].sub \in rows'
                           => saves'[p].sub.key \in blobs'
    BY DEF KeptBySaves
  <2>1. saves'[p].pc \in {"insert", "refresh"} =>
          saves[p].pc = saves'[p].pc /\ saves'[p].sub = saves[p].sub
    BY DEF SavesShrink, Holding
  <2>2. CASE blobs \subseteq blobs'
    BY <2>1, <2>2, KeptIs DEF KeptBySaves
  <2>3. CASE \E k : Unneeded(k)
    <3>1. PICK k : Unneeded(k)
      BY <2>3
    <3> QED BY <2>1, <3>1, KeptIs DEF KeptBySaves, Unneeded
  <2> QED BY <2>2, <2>3
<1> QED BY <1>1, <1>2, KeptIsPrime

LEMMA InitKept == Init => Kept
  BY DEF Init, Kept, SavedIsServed, NoSave

LEMMA PutKept ==
  ASSUME Types, Kept, NEW p \in Savers, Put(p)
  PROVE  Kept'
<1> DEFINE new == [saves[p].sub EXCEPT !.key = lastKey + 1]
<1>1. saves[p].sub \in Subs
  BY DEF Put, At, Types
<1>2. new.key = lastKey + 1
  BY <1>1 DEF Subs
<1>3. Moved(p, "insert", new)
  BY Steps
<1>4. UNCHANGED <<rows, acked>> /\ blobs' = blobs \cup {lastKey + 1}
  BY KeyTypes DEF Put, table
<1> HIDE DEF new
<1>5. SavedIsServed'
  BY <1>4, KeptIs DEF SavedIsServed, Served
<1>6. saves'[p].pc = "insert" /\ saves'[p].sub.key \in blobs'
  BY <1>2, <1>3, <1>4 DEF Moved
<1>7. KeptBySaves'
  BY <1>3, <1>4, <1>6, KeptIs DEF Moved, OthersStay, KeptBySaves
<1> QED BY <1>5, <1>7, KeptIsPrime

LEMMA InsertKept ==
  ASSUME Types, Numbered, Kept, NEW p \in Savers, InsertSubtitle(p)
  PROVE  Kept'
<1> DEFINE sub == saves[p].sub
           new == [sub EXCEPT !.id = lastId + 1]
<1>1. sub \in Subs /\ saves[p].pc = "insert"
  BY DEF InsertSubtitle, At, Types
<1>2. new.key = sub.key /\ new.id = lastId + 1
  BY <1>1 DEF Subs
<1>3. rows' = rows \cup {new} /\ blobs' = blobs /\ acked' \subseteq acked \cup {lastId + 1}
  BY <1>2 DEF InsertSubtitle, disk
<1>4. sub.key \in blobs
  BY <1>1, KeptIs DEF KeptBySaves
<1>5. OthersStay(p) /\ (saves'[p].pc \in Holding => saves'[p].sub = new)
  BY Steps DEF Moved, Left, Holding
<1> HIDE DEF new
<1>6. SavedIsServed'
  <2>1. \A r \in rows : r.id # lastId + 1
    BY DEF Numbered, RowsNumbered, Types, TypeOK, Keys
  <2> QED BY <1>2, <1>3, <1>4, <2>1, KeptIs DEF SavedIsServed, Served
<1>7. ASSUME NEW q \in Savers
      PROVE  /\ saves'[q].pc = "insert" => saves'[q].sub.key \in blobs'
             /\ saves'[q].pc = "refresh" /\ saves'[q].sub \in rows' => saves'[q].sub.key \in blobs'
  <2>1. CASE q = p
    BY <1>2, <1>3, <1>4, <1>5, <2>1 DEF Holding
  <2>2. CASE q # p
    <3>1. saves'[q] = saves[q] /\ SavesApart(p, q)
      BY <1>5, <2>2 DEF OthersStay, Numbered
    <3>2. saves[q].pc = "refresh" => saves[q].sub # new
      BY <1>1, <1>2, <2>2, <3>1 DEF SavesApart, Holding
    <3> QED BY <1>3, <3>1, <3>2, KeptIs DEF KeptBySaves
  <2> QED BY <2>1, <2>2
<1>8. KeptBySaves'
  BY <1>7 DEF KeptBySaves
<1> QED BY <1>6, <1>8, KeptIsPrime

LEMMA AckKept ==
  ASSUME Types, Numbered, Kept, NEW p \in Savers, RefreshAfterInsert(p)
  PROVE  Kept'
<1> DEFINE sub == saves[p].sub
<1>1. /\ saves[p].pc = "refresh" /\ UNCHANGED <<rows, blobs>>
      /\ acked' = acked \cup {sub.id}
  BY DEF RefreshAfterInsert, At, disk
<1>2. \A r \in rows : r.id = sub.id => r = sub
  BY <1>1 DEF Numbered, SaveNumbered, Holding
<1>3. SavedIsServed'
  BY <1>1, <1>2, KeptIs DEF KeptBySaves, SavedIsServed, Served
<1>4. SavesShrink
  BY Steps, LeftShrinks
<1>5. KeptBySaves'
  BY <1>1, <1>4, KeptIs DEF KeptBySaves, SavesShrink, Holding
<1> QED BY <1>3, <1>5, KeptIsPrime

\* A rollback removes no file but its own.
LEMMA RollbackKept ==
  ASSUME Types, Numbered, Kept, NEW p \in Savers, Rollback(p)
  PROVE  Kept'
<1> DEFINE k == saves[p].sub.key
<1>1. /\ saves[p].pc = "rollback" /\ UNCHANGED <<rows, acked>>
      /\ blobs' = blobs \ {k}
  BY DEF Rollback, RollbackFile, At, table
<1>2. Left(p) /\ SavesShrink
  BY Steps, LeftShrinks
<1>3. \A r \in rows : r.id \in acked => r.key # k
  BY <1>1 DEF Numbered, SaveNumbered, Holding
<1>4. ASSUME NEW q \in Savers, saves'[q].pc \in {"insert", "refresh"} PROVE saves[q].sub.key # k
  <2>1. q # p /\ saves[q].pc \in Holding /\ SavesApart(q, p)
    BY <1>2, <1>4 DEF Left, SavesShrink, Holding, Numbered
  <2> QED BY <1>1, <2>1 DEF SavesApart, Holding
<1>5. Unneeded(k)
  BY <1>1, <1>3, <1>4 DEF Unneeded
<1> QED BY <1>1, <1>2, <1>5, KeptShrinks

\* Nor does a deletion.
LEMMA DeleteFileKept ==
  ASSUME Types, Numbered, Kept, NEW d \in Deleters, DeleteFile(d)
  PROVE  Kept'
<1> DEFINE k == deletes[d].sub.key
<1>1. /\ deletes[d].pc = "file" /\ UNCHANGED <<rows, acked, saves>>
      /\ blobs' = blobs \ {k}
  BY DEF DeleteFile, table
<1>2. SavesShrink
  BY <1>1 DEF SavesShrink
<1>3. /\ \A r \in rows : r.key # k
      /\ \A q \in Savers : saves[q].pc = "insert" => saves[q].sub.key # k
  BY <1>1 DEF Numbered, DeleteNumbered
<1>4. Unneeded(k)
  BY <1>1, <1>3 DEF Unneeded
<1> QED BY <1>1, <1>2, <1>4, KeptShrinks

LEMMA StepKept == ASSUME Types, Numbered, Kept, [Next]_vars PROVE Kept'
<1>1. CASE Start
  <2>1. SavesShrink /\ UNCHANGED <<rows, acked, blobs>>
    BY <1>1, StartShrinks DEF table, disk
  <2> QED BY <2>1, KeptShrinks
<1>2. ASSUME NEW p \in Savers, Proceed(p) PROVE Kept'
  <2>1. ASSUME NEW f \in Files, PickResult(p, f) PROVE Kept'
    <3>1. Moved(p, "download", [saves[p].sub EXCEPT !.file = f])
      BY <2>1, Steps
    <3>2. SavesShrink
      BY <3>1 DEF Moved, OthersStay, SavesShrink, Holding
    <3>3. UNCHANGED <<rows, acked, blobs>>
      BY <2>1 DEF PickResult, table, disk
    <3> QED BY <3>2, <3>3, KeptShrinks
  <2>2. ASSUME TopUpDone(p) \/ DownloadFails(p) \/ PutFails(p) \/ RollbackFails(p) PROVE Kept'
    <3>1. SavesShrink
      BY <2>2, Steps, LeftShrinks
    <3>2. UNCHANGED <<rows, acked>> /\ blobs \subseteq blobs'
      BY <2>2 DEF TopUpDone, DownloadFails, PutFails, RollbackFails, table, disk
    <3> QED BY <3>1, <3>2, KeptShrinks
  <2>3. ASSUME InsertFails(p) \/ RefreshFails(p) PROVE Kept'
    <3>1. SavesShrink
      BY <2>3, Steps, MovedShrinks DEF Holding, InsertFails, RefreshFails, At
    <3>2. UNCHANGED <<rows, acked, blobs>>
      BY <2>3 DEF InsertFails, RefreshFails, table, disk
    <3> QED BY <3>1, <3>2, KeptShrinks
  <2> QED BY <1>2, <2>1, <2>2, <2>3, PutKept, InsertKept, AckKept, RollbackKept DEF Proceed
<1>3. ASSUME NEW d \in Deleters,
             DeleteRow(d) \/ RefreshAfterDelete(d) \/ DeleteFails(d)
             \/ \E r \in rows : GetSubtitle(d, r)
      PROVE  Kept'
  <2>1. rows' \subseteq rows /\ UNCHANGED <<acked, blobs, saves>>
    BY <1>3 DEF DeleteRow, RefreshAfterDelete, DeleteFails, GetSubtitle, table, disk
  <2> QED BY <2>1, KeptShrinks DEF SavesShrink
<1>4. ASSUME NEW o \in Owners, DeleteOwner(o) PROVE Kept'
  <2>1. rows' \subseteq rows /\ UNCHANGED <<acked, blobs, saves>>
    BY <1>4 DEF DeleteOwner
  <2> QED BY <2>1, KeptShrinks DEF SavesShrink
<1>5. ASSUME NEW S \in SUBSET Savers, NEW D \in SUBSET Deleters, Crash(S, D) PROVE Kept'
  <2>1. UNCHANGED <<rows, acked, blobs>>
    BY <1>5 DEF Crash
  <2> QED BY <1>5, <2>1, CrashShrinks, KeptShrinks
<1>6. CASE Crash(Visitors, {}) \/ Crash(Operators \cup Crawls, Deleters)
  BY <1>5, <1>6 DEF Savers
<1>7. CASE UNCHANGED vars
  <2>1. UNCHANGED <<rows, acked, blobs, saves>>
    BY <1>7 DEF vars
  <2> QED BY <2>1, KeptShrinks DEF SavesShrink
<1>8. CASE Delete
  BY <1>3, <1>4, <1>8, DeleteFileKept DEF Delete
<1> QED BY <1>1, <1>2, <1>6, <1>7, <1>8 DEF Next
-----------------------------------------------------------------------------
(***************************************************************************)
(* The flag.                                                               *)
(***************************************************************************)
Tells(m) == vietsub[m] = HasVietsub(m) \/ m \in missed \/ Refreshing(m)

\* Who is refreshing the flag of m goes on, or its refresh is missed.
SavesRefresh(m) ==
  \A p \in Savers : saves[p].pc = "refresh" /\ saves[p].sub.owner = m =>
    m \in missed' \/ (saves'[p].pc = "refresh" /\ saves'[p].sub = saves[p].sub)
DeletesRefresh(m) ==
  \A d \in Deleters : deletes[d].pc = "refresh" /\ deletes[d].sub.owner = m =>
    m \in missed' \/ (deletes'[d].pc = "refresh" /\ deletes'[d].sub = deletes[d].sub)

LEMMA TellsStays ==
  ASSUME NEW m \in Movies, Tells(m), vietsub'[m] = vietsub[m],
         \A r \in rows \cup rows' : r.owner = m => r \in rows /\ r \in rows',
         m \in missed => m \in missed', SavesRefresh(m), DeletesRefresh(m)
  PROVE  Tells(m)'
<1>1. CASE vietsub[m] = HasVietsub(m)
  BY <1>1 DEF Tells, HasVietsub
<1>2. CASE m \in missed
  BY <1>2 DEF Tells
<1>3. CASE Refreshing(m)
  BY <1>3 DEF Tells, Refreshing, At, SavesRefresh, DeletesRefresh
<1> QED BY <1>1, <1>2, <1>3 DEF Tells

LEMMA FlagStays ==
  ASSUME VietsubTells, owners' \subseteq owners, UNCHANGED <<rows, vietsub>>,
         missed \subseteq missed', \A m \in Movies : SavesRefresh(m) /\ DeletesRefresh(m)
  PROVE  VietsubTells'
<1> SUFFICES ASSUME NEW m \in Movies, m \in owners' PROVE Tells(m)'
  BY DEF VietsubTells, Tells
<1>1. Tells(m)
  BY DEF VietsubTells, Tells
<1> QED BY <1>1, TellsStays

\* The refresh itself: the flag is what the rows say.
LEMMA RefreshTells ==
  ASSUME Types, NEW m \in Movies, NEW vi, refreshTitleVietsub(m, vi), UNCHANGED rows
  PROVE  /\ m \in owners => vietsub'[m] = HasVietsub(m)'
         /\ \A n \in Movies : n # m => vietsub'[n] = vietsub[n]
  BY DEF Types, TypeOK, refreshTitleVietsub, HasVietsub

LEMMA InitTells == Init => VietsubTells
  BY DEF Init, VietsubTells, HasVietsub

LEMMA InsertTells ==
  ASSUME Types, VietsubTells, NEW p \in Savers, InsertSubtitle(p)
  PROVE  VietsubTells'
<1> DEFINE sub == saves[p].sub
           new == [sub EXCEPT !.id = lastId + 1]
<1>1. sub \in Subs /\ saves[p].pc = "insert"
  BY DEF InsertSubtitle, At, Types
<1>2. new.owner = sub.owner
  BY <1>1 DEF Subs
<1>3. /\ rows' = rows \cup {new}
      /\ UNCHANGED <<owners, vietsub, missed, deletes>>
  BY DEF InsertSubtitle
<1>4. OthersStay(p) /\ (sub.owner \in Movies => saves'[p].pc = "refresh" /\ saves'[p].sub = new)
  BY Steps DEF Moved, Left
<1> HIDE DEF new
<1> SUFFICES ASSUME NEW m \in Movies, m \in owners' PROVE Tells(m)'
  BY DEF VietsubTells, Tells
<1>5. Tells(m)
  BY <1>3 DEF VietsubTells, Tells
<1>6. CASE m = sub.owner
  BY <1>2, <1>4, <1>6 DEF Tells, Refreshing, At
<1>7. CASE m # sub.owner
  <2>1. \A r \in rows \cup rows' : r.owner = m => r \in rows /\ r \in rows'
    BY <1>2, <1>3, <1>7
  <2>2. SavesRefresh(m)
    BY <1>1, <1>4 DEF SavesRefresh, OthersStay
  <2>3. DeletesRefresh(m)
    BY <1>3 DEF DeletesRefresh
  <2> QED BY <1>3, <1>5, <2>1, <2>2, <2>3, TellsStays
<1> QED BY <1>6, <1>7

LEMMA AckTells ==
  ASSUME Types, VietsubTells, NEW p \in Savers, RefreshAfterInsert(p)
  PROVE  VietsubTells'
<1> DEFINE o == saves[p].sub.owner
<1>1. /\ saves[p].pc = "refresh" /\ UNCHANGED <<owners, rows, deletes>>
      /\ missed' = missed \ {o} /\ refreshTitleVietsub(o, saves[p].sub.vi)
  BY DEF RefreshAfterInsert, At
<1>2. o \in Movies
  BY <1>1 DEF Types
<1>3. OthersStay(p)
  BY Steps DEF Left
<1> SUFFICES ASSUME NEW m \in Movies, m \in owners' PROVE Tells(m)'
  BY DEF VietsubTells, Tells
<1>4. CASE m = o
  BY <1>1, <1>2, <1>4, RefreshTells DEF Tells
<1>5. CASE m # o
  <2>1. Tells(m) /\ vietsub'[m] = vietsub[m]
    BY <1>1, <1>2, <1>5, RefreshTells DEF VietsubTells, Tells
  <2>2. SavesRefresh(m)
    BY <1>3, <1>5 DEF SavesRefresh, OthersStay
  <2>3. DeletesRefresh(m)
    BY <1>1 DEF DeletesRefresh
  <2> QED BY <1>1, <1>5, <2>1, <2>2, <2>3, TellsStays
<1> QED BY <1>4, <1>5

LEMMA RefreshAfterDeleteTells ==
  ASSUME Types, VietsubTells, NEW d \in Deleters, RefreshAfterDelete(d)
  PROVE  VietsubTells'
<1> DEFINE o == deletes[d].sub.owner
<1>1. /\ deletes[d].pc = "refresh" /\ UNCHANGED <<owners, rows, saves>>
      /\ missed' = missed \ {o} /\ refreshTitleVietsub(o, FALSE)
  BY DEF RefreshAfterDelete
<1>2. o \in Movies
  BY <1>1 DEF Types
<1> SUFFICES ASSUME NEW m \in Movies, m \in owners' PROVE Tells(m)'
  BY DEF VietsubTells, Tells
<1>4. CASE m = o
  BY <1>1, <1>2, <1>4, RefreshTells DEF Tells
<1>5. CASE m # o
  <2>1. Tells(m) /\ vietsub'[m] = vietsub[m]
    BY <1>1, <1>2, <1>5, RefreshTells DEF VietsubTells, Tells
  <2>2. SavesRefresh(m)
    BY <1>1 DEF SavesRefresh
  <2>3. DeletesRefresh(m)
    BY <1>5, RefreshGoes DEF DeletesRefresh
  <2> QED BY <1>1, <1>5, <2>1, <2>2, <2>3, TellsStays
<1> QED BY <1>4, <1>5

LEMMA DeleteRowTells ==
  ASSUME Types, Numbered, VietsubTells, NEW d \in Deleters, DeleteRow(d)
  PROVE  VietsubTells'
<1> DEFINE sub == deletes[d].sub
           pc == IF sub.owner \in Movies THEN "refresh" ELSE "file"
<1>1. /\ rows' \subseteq rows /\ UNCHANGED <<owners, vietsub, missed, saves>>
      /\ deletes[d].pc = "row" /\ deletes' = [deletes EXCEPT ![d] = [pc |-> pc, sub |-> sub]]
  BY DEF DeleteRow, Deletes
<1>2. \A r \in rows \ rows' : r = sub
  BY DeleteRowShrinks
<1>3. /\ deletes'[d].pc = pc /\ deletes'[d].sub = sub
      /\ \A e \in Deleters : e # d => deletes'[e] = deletes[e]
  BY <1>1 DEF Types, TypeOK
<1> SUFFICES ASSUME NEW m \in Movies, m \in owners' PROVE Tells(m)'
  BY DEF VietsubTells, Tells
<1>4. CASE m = sub.owner
  BY <1>3, <1>4 DEF Tells, Refreshing
<1>5. CASE m # sub.owner
  <2>1. Tells(m) /\ vietsub'[m] = vietsub[m]
    BY <1>1 DEF VietsubTells, Tells
  <2>2. SavesRefresh(m)
    BY <1>1 DEF SavesRefresh
  <2>3. DeletesRefresh(m)
    BY <1>1, <1>3 DEF DeletesRefresh
  <2>4. \A r \in rows \cup rows' : r.owner = m => r \in rows /\ r \in rows'
    BY <1>1, <1>2, <1>5
  <2> QED BY <2>1, <2>2, <2>3, <2>4, <1>1, TellsStays
<1> QED BY <1>4, <1>5

LEMMA DeleteOwnerTells ==
  ASSUME VietsubTells, NEW o \in Owners, DeleteOwner(o)
  PROVE  VietsubTells'
<1>1. /\ owners' = owners \ {o} /\ rows' = {r \in rows : r.owner # o}
      /\ UNCHANGED <<vietsub, missed, saves, deletes>>
  BY DEF DeleteOwner
<1> SUFFICES ASSUME NEW m \in Movies, m \in owners' PROVE Tells(m)'
  BY DEF VietsubTells, Tells
<1>2. m # o /\ Tells(m) /\ vietsub'[m] = vietsub[m]
  BY <1>1 DEF VietsubTells, Tells
<1>3. \A r \in rows \cup rows' : r.owner = m => r \in rows /\ r \in rows'
  BY <1>1, <1>2
<1>4. SavesRefresh(m) /\ DeletesRefresh(m)
  BY <1>1 DEF SavesRefresh, DeletesRefresh
<1> QED BY <1>1, <1>2, <1>3, <1>4, TellsStays

LEMMA StepTells == ASSUME Types, Numbered, VietsubTells, [Next]_vars PROVE VietsubTells'
<1> DEFINE Same == /\ owners' \subseteq owners /\ missed \subseteq missed'
                   /\ UNCHANGED <<rows, vietsub>>
           SavesGo == \A m \in Movies : SavesRefresh(m)
           DeletesDo == \A m \in Movies : DeletesRefresh(m)
<1>0. /\ UNCHANGED saves => SavesGo
      /\ UNCHANGED deletes => DeletesDo
  BY DEF SavesRefresh, DeletesRefresh
<1>1. ASSUME Same, SavesGo, DeletesDo PROVE VietsubTells'
  BY <1>1, FlagStays
<1>2. CASE Start
  <2>1. Same /\ UNCHANGED deletes
    BY <1>2, StartShrinks DEF table, disk
  <2>2. SavesGo
    BY <1>2, StartShrinks DEF SavesRefresh
  <2> QED BY <1>0, <1>1, <2>1, <2>2
<1>3. ASSUME NEW p \in Savers, Proceed(p) PROVE VietsubTells'
  <2>1. ASSUME OthersStay(p), saves[p].pc # "refresh" PROVE SavesGo
    BY <2>1 DEF OthersStay, SavesRefresh
  <2>2. ASSUME NEW f \in Files, PickResult(p, f) PROVE VietsubTells'
    <3>1. Same /\ UNCHANGED deletes /\ saves[p].pc # "refresh"
      BY <2>2 DEF PickResult, table, disk, At
    <3>2. OthersStay(p)
      BY <2>2, Steps DEF Moved
    <3> QED BY <1>0, <1>1, <2>1, <3>1, <3>2
  <2>3. ASSUME TopUpDone(p) \/ DownloadFails(p) \/ PutFails(p) \/ Rollback(p) \/ RollbackFails(p)
        PROVE  VietsubTells'
    <3>1. Same /\ UNCHANGED deletes /\ saves[p].pc # "refresh"
      BY <2>3 DEF TopUpDone, DownloadFails, PutFails, Rollback, RollbackFails, table, disk, At
    <3>2. OthersStay(p)
      BY <2>3, Steps DEF Left
    <3> QED BY <1>0, <1>1, <2>1, <3>1, <3>2
  <2>4. ASSUME Put(p) \/ InsertFails(p) PROVE VietsubTells'
    <3>1. Same /\ UNCHANGED deletes /\ saves[p].pc # "refresh"
      BY <2>4 DEF Put, InsertFails, table, disk, At
    <3>2. OthersStay(p)
      BY <2>4, Steps DEF Moved
    <3> QED BY <1>0, <1>1, <2>1, <3>1, <3>2
  <2>5. ASSUME RefreshFails(p) PROVE VietsubTells'
    <3>1. Same /\ UNCHANGED deletes /\ missed' = missed \cup {saves[p].sub.owner}
      BY <2>5 DEF RefreshFails
    <3>2. OthersStay(p)
      BY <2>5, Steps DEF Moved
    <3>3. ASSUME NEW m \in Movies, NEW q \in Savers, saves[q].pc = "refresh", saves[q].sub.owner = m
          PROVE  m \in missed' \/ (saves'[q].pc = "refresh" /\ saves'[q].sub = saves[q].sub)
      <4>1. CASE q = p
        <5>1. saves[p].sub.owner \in missed'
          BY <2>5 DEF RefreshFails
        <5> QED BY ONLY <3>3, <4>1, <5>1
      <4>2. CASE q # p
        BY <3>2, <3>3, <4>2 DEF OthersStay
      <4> QED BY <4>1, <4>2
    <3>4. SavesGo
      BY <3>3 DEF SavesRefresh
    <3> QED BY <1>0, <1>1, <3>1, <3>4
  <2> QED BY <1>3, <2>2, <2>3, <2>4, <2>5, InsertTells, AckTells DEF Proceed
<1>4. ASSUME NEW d \in Deleters, NEW r \in rows, GetSubtitle(d, r) PROVE VietsubTells'
  <2>1. Same /\ UNCHANGED saves /\ deletes[d].pc = "idle"
        /\ \A e \in Deleters : e # d => deletes'[e] = deletes[e]
    BY <1>4 DEF GetSubtitle, Deletes, table, disk, Types, TypeOK
  <2>2. DeletesDo
    BY <2>1 DEF DeletesRefresh
  <2> QED BY <1>0, <1>1, <2>1, <2>2
<1>5. ASSUME NEW d \in Deleters, DeleteFile(d) PROVE VietsubTells'
  <2>1. Same /\ UNCHANGED saves /\ deletes[d].pc # "refresh"
    BY <1>5 DEF DeleteFile, table
  <2>2. DeletesDo
    BY <1>5, <2>1, OverGoes DEF DeletesRefresh
  <2> QED BY <1>0, <1>1, <2>1, <2>2
<1>6. ASSUME NEW d \in Deleters, DeleteFails(d) PROVE VietsubTells'
  <2>1. /\ Same /\ UNCHANGED saves
        /\ deletes[d].pc = "refresh" => deletes[d].sub.owner \in missed'
    BY <1>6 DEF DeleteFails
  <2>2. DeletesDo
    <3>1. \A e \in Deleters : e # d => deletes'[e] = deletes[e]
      BY <1>6, OverGoes
    <3>2. ASSUME NEW m \in Movies, NEW e \in Deleters,
                 deletes[e].pc = "refresh", deletes[e].sub.owner = m
          PROVE  m \in missed' \/ (deletes'[e].pc = "refresh" /\ deletes'[e].sub = deletes[e].sub)
      <4>1. deletes[d].pc = "refresh" => deletes[d].sub.owner \in missed'
        BY <2>1
      <4> QED BY ONLY <3>1, <3>2, <4>1
    <3> QED BY <3>2 DEF DeletesRefresh
  <2> QED BY <1>0, <1>1, <2>1, <2>2
<1>7. ASSUME NEW S \in SUBSET Savers, NEW D \in SUBSET Deleters, Crash(S, D) PROVE VietsubTells'
  <2>1. Same
    BY <1>7 DEF Crash
  <2>2. SavesGo
    <3>1. ASSUME NEW m \in Movies, NEW q \in Savers, saves[q].pc = "refresh", saves[q].sub.owner = m
          PROVE  m \in missed' \/ (saves'[q].pc = "refresh" /\ saves'[q].sub = saves[q].sub)
      <4>1. CASE q \in S
        <5>1. saves[q].sub.owner \in missed'
          BY <1>7, <3>1, <4>1 DEF Crash, At
        <5> QED BY ONLY <3>1, <5>1
      <4>2. CASE q \notin S
        BY <1>7, <3>1, <4>2 DEF Crash
      <4> QED BY <4>1, <4>2
    <3> QED BY <3>1 DEF SavesRefresh
  <2>3. DeletesDo
    <3>1. ASSUME NEW m \in Movies, NEW e \in Deleters,
                 deletes[e].pc = "refresh", deletes[e].sub.owner = m
          PROVE  m \in missed' \/ (deletes'[e].pc = "refresh" /\ deletes'[e].sub = deletes[e].sub)
      <4>1. CASE e \in D
        <5>1. deletes[e].sub.owner \in missed'
          BY <1>7, <3>1, <4>1 DEF Crash
        <5> QED BY ONLY <3>1, <5>1
      <4>2. CASE e \notin D
        BY <1>7, <3>1, <4>2 DEF Crash
      <4> QED BY <4>1, <4>2
    <3> QED BY <3>1 DEF DeletesRefresh
  <2> QED BY <1>1, <2>1, <2>2, <2>3
<1>8. CASE Crash(Visitors, {}) \/ Crash(Operators \cup Crawls, Deleters)
  BY <1>7, <1>8 DEF Savers
<1>9. CASE UNCHANGED vars
  <2>1. Same /\ UNCHANGED <<saves, deletes>>
    BY <1>9 DEF vars
  <2> QED BY <1>0, <1>1, <2>1
<1>10. CASE Delete
  BY <1>4, <1>5, <1>6, <1>10, DeleteRowTells, RefreshAfterDeleteTells, DeleteOwnerTells DEF Delete
<1> QED BY <1>2, <1>3, <1>8, <1>9, <1>10 DEF Next
-----------------------------------------------------------------------------
(***************************************************************************)
(* The files nobody refers to.                                             *)
(***************************************************************************)
Owing == {"insert", "rollback"}
Removing == {"refresh", "file"}

\* After the step the file k is gone, given up, or known.
Settled(k) ==
  \/ k \notin blobs' \/ k \in lost'
  \/ \E r \in rows' : r.key = k
  \/ \E p \in Savers : saves'[p].pc \in Owing /\ saves'[p].sub.key = k
  \/ \E d \in Deleters : deletes'[d].pc \in Removing /\ deletes'[d].sub.key = k

\* Whoever knows a file goes on knowing it, or it is settled.
SaveKnows(p) ==
  saves[p].pc \in Owing =>
    \/ saves'[p].pc \in Owing /\ saves'[p].sub = saves[p].sub
    \/ Settled(saves[p].sub.key)
DeleteKnows(d) ==
  deletes[d].pc \in Removing =>
    \/ deletes'[d].pc \in Removing /\ deletes'[d].sub = deletes[d].sub
    \/ Settled(deletes[d].sub.key)
RowsKnow == \A r \in rows \ rows' : Settled(r.key)

LEMMA AccountsStay ==
  ASSUME FilesAreAccountedFor, lost \subseteq lost', \A k \in blobs' \ blobs : Settled(k),
         RowsKnow, \A p \in Savers : SaveKnows(p), \A d \in Deleters : DeleteKnows(d)
  PROVE  FilesAreAccountedFor'
<1> SUFFICES ASSUME NEW k \in blobs', k \notin lost' PROVE Settled(k)
  BY DEF FilesAreAccountedFor, Settled, Owing, Removing
<1>1. CASE k \notin blobs
  BY <1>1
<1>2. CASE \E r \in rows : r.key = k
  BY <1>2 DEF RowsKnow, Settled
<1>3. ASSUME NEW p \in Savers, saves[p].pc \in Owing, saves[p].sub.key = k PROVE Settled(k)
  <2>1. CASE saves'[p].pc \in Owing /\ saves'[p].sub = saves[p].sub
    BY <1>3, <2>1 DEF Settled
  <2>2. CASE Settled(saves[p].sub.key)
    BY <1>3, <2>2
  <2> QED BY <1>3, <2>1, <2>2 DEF SaveKnows
<1>4. ASSUME NEW d \in Deleters, deletes[d].pc \in Removing, deletes[d].sub.key = k
      PROVE  Settled(k)
  <2>1. CASE deletes'[d].pc \in Removing /\ deletes'[d].sub = deletes[d].sub
    BY <1>4, <2>1 DEF Settled
  <2>2. CASE Settled(deletes[d].sub.key)
    BY <1>4, <2>2
  <2> QED BY <1>4, <2>1, <2>2 DEF DeleteKnows
<1> QED BY <1>1, <1>2, <1>3, <1>4 DEF FilesAreAccountedFor, Owing, Removing

\* When no row, no file and no deletion changes, the saves decide.
LEMMA SavesAccount ==
  ASSUME FilesAreAccountedFor, rows \subseteq rows', lost \subseteq lost', UNCHANGED deletes,
         \A k \in blobs' \ blobs : Settled(k), NEW p \in Savers, OthersStay(p), SaveKnows(p)
  PROVE  FilesAreAccountedFor'
<1>1. RowsKnow
  BY DEF RowsKnow
<1>2. \A d \in Deleters : DeleteKnows(d)
  BY DEF DeleteKnows
<1>3. \A q \in Savers : SaveKnows(q)
  BY DEF SaveKnows, OthersStay
<1> QED BY <1>1, <1>2, <1>3, AccountsStay

\* When no save changes and no file appears, the deletions and the rows do.
LEMMA DeletesAccount ==
  ASSUME FilesAreAccountedFor, blobs' \subseteq blobs, lost \subseteq lost', UNCHANGED saves,
         RowsKnow, \A d \in Deleters : DeleteKnows(d)
  PROVE  FilesAreAccountedFor'
<1>1. \A p \in Savers : SaveKnows(p)
  BY DEF SaveKnows
<1> QED BY <1>1, AccountsStay

LEMMA InitAccounted == Init => FilesAreAccountedFor
  BY DEF Init, FilesAreAccountedFor

LEMMA ProceedAccounted ==
  ASSUME Types, FilesAreAccountedFor, NEW p \in Savers, Proceed(p)
  PROVE  FilesAreAccountedFor'
<1>1. ASSUME NEW f \in Files, PickResult(p, f) PROVE FilesAreAccountedFor'
  <2>1. UNCHANGED <<rows, blobs, lost, deletes>> /\ SaveKnows(p)
    BY <1>1 DEF PickResult, At, table, disk, SaveKnows, Owing
  <2> QED BY <1>1, <2>1, Steps, SavesAccount DEF Moved
<1>2. ASSUME TopUpDone(p) \/ DownloadFails(p) PROVE FilesAreAccountedFor'
  <2>1. UNCHANGED <<rows, blobs, lost, deletes>> /\ SaveKnows(p)
    BY <1>2 DEF TopUpDone, DownloadFails, At, table, disk, SaveKnows, Owing
  <2> QED BY <1>2, <2>1, Steps, SavesAccount DEF Left
<1>3. ASSUME Put(p) PROVE FilesAreAccountedFor'
  <2>1. /\ UNCHANGED <<rows, lost, deletes>> /\ blobs' = blobs \cup {lastKey + 1}
        /\ saves[p].pc = "download" /\ saves[p].sub \in Subs
    BY <1>3, KeyTypes DEF Put, At, table, Types
  <2>2. Moved(p, "insert", [saves[p].sub EXCEPT !.key = lastKey + 1])
    BY <1>3, Steps
  <2>3. saves'[p].pc \in Owing /\ saves'[p].sub.key = lastKey + 1
    BY <2>1, <2>2 DEF Moved, Owing, Subs
  <2>4. Settled(lastKey + 1)
    BY <2>3 DEF Settled
  <2>5. SaveKnows(p)
    BY <2>1 DEF SaveKnows, Owing
  <2> QED BY <2>1, <2>2, <2>4, <2>5, SavesAccount DEF Moved
<1>4. ASSUME PutFails(p) PROVE FilesAreAccountedFor'
  <2>1. /\ UNCHANGED <<rows, deletes>> /\ blobs' \subseteq blobs \cup {lastKey + 1}
        /\ lost' = lost \cup {lastKey + 1} /\ saves[p].pc = "download"
    BY <1>4, KeyTypes DEF PutFails, At, table
  <2>2. Settled(lastKey + 1) /\ SaveKnows(p)
    BY <2>1 DEF Settled, SaveKnows, Owing
  <2> QED BY <1>4, <2>1, <2>2, Steps, SavesAccount DEF Left
<1>5. ASSUME InsertSubtitle(p) PROVE FilesAreAccountedFor'
  <2> DEFINE new == [saves[p].sub EXCEPT !.id = lastId + 1]
  <2>1. UNCHANGED <<blobs, lost, deletes>> /\ rows' = rows \cup {new} /\ saves[p].sub \in Subs
    BY <1>5 DEF InsertSubtitle, At, disk, Types
  <2>2. new.key = saves[p].sub.key
    BY <2>1 DEF Subs
  <2>3. OthersStay(p)
    BY <1>5, Steps DEF Moved, Left
  <2> HIDE DEF new
  <2>4. SaveKnows(p)
    BY <2>1, <2>2 DEF SaveKnows, Settled
  <2> QED BY <2>1, <2>3, <2>4, SavesAccount
<1>6. ASSUME InsertFails(p) \/ RefreshFails(p) PROVE FilesAreAccountedFor'
  <2>1. UNCHANGED <<rows, blobs, lost, deletes>>
    BY <1>6 DEF InsertFails, RefreshFails, table, disk
  <2>2. OthersStay(p) /\ SaveKnows(p)
    BY <1>6, Steps DEF Moved, SaveKnows, Owing
  <2> QED BY <2>1, <2>2, SavesAccount
<1>7. ASSUME RefreshAfterInsert(p) PROVE FilesAreAccountedFor'
  <2>1. UNCHANGED <<rows, blobs, lost, deletes>> /\ SaveKnows(p)
    BY <1>7 DEF RefreshAfterInsert, At, disk, SaveKnows, Owing
  <2> QED BY <1>7, <2>1, Steps, SavesAccount DEF Left
<1>8. ASSUME Rollback(p) \/ RollbackFails(p) PROVE FilesAreAccountedFor'
  <2>1. /\ UNCHANGED <<rows, deletes>> /\ blobs' \subseteq blobs /\ lost \subseteq lost'
        /\ Settled(saves[p].sub.key)
    BY <1>8 DEF Rollback, RollbackFails, RollbackFile, table, Settled
  <2> QED BY <1>8, <2>1, Steps, SavesAccount DEF Left, SaveKnows
<1> QED BY <1>1, <1>2, <1>3, <1>4, <1>5, <1>6, <1>7, <1>8 DEF Proceed

LEMMA DeleteAccounted ==
  ASSUME Types, Numbered, FilesAreAccountedFor, Delete
  PROVE  FilesAreAccountedFor'
<1>1. ASSUME NEW d \in Deleters, NEW r \in rows, GetSubtitle(d, r) PROVE FilesAreAccountedFor'
  <2>1. UNCHANGED <<rows, blobs, lost, saves>> /\ deletes[d].pc = "idle"
        /\ \A e \in Deleters : e # d => deletes'[e] = deletes[e]
    BY <1>1 DEF GetSubtitle, Deletes, table, disk, Types, TypeOK
  <2>2. RowsKnow /\ \A e \in Deleters : DeleteKnows(e)
    BY <2>1 DEF RowsKnow, DeleteKnows, Removing
  <2> QED BY <2>1, <2>2, DeletesAccount
<1>2. ASSUME NEW d \in Deleters, DeleteRow(d) PROVE FilesAreAccountedFor'
  <2> DEFINE sub == deletes[d].sub
             pc == IF sub.owner \in Movies THEN "refresh" ELSE "file"
  <2>1. /\ UNCHANGED <<blobs, lost, saves>> /\ deletes[d].pc = "row"
        /\ deletes' = [deletes EXCEPT ![d] = [pc |-> pc, sub |-> sub]]
    BY <1>2 DEF DeleteRow, Deletes, disk
  <2>2. /\ deletes'[d].pc \in Removing /\ deletes'[d].sub = sub
        /\ \A e \in Deleters : e # d => deletes'[e] = deletes[e]
    BY <2>1 DEF Types, TypeOK, Removing
  <2>3. Settled(sub.key)
    BY <2>2 DEF Settled
  <2>4. RowsKnow
    BY <1>2, <2>3, DeleteRowShrinks DEF RowsKnow
  <2>5. \A e \in Deleters : DeleteKnows(e)
    BY <2>1, <2>2 DEF DeleteKnows, Removing
  <2> QED BY <2>1, <2>4, <2>5, DeletesAccount
<1>3. ASSUME NEW d \in Deleters, RefreshAfterDelete(d) PROVE FilesAreAccountedFor'
  <2>1. UNCHANGED <<rows, blobs, lost, saves>>
    BY <1>3 DEF RefreshAfterDelete, disk
  <2>2. RowsKnow /\ \A e \in Deleters : DeleteKnows(e)
    BY <1>3, <2>1, RefreshGoes DEF RowsKnow, DeleteKnows, Removing
  <2> QED BY <2>1, <2>2, DeletesAccount
<1>4. ASSUME NEW d \in Deleters, DeleteFile(d) \/ DeleteFails(d) PROVE FilesAreAccountedFor'
  <2>1. /\ UNCHANGED <<rows, saves>> /\ blobs' \subseteq blobs /\ lost \subseteq lost'
        /\ deletes[d].pc \in Removing => Settled(deletes[d].sub.key)
    BY <1>4 DEF DeleteFile, DeleteFails, table, Settled, Removing
  <2>2. \A e \in Deleters : DeleteKnows(e)
    BY <1>4, <2>1, OverGoes DEF DeleteKnows
  <2> QED BY <2>1, <2>2, DeletesAccount DEF RowsKnow
<1>5. ASSUME NEW o \in Owners, DeleteOwner(o) PROVE FilesAreAccountedFor'
  <2>1. /\ UNCHANGED <<blobs, saves, deletes>>
        /\ lost' = lost \cup {r.key : r \in rows \ rows'}
    BY <1>5 DEF DeleteOwner
  <2>2. RowsKnow
    BY <2>1 DEF RowsKnow, Settled
  <2>3. \A d \in Deleters : DeleteKnows(d)
    BY <2>1 DEF DeleteKnows
  <2> QED BY <2>1, <2>2, <2>3, DeletesAccount
<1> QED BY <1>1, <1>2, <1>3, <1>4, <1>5 DEF Delete

LEMMA CrashAccounted ==
  ASSUME FilesAreAccountedFor, NEW S \in SUBSET Savers, NEW D \in SUBSET Deleters, Crash(S, D)
  PROVE  FilesAreAccountedFor'
<1>1. UNCHANGED <<rows, blobs>> /\ lost \subseteq lost'
  BY DEF Crash
<1>2. ASSUME NEW p \in Savers PROVE SaveKnows(p)
  <2>1. CASE p \in S
    <3>1. saves[p].pc \in Owing => saves[p].sub.key \in lost'
      BY <2>1 DEF Crash, Owing
    <3> QED BY <3>1 DEF SaveKnows, Settled
  <2>2. CASE p \notin S
    BY <2>2 DEF Crash, SaveKnows
  <2> QED BY <2>1, <2>2
<1>3. ASSUME NEW d \in Deleters PROVE DeleteKnows(d)
  <2>1. CASE d \in D
    <3>1. deletes[d].pc \in Removing => deletes[d].sub.key \in lost'
      BY <2>1 DEF Crash, Removing
    <3> QED BY <3>1 DEF DeleteKnows, Settled
  <2>2. CASE d \notin D
    BY <2>2 DEF Crash, DeleteKnows
  <2> QED BY <2>1, <2>2
<1> QED BY <1>1, <1>2, <1>3, AccountsStay DEF RowsKnow

LEMMA StepAccounted ==
  ASSUME Types, Numbered, FilesAreAccountedFor, [Next]_vars
  PROVE  FilesAreAccountedFor'
<1>1. CASE Start
  <2>1. UNCHANGED <<rows, blobs, lost, deletes>>
        /\ \A p \in Savers : saves[p].pc \in Owing => saves'[p] = saves[p]
    BY <1>1, StartShrinks DEF table, disk, Owing
  <2>2. RowsKnow /\ \A p \in Savers : SaveKnows(p)
    BY <2>1 DEF RowsKnow, SaveKnows
  <2>3. \A d \in Deleters : DeleteKnows(d)
    BY <2>1 DEF DeleteKnows
  <2> QED BY <2>1, <2>2, <2>3, AccountsStay
<1>2. CASE Crash(Visitors, {}) \/ Crash(Operators \cup Crawls, Deleters)
  BY <1>2, CrashAccounted DEF Savers
<1>3. CASE UNCHANGED vars
  BY <1>3 DEF vars, FilesAreAccountedFor
<1> QED BY <1>1, <1>2, <1>3, ProceedAccounted, DeleteAccounted DEF Next
-----------------------------------------------------------------------------
(***************************************************************************)
(* Theorems.                                                               *)
(***************************************************************************)
LEMMA SpecIInv == Spec => []IInv
<1>1. Init => IInv
  BY InitTypes, InitNumbered, InitKept, InitTells, InitAccounted DEF IInv
<1>2. IInv /\ [Next]_vars => IInv'
  <2> SUFFICES ASSUME IInv, [Next]_vars PROVE IInv'
    OBVIOUS
  <2>1. Types' /\ Numbered' /\ Kept' /\ VietsubTells' /\ FilesAreAccountedFor'
    BY StepTypes, StepNumbered, StepKept, StepTells, StepAccounted DEF IInv
  <2> QED BY <2>1 DEF IInv
<1> QED BY <1>1, <1>2, PTL DEF Spec

\* In every state the rows are subtitles of the catalogue's owners' type, a save
\* past its start has a row in the making and a crawl never has a negative room.
THEOREM SubtitleTypes == Spec => []TypeOK
<1>1. IInv => TypeOK
  BY DEF IInv, Types
<1> QED BY <1>1, SpecIInv, PTL

\* No rollback of another save, no deletion of another row, no fault takes the
\* file of a row whose save was answered (subtitleStorageKey's suffix,
\* Store.DeleteSubtitle, handleSubtitleFile).
THEOREM AnsweredIsServed == Spec => []SavedIsServed
<1>1. IInv => SavedIsServed
  BY DEF IInv, Kept
<1> QED BY <1>1, SpecIInv, PTL

\* The vietsub flag of a title says what its rows say, whoever added and deleted
\* them in whatever order, but for those still to refresh it and those that could
\* not (refreshTitleVietsub).
THEOREM FlagTellsTheRows == Spec => []VietsubTells
<1>1. IInv => VietsubTells
  BY DEF IInv
<1> QED BY <1>1, SpecIInv, PTL

\* Only a fault or the deletion of a title leaves a file nothing refers to: a
\* save that is refused rolls its file back, a deletion goes on to the file.
THEOREM NoFileIsForgotten == Spec => []FilesAreAccountedFor
<1>1. IInv => FilesAreAccountedFor
  BY DEF IInv
<1> QED BY <1>1, SpecIInv, PTL

-----------------------------------------------------------------------------
(***************************************************************************)
(* Catalogue.                                                              *)
(***************************************************************************)
Importer ==
  [pc : {"idle", "next", "known", "fetch", "torrents", "add"}, todo : SUBSET Titles,
   title : Titles \cup {Nil}, id : 0..MaxId, left : SUBSET Hashes,
   hash : Hashes \cup {Nil}]

TitlesTyped ==
  /\ titles \in [Titles -> 0..MaxId] /\ lastTitle \in 0..MaxId /\ translated \subseteq Ids
TorrentsTyped ==
  /\ videos \in [Owned -> Nat]
  /\ sources \in [Hashes -> {"absent", "magnet"} \cup Origins]
ImportsTyped == imports \in [Importers -> Importer]
RestTyped ==
  /\ harvest \in [need : SUBSET Hashes, hash : Hashes \cup {Nil}]
  /\ fetches \in [Fetches -> [pc : {"idle", "poll", "store"}, hash : Hashes \cup {Nil}]]
  /\ backfill \in [cursor : 0..MaxId, title : Titles \cup {Nil}]
  /\ streamers \in [Hashes -> {"none", "live", "resolved"}]
  /\ events \in 0..MaxEvents

\* What an importer works on: it has a title and an id once it is past its list, and
\* a torrent while it adds one.
ImportersReady ==
  \A p \in Importers :
    /\ imports[p].pc \in {"known", "fetch"} => imports[p].title \in Titles
    /\ imports[p].pc = "add" => imports[p].hash \in Hashes

\* Each title has a row of its own.
IdsApart ==
  /\ \A t \in Titles : titles[t] <= lastTitle
  /\ \A t, u \in Titles : t # u /\ titles[t] = titles[u] => titles[t] = 0

CtInv == CtTypeOK /\ ImportersReady /\ IdsApart /\ VideosAreWhole

LEMMA CtParts ==
  CtTypeOK <=> TitlesTyped /\ TorrentsTyped /\ ImportsTyped /\ RestTyped
  BY DEF CtTypeOK, TitlesTyped, TorrentsTyped, ImportsTyped, RestTyped, Importer

LEMMA CtPartsPrime ==
  ASSUME TitlesTyped', TorrentsTyped', ImportsTyped', RestTyped' PROVE CtTypeOK'
  BY DEF CtTypeOK, TitlesTyped, TorrentsTyped, ImportsTyped, RestTyped, Importer

LEMMA IdsAre == MaxId \in Nat /\ MaxEvents \in Nat /\ MaxCopies \in Nat /\ 0 \notin Ids
  BY CtConstants DEF Ids

\* The rows of the titles as the invariant has them, and the torrents.
TitlesOk == TitlesTyped /\ IdsApart
TorrentsOk == TorrentsTyped /\ VideosAreWhole
ImportsOk == ImportsTyped /\ ImportersReady

LEMMA CtInvParts == CtInv <=> TitlesOk /\ TorrentsOk /\ ImportsOk /\ RestTyped
  BY CtParts DEF CtInv, TitlesOk, TorrentsOk, ImportsOk

LEMMA CtInvPartsPrime ==
  ASSUME TitlesOk', TorrentsOk', ImportsOk', RestTyped' PROVE CtInv'
  BY CtPartsPrime DEF CtInv, TitlesOk, TorrentsOk, ImportsOk

LEMMA CtInvInit == CtInit => CtInv
<1> SUFFICES ASSUME CtInit PROVE CtInv
  OBVIOUS
<1>1. TitlesOk
  BY IdsAre DEF CtInit, TitlesOk, TitlesTyped, IdsApart
<1>2. TorrentsOk
  BY DEF CtInit, TorrentsOk, TorrentsTyped, VideosAreWhole
<1>3. NotImporting \in Importer /\ NotImporting.pc = "idle"
  BY IdsAre DEF NotImporting, Importer
<1>4. ImportsOk
  BY <1>3 DEF CtInit, ImportsOk, ImportsTyped, ImportersReady
<1>5. RestTyped
  BY IdsAre DEF CtInit, RestTyped, NotHarvesting, NotFetching, NotFilling
<1> QED BY <1>1, <1>2, <1>4, <1>5, CtInvParts

-----------------------------------------------------------------------------
(***************************************************************************)
(* What the store's operations keep.                                       *)
(***************************************************************************)
LEMMA EventsStay ==
  ASSUME RestTyped, UNCHANGED events \/ Strike PROVE events' \in 0..MaxEvents
  BY IdsAre DEF RestTyped, Strike

\* A title that is there keeps its id, and no two share one.
LEMMA Upserts ==
  ASSUME TitlesOk, NEW t \in Titles, NEW full \in BOOLEAN, UpsertTitle(t, full)
  PROVE  TitlesOk' /\ titles'[t] \in Ids /\ LiveIds \subseteq LiveIds'
<1>1. /\ titles \in [Titles -> 0..MaxId] /\ lastTitle \in 0..MaxId /\ translated \subseteq Ids
      /\ MaxId \in Nat
  BY IdsAre DEF TitlesOk, TitlesTyped
<1>2. CASE titles[t] = 0
  <2> DEFINE i == lastTitle + 1
  <2>1. /\ lastTitle' = i /\ titles' = [titles EXCEPT ![t] = i]
        /\ lastTitle < MaxId
    BY <1>2 DEF UpsertTitle
  <2>2. i \in Ids /\ i \in Nat /\ i > lastTitle /\ i \in 0..MaxId
    BY <1>1, <2>1 DEF Ids
  <2> HIDE DEF i
  <2>3. \A u \in Titles : titles'[u] = IF u = t THEN i ELSE titles[u]
    BY <1>1, <2>1
  <2>4. titles' \in [Titles -> 0..MaxId] /\ lastTitle' \in 0..MaxId
    BY <1>1, <2>1, <2>2
  <2>5. translated' \subseteq Ids
    BY <1>1, <2>2, <2>3 DEF UpsertTitle
  <2>6. \A u \in Titles : titles[u] \in Nat /\ titles[u] <= lastTitle /\ titles[u] # i
    BY <1>1, <2>2 DEF TitlesOk, IdsApart
  <2>7. IdsApart'
    BY <1>1, <2>1, <2>2, <2>3, <2>6 DEF TitlesOk, IdsApart
  <2>8. LiveIds \subseteq LiveIds'
    BY <1>2, <2>3 DEF LiveIds
  <2> QED BY <2>2, <2>3, <2>4, <2>5, <2>7, <2>8 DEF TitlesOk, TitlesTyped
<1>3. CASE titles[t] # 0
  <2>1. UNCHANGED <<titles, lastTitle>>
    BY <1>3 DEF UpsertTitle
  <2>2. titles'[t] \in Ids
    BY <1>1, <1>3, <2>1 DEF Ids
  <2>3. translated' \subseteq Ids
    BY <1>1, <2>2 DEF UpsertTitle
  <2>4. LiveIds' = LiveIds
    BY <2>1 DEF LiveIds
  <2> QED BY <1>1, <2>1, <2>2, <2>3, <2>4 DEF TitlesOk, TitlesTyped, IdsApart
<1> QED BY <1>2, <1>3

\* A torrent stays with its videos when titles come and stay.
LEMMA TorrentsStay ==
  ASSUME TorrentsOk, UNCHANGED torrents, LiveIds \subseteq LiveIds' PROVE TorrentsOk'
  BY DEF TorrentsOk, TorrentsTyped, VideosAreWhole, torrents, TorrentSourceExists

LEMMA TitlesStay ==
  ASSUME TitlesOk, UNCHANGED titleVars PROVE TitlesOk' /\ LiveIds' = LiveIds
  BY DEF TitlesOk, TitlesTyped, IdsApart, titleVars, LiveIds

\* A torrent that is saved again keeps its bytes, unless the save brings others.
LEMMA SourceIsSaved ==
  ASSUME TorrentsTyped, NEW h, NEW file \in {"magnet", "upload", "yts"},
         upsertTorrentSource(h, file)
  PROVE  /\ sources' \in [Hashes -> {"absent", "magnet"} \cup Origins]
         /\ h \in Hashes => sources'[h] # "absent"
         /\ \A g \in Hashes : sources[g] # "absent" => sources'[g] # "absent"
         /\ \A g \in Hashes : sources[g] \in Origins =>
              sources'[g] # "magnet" /\ (sources'[g] = "streamed" => sources[g] = "streamed")
  BY DEF TorrentsTyped, upsertTorrentSource, Origins

LEMMA AddsVideos ==
  ASSUME TorrentsOk, NEW id, NEW h \in Hashes, NEW n \in Nat,
         NEW file \in {"magnet", "upload", "yts"}, AddVideos(id, h, n, file),
         UNCHANGED titleVars, LiveIds \subseteq Ids
  PROVE  TorrentsOk'
<1>1. /\ TorrentsTyped /\ videos \in [Owned -> Nat] /\ id \in LiveIds
      /\ videos' = [videos EXCEPT ![<<id, h>>] = @ + n]
      /\ <<id, h>> \in Owned /\ LiveIds' = LiveIds
  BY DEF TorrentsOk, TorrentsTyped, AddVideos, Owned, titleVars, LiveIds
<1>2. videos' \in [Owned -> Nat]
  BY <1>1
<1>3. \A v \in Owned : v # <<id, h>> => videos'[v] = videos[v]
  BY <1>1
<1>4. /\ sources' \in [Hashes -> {"absent", "magnet"} \cup Origins] /\ sources'[h] # "absent"
      /\ \A g \in Hashes : sources[g] # "absent" => sources'[g] # "absent"
  BY <1>1, SourceIsSaved DEF AddVideos
<1>5. ASSUME NEW v \in Owned, videos'[v] > 0 PROVE v[1] \in LiveIds /\ sources'[v[2]] # "absent"
  <2>1. v[2] \in Hashes
    BY DEF Owned
  <2>2. CASE v = <<id, h>>
    BY <1>1, <1>4, <2>2
  <2>3. CASE v # <<id, h>>
    BY <1>3, <1>4, <1>5, <2>1, <2>3 DEF TorrentsOk, VideosAreWhole, TorrentSourceExists
  <2> QED BY <2>2, <2>3
<1> QED BY <1>1, <1>2, <1>4, <1>5
     DEF TorrentsOk, TorrentsTyped, VideosAreWhole, TorrentSourceExists

\* Only a torrent without a file is filled in.
LEMMA FillsIn ==
  ASSUME TorrentsOk, NEW h, BackfillTorrentFile(h), UNCHANGED <<titleVars, videos>>
  PROVE  /\ TorrentsOk'
         /\ \A g \in Hashes : sources[g] # "magnet" => sources'[g] = sources[g]
<1>1. /\ sources' \in [Hashes -> {"absent", "magnet"} \cup Origins]
      /\ \A g \in Hashes : /\ sources[g] # "magnet" => sources'[g] = sources[g]
                           /\ sources[g] = "magnet" => sources'[g] # "absent"
  BY DEF TorrentsOk, TorrentsTyped, BackfillTorrentFile, Origins
<1>2. LiveIds' = LiveIds
  BY DEF LiveIds, titleVars
<1>3. VideosAreWhole'
  BY <1>1, <1>2 DEF TorrentsOk, VideosAreWhole, TorrentSourceExists, Owned
<1> QED BY <1>1, <1>3 DEF TorrentsOk, TorrentsTyped

\* What BytesAreNotLost says of one step.
BytesStay ==
  \A h \in Hashes : sources[h] \in Origins =>
    /\ sources'[h] # "magnet"
    /\ sources'[h] = "streamed" => sources[h] = "streamed"
    /\ sources'[h] = "absent" => \A i \in Ids : videos'[<<i, h>>] = 0

LEMMA SourcesUntouched ==
  ASSUME UNCHANGED sources PROVE BytesStay
  BY DEF BytesStay, Origins

LEMMA RestStays ==
  ASSUME RestTyped, UNCHANGED <<harvest, fetches, backfill, streamers>>,
         UNCHANGED events \/ Strike
  PROVE  RestTyped'
  BY EventsStay DEF RestTyped

LEMMA ImportsStay ==
  ASSUME ImportsOk, UNCHANGED imports PROVE ImportsOk'
  BY DEF ImportsOk, ImportsTyped, ImportersReady

\* One importer goes on with another record.
LEMMA ImporterChanges ==
  ASSUME ImportsOk, NEW p \in Importers, NEW r \in Importer,
         r.pc \in {"known", "fetch"} => r.title \in Titles,
         r.pc = "add" => r.hash \in Hashes,
         imports' = [imports EXCEPT ![p] = r]
  PROVE  ImportsOk'
  BY DEF ImportsOk, ImportsTyped, ImportersReady

LEMMA Idle == NotImporting \in Importer /\ NotImporting.pc = "idle"
  BY IdsAre DEF NotImporting, Importer

LEMMA IsDone ==
  ASSUME ImportsOk, NEW p \in Importers, Done(p) PROVE ImportsOk'
  BY Idle, ImporterChanges DEF Done

LEMMA GoesToNext ==
  ASSUME ImportsOk, NEW p \in Importers, NextMovie(p) PROVE ImportsOk'
<1>1. CASE p \in Clicks
  BY <1>1, IsDone DEF NextMovie
<1>2. CASE p \notin Clicks
  <2> DEFINE r == [NotImporting EXCEPT !.pc = "next", !.todo = imports[p].todo]
  <2>1. r \in Importer /\ r.pc = "next"
    <3>1. imports[p].todo \in SUBSET Titles
      BY DEF ImportsOk, ImportsTyped, Importer
    <3>2. r = [NotImporting EXCEPT !.pc = "next", !.todo = imports[p].todo]
      OBVIOUS
    <3> QED BY <3>1, Idle DEF Importer, NotImporting
  <2>2. imports' = [imports EXCEPT ![p] = r]
    BY <1>2 DEF NextMovie
  <2> HIDE DEF r
  <2> QED BY <2>1, <2>2, ImporterChanges
<1> QED BY <1>1, <1>2

\* An importer that goes on with a record it has changed, at the place named.
LEMMA GoesOn ==
  ASSUME ImportsOk, NEW p \in Importers, NEW r \in Importer,
         NEW pc \in {"idle", "next", "known", "fetch", "torrents", "add"},
         pc \in {"known", "fetch"} => r.title \in Titles,
         pc = "add" => r.hash \in Hashes,
         Importing(p, pc, r)
  PROVE  ImportsOk'
<1> DEFINE s == [r EXCEPT !.pc = pc]
<1>1. s \in Importer /\ s.pc = pc /\ s.title = r.title /\ s.hash = r.hash
  BY DEF Importer
<1>2. imports' = [imports EXCEPT ![p] = s]
  BY DEF Importing
<1> HIDE DEF s
<1> QED BY <1>1, <1>2, ImporterChanges

LEMMA ImporterIs ==
  ASSUME ImportsOk, NEW p \in Importers
  PROVE  /\ imports[p] \in Importer
         /\ imports[p].pc \in {"known", "fetch"} => imports[p].title \in Titles
         /\ imports[p].pc = "add" => imports[p].hash \in Hashes
  BY DEF ImportsOk, ImportsTyped, ImportersReady

LEMMA LiveAreIds ==
  ASSUME TitlesOk PROVE LiveIds \subseteq Ids
  BY IdsAre DEF TitlesOk, TitlesTyped, LiveIds, Ids

-----------------------------------------------------------------------------
(***************************************************************************)
(* The operator's pages.                                                   *)
(***************************************************************************)
LEMMA DeletesTitle ==
  ASSUME CtInv, NEW t \in Titles, DeleteTitle(t) PROVE CtInv' /\ BytesStay
<1>1. TitlesOk /\ TorrentsOk /\ ImportsOk /\ RestTyped
  BY CtInvParts
<1>2. /\ titles' = [titles EXCEPT ![t] = 0] /\ titles[t] # 0
      /\ titles \in [Titles -> 0..MaxId] /\ lastTitle' = lastTitle
      /\ \A u \in Titles : titles'[u] = IF u = t THEN 0 ELSE titles[u]
  BY <1>1 DEF DeleteTitle, TitlesOk, TitlesTyped
<1>3. TitlesOk'
  <2>1. TitlesTyped'
    BY <1>1, <1>2, IdsAre DEF DeleteTitle, TitlesOk, TitlesTyped
  <2>2. IdsApart'
    BY <1>1, <1>2, IdsAre DEF TitlesOk, TitlesTyped, IdsApart
  <2> QED BY <2>1, <2>2 DEF TitlesOk
<1>4. \A i \in LiveIds : i # titles[t] => i \in LiveIds'
  BY <1>2 DEF LiveIds
<1>5. TorrentsOk'
  <2>1. videos' = [v \in Owned |-> IF v[1] = titles[t] THEN 0 ELSE videos[v]]
    BY DEF DeleteTitle
  <2>2. TorrentsTyped'
    BY <1>1, <2>1 DEF DeleteTitle, TorrentsOk, TorrentsTyped
  <2>3. \A v \in Owned : videos'[v] > 0 => v[1] # titles[t] /\ videos[v] > 0
    BY <2>1
  <2>4. VideosAreWhole'
    BY <1>1, <1>4, <2>3 DEF TorrentsOk, VideosAreWhole, TorrentSourceExists, DeleteTitle
  <2> QED BY <2>2, <2>4 DEF TorrentsOk
<1>6. ImportsOk' /\ RestTyped' /\ BytesStay
  BY <1>1, ImportsStay, RestStays, SourcesUntouched DEF DeleteTitle, workers
<1> QED BY <1>3, <1>5, <1>6, CtInvPartsPrime

LEMMA DeletesVideo ==
  ASSUME CtInv, NEW v \in Owned, DeleteVideo(v) PROVE CtInv' /\ BytesStay
<1>1. TitlesOk /\ TorrentsOk /\ ImportsOk /\ RestTyped
  BY CtInvParts
<1> DEFINE left == \E i \in Ids : videos'[<<i, v[2]>>] > 0
<1>2. /\ videos \in [Owned -> Nat] /\ videos[v] > 0 /\ v[2] \in Hashes
      /\ videos' = [videos EXCEPT ![v] = @ - 1]
      /\ sources' = [sources EXCEPT ![v[2]] = IF left THEN @ ELSE "absent"]
      /\ sources \in [Hashes -> {"absent", "magnet"} \cup Origins]
  BY <1>1 DEF DeleteVideo, TorrentsOk, TorrentsTyped, Owned
<1>3. /\ videos' \in [Owned -> Nat]
      /\ \A w \in Owned : videos'[w] > 0 => videos[w] > 0
  BY <1>2
<1>4. /\ \A h \in Hashes : h # v[2] => sources'[h] = sources[h]
      /\ left => sources'[v[2]] = sources[v[2]]
      /\ ~left => sources'[v[2]] = "absent"
  BY <1>2
<1>5. ~left => \A i \in Ids : videos'[<<i, v[2]>>] = 0
  <2>1. \A i \in Ids : videos'[<<i, v[2]>>] \in Nat
    BY <1>2, <1>3 DEF Owned
  <2> QED BY <2>1
<1>6. \A w \in Owned : videos'[w] > 0 => sources'[w[2]] # "absent"
  <2> SUFFICES ASSUME NEW w \in Owned, videos'[w] > 0 PROVE sources'[w[2]] # "absent"
    OBVIOUS
  <2>1. w[1] \in Ids /\ w[2] \in Hashes /\ w = <<w[1], w[2]>>
    BY DEF Owned
  <2>2. sources[w[2]] # "absent"
    BY <1>1, <1>3 DEF TorrentsOk, VideosAreWhole, TorrentSourceExists
  <2>3. CASE w[2] = v[2]
    BY <1>4, <2>1, <2>2, <2>3
  <2>4. CASE w[2] # v[2]
    BY <1>4, <2>1, <2>2, <2>4
  <2> QED BY <2>3, <2>4
<1>7. TitlesOk' /\ LiveIds' = LiveIds
  BY <1>1, TitlesStay DEF DeleteVideo
<1>8. TorrentsOk'
  <2>1. sources' \in [Hashes -> {"absent", "magnet"} \cup Origins]
    BY <1>2
  <2> QED BY <1>1, <1>3, <1>6, <1>7, <2>1
      DEF TorrentsOk, TorrentsTyped, VideosAreWhole, TorrentSourceExists
<1>9. BytesStay
  BY <1>4, <1>5 DEF BytesStay, Origins
<1>10. ImportsOk' /\ RestTyped'
  BY <1>1, ImportsStay, RestStays DEF DeleteVideo, workers
<1> QED BY <1>7, <1>8, <1>9, <1>10, CtInvPartsPrime

LEMMA ImportsTitle ==
  ASSUME CtInv, NEW t \in Titles, NEW full \in BOOLEAN, ImportTitle(t, full)
  PROVE  CtInv' /\ BytesStay
<1>1. TitlesOk /\ TorrentsOk /\ ImportsOk /\ RestTyped
  BY CtInvParts
<1>2. TitlesOk' /\ LiveIds \subseteq LiveIds'
  BY <1>1, Upserts DEF ImportTitle
<1>3. TorrentsOk' /\ ImportsOk' /\ BytesStay
  BY <1>1, <1>2, TorrentsStay, ImportsStay, SourcesUntouched DEF ImportTitle, workers, torrents
<1>4. RestTyped'
  BY <1>1, RestStays DEF ImportTitle, workers, FetchTitle
<1> QED BY <1>2, <1>3, <1>4, CtInvPartsPrime

\* A save adds videos and stores the torrent; only bytes replace bytes.
LEMMA Saves ==
  ASSUME TitlesOk, TorrentsOk, NEW id, NEW h \in Hashes, NEW n \in Nat,
         NEW file \in {"magnet", "upload", "yts"}, AddVideos(id, h, n, file),
         UNCHANGED titleVars
  PROVE  TitlesOk' /\ TorrentsOk' /\ BytesStay
<1>1. TitlesOk' /\ TorrentsOk'
  BY TitlesStay, LiveAreIds, AddsVideos
<1>2. BytesStay
  <2>1. /\ \A g \in Hashes : sources[g] # "absent" => sources'[g] # "absent"
        /\ \A g \in Hashes : sources[g] \in Origins =>
             sources'[g] # "magnet" /\ (sources'[g] = "streamed" => sources[g] = "streamed")
    BY SourceIsSaved DEF AddVideos, TorrentsOk
  <2> QED BY <2>1 DEF BytesStay, Origins
<1> QED BY <1>1, <1>2

LEMMA SavesVideo ==
  ASSUME CtInv, NEW t \in Titles, NEW h \in Hashes, NEW file \in {"magnet", "upload"},
         SaveVideo(t, h, file)
  PROVE  CtInv' /\ BytesStay
<1>1. TitlesOk /\ TorrentsOk /\ ImportsOk /\ RestTyped
  BY CtInvParts
<1>2. TitlesOk' /\ TorrentsOk' /\ BytesStay
  BY <1>1, Saves DEF SaveVideo
<1>3. ImportsOk' /\ RestTyped'
  BY <1>1, ImportsStay, RestStays DEF SaveVideo, workers
<1> QED BY <1>2, <1>3, CtInvPartsPrime

LEMMA SavesVideos ==
  ASSUME CtInv, NEW t \in Titles, NEW h \in Hashes, NEW file \in {"magnet", "upload"},
         NEW n \in Nat, SaveVideoBatch(t, h, n, file)
  PROVE  CtInv' /\ BytesStay
<1>1. TitlesOk /\ TorrentsOk /\ ImportsOk /\ RestTyped
  BY CtInvParts
<1>2. TitlesOk' /\ TorrentsOk' /\ BytesStay
  BY <1>1, Saves DEF SaveVideoBatch
<1>3. ImportsOk' /\ RestTyped'
  BY <1>1, ImportsStay, RestStays DEF SaveVideoBatch, workers
<1> QED BY <1>2, <1>3, CtInvPartsPrime

-----------------------------------------------------------------------------
(***************************************************************************)
(* The importers.                                                          *)
(***************************************************************************)
LEMMA OnlyImports ==
  ASSUME CtInv, ImportsOk', UNCHANGED events \/ Strike,
         UNCHANGED <<titleVars, torrents, harvest, fetches, backfill, streamers>>
  PROVE  CtInv' /\ BytesStay
<1>1. TitlesOk /\ TorrentsOk /\ RestTyped
  BY CtInvParts
<1>2. TitlesOk' /\ LiveIds' = LiveIds
  BY <1>1, TitlesStay
<1>3. TorrentsOk' /\ BytesStay
  BY <1>1, <1>2, TorrentsStay, SourcesUntouched DEF torrents
<1>4. RestTyped'
  BY <1>1, RestStays
<1> QED BY <1>2, <1>3, <1>4, CtInvPartsPrime

LEMMA StartsCrawl ==
  ASSUME CtInv, NEW j \in Jobs, StartCrawl(j) PROVE CtInv' /\ BytesStay
<1> DEFINE r == [imports[j] EXCEPT !.todo = Titles]
<1>1. ImportsOk /\ j \in Importers
  BY CtInvParts DEF Importers
<1>2. r \in Importer
  BY <1>1, ImporterIs DEF Importer
<1>3. Importing(j, "next", r)
  BY DEF StartCrawl
<1> HIDE DEF r
<1>4. ImportsOk'
  BY <1>1, <1>2, <1>3, GoesOn
<1> QED BY <1>4, OnlyImports DEF StartCrawl

LEMMA TakesMovie ==
  ASSUME CtInv, NEW j \in Jobs, NEW t \in Titles, TakeMovie(j, t) PROVE CtInv' /\ BytesStay
<1> DEFINE rest == [imports[j] EXCEPT !.todo = @ \ {t}, !.title = t]
           none == [rest EXCEPT !.title = Nil]
<1>1. ImportsOk /\ j \in Importers
  BY CtInvParts DEF Importers
<1>2. rest \in Importer /\ rest.title = t
  BY <1>1, ImporterIs DEF Importer
<1>3. none \in Importer
  <2> HIDE DEF rest
  <2> QED BY <1>2 DEF Importer
<1>4. \/ Importing(j, "next", none)
      \/ Importing(j, "fetch", rest)
      \/ Importing(j, "known", rest)
  BY DEF TakeMovie
<1> HIDE DEF rest, none
<1>5. ImportsOk'
  BY <1>1, <1>2, <1>3, <1>4, GoesOn
<1> QED BY <1>5, OnlyImports DEF TakeMovie

LEMMA SkipsKnown ==
  ASSUME CtInv, NEW j \in Jobs, SkipKnown(j) PROVE CtInv' /\ BytesStay
<1>1. ImportsOk /\ j \in Importers
  BY CtInvParts DEF Importers
<1>2. imports[j] \in Importer /\ imports[j].title \in Titles
  BY <1>1, ImporterIs DEF SkipKnown, ImportAt
<1>3. Importing(j, "fetch", imports[j]) \/ NextMovie(j)
  BY DEF SkipKnown
<1>4. ImportsOk'
  BY <1>1, <1>2, <1>3, GoesOn, GoesToNext
<1> QED BY <1>4, OnlyImports DEF SkipKnown

LEMMA ImportsMovie ==
  ASSUME CtInv, NEW j \in Jobs, NEW full \in BOOLEAN, ImportMovie(j, full)
  PROVE  CtInv' /\ BytesStay
<1> DEFINE t == imports[j].title
<1>1. /\ TitlesOk /\ TorrentsOk /\ ImportsOk /\ RestTyped /\ j \in Importers
  BY CtInvParts DEF Importers
<1>2. imports[j] \in Importer /\ t \in Titles /\ UpsertTitle(t, full)
  BY <1>1, ImporterIs DEF ImportMovie, ImportAt
<1> HIDE DEF t
<1>3. TitlesOk' /\ titles'[t] \in Ids /\ LiveIds \subseteq LiveIds'
  BY <1>1, <1>2, Upserts
<1>4. ImportsOk'
  <2> DEFINE r == [imports[j] EXCEPT !.id = titles'[t], !.left = Offers[t]]
  <2>1. Offers[t] \in SUBSET Hashes /\ titles'[t] \in 0..MaxId
    BY <1>2, <1>3, CtConstants, IdsAre DEF Ids
  <2>2. r \in Importer
    BY <1>2, <2>1 DEF Importer
  <2>3. Importing(j, "torrents", r)
    BY DEF ImportMovie, t
  <2> HIDE DEF r
  <2> QED BY <1>1, <2>2, <2>3, GoesOn
<1>5. TorrentsOk' /\ BytesStay
  BY <1>1, <1>3, TorrentsStay, SourcesUntouched DEF ImportMovie, torrents
<1>6. RestTyped'
  BY <1>1, RestStays DEF ImportMovie, FetchTitle
<1> QED BY <1>3, <1>4, <1>5, <1>6, CtInvPartsPrime

LEMMA ClicksImport ==
  ASSUME CtInv, NEW c \in Clicks, NEW t \in Titles, ClickImport(c, t)
  PROVE  CtInv' /\ BytesStay
<1> DEFINE r == [imports[c] EXCEPT !.title = t, !.id = titles[t], !.left = Offers[t]]
<1>1. TitlesOk /\ ImportsOk /\ c \in Importers
  BY CtInvParts DEF Importers
<1>2. Offers[t] \in SUBSET Hashes /\ titles[t] \in 0..MaxId
  BY <1>1, CtConstants DEF TitlesOk, TitlesTyped
<1>3. r \in Importer
  BY <1>1, <1>2, ImporterIs DEF Importer
<1>4. Importing(c, "torrents", r)
  BY DEF ClickImport
<1> HIDE DEF r
<1>5. ImportsOk'
  BY <1>1, <1>3, <1>4, GoesOn
<1> QED BY <1>5, OnlyImports DEF ClickImport

LEMMA ChecksTorrent ==
  ASSUME CtInv, NEW p \in Importers, NEW h \in Hashes, CheckTorrent(p, h)
  PROVE  CtInv' /\ BytesStay
<1> DEFINE rest == [imports[p] EXCEPT !.left = @ \ {h}]
           new == [rest EXCEPT !.hash = h]
<1>1. ImportsOk
  BY CtInvParts
<1>2. rest \in Importer
  BY <1>1, ImporterIs DEF Importer
<1>3. new \in Importer /\ new.hash = h
  <2> HIDE DEF rest
  <2> QED BY <1>2 DEF Importer
<1>4. Importing(p, "torrents", rest) \/ Importing(p, "add", new)
  BY DEF CheckTorrent
<1> HIDE DEF rest, new
<1>5. ImportsOk'
  BY <1>1, <1>2, <1>3, <1>4, GoesOn
<1> QED BY <1>5, OnlyImports DEF CheckTorrent

LEMMA DropsHash ==
  ASSUME ImportsOk, NEW p \in Importers,
         Importing(p, "torrents", [imports[p] EXCEPT !.hash = Nil])
  PROVE  ImportsOk'
<1> DEFINE r == [imports[p] EXCEPT !.hash = Nil]
<1>1. r \in Importer
  BY ImporterIs DEF Importer
<1>2. Importing(p, "torrents", r)
  OBVIOUS
<1> HIDE DEF r
<1> QED BY <1>1, <1>2, GoesOn

\* A torrent that is added goes to the title the importer looked up, if it is there.
LEMMA AddsTorrent ==
  ASSUME CtInv, NEW p \in Importers, AddTorrent(p) PROVE CtInv' /\ BytesStay
<1>1. TitlesOk /\ TorrentsOk /\ ImportsOk /\ RestTyped /\ imports[p].hash \in Hashes
  BY CtInvParts, ImporterIs DEF AddTorrent, ImportAt
<1>2. ImportsOk'
  BY <1>1, DropsHash DEF AddTorrent
<1>3. CASE imports[p].id \in LiveIds
  <2>1. AddVideos(imports[p].id, imports[p].hash, 1, "yts") /\ UNCHANGED titleVars
    BY <1>3 DEF AddTorrent
  <2>2. TitlesOk' /\ TorrentsOk' /\ BytesStay
    BY <1>1, <2>1, Saves
  <2>3. RestTyped'
    BY <1>1, RestStays DEF AddTorrent
  <2> QED BY <1>2, <2>2, <2>3, CtInvPartsPrime
<1>4. CASE imports[p].id \notin LiveIds
  BY <1>2, <1>4, OnlyImports DEF AddTorrent
<1> QED BY <1>3, <1>4

LEMMA GoesPast ==
  ASSUME CtInv, NEW p \in Importers, SkipTorrent(p) \/ MovieDone(p) \/ MovieFails(p)
  PROVE  CtInv' /\ BytesStay
<1>1. ImportsOk
  BY CtInvParts
<1>2. ImportsOk'
  <2>1. CASE SkipTorrent(p)
    BY <1>1, <2>1, DropsHash DEF SkipTorrent
  <2>2. CASE MovieDone(p) \/ MovieFails(p)
    BY <1>1, <2>2, GoesToNext DEF MovieDone, MovieFails
  <2> QED BY <2>1, <2>2
<1> QED BY <1>2, OnlyImports DEF SkipTorrent, MovieDone, MovieFails

LEMMA CrawlEnds ==
  ASSUME CtInv, NEW j \in Jobs, FinishCrawl(j) \/ AbortCrawl(j)
  PROVE  CtInv' /\ BytesStay
<1>1. ImportsOk /\ j \in Importers
  BY CtInvParts DEF Importers
<1>2. ImportsOk'
  BY <1>1, IsDone DEF FinishCrawl, AbortCrawl
<1> QED BY <1>2, OnlyImports DEF FinishCrawl, AbortCrawl
-----------------------------------------------------------------------------
(***************************************************************************)
(* The harvester, the button, the streamers and the backfill.              *)
(***************************************************************************)
LEMMA OnlyRest ==
  ASSUME CtInv, RestTyped', ImportsOk', UNCHANGED <<titleVars, torrents>>
  PROVE  CtInv' /\ BytesStay
<1>1. TitlesOk /\ TorrentsOk /\ TitlesOk' /\ LiveIds' = LiveIds
  BY CtInvParts, TitlesStay
<1>2. TorrentsOk' /\ BytesStay
  BY <1>1, TorrentsStay, SourcesUntouched DEF torrents
<1> QED BY <1>1, <1>2, CtInvPartsPrime

LEMMA Harvests ==
  ASSUME CtInv, HarvestTick \/ \E h \in Hashes : HarvestFile(h) \/ HarvestFails(h)
  PROVE  CtInv' /\ BytesStay
<1>1. ImportsOk /\ RestTyped
  BY CtInvParts
<1>2. events' \in 0..MaxEvents
  BY <1>1, EventsStay DEF HarvestTick, HarvestFile, HarvestFails
<1>3. harvest' \in [need : SUBSET Hashes, hash : Hashes \cup {Nil}]
  <2>1. CASE HarvestTick
    BY <1>1, <2>1 DEF HarvestTick, RestTyped
  <2>2. CASE \E h \in Hashes : HarvestFile(h)
    BY <1>1, <2>2 DEF HarvestFile, RestTyped
  <2>3. CASE \E h \in Hashes : HarvestFails(h)
    BY <1>1, <2>3 DEF HarvestFails, RestTyped
  <2> QED BY <2>1, <2>2, <2>3
<1>4. RestTyped'
  BY <1>1, <1>2, <1>3 DEF HarvestTick, HarvestFile, HarvestFails, RestTyped
<1>5. UNCHANGED <<titleVars, torrents, imports>>
  BY DEF HarvestTick, HarvestFile, HarvestFails
<1> QED BY <1>1, <1>4, <1>5, ImportsStay, OnlyRest

\* The answer of a streamer goes to a torrent without a file only.
LEMMA Stores ==
  ASSUME CtInv, HarvestStore \/ \E f \in Fetches : FetchStore(f)
  PROVE  CtInv' /\ BytesStay
<1>1. TitlesOk /\ TorrentsOk /\ ImportsOk /\ RestTyped
  BY CtInvParts
<1>2. /\ UNCHANGED <<titleVars, videos>> /\ UNCHANGED imports
      /\ \E h : BackfillTorrentFile(h)
  BY DEF HarvestStore, FetchStore
<1>3. TorrentsOk' /\ \A g \in Hashes : sources[g] # "magnet" => sources'[g] = sources[g]
  BY <1>1, <1>2, FillsIn
<1>4. BytesStay
  BY <1>3 DEF BytesStay, Origins
<1>5. RestTyped'
  <2>1. CASE HarvestStore
    BY <1>1, <2>1 DEF HarvestStore, RestTyped
  <2>2. CASE \E f \in Fetches : FetchStore(f)
    BY <1>1, <2>2 DEF FetchStore, RestTyped, NotFetching
  <2> QED BY <2>1, <2>2
<1> QED BY <1>1, <1>2, <1>3, <1>4, <1>5, TitlesStay, ImportsStay, CtInvPartsPrime

LEMMA FetchesFile ==
  ASSUME CtInv, NEW f \in Fetches, NEW h \in Hashes, FetchFile(f, h)
  PROVE  CtInv' /\ BytesStay
<1>1. ImportsOk /\ RestTyped
  BY CtInvParts
<1>2. events' \in 0..MaxEvents
  BY <1>1, EventsStay DEF FetchFile
<1>3. RestTyped'
  BY <1>1, <1>2 DEF FetchFile, RestTyped
<1> QED BY <1>1, <1>3, ImportsStay, OnlyRest DEF FetchFile

LEMMA PollsMetainfo ==
  ASSUME CtInv, NEW f \in Fetches, PollMetainfo(f) PROVE CtInv' /\ BytesStay
<1>1. ImportsOk /\ RestTyped
  BY CtInvParts
<1>2. RestTyped'
  BY <1>1 DEF PollMetainfo, RestTyped, NotFetching
<1> QED BY <1>1, <1>2, ImportsStay, OnlyRest DEF PollMetainfo

LEMMA StreamersMove ==
  ASSUME CtInv, NEW h \in Hashes, Play(h) \/ Resolve(h) \/ DropTorrent(h)
  PROVE  CtInv' /\ BytesStay
<1>1. ImportsOk /\ RestTyped
  BY CtInvParts
<1>2. events' \in 0..MaxEvents
  BY <1>1, EventsStay DEF Play, Resolve, DropTorrent
<1>3. streamers' \in [Hashes -> {"none", "live", "resolved"}]
  BY <1>1 DEF Play, Resolve, DropTorrent, RestTyped
<1>4. RestTyped'
  BY <1>1, <1>2, <1>3 DEF Play, Resolve, DropTorrent, RestTyped, workers
<1>5. UNCHANGED <<titleVars, torrents, imports>>
  BY DEF Play, Resolve, DropTorrent, workers
<1> QED BY <1>1, <1>4, <1>5, ImportsStay, OnlyRest

LEMMA BackfillMoves ==
  ASSUME CtInv, (\E t \in Titles : SelectMissing(t)) \/ RestartRound \/ FillFails
  PROVE  CtInv' /\ BytesStay
<1>1. TitlesOk /\ ImportsOk /\ RestTyped
  BY CtInvParts
<1>2. events' \in 0..MaxEvents
  BY <1>1, EventsStay DEF SelectMissing, RestartRound, FillFails
<1>3. backfill' \in [cursor : 0..MaxId, title : Titles \cup {Nil}]
  <2>1. CASE \E t \in Titles : SelectMissing(t)
    BY <1>1, <2>1 DEF SelectMissing, TitlesOk, TitlesTyped
  <2>2. CASE RestartRound
    BY <1>1, <2>2, IdsAre DEF RestartRound, RestTyped
  <2>3. CASE FillFails
    BY <1>1, <2>3 DEF FillFails, RestTyped
  <2> QED BY <2>1, <2>2, <2>3
<1>4. RestTyped'
  BY <1>1, <1>2, <1>3 DEF SelectMissing, RestartRound, FillFails, RestTyped
<1>5. UNCHANGED <<titleVars, torrents, imports>>
  BY DEF SelectMissing, RestartRound, FillFails
<1> QED BY <1>1, <1>4, <1>5, ImportsStay, OnlyRest

LEMMA Fills ==
  ASSUME CtInv, NEW full \in BOOLEAN, FillTranslation(full) PROVE CtInv' /\ BytesStay
<1>1. TitlesOk /\ TorrentsOk /\ ImportsOk /\ RestTyped
  BY CtInvParts
<1>2. backfill.title \in Titles /\ UpsertTitle(backfill.title, full)
  BY <1>1 DEF FillTranslation, RestTyped
<1>3. TitlesOk' /\ LiveIds \subseteq LiveIds'
  BY <1>1, <1>2, Upserts
<1>4. TorrentsOk' /\ ImportsOk' /\ BytesStay
  BY <1>1, <1>3, TorrentsStay, ImportsStay, SourcesUntouched DEF FillTranslation, torrents
<1>5. events' \in 0..MaxEvents
  BY <1>1, EventsStay DEF FillTranslation, FetchTitle
<1>6. RestTyped'
  BY <1>1, <1>5 DEF FillTranslation, RestTyped
<1> QED BY <1>3, <1>4, <1>6, CtInvPartsPrime

LEMMA Restarts ==
  ASSUME CtInv, Restart PROVE CtInv' /\ BytesStay
<1>1. ImportsOk /\ RestTyped
  BY CtInvParts
<1>2. ImportsOk'
  BY Idle DEF Restart, ImportsOk, ImportsTyped, ImportersReady
<1>3. events' \in 0..MaxEvents
  BY <1>1, EventsStay DEF Restart
<1>4. RestTyped'
  BY <1>1, <1>3, IdsAre DEF Restart, RestTyped, NotHarvesting, NotFetching, NotFilling
<1> QED BY <1>2, <1>4, OnlyRest DEF Restart

-----------------------------------------------------------------------------
LEMMA CtInvStutter == ASSUME CtInv, UNCHANGED ctVars PROVE CtInv'
<1>1. /\ UNCHANGED <<titleVars, torrents, imports, harvest, fetches, backfill, streamers>>
      /\ UNCHANGED events
  BY DEF ctVars, titleVars, torrents
<1> QED BY <1>1, CtInvParts, ImportsStay, OnlyImports

LEMMA OperatorSteps == ASSUME CtInv, Operator PROVE CtInv' /\ BytesStay
<1>1. ASSUME NEW t \in Titles, DeleteTitle(t) \/ \E full \in BOOLEAN : ImportTitle(t, full)
      PROVE  CtInv' /\ BytesStay
  BY <1>1, DeletesTitle, ImportsTitle
<1>2. ASSUME NEW t \in Titles, NEW h \in Hashes, NEW file \in {"magnet", "upload"},
             \/ SaveVideo(t, h, file)
             \/ \E n \in 1..MaxCopies : SaveVideoBatch(t, h, n, file)
      PROVE  CtInv' /\ BytesStay
  BY <1>2, IdsAre, SavesVideo, SavesVideos
<1>3. ASSUME NEW f \in Fetches, NEW h \in Hashes, FetchFile(f, h) PROVE CtInv' /\ BytesStay
  BY <1>3, FetchesFile
<1> QED BY <1>1, <1>2, <1>3, DeletesVideo, ClicksImport DEF Operator

LEMMA CtInvStep == CtInv /\ [CtNext]_ctVars => CtInv' /\ [BytesStay]_ctVars
<1> SUFFICES ASSUME CtInv, [CtNext]_ctVars PROVE CtInv' /\ [BytesStay]_ctVars
  OBVIOUS
<1>1. ASSUME NEW j \in Jobs, StartCrawl(j) \/ CrawlStep(j) \/ AbortCrawl(j)
      PROVE  CtInv' /\ BytesStay
  BY <1>1, StartsCrawl, TakesMovie, SkipsKnown, ImportsMovie, CrawlEnds DEF CrawlStep
<1>2. ASSUME NEW p \in Importers, ImportStep(p) \/ MovieFails(p) PROVE CtInv' /\ BytesStay
  BY <1>2, ChecksTorrent, AddsTorrent, GoesPast DEF ImportStep
<1>3. CASE HarvestStep
  BY <1>3, Harvests, Stores DEF HarvestStep
<1>4. ASSUME NEW f \in Fetches, PollMetainfo(f) \/ FetchStore(f) PROVE CtInv' /\ BytesStay
  <2>1. CASE FetchStore(f)
    BY <2>1, Stores
  <2>2. CASE PollMetainfo(f)
    BY <2>2, PollsMetainfo
  <2> QED BY <1>4, <2>1, <2>2
<1>5. ASSUME NEW h \in Hashes, HarvestFails(h) \/ Play(h) \/ Resolve(h) \/ DropTorrent(h)
      PROVE  CtInv' /\ BytesStay
  BY <1>5, Harvests, StreamersMove
<1>6. CASE BackfillStep \/ FillFails
  BY <1>6, BackfillMoves, Fills DEF BackfillStep
<1>7. CASE UNCHANGED ctVars
  BY <1>7, CtInvStutter
<1> QED BY <1>1, <1>2, <1>3, <1>4, <1>5, <1>6, <1>7, OperatorSteps, Restarts DEF CtNext

LEMMA CtAlways == CtSpec => []CtInv
<1>1. CtInv /\ [CtNext]_ctVars => CtInv'
  BY CtInvStep
<1> QED BY CtInvInit, <1>1, PTL DEF CtSpec

\* The catalogue is typed in every reachable state.
THEOREM CatalogueTypes == CtSpec => []CtTypeOK
<1>1. CtInv => CtTypeOK
  BY DEF CtInv
<1> QED BY <1>1, CtAlways, PTL

\* A video never outlives its title or its torrent: the cascades of the two foreign
\* keys, the torrents that DeleteVideo drops with their last video and the imports
\* that add one to a title they looked up long before leave no video without either.
THEOREM VideosStayWhole == CtSpec => []VideosAreWhole
<1>1. CtInv => VideosAreWhole
  BY DEF CtInv
<1> QED BY <1>1, CtAlways, PTL

\* However the harvester, the button, the crawls, the one-click import and the operator
\* interleave, the bytes of a torrent's file are replaced by no magnet and by no answer
\* of a streamer, and go only with the torrent's last video.
THEOREM FilesAreNotLost == CtSpec => BytesAreNotLost
<1>1. CtInv /\ [CtNext]_ctVars => [BytesStay]_ctVars
  BY CtInvStep
<1>2. CtSpec => [][BytesStay]_ctVars
  BY <1>1, CtAlways, PTL DEF CtSpec
<1> QED BY <1>2 DEF BytesAreNotLost, BytesStay

-----------------------------------------------------------------------------
(***************************************************************************)
(* One importer at a time.                                                 *)
(***************************************************************************)
\* A torrent that an importer is about to add is still unknown.
StillMissing ==
  \A p \in Importers : imports[p].pc = "add" => sources[imports[p].hash] = "absent"
OnceInv == StillMissing /\ ImportedOnce

\* An importer comes to adding a torrent by no other step than its look at it.
NoneLooks ==
  \A p \in Importers :
    imports'[p].pc = "add" => imports[p].pc = "add" /\ imports'[p].hash = imports[p].hash
NothingComes ==
  /\ \A v \in Owned : videos'[v] <= videos[v]
  /\ \A h \in Hashes : sources[h] = "absent" => sources'[h] = "absent"

LEMMA OnceKept ==
  ASSUME CtInv, CtInv', OnceInv, NoneLooks, NothingComes PROVE OnceInv'
<1>1. StillMissing'
  <2> SUFFICES ASSUME NEW p \in Importers, imports'[p].pc = "add"
               PROVE  sources'[imports'[p].hash] = "absent"
    BY DEF StillMissing
  <2>1. /\ imports[p].pc = "add" /\ imports'[p].hash = imports[p].hash
        /\ imports[p].hash \in Hashes
    BY DEF NoneLooks, CtInv, ImportersReady
  <2> QED BY <2>1 DEF OnceInv, StillMissing, NothingComes
<1>2. ImportedOnce'
  <2>1. videos \in [Owned -> Nat] /\ videos' \in [Owned -> Nat]
    BY DEF CtInv, CtTypeOK
  <2> QED BY <2>1 DEF OnceInv, ImportedOnce, NothingComes
<1> QED BY <1>1, <1>2 DEF OnceInv

LEMMA TorrentsRest ==
  ASSUME CtInv, UNCHANGED torrents PROVE NothingComes
  BY DEF CtInv, CtTypeOK, torrents, NothingComes

LEMMA ImportsRest == ASSUME UNCHANGED imports PROVE NoneLooks
  BY DEF NoneLooks

LEMMA OneIsAt ==
  ASSUME CtInv, CtInv', NEW p \in Importers, NEW pc, NEW r, Importing(p, pc, r)
  PROVE  imports'[p].pc = pc
<1>1. imports \in [Importers -> Importer] /\ imports'[p] \in Importer
  BY DEF CtInv, CtTypeOK, Importer
<1>2. imports'[p] = [r EXCEPT !.pc = pc]
  BY <1>1 DEF Importing
<1>3. "pc" \in DOMAIN imports'[p]
  BY <1>1 DEF Importer
<1> QED BY <1>2, <1>3

LEMMA OneGoesOn ==
  ASSUME CtInv, CtInv', NEW p \in Importers, NEW pc, pc # "add", NEW r, Importing(p, pc, r)
  PROVE  NoneLooks
<1>1. imports \in [Importers -> Importer] /\ imports'[p].pc = pc
  BY OneIsAt DEF CtInv, CtTypeOK, Importer
<1>2. \A q \in Importers : q # p => imports'[q] = imports[q]
  BY <1>1 DEF Importing
<1> QED BY <1>1, <1>2 DEF NoneLooks

LEMMA OneIsDone ==
  ASSUME CtInv, NEW p \in Importers, Done(p) PROVE NoneLooks
  BY DEF CtInv, CtTypeOK, Done, NotImporting, NoneLooks

LEMMA OneMovesOn ==
  ASSUME CtInv, NEW p \in Importers, NextMovie(p) PROVE NoneLooks
<1>1. CASE p \in Clicks
  BY <1>1, OneIsDone DEF NextMovie
<1>2. CASE p \notin Clicks
  <2> DEFINE r == [NotImporting EXCEPT !.pc = "next", !.todo = imports[p].todo]
  <2>1. r.pc = "next"
    BY DEF NotImporting
  <2>2. imports' = [imports EXCEPT ![p] = r]
    BY <1>2 DEF NextMovie
  <2> HIDE DEF r
  <2> QED BY <2>1, <2>2 DEF CtInv, CtTypeOK, NoneLooks
<1> QED BY <1>1, <1>2
LEMMA OperatorAddsNone ==
  ASSUME CtInv, CtInv', MaxCopies = 0, Operator PROVE NoneLooks /\ NothingComes
<1>0. videos \in [Owned -> Nat] /\ sources \in [Hashes -> {"absent", "magnet"} \cup Origins]
  BY DEF CtInv, CtTypeOK
<1>1. ASSUME NEW t \in Titles, DeleteTitle(t) PROVE NoneLooks /\ NothingComes
  <2>1. NothingComes
    BY <1>0, <1>1 DEF DeleteTitle, NothingComes
  <2> QED BY <1>1, <2>1, ImportsRest DEF DeleteTitle, workers
<1>2. ASSUME NEW t \in Titles, NEW full \in BOOLEAN, ImportTitle(t, full)
      PROVE  NoneLooks /\ NothingComes
  BY <1>2, ImportsRest, TorrentsRest DEF ImportTitle, workers
<1>3. ASSUME NEW v \in Owned, DeleteVideo(v) PROVE NoneLooks /\ NothingComes
  <2> DEFINE left == \E i \in Ids : videos'[<<i, v[2]>>] > 0
  <2>1. /\ videos' = [videos EXCEPT ![v] = @ - 1]
        /\ sources' = [sources EXCEPT ![v[2]] = IF left THEN @ ELSE "absent"]
    BY <1>3 DEF DeleteVideo
  <2> HIDE DEF left
  <2>2. NothingComes
    BY <1>0, <2>1 DEF NothingComes
  <2> QED BY <1>3, <2>2, ImportsRest DEF DeleteVideo, workers
<1>4. ASSUME NEW t \in Titles, NEW h \in Hashes, NEW file \in {"magnet", "upload"},
             \/ SaveVideo(t, h, file)
             \/ \E n \in 1..MaxCopies : SaveVideoBatch(t, h, n, file)
      PROVE  FALSE
  <2>1. titles[t] \in Ids
    BY <1>4 DEF SaveVideo, SaveVideoBatch, CtInv, CtTypeOK, Ids
  <2>2. <<titles[t], h>> \in Owned
    BY <2>1 DEF Owned
  <2>3. videos[<<titles[t], h>>] \in Nat
    BY <1>0, <2>2
  <2>4. ~SaveVideo(t, h, file)
    BY <2>3 DEF SaveVideo
  <2>5. 1..MaxCopies = {}
    OBVIOUS
  <2> QED BY <1>4, <2>4, <2>5
<1>5. ASSUME NEW c \in Clicks, NEW t \in Titles, ClickImport(c, t)
      PROVE  NoneLooks /\ NothingComes
  BY <1>5, OneGoesOn, TorrentsRest DEF ClickImport, Importers
<1>6. ASSUME NEW f \in Fetches, NEW h \in Hashes, FetchFile(f, h)
      PROVE  NoneLooks /\ NothingComes
  BY <1>6, ImportsRest, TorrentsRest DEF FetchFile
<1> QED BY <1>1, <1>2, <1>3, <1>4, <1>5, <1>6 DEF Operator

LEMMA CrawlAddsNone ==
  ASSUME CtInv, CtInv', NEW j \in Jobs, StartCrawl(j) \/ CrawlStep(j) \/ AbortCrawl(j)
  PROVE  NoneLooks /\ NothingComes
<1>0. j \in Importers
  BY DEF Importers
<1>1. CASE StartCrawl(j)
  BY <1>0, <1>1, OneGoesOn, TorrentsRest DEF StartCrawl
<1>2. ASSUME NEW t \in Titles, TakeMovie(j, t) PROVE NoneLooks /\ NothingComes
  <2>1. \E r : Importing(j, "next", r) \/ Importing(j, "fetch", r) \/ Importing(j, "known", r)
    BY <1>2 DEF TakeMovie
  <2>2. NoneLooks
    BY <1>0, <2>1, OneGoesOn
  <2> QED BY <1>2, <2>2, TorrentsRest DEF TakeMovie
<1>3. CASE SkipKnown(j)
  <2>1. Importing(j, "fetch", imports[j]) \/ NextMovie(j)
    BY <1>3 DEF SkipKnown
  <2>2. NoneLooks
    BY <1>0, <2>1, OneGoesOn, OneMovesOn
  <2> QED BY <1>3, <2>2, TorrentsRest DEF SkipKnown
<1>4. ASSUME NEW full \in BOOLEAN, ImportMovie(j, full) PROVE NoneLooks /\ NothingComes
  <2>1. \E r : Importing(j, "torrents", r)
    BY <1>4 DEF ImportMovie
  <2>2. NoneLooks
    BY <1>0, <2>1, OneGoesOn
  <2> QED BY <1>4, <2>2, TorrentsRest DEF ImportMovie
<1>5. CASE FinishCrawl(j) \/ AbortCrawl(j)
  BY <1>0, <1>5, OneIsDone, TorrentsRest DEF FinishCrawl, AbortCrawl
<1> QED BY <1>1, <1>2, <1>3, <1>4, <1>5 DEF CrawlStep

LEMMA RestAddsNone ==
  ASSUME CtInv, CtInv',
         \/ HarvestStep \/ BackfillStep \/ FillFails \/ Restart
         \/ \E f \in Fetches : PollMetainfo(f) \/ FetchStore(f)
         \/ \E h \in Hashes : HarvestFails(h) \/ Play(h) \/ Resolve(h) \/ DropTorrent(h)
  PROVE  NoneLooks /\ NothingComes
<1>1. NoneLooks
  <2>1. CASE Restart
    BY <2>1 DEF Restart, NotImporting, NoneLooks
  <2>2. CASE UNCHANGED imports
    BY <2>2, ImportsRest
  <2>3. Restart \/ UNCHANGED imports
    BY DEF HarvestStep, HarvestTick, HarvestFile, HarvestStore, BackfillStep, SelectMissing,
           RestartRound, FillTranslation, FillFails, PollMetainfo, FetchStore, HarvestFails,
           Play, Resolve, DropTorrent, workers
  <2> QED BY <2>1, <2>2, <2>3
<1>2. CASE UNCHANGED torrents
  BY <1>1, <1>2, TorrentsRest
<1>3. CASE UNCHANGED videos /\ \E h : BackfillTorrentFile(h)
  <2>1. NothingComes
    BY <1>3 DEF BackfillTorrentFile, NothingComes, CtInv, CtTypeOK
  <2> QED BY <1>1, <2>1
<1>4. UNCHANGED torrents \/ (UNCHANGED videos /\ \E h : BackfillTorrentFile(h))
  BY DEF HarvestStep, HarvestTick, HarvestFile, HarvestStore, BackfillStep, SelectMissing,
         RestartRound, FillTranslation, FillFails, PollMetainfo, FetchStore, HarvestFails,
         Play, Resolve, DropTorrent, Restart
<1> QED BY <1>2, <1>3, <1>4

\* The only steps that matter: an importer looks, and it adds what it did not find.
LEMMA LooksOnce ==
  ASSUME CtInv, CtInv', OnceInv, NEW p \in Importers, NEW h \in Hashes, CheckTorrent(p, h),
         \A q \in Importers : q = p
  PROVE  OnceInv'
<1> DEFINE rest == [imports[p] EXCEPT !.left = @ \ {h}]
           new == [rest EXCEPT !.hash = h]
<1>1. CASE sources[h] = "absent"
  <2>1. imports' = [imports EXCEPT ![p] = [new EXCEPT !.pc = "add"]]
    BY <1>1 DEF CheckTorrent, TorrentSourceExists, Importing
  <2>2. imports \in [Importers -> Importer] /\ imports'[p] \in Importer
    BY DEF CtInv, CtTypeOK, Importer
  <2>3. imports'[p].hash = h
    BY <2>1, <2>2 DEF Importer
  <2>4. UNCHANGED torrents
    BY DEF CheckTorrent
  <2> QED BY <1>1, <2>3, <2>4 DEF OnceInv, StillMissing, ImportedOnce, torrents
<1>2. CASE sources[h] # "absent"
  <2>1. Importing(p, "torrents", rest)
    BY <1>2 DEF CheckTorrent, TorrentSourceExists
  <2> HIDE DEF rest
  <2>2. NoneLooks
    BY <2>1, OneGoesOn
  <2> QED BY <2>2, TorrentsRest, OnceKept DEF CheckTorrent
<1> QED BY <1>1, <1>2

LEMMA AddsOnce ==
  ASSUME CtInv, CtInv', OnceInv, NEW p \in Importers, AddTorrent(p),
         \A q \in Importers : q = p
  PROVE  OnceInv'
<1> DEFINE r == [imports[p] EXCEPT !.hash = Nil]
           i == imports[p].id
           g == imports[p].hash
<1>1. Importing(p, "torrents", r)
  BY DEF AddTorrent
<1> HIDE DEF r
<1>2. NoneLooks
  BY <1>1, OneGoesOn
<1>3. CASE i \notin LiveIds
  BY <1>2, <1>3, TorrentsRest, OnceKept DEF AddTorrent
<1>4. CASE i \in LiveIds
  <2>1. /\ g \in Hashes /\ sources[g] = "absent"
        /\ videos' = [videos EXCEPT ![<<i, g>>] = @ + 1]
        /\ videos \in [Owned -> Nat]
    BY <1>4 DEF AddTorrent, AddVideos, ImportAt, OnceInv, StillMissing, CtInv, CtTypeOK,
                ImportersReady
  <2>2. <<i, g>> \in Owned => videos[<<i, g>>] = 0
    <3> SUFFICES ASSUME <<i, g>> \in Owned PROVE videos[<<i, g>>] = 0
      OBVIOUS
    <3>1. videos[<<i, g>>] \in Nat /\ ~(videos[<<i, g>>] > 0)
      BY <2>1 DEF CtInv, VideosAreWhole, TorrentSourceExists
    <3> QED BY <3>1
  <2>3. \A v \in Owned : videos'[v] <= 1
    BY <2>1, <2>2 DEF OnceInv, ImportedOnce
  <2>4. imports'[p].pc # "add"
    BY <1>1, OneIsAt
  <2> QED BY <2>3, <2>4 DEF OnceInv, StillMissing, ImportedOnce
<1> QED BY <1>3, <1>4
LEMMA OnceInvStep ==
  ASSUME \A p, q \in Importers : p = q, MaxCopies = 0,
         CtInv, OnceInv, [CtNext]_ctVars
  PROVE  OnceInv'
<1>0. CtInv'
  BY CtInvStep
<1>1. CASE Operator
  BY <1>0, <1>1, OperatorAddsNone, OnceKept
<1>2. ASSUME NEW j \in Jobs, StartCrawl(j) \/ CrawlStep(j) \/ AbortCrawl(j) PROVE OnceInv'
  BY <1>0, <1>2, CrawlAddsNone, OnceKept
<1>3. ASSUME NEW p \in Importers, ImportStep(p) \/ MovieFails(p) PROVE OnceInv'
  <2>1. ASSUME SkipTorrent(p) PROVE OnceInv'
    BY <1>0, <2>1, OneGoesOn, TorrentsRest, OnceKept DEF SkipTorrent
  <2>2. ASSUME MovieDone(p) \/ MovieFails(p) PROVE OnceInv'
    BY <1>0, <2>2, OneMovesOn, TorrentsRest, OnceKept DEF MovieDone, MovieFails
  <2> QED BY <1>0, <1>3, <2>1, <2>2, LooksOnce, AddsOnce DEF ImportStep
<1>4. CASE \/ HarvestStep \/ BackfillStep \/ FillFails \/ Restart
           \/ \E f \in Fetches : PollMetainfo(f) \/ FetchStore(f)
           \/ \E h \in Hashes : HarvestFails(h) \/ Play(h) \/ Resolve(h) \/ DropTorrent(h)
  BY <1>0, <1>4, RestAddsNone, OnceKept
<1>5. CASE UNCHANGED ctVars
  BY <1>0, <1>5, ImportsRest, TorrentsRest, OnceKept DEF ctVars, torrents
<1> QED BY <1>1, <1>2, <1>3, <1>4, <1>5 DEF CtNext

\* One importer alone, a crawl job or a click, adds each torrent to a title once, as long
\* as the operator saves nothing (store.go:712): what CatalogueGaps refutes for a job and a
\* click is their overlap, and neither a failure nor a deletion or a restart.
THEOREM AloneImportsOnce ==
  ASSUME \A p, q \in Importers : p = q, MaxCopies = 0 PROVE CtSpec => []ImportedOnce
<1>1. CtInit => OnceInv
  BY DEF CtInit, OnceInv, StillMissing, ImportedOnce, NotImporting
<1>2. CtInv /\ OnceInv /\ [CtNext]_ctVars => OnceInv'
  BY OnceInvStep
<1>3. OnceInv => ImportedOnce
  BY DEF OnceInv
<1> QED BY <1>1, <1>2, <1>3, CtAlways, PTL DEF CtSpec
=============================================================================
