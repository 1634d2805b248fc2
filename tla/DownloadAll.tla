----------------------------- MODULE DownloadAll -----------------------------
(***************************************************************************)
(* The streamer's download-all storage (streamer/storage_downloadall.go)   *)
(* over its cache of open handles: every piece of a watched file is kept,  *)
(* its completion is in bolt and survives restarts, and only DropTorrent   *)
(* deletes it.                                                             *)
(*                                                                         *)
(* A step is one step of FdCache, one completion update, or one step of    *)
(* the client.  The torrent client is external: it opens and closes        *)
(* torrents, writes the chunks of pieces it believes missing, hashes a     *)
(* piece through ReadAt when it has all of it, or when the storage does    *)
(* not know, and makes one storage call per piece at a time.               *)
(***************************************************************************)
EXTENDS FdCache

CONSTANTS
  DropUnresolved, \* a torrent may be dropped before its metadata is there
  Overlap,        \* DropTorrent may run beside other calls for the torrent
  MayLose,        \* blobs that a power failure may take: nothing is synced
  MaxFaults       \* bound on corrupt pieces and restarts

ASSUME DaConstants ==
  /\ DropUnresolved \in BOOLEAN /\ Overlap \in BOOLEAN
  /\ MayLose \subseteq Paths /\ None \notin Dirs
  /\ MaxFaults \in Nat

VARIABLES
  open,      \* torrents the client has open (external)
  belief,    \* pieces the client believes complete (external)
  verify,    \* pieces the client will hash though it wrote none of them
  numPieces, \* torrents whose piece count is recorded
  bolt,      \* completion: the pieces marked complete
  content,   \* what each file has: some chunks, a good piece, a corrupt one
  call,      \* the storage call each worker is in
  faults

clientVars == <<open, belief, verify>>
boltVars == <<numPieces, bolt>>
daVars == <<vars, clientVars, boltVars, content, call, faults>>

NoCall == [pc |-> "idle", keys |-> {}, dir |-> None]
PathsOf(d) == {p \in Paths : Dir[p] = d}
Busy(p) == \E w \in Removers : p \in call[w].keys \/ Dir[p] = call[w].dir
Dropping(d) == \E w \in Removers : call[w].dir = d

DaInit ==
  /\ Init
  /\ open = {} /\ belief = {} /\ verify = {} /\ numPieces = {} /\ bolt = {}
  /\ content = [i \in 1..MaxInode |-> "part"]
  /\ call = [w \in Removers |-> NoCall]
  /\ faults = 0

-----------------------------------------------------------------------------
(***************************************************************************)
(* Opening, writing and reading.                                           *)
(***************************************************************************)

\* Faulty: a piece bolt has never seen is reported as unknown.
Completion_Unknown(p) == IF p \in bolt THEN "complete" ELSE "unknown"

\* A piece bolt has never seen is known to be incomplete.
Completion(p) == IF p \in bolt THEN "complete" ELSE "incomplete"

OpenTorrent(d) ==
  /\ d \notin open
  /\ Overlap \/ ~Dropping(d)
  /\ open' = open \cup {d}
  /\ numPieces' = numPieces \cup {d}
  /\ belief' = belief \cup {p \in PathsOf(d) : Completion(p) = "complete"}
  /\ verify' = verify \cup {p \in PathsOf(d) : Completion(p) = "unknown"}
  /\ UNCHANGED <<vars, bolt, content, call, faults>>

\* The chunks of a piece: the first creates the file, the last fills it.
WriteAt(p) ==
  /\ Dir[p] \in open /\ p \notin belief
  /\ WriteBlob(p)
  /\ UNCHANGED <<clientVars, boltVars, content, call, faults>>

WriteLast(p, good) ==
  /\ Dir[p] \in open /\ p \notin belief /\ ~Busy(p)
  /\ disk[p] # 0 /\ content[disk[p]] = "part"
  /\ faults' = IF good THEN faults ELSE faults + 1
  /\ faults' <= MaxFaults
  /\ content' = [content EXCEPT ![disk[p]] = IF good THEN "good" ELSE "bad"]
  /\ UNCHANGED <<vars, clientVars, boltVars, call>>

\* Reads go through the handle cache.  The client reads no piece it is marking,
\* but a read that began before the torrent was dropped may still come.
ReadAt(r, p) ==
  /\ (Dir[p] \in open /\ ~Busy(p)) \/ Dropping(Dir[p])
  /\ ReadHit(r, p) \/ ReadMiss(r, p)
  /\ UNCHANGED <<clientVars, boltVars, content, call, faults>>

ReadReturns(r) ==
  /\ ReadEnd(r)
  /\ UNCHANGED <<clientVars, boltVars, content, call, faults>>

\* A read of a piece without a blob fails, and the client asks again whether
\* the piece is complete.
ReadFails(p) ==
  /\ Dir[p] \in open /\ p \in belief /\ ~Busy(p)
  /\ m[p] = None /\ disk[p] = 0
  /\ Completion(p) # "complete"
  /\ belief' = belief \ {p}
  /\ UNCHANGED <<vars, open, verify, boltVars, content, call, faults>>

-----------------------------------------------------------------------------
(***************************************************************************)
(* Marking a piece after hashing what a read of it returns.                *)
(***************************************************************************)
Call(w, c) == call' = [call EXCEPT ![w] = c]
Read(p) == IF m[p] # None THEN ent[m[p]].inode ELSE disk[p]
Hashable(p) ==
  /\ Dir[p] \in open /\ p \notin belief /\ ~Busy(p)
  /\ p \in verify \/ (disk[p] # 0 /\ content[disk[p]] # "part")
Matches(p) == Read(p) # 0 /\ content[Read(p)] = "good"

HashMatches(w, p) ==
  /\ call[w] = NoCall /\ Hashable(p) /\ Matches(p)
  /\ Call(w, [pc |-> "set", keys |-> {p}, dir |-> None])
  /\ verify' = verify \ {p}
  /\ UNCHANGED <<vars, open, belief, boltVars, content, faults>>

\* MarkComplete
MarkComplete(w) ==
  /\ call[w].pc = "set"
  /\ bolt' = bolt \cup call[w].keys
  /\ belief' = belief \cup {p \in call[w].keys : Dir[p] \in open}
  /\ Call(w, NoCall)
  /\ UNCHANGED <<vars, open, verify, numPieces, content, faults>>

\* MarkNotComplete: drop the handle ...
MarkNotComplete(w, p) ==
  /\ call[w] = NoCall /\ Hashable(p) /\ ~Matches(p)
  /\ Drop(w, p)
  /\ Call(w, [pc |-> "remove", keys |-> {p}, dir |-> None])
  /\ verify' = verify \ {p}
  /\ UNCHANGED <<open, belief, boltVars, content, faults>>

\* ... remove the blob ...
RemoveBlob(w) ==
  /\ call[w].pc = "remove"
  /\ RemoveBlobs(w)
  /\ Call(w, [call[w] EXCEPT !.pc = "unset"])
  /\ UNCHANGED <<clientVars, boltVars, content, faults>>

\* ... and clear the completion.
ClearCompletion(w) ==
  /\ call[w].pc = "unset"
  /\ bolt' = bolt \ call[w].keys
  /\ Call(w, NoCall)
  /\ UNCHANGED <<vars, clientVars, numPieces, content, faults>>

-----------------------------------------------------------------------------
(***************************************************************************)
(* DropTorrent, after the client has closed the torrent.                   *)
(***************************************************************************)
DropTorrent(w, d) ==
  /\ call[w] = NoCall
  /\ d \in open \/ DropUnresolved
  /\ ~Dropping(d)
  /\ Overlap \/ \A p \in PathsOf(d) : ~Busy(p)
  /\ open' = open \ {d}
  /\ belief' = belief \ PathsOf(d) /\ verify' = verify \ PathsOf(d)
  /\ numPieces' = numPieces \ {d}
  /\ Call(w, [pc |-> "close", keys |-> IF d \in numPieces THEN PathsOf(d) ELSE {}, dir |-> d])
  /\ UNCHANGED <<vars, bolt, content, faults>>

CloseHandles(w) ==
  /\ call[w].pc = "close"
  /\ IF PathsOf(call[w].dir) = {} THEN UNCHANGED vars ELSE DropPrefix(w, call[w].dir)
  /\ Call(w, [call[w] EXCEPT !.pc = "forget"])
  /\ UNCHANGED <<clientVars, boltVars, content, faults>>

\* Faulty: the entries stay.
Forgotten_Nothing(w) == {}

\* The pieces whose completion entries are cleared.
Forgotten(w) == call[w].keys

ForgetCompletion(w) ==
  /\ call[w].pc = "forget"
  /\ bolt' = bolt \ Forgotten(w)
  /\ Call(w, [call[w] EXCEPT !.pc = "rmdir"])
  /\ UNCHANGED <<vars, clientVars, numPieces, content, faults>>

RemoveDir(w) ==
  /\ call[w].pc = "rmdir"
  /\ IF PathsOf(call[w].dir) = {} THEN UNCHANGED vars ELSE RemoveBlobs(w)
  /\ Call(w, NoCall)
  /\ UNCHANGED <<clientVars, boltVars, content, faults>>

\* closeAll, when the process is told to stop.
Close ==
  /\ CloseAll
  /\ UNCHANGED <<clientVars, boltVars, content, call, faults>>

\* The process starts again: blobs and bolt are as they were, but for what the
\* machine lost when it went down.
Restart(lost) ==
  /\ faults < MaxFaults
  /\ faults' = faults + 1
  /\ m' = [p \in Paths |-> None] /\ clock' = 0
  /\ ent' = [h \in Handles |-> [inode |-> 0, used |-> 0, refs |-> 0, dead |-> FALSE, closes |-> 0]]
  /\ held' = [r \in Readers |-> None] /\ removing' = [w \in Removers |-> {}]
  /\ disk' = [p \in Paths |-> IF p \in lost THEN 0 ELSE disk[p]]
  /\ open' = {} /\ belief' = {} /\ verify' = {} /\ numPieces' = {}
  /\ call' = [w \in Removers |-> NoCall]
  /\ UNCHANGED <<lastInode, bolt, content>>

-----------------------------------------------------------------------------

DaNext ==
  \/ \E d \in Dirs : OpenTorrent(d)
  \/ \E p \in Paths : WriteAt(p)
  \/ \E p \in Paths, good \in BOOLEAN : WriteLast(p, good)
  \/ \E r \in Readers, p \in Paths : ReadAt(r, p)
  \/ \E r \in Readers : ReadReturns(r)
  \/ \E w \in Removers, p \in Paths : HashMatches(w, p) \/ MarkNotComplete(w, p)
  \/ \E w \in Removers : MarkComplete(w) \/ RemoveBlob(w) \/ ClearCompletion(w)
  \/ \E w \in Removers, d \in Dirs : DropTorrent(w, d)
  \/ \E w \in Removers : CloseHandles(w) \/ ForgetCompletion(w) \/ RemoveDir(w)
  \/ Close
  \/ \E lost \in SUBSET MayLose : Restart(lost)

DaSpec == DaInit /\ [][DaNext]_daVars

\* With blobs that may be lost, reads fail too.  The client asks again whether
\* the piece is there, and again for what it believes missing.
LossSpec ==
  /\ DaInit /\ [][DaNext \/ \E p \in Paths : ReadFails(p)]_daVars
  /\ \A p \in Paths : WF_daVars(ReadFails(p)) /\ WF_daVars(WriteAt(p))

-----------------------------------------------------------------------------

\* The values of the storage's and the client's variables.
DaTypeOK ==
  /\ TypeOK
  /\ open \subseteq Dirs /\ numPieces \subseteq Dirs
  /\ belief \subseteq Paths /\ verify \subseteq Paths /\ bolt \subseteq Paths
  /\ content \in [1..MaxInode -> {"part", "good", "bad"}]
  /\ \A w \in Removers : call[w].pc \in {"idle", "set", "remove", "unset", "close", "forget", "rmdir"}

\* Completion outlives the process, so it must not outlive the blob: whatever
\* is interrupted, a piece marked complete has its blob, or a call that is at
\* work on it (storage_downloadall.go:94-97).
CompletionIsBacked == \A p \in bolt : disk[p] # 0 \/ Busy(p)

\* Watched pieces are never deleted (storage_downloadall.go:25-29), and no failed
\* hash deletes a blob whose chunks are still arriving (176-179): a blob goes
\* with its torrent, or after the hash of a piece that was all there.
WrittenIsKept ==
  [][\A p \in Paths : disk[p] # 0 /\ disk'[p] = 0 =>
       \/ Dropping(Dir[p])
       \/ p \notin bolt /\ content[disk[p]] # "part"]_daVars

\* storage_downloadall.go:33-38: a vanished blob makes the client "re-check
\* completion on a failed read, re-downloading it instead of killing the stream".
LostIsFetchedAgain ==
  \A p \in Paths :
    Dir[p] \in open /\ p \in belief /\ disk[p] = 0 /\ m[p] = None
      ~> p \notin belief \/ disk[p] # 0

\* storage_downloadall.go:48-50: "a re-add must re-download, not trust completion
\* for blobs we are about to delete".
DropForgetsBank ==
  [][\A w \in Removers : RemoveDir(w) => bolt' \cap PathsOf(call[w].dir) = {}]_daVars

\* storage_fdcache.go:90-91: after a drop "later reads re-open the fresh file", so
\* a piece that is marked complete was found good on the file that will be read.
BankedIsVerified ==
  \A p \in bolt : disk[p] # 0 /\ ~Busy(p) => content[disk[p]] = "good"
=============================================================================
