------------------------------ MODULE WatchLog ------------------------------
(***************************************************************************)
(* Watch history (viewer/watchlog.go): heartbeats add up in memory and are *)
(* upserted into watch_sessions on a ticker, with the write outside the    *)
(* lock.  A tab is a session id together with the user signed in on it.    *)
(*                                                                         *)
(* One action is one critical section of watchLog.mu or one write.  The    *)
(* database may refuse a write, part of whose rows it has stored by then;  *)
(* the process may crash, or stop as main.go stops it: requests being      *)
(* served are drained while run flushes once more.                         *)
(***************************************************************************)
EXTENDS Naturals, FiniteSets

CONSTANTS
  Tabs,        \* session ids
  Users,
  User,        \* who is signed in on each tab
  Videos,
  Hashes,
  HashOf,      \* the torrent of each video; a season pack has several videos
  None,
  MaxBeatGap, IdleEvict, DirtyGiveUp, PrepareTTL, \* the tunables, in ticks
  MaxTime,     \* bound on the clock
  MaxFaults,   \* bound on crashes, stops and refused writes
  MaxDeletes   \* bound on videos the admin deletes

Keys == Tabs \X Videos   \* watchSessionKey
PrepareKeys == Users \X Hashes
Times == 0 .. MaxTime
Row == [lastSeen: Times, seconds: Nat] \* the totals of a session
Entry == [lastSeen: Times, seconds: Nat, dirty: BOOLEAN] \* watchSessionEntry

ASSUME WlConstants ==
  /\ User \in [Tabs -> Users] /\ HashOf \in [Videos -> Hashes]
  /\ None \notin Videos \cup Row \cup Entry
  /\ {MaxBeatGap, IdleEvict, DirtyGiveUp, PrepareTTL, MaxTime, MaxFaults, MaxDeletes} \subseteq Nat

VARIABLES
  now,
  playing,   \* the video each tab last prepared (external)
  prepares,  \* watchLog.prepares: [video, at] for each user and torrent
  sessions,  \* watchLog.sessions: [lastSeen, seconds, dirty]
  flusher,   \* the flush in progress: its rows, and whether its write succeeded
  stopping,  \* ctx is cancelled
  serving,   \* some request may still be handled
  db,        \* watch_sessions: the row of each session
  deleted,   \* videos the admin deleted
  heard,     \* history: the totals each session is owed, over all its beats
  faults

vars == <<now, playing, prepares, sessions, flusher, stopping, serving, db, deleted, heard, faults>>
processVars == <<prepares, sessions, flusher, stopping, serving>>

AtMost(n, bound) == IF n < bound THEN n ELSE bound
AtLeast(n, bound) == IF n > bound THEN n ELSE bound

NoRows == [k \in {} |-> None]
NoFlush == [pc |-> "waiting", rows |-> NoRows, ok |-> TRUE, final |-> FALSE]

Init ==
  /\ now = 0
  /\ playing = [t \in Tabs |-> None]
  /\ prepares = [p \in PrepareKeys |-> None]
  /\ sessions = [k \in Keys |-> None]
  /\ flusher = NoFlush
  /\ stopping = FALSE /\ serving = TRUE
  /\ db = [k \in Keys |-> None]
  /\ deleted = {}
  /\ heard = [k \in Keys |-> None]
  /\ faults = 0

-----------------------------------------------------------------------------
(***************************************************************************)
(* The two handlers that feed the log.                                     *)
(***************************************************************************)
\* The video was looked up before the call of the manager: the admin may have
\* deleted it by now.
Prepared(t, v) ==
  /\ serving
  /\ playing' = [playing EXCEPT ![t] = v]
  /\ prepares' = [prepares EXCEPT ![<<User[t], HashOf[v]>>] = [video |-> v, at |-> now]]
  /\ UNCHANGED <<now, sessions, flusher, stopping, serving, db, deleted, heard, faults>>

Gap(last) == AtMost(now - last, MaxBeatGap)

Heard(h) ==
  [lastSeen |-> now,
   seconds |-> IF h = None THEN 0 ELSE h.seconds + AtMost(now - h.lastSeen, MaxBeatGap)]

\* Faulty: an entry that was flushed is not marked dirty again.
Counted_StaysClean(e) ==
  IF e = None THEN [lastSeen |-> now, seconds |-> 0, dirty |-> TRUE]
  ELSE [e EXCEPT !.lastSeen = now, !.seconds = @ + Gap(e.lastSeen)]

Counted(e) ==
  IF e = None THEN [lastSeen |-> now, seconds |-> 0, dirty |-> TRUE]
  ELSE [lastSeen |-> now, seconds |-> e.seconds + Gap(e.lastSeen), dirty |-> TRUE]

\* The video is the one the user prepared last for the torrent, on any tab.
Beat(t) ==
  /\ serving
  /\ playing[t] # None
  /\ LET p == prepares[<<User[t], HashOf[playing[t]]>>] IN
     /\ p # None
     /\ sessions' = [sessions EXCEPT ![<<t, p.video>>] = Counted(@)]
     /\ heard' = [heard EXCEPT ![<<t, p.video>>] = Heard(@)]
  /\ UNCHANGED <<now, playing, prepares, flusher, stopping, serving, db, deleted, faults>>

-----------------------------------------------------------------------------
(***************************************************************************)
(* flush: copy the dirty entries, write them without the lock, then clear  *)
(* what has not moved and forget what is over.                             *)
(***************************************************************************)
Dirty == {k \in Keys : sessions[k] # None /\ sessions[k].dirty}

\* On a tick, or once more when ctx is cancelled.  (A tick that select prefers to
\* a cancelled ctx makes a flush whose write fails; the final flush follows it.)
FlushCopy ==
  /\ flusher.pc = "waiting"
  /\ flusher' = [pc |-> "copied", ok |-> TRUE, final |-> stopping,
                 rows |-> [k \in Dirty |-> [lastSeen |-> sessions[k].lastSeen,
                                            seconds |-> sessions[k].seconds]]]
  /\ UNCHANGED <<now, playing, prepares, sessions, stopping, serving, db, deleted, heard, faults>>

\* Faulty: the totals are added to the row.
Upserted_Adds(row, r) ==
  IF row = None THEN r
  ELSE [lastSeen |-> AtLeast(row.lastSeen, r.lastSeen), seconds |-> row.seconds + r.seconds]

Upserted(row, r) ==
  IF row = None THEN r
  ELSE [lastSeen |-> AtLeast(row.lastSeen, r.lastSeen),
        seconds |-> AtLeast(row.seconds, r.seconds)]

\* Rows of deleted videos violate a foreign key and are skipped.
Written(S) ==
  [k \in Keys |-> IF k \in S /\ k[2] \notin deleted THEN Upserted(db[k], flusher.rows[k]) ELSE db[k]]

FlushWrite ==
  /\ flusher.pc = "copied"
  /\ db' = Written(DOMAIN flusher.rows)
  /\ flusher' = [flusher EXCEPT !.pc = "written"]
  /\ UNCHANGED <<now, playing, prepares, sessions, stopping, serving, deleted, heard, faults>>

\* An error, with any of the rows stored: the rows go out in chunks, and the
\* answer to a statement that took effect may be lost.  Cancelling ctx fails a
\* write in progress too.
FlushFails ==
  /\ flusher.pc = "copied"
  /\ DOMAIN flusher.rows # {}
  /\ \/ stopping /\ ~flusher.final /\ UNCHANGED faults
     \/ faults < MaxFaults /\ faults' = faults + 1
  /\ \E S \in SUBSET DOMAIN flusher.rows : db' = Written(S)
  /\ flusher' = [flusher EXCEPT !.pc = "written", !.ok = FALSE]
  /\ UNCHANGED <<now, playing, prepares, sessions, stopping, serving, deleted, heard>>

\* Faulty: a beat during the write is not noticed.
Settled_Unchecked(k) == flusher.ok /\ k \in DOMAIN flusher.rows

\* Written, and no beat came during the write.
Settled(k) ==
  /\ flusher.ok
  /\ k \in DOMAIN flusher.rows
  /\ sessions[k].lastSeen = flusher.rows[k].lastSeen

\* Faulty: whether the entry was ever written makes no difference.
Over_WhenIdle(e) == now - e.lastSeen > IdleEvict

\* A flushed session that is over, or one the database keeps refusing.
Over(e) == now - e.lastSeen > IF e.dirty THEN DirtyGiveUp ELSE IdleEvict

FlushSettle ==
  LET cleared == [k \in Keys |->
        IF sessions[k] # None /\ Settled(k) THEN [sessions[k] EXCEPT !.dirty = FALSE]
                                            ELSE sessions[k]]
  IN
  /\ flusher.pc = "written"
  /\ sessions' = [k \in Keys |->
        IF cleared[k] # None /\ Over(cleared[k]) THEN None ELSE cleared[k]]
  /\ prepares' = [p \in PrepareKeys |->
        IF prepares[p] # None /\ now - prepares[p].at > PrepareTTL THEN None ELSE prepares[p]]
  /\ flusher' = IF flusher.final THEN [NoFlush EXCEPT !.pc = "returned", !.ok = flusher.ok]
                                 ELSE NoFlush
  /\ UNCHANGED <<now, playing, stopping, serving, db, deleted, heard, faults>>

-----------------------------------------------------------------------------
(***************************************************************************)
(* The process and its surroundings.                                       *)
(***************************************************************************)
Fault == faults < MaxFaults /\ faults' = faults + 1

\* SIGTERM
Stop ==
  /\ ~stopping
  /\ Fault
  /\ stopping' = TRUE
  /\ UNCHANGED <<now, playing, prepares, sessions, flusher, serving, db, deleted, heard>>

\* httpServer.Shutdown has waited for the requests in progress.
Drained ==
  /\ stopping /\ serving
  /\ serving' = FALSE
  /\ UNCHANGED <<now, playing, prepares, sessions, flusher, stopping, db, deleted, heard, faults>>

NewProcess ==
  /\ prepares' = [p \in PrepareKeys |-> None]
  /\ sessions' = [k \in Keys |-> None]
  /\ flusher' = NoFlush
  /\ stopping' = FALSE /\ serving' = TRUE
  /\ UNCHANGED <<now, playing, db, deleted, heard>>

\* main waits for both, and another process starts.
Exit ==
  /\ stopping /\ ~serving /\ flusher.pc = "returned"
  /\ NewProcess
  /\ UNCHANGED faults

Crash == Fault /\ NewProcess

\* The admin deletes a video, or its title and the history with it.
Delete(v) ==
  /\ v \notin deleted
  /\ Cardinality(deleted) < MaxDeletes
  /\ deleted' = deleted \cup {v}
  /\ db' = [k \in Keys |-> IF k[2] = v THEN None ELSE db[k]]
  /\ UNCHANGED <<now, playing, processVars, heard, faults>>

Tick ==
  /\ now < MaxTime
  /\ now' = now + 1
  /\ UNCHANGED <<playing, processVars, db, deleted, heard, faults>>

-----------------------------------------------------------------------------

Flush == FlushCopy \/ FlushWrite \/ FlushFails \/ FlushSettle
Shutdown == Drained \/ Exit

Next ==
  \/ \E t \in Tabs, v \in Videos : Prepared(t, v)
  \/ \E t \in Tabs : Beat(t)
  \/ Flush
  \/ Stop
  \/ Shutdown
  \/ Crash
  \/ \E v \in Videos : Delete(v)
  \/ Tick

Spec == Init /\ [][Next]_vars

\* run's ticker fires and its writes end; a stopping server comes to its end.
FairSpec == Spec /\ WF_vars(Flush) /\ WF_vars(Shutdown)

-----------------------------------------------------------------------------

\* The values the variables range over.
TypeOK ==
  /\ now \in Times
  /\ playing \in [Tabs -> Videos \cup {None}]
  /\ prepares \in [PrepareKeys -> [video: Videos, at: Times] \cup {None}]
  /\ sessions \in [Keys -> Entry \cup {None}]
  /\ flusher.pc \in {"waiting", "copied", "written", "returned"}
  /\ DOMAIN flusher.rows \subseteq Keys
  /\ \A k \in DOMAIN flusher.rows : flusher.rows[k] \in Row
  /\ db \in [Keys -> Row \cup {None}] /\ heard \in [Keys -> Row \cup {None}]
  /\ deleted \subseteq Videos

\* Retried, repeated and half-stored writes never count a second twice: a row
\* holds no more than the capped gaps between all beats of its session, also
\* across crashes and evictions (watchlog.go:27-30).
NeverOvercounts ==
  \A k \in Keys : db[k] # None => db[k].seconds <= heard[k].seconds

Saved(k) ==
  \/ k[2] \in deleted
  \/ /\ db[k] # None
     /\ db[k].lastSeen >= sessions[k].lastSeen
     /\ db[k].seconds >= sessions[k].seconds

\* An entry that the next flush will leave out is in the database as it is: no
\* beat is lost that came while the write was under way (watchlog.go:187-195).
CleanIsSaved ==
  \A k \in Keys : sessions[k] # None /\ ~sessions[k].dirty => Saved(k)

\* A flush forgets a session only when the database has it, or has refused it
\* for longer than watchLogDirtyGiveUp.
ForgottenIsSaved ==
  [][\A k \in Keys :
       /\ flusher.pc = "written" /\ faults' = faults
       /\ sessions[k] # None /\ sessions'[k] = None
       => Saved(k) \/ now - sessions[k].lastSeen > DirtyGiveUp]_vars

\* Every beat reaches the database, whatever writes failed before, unless the
\* process dies or the database refuses it for too long.
BeatsAreWritten ==
  \A k \in Keys, n \in Times :
    (sessions[k] # None /\ sessions[k].lastSeen = n) ~>
      \/ sessions[k] = None
      \/ k[2] \in deleted
      \/ db[k] # None /\ db[k].lastSeen >= n

\* watchlog.go:27-28: "Each entry holds CUMULATIVE totals"; the row of a session
\* that has been flushed holds all its time.
TotalsAreCumulative ==
  \A k \in Keys : sessions[k] # None /\ ~sessions[k].dirty /\ k[2] \notin deleted =>
    db[k].seconds = heard[k].seconds

\* main.go:44-46: the final flush "lands before the process exits, so a deploy
\* loses nothing".
DeployLosesNothing ==
  flusher.pc = "returned" /\ flusher.ok => Dirty = {}

\* watchlog.go:17-25: a beat adds to the session of the video its user prepared,
\* which is to be the one that is playing.
BeatsCountTheirVideo ==
  [][\A t \in Tabs, v \in Videos :
       heard'[<<t, v>>] # heard[<<t, v>>] => playing[t] = v]_vars
=============================================================================
