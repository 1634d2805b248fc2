--------------------------- MODULE WatchLogProofs ---------------------------
(***************************************************************************)
(* Proofs about WatchLog for any tabs, users, videos and tunables.         *)
(*                                                                         *)
(* Three copies of a session's total exist: in memory, in the rows of a    *)
(* flush and in the database.  Each is at most the time the session is     *)
(* owed (Owed).  A row of a flush is never newer than the entry it was     *)
(* copied from, and has its total when their times agree (RowsAreOld);     *)
(* once the write has succeeded the database is no older than the row      *)
(* (RowsAreStored).  Together they make it right to clear an entry by      *)
(* comparing the times alone.                                              *)
(***************************************************************************)
EXTENDS WatchLog, TLAPS

Phase == {"waiting", "copied", "written", "returned"}

FlusherType ==
  /\ flusher = [pc |-> flusher.pc, rows |-> flusher.rows, ok |-> flusher.ok,
                final |-> flusher.final]
  /\ flusher.pc \in Phase
  /\ DOMAIN flusher.rows \subseteq Keys
  /\ \A k \in DOMAIN flusher.rows : flusher.rows[k] \in Row

Types ==
  /\ now \in Times
  /\ playing \in [Tabs -> Videos \cup {None}]
  /\ prepares \in [PrepareKeys -> [video: Videos, at: Times] \cup {None}]
  /\ sessions \in [Keys -> Entry \cup {None}]
  /\ db \in [Keys -> Row \cup {None}]
  /\ deleted \subseteq Videos
  /\ heard \in [Keys -> Row \cup {None}]
  /\ faults \in Nat

OwedEntry(k) ==
  sessions[k] # None =>
    /\ heard[k] \in Row
    /\ sessions[k].lastSeen = heard[k].lastSeen
    /\ sessions[k].seconds <= heard[k].seconds

OwedRow(k) ==
  k \in DOMAIN flusher.rows => heard[k] \in Row /\ flusher.rows[k].seconds <= heard[k].seconds

OwedDb(k) == db[k] # None => heard[k] \in Row /\ db[k].seconds <= heard[k].seconds

HeardPast(k) == heard[k] # None => heard[k].lastSeen <= now

Owed == \A k \in Keys : OwedEntry(k) /\ OwedRow(k) /\ OwedDb(k) /\ HeardPast(k)

RowsAreOld ==
  \A k \in DOMAIN flusher.rows :
    /\ sessions[k] \in Entry
    /\ flusher.rows[k].lastSeen <= sessions[k].lastSeen
    /\ flusher.rows[k].lastSeen = sessions[k].lastSeen =>
         flusher.rows[k].seconds = sessions[k].seconds

Stored(k, d, r) ==
  k[2] \in deleted \/ (d \in Row /\ d.lastSeen >= r.lastSeen /\ d.seconds >= r.seconds)

RowsAreStored ==
  flusher.pc = "written" /\ flusher.ok =>
    \A k \in DOMAIN flusher.rows : Stored(k, db[k], flusher.rows[k])

CleanIsStored ==
  \A k \in Keys : sessions[k] # None /\ ~sessions[k].dirty => Stored(k, db[k], sessions[k])

IInv == Types /\ FlusherType /\ Owed /\ RowsAreOld /\ RowsAreStored /\ CleanIsStored

USE WlConstants DEF Times

LEMMA InitIInv == Init => IInv
<1> SUFFICES ASSUME Init PROVE IInv
  OBVIOUS
<1>1. Types
  BY DEF Init, Types
<1>2. FlusherType /\ RowsAreOld /\ RowsAreStored
  BY DEF Init, FlusherType, RowsAreOld, RowsAreStored, NoFlush, NoRows, Phase
<1>3. Owed
  BY DEF Init, Owed, OwedEntry, OwedRow, OwedDb, HeardPast, NoFlush, NoRows
<1>4. CleanIsStored
  BY DEF Init, CleanIsStored
<1> QED BY <1>1, <1>2, <1>3, <1>4 DEF IInv

\* A beat: the entry and what it is owed grow by the same gap, and by nothing
\* when the clock has not moved.
LEMMA BeatSafe ==
  ASSUME IInv, NEW t \in Tabs, Beat(t) PROVE IInv'
<1> DEFINE q == <<User[t], HashOf[playing[t]]>>
           b == <<t, prepares[q].video>>
<1>1. b \in Keys
  <2>1. playing[t] \in Videos
    BY DEF Beat, IInv, Types
  <2>2. q \in PrepareKeys
    BY <2>1 DEF PrepareKeys
  <2>3. prepares[q] \in [video: Videos, at: Times]
    BY <2>2 DEF Beat, IInv, Types
  <2> QED BY <2>3 DEF Keys
<1>2. /\ sessions' = [sessions EXCEPT ![b] = Counted(@)]
      /\ heard' = [heard EXCEPT ![b] = Heard(@)]
      /\ UNCHANGED <<now, playing, prepares, flusher, db, deleted, faults>>
  BY DEF Beat
<1> HIDE DEF b
<1>3. /\ sessions'[b] = Counted(sessions[b]) /\ heard'[b] = Heard(heard[b])
      /\ \A k \in Keys \ {b} : sessions'[k] = sessions[k] /\ heard'[k] = heard[k]
  BY <1>1, <1>2 DEF IInv, Types
<1>4. /\ now \in Times /\ sessions[b] \in Entry \cup {None} /\ heard[b] \in Row \cup {None}
      /\ OwedEntry(b) /\ OwedRow(b) /\ OwedDb(b) /\ HeardPast(b)
  BY <1>1 DEF IInv, Types, Owed
<1>5. /\ Heard(heard[b]) \in Row /\ Heard(heard[b]).lastSeen = now
      /\ heard[b] \in Row => Heard(heard[b]).seconds >= heard[b].seconds
  BY <1>4 DEF Heard, Row, AtMost, HeardPast
<1>6. /\ Counted(sessions[b]) \in Entry /\ Counted(sessions[b]).dirty
      /\ Counted(sessions[b]).lastSeen = now
      /\ Counted(sessions[b]).seconds <= Heard(heard[b]).seconds
  <2>1. CASE sessions[b] = None
    BY <1>4, <1>5, <2>1 DEF Counted, Entry, Row
  <2>2. CASE sessions[b] # None
    <3>1. /\ sessions[b] \in Entry /\ heard[b] \in Row
          /\ sessions[b].lastSeen = heard[b].lastSeen /\ heard[b].lastSeen <= now
          /\ sessions[b].seconds <= heard[b].seconds
      BY <1>4, <2>2 DEF OwedEntry, HeardPast
    <3>2. Heard(heard[b]).seconds = heard[b].seconds + AtMost(now - heard[b].lastSeen, MaxBeatGap)
      BY <3>1, <1>4 DEF Heard, Row
    <3>3. Counted(sessions[b]) =
            [lastSeen |-> now, dirty |-> TRUE,
             seconds |-> sessions[b].seconds + AtMost(now - heard[b].lastSeen, MaxBeatGap)]
      BY <2>2, <3>1 DEF Counted, Gap
    <3>4. AtMost(now - heard[b].lastSeen, MaxBeatGap) \in Nat
      BY <1>4, <3>1 DEF AtMost, Row
    <3> QED BY <1>4, <3>1, <3>2, <3>3, <3>4 DEF Entry, Row
  <2> QED BY <2>1, <2>2
<1>7. Types' /\ FlusherType'
  BY <1>1, <1>2, <1>4, <1>5, <1>6 DEF IInv, Types, FlusherType
<1>8. Owed'
  BY <1>2, <1>3, <1>4, <1>5, <1>6
  DEF IInv, Types, FlusherType, Owed, OwedEntry, OwedRow, OwedDb, HeardPast, Row
<1>9. RowsAreOld'
  <2> SUFFICES ASSUME NEW k \in DOMAIN flusher.rows
               PROVE  /\ sessions'[k] \in Entry
                      /\ flusher.rows[k].lastSeen <= sessions'[k].lastSeen
                      /\ flusher.rows[k].lastSeen = sessions'[k].lastSeen =>
                           flusher.rows[k].seconds = sessions'[k].seconds
    BY <1>2 DEF RowsAreOld
  <2>1. /\ k \in Keys /\ sessions[k] \in Entry /\ flusher.rows[k] \in Row
        /\ flusher.rows[k].lastSeen <= sessions[k].lastSeen
        /\ flusher.rows[k].lastSeen = sessions[k].lastSeen =>
             flusher.rows[k].seconds = sessions[k].seconds
    BY DEF IInv, RowsAreOld, FlusherType
  <2>2. CASE k # b
    BY <1>3, <2>1, <2>2
  <2>3. CASE k = b
    <3>1. sessions[b] # None /\ sessions[b].lastSeen <= now
      BY <1>4, <2>1, <2>3 DEF OwedEntry, OwedRow, HeardPast
    <3>2. sessions[b].lastSeen = now => Counted(sessions[b]).seconds = sessions[b].seconds
      BY <1>4, <2>1, <2>3, <3>1 DEF Counted, Gap, AtMost, Entry
    <3> QED BY <1>3, <1>4, <1>6, <2>1, <2>3, <3>1, <3>2 DEF Entry, Row
  <2> QED BY <2>2, <2>3
<1>10. RowsAreStored' /\ CleanIsStored'
  BY <1>2, <1>3, <1>6 DEF IInv, RowsAreStored, CleanIsStored, Stored
<1> QED BY <1>7, <1>8, <1>9, <1>10 DEF IInv

LEMMA CopySafe == ASSUME IInv, FlushCopy PROVE IInv'
<1> DEFINE R == [k \in Dirty |-> [lastSeen |-> sessions[k].lastSeen, seconds |-> sessions[k].seconds]]
<1>1. /\ flusher' = [pc |-> "copied", ok |-> TRUE, final |-> stopping, rows |-> R]
      /\ UNCHANGED <<now, playing, prepares, sessions, db, deleted, heard, faults>>
  BY DEF FlushCopy
<1>2. \A k \in Dirty : k \in Keys /\ sessions[k] # None /\ sessions[k] \in Entry
  BY DEF Dirty, IInv, Types
<1>3. /\ DOMAIN R = Dirty
      /\ \A k \in Dirty : R[k].lastSeen = sessions[k].lastSeen /\ R[k].seconds = sessions[k].seconds
      /\ \A k \in Dirty : R[k] \in Row
  BY <1>2 DEF Entry, Row
<1> HIDE DEF R
<1>4. flusher'.rows = R /\ flusher'.pc = "copied"
  BY <1>1
<1>5. Types'
  BY <1>1 DEF IInv, Types
<1>6. FlusherType'
  <2>1. Dirty \subseteq Keys
    BY <1>2
  <2> QED BY <1>1, <1>3, <1>4, <2>1 DEF FlusherType, Phase
<1>7. Owed'
  <2>1. \A k \in Dirty : heard[k] \in Row /\ R[k].seconds <= heard[k].seconds
    BY <1>2, <1>3 DEF IInv, Owed, OwedEntry
  <2> QED BY <1>1, <1>3, <1>4, <2>1 DEF IInv, Owed, OwedEntry, OwedRow, OwedDb, HeardPast
<1>8. RowsAreOld'
  <2>1. \A k \in Dirty : /\ sessions[k] \in Entry /\ R[k].lastSeen <= sessions[k].lastSeen
                         /\ R[k].seconds = sessions[k].seconds
    BY <1>2, <1>3 DEF Entry
  <2> QED BY <1>1, <1>3, <1>4, <2>1 DEF RowsAreOld
<1>9. RowsAreStored' /\ CleanIsStored'
  BY <1>1, <1>4 DEF IInv, RowsAreStored, CleanIsStored, Stored
<1> QED BY <1>5, <1>6, <1>7, <1>8, <1>9 DEF IInv

\* What any write, complete or not, does to the database: rows only grow, to no
\* more than what is owed, and those that were written are there.
LEMMA WrittenSafe ==
  ASSUME IInv, NEW S \in SUBSET DOMAIN flusher.rows, db' = Written(S),
         UNCHANGED <<now, sessions, deleted, heard>>
  PROVE  /\ db' \in [Keys -> Row \cup {None}]
         /\ \A k \in Keys : OwedDb(k)'
         /\ CleanIsStored'
         /\ \A k \in S : Stored(k, db'[k], flusher.rows[k])
<1>1. \A k \in S : k \in Keys /\ flusher.rows[k] \in Row
  BY DEF IInv, FlusherType
<1>2. ASSUME NEW k \in Keys
      PROVE  /\ db'[k] \in Row \cup {None}
             /\ db[k] \in Row => /\ db'[k] \in Row /\ db'[k].lastSeen >= db[k].lastSeen
                                 /\ db'[k].seconds >= db[k].seconds
             /\ OwedDb(k)'
             /\ k \in S => Stored(k, db'[k], flusher.rows[k])
  <2>1. db[k] \in Row \cup {None} /\ OwedDb(k) /\ OwedRow(k)
    BY DEF IInv, Types, Owed
  <2>2. CASE k \in S /\ k[2] \notin deleted
    <3>1. db'[k] = Upserted(db[k], flusher.rows[k])
      BY <2>2 DEF Written
    <3>2. flusher.rows[k] \in Row
      BY <1>1, <2>2
    <3>3. /\ Upserted(db[k], flusher.rows[k]) \in Row
          /\ Upserted(db[k], flusher.rows[k]).lastSeen >= flusher.rows[k].lastSeen
          /\ Upserted(db[k], flusher.rows[k]).seconds >= flusher.rows[k].seconds
      BY <2>1, <3>2 DEF Upserted, AtLeast, Row
    <3>4. db[k] \in Row =>
            /\ Upserted(db[k], flusher.rows[k]).lastSeen >= db[k].lastSeen
            /\ Upserted(db[k], flusher.rows[k]).seconds >= db[k].seconds
      BY <2>1, <3>2 DEF Upserted, AtLeast, Row
    <3>5. heard[k] \in Row /\ Upserted(db[k], flusher.rows[k]).seconds <= heard[k].seconds
      BY <2>1, <2>2, <3>2 DEF Upserted, AtLeast, OwedDb, OwedRow, Row
    <3> HIDE DEF Row
    <3> QED BY <3>1, <3>3, <3>4, <3>5 DEF OwedDb, Stored
  <2>3. CASE ~(k \in S /\ k[2] \notin deleted)
    <3>1. db'[k] = db[k]
      BY <2>3 DEF Written
    <3> QED BY <2>1, <2>3, <3>1 DEF OwedDb, Stored, Row
  <2> QED BY <2>2, <2>3
<1>3. db' \in [Keys -> Row \cup {None}]
  BY <1>2 DEF Written
<1>4. CleanIsStored'
  <2> SUFFICES ASSUME NEW k \in Keys, sessions[k] # None, ~sessions[k].dirty, k[2] \notin deleted
               PROVE  /\ db'[k] \in Row /\ db'[k].lastSeen >= sessions[k].lastSeen
                      /\ db'[k].seconds >= sessions[k].seconds
    BY DEF CleanIsStored, Stored
  <2>1. /\ db[k] \in Row /\ db[k].lastSeen >= sessions[k].lastSeen
        /\ db[k].seconds >= sessions[k].seconds /\ sessions[k] \in Entry
    BY DEF IInv, Types, CleanIsStored, Stored
  <2> QED BY <1>2, <2>1 DEF Row, Entry
<1> QED BY <1>1, <1>2, <1>3, <1>4

LEMMA WriteSafe == ASSUME IInv, FlushWrite \/ FlushFails PROVE IInv'
<1>0. DOMAIN flusher = {"pc", "rows", "ok", "final"} /\ FlusherType
  BY DEF IInv, FlusherType
<1>1. PICK S \in SUBSET DOMAIN flusher.rows :
        db' = Written(S) /\ (flusher'.ok => S = DOMAIN flusher.rows)
  BY <1>0 DEF FlushWrite, FlushFails
<1>2. /\ flusher'.pc = "written" /\ flusher'.rows = flusher.rows
      /\ flusher' = [pc |-> flusher'.pc, rows |-> flusher'.rows, ok |-> flusher'.ok,
                     final |-> flusher'.final]
      /\ UNCHANGED <<now, playing, prepares, sessions, deleted, heard>>
  <2>1. CASE FlushWrite
    BY <1>0, <2>1 DEF FlushWrite, FlusherType
  <2>2. CASE FlushFails
    BY <1>0, <2>2 DEF FlushFails, FlusherType
  <2> QED BY <2>1, <2>2
<1>3. faults' \in Nat
  BY DEF FlushWrite, FlushFails, IInv, Types
<1>4. /\ db' \in [Keys -> Row \cup {None}] /\ CleanIsStored'
      /\ \A k \in Keys : OwedDb(k)'
      /\ \A k \in S : Stored(k, db'[k], flusher.rows[k])
  BY <1>1, <1>2, WrittenSafe
<1>5. Types' /\ FlusherType'
  BY <1>2, <1>4, <1>3 DEF IInv, Types, FlusherType, Phase
<1>6. Owed'
  BY <1>2, <1>4 DEF IInv, Owed, OwedEntry, OwedRow, HeardPast
<1>7. RowsAreOld'
  BY <1>2 DEF IInv, RowsAreOld
<1>8. RowsAreStored'
  BY <1>1, <1>2, <1>4 DEF RowsAreStored, Stored
<1> QED BY <1>4, <1>5, <1>6, <1>7, <1>8 DEF IInv

\* Clearing by the time alone is right: the write succeeded, and an entry whose
\* time is that of its row has the total of its row.
LEMMA SettleSafe ==
  ASSUME IInv, FlushSettle
  PROVE  /\ IInv'
         /\ \A k \in Keys : sessions[k] # None /\ sessions'[k] = None =>
              Stored(k, db[k], sessions[k]) \/ now - sessions[k].lastSeen > DirtyGiveUp
<1> DEFINE Kept(k) == IF sessions[k] # None /\ Settled(k)
                        THEN [sessions[k] EXCEPT !.dirty = FALSE] ELSE sessions[k]
<1>1. /\ flusher.pc = "written"
      /\ sessions' = [k \in Keys |-> IF Kept(k) # None /\ Over(Kept(k)) THEN None ELSE Kept(k)]
      /\ UNCHANGED <<now, playing, db, deleted, heard, faults>>
  BY DEF FlushSettle
<1>2. flusher'.rows = NoRows /\ flusher'.pc \in {"waiting", "returned"} /\ FlusherType'
  BY DEF FlushSettle, NoFlush, NoRows, FlusherType, Phase, IInv
<1>3. prepares' \in [PrepareKeys -> [video: Videos, at: Times] \cup {None}]
  BY DEF FlushSettle, IInv, Types
<1>4. ASSUME NEW k \in Keys, sessions[k] # None
      PROVE  /\ sessions[k] \in Entry /\ Kept(k) \in Entry /\ Kept(k) # None
             /\ Kept(k).lastSeen = sessions[k].lastSeen /\ Kept(k).seconds = sessions[k].seconds
             /\ ~Kept(k).dirty => Stored(k, db[k], sessions[k])
  <2>1. sessions[k] \in Entry
    BY <1>4 DEF IInv, Types
  <2>2. CASE Settled(k)
    <3>1. Kept(k) = [sessions[k] EXCEPT !.dirty = FALSE]
      BY <1>4, <2>2
    <3>2. /\ k \in DOMAIN flusher.rows /\ Stored(k, db[k], flusher.rows[k])
          /\ flusher.rows[k].lastSeen = sessions[k].lastSeen
          /\ flusher.rows[k].seconds = sessions[k].seconds
      BY <1>1, <2>2 DEF Settled, IInv, RowsAreStored, RowsAreOld
    <3> HIDE DEF Kept
    <3> QED BY <2>1, <3>1, <3>2 DEF Entry, Stored
  <2>3. CASE ~Settled(k)
    BY <1>4, <2>1, <2>3 DEF IInv, CleanIsStored
  <2> QED BY <2>2, <2>3
<1>5. ASSUME NEW k \in Keys, sessions[k] = None PROVE sessions'[k] = None
  BY <1>1, <1>5
<1>6. ASSUME NEW k \in Keys, sessions'[k] # None
      PROVE  sessions[k] # None /\ sessions'[k] = Kept(k)
  BY <1>1, <1>5, <1>6
<1> HIDE DEF Kept
<1>7. sessions' \in [Keys -> Entry \cup {None}]
  BY <1>1, <1>4, <1>5, <1>6
<1>8. Types'
  BY <1>1, <1>3, <1>7 DEF IInv, Types
<1>9. Owed'
  BY <1>1, <1>2, <1>4, <1>6 DEF IInv, Owed, OwedEntry, OwedRow, OwedDb, HeardPast, NoRows
<1>10. RowsAreOld' /\ RowsAreStored'
  BY <1>2 DEF RowsAreOld, RowsAreStored, NoRows
<1>11. CleanIsStored'
  BY <1>1, <1>4, <1>6 DEF CleanIsStored, Stored
<1>12. ASSUME NEW k \in Keys, sessions[k] # None, sessions'[k] = None
       PROVE  Stored(k, db[k], sessions[k]) \/ now - sessions[k].lastSeen > DirtyGiveUp
  <2>1. Over(Kept(k))
    BY <1>1, <1>4, <1>12
  <2> QED BY <1>4, <1>12, <2>1 DEF Over
<1> QED BY <1>2, <1>8, <1>9, <1>10, <1>11, <1>12 DEF IInv

LEMMA RestSafe ==
  ASSUME IInv,
         \/ \E t \in Tabs, v \in Videos : Prepared(t, v)
         \/ \E v \in Videos : Delete(v)
         \/ Stop \/ Drained \/ Tick \/ UNCHANGED vars
  PROVE  IInv'
<1>1. ASSUME NEW t \in Tabs, NEW v \in Videos, Prepared(t, v) PROVE IInv'
  <2>1. /\ playing' \in [Tabs -> Videos \cup {None}]
        /\ prepares' \in [PrepareKeys -> [video: Videos, at: Times] \cup {None}]
    BY <1>1 DEF Prepared, IInv, Types
  <2> QED BY <1>1, <2>1
          DEF Prepared, IInv, Types, FlusherType, Owed, OwedEntry, OwedRow, OwedDb, HeardPast,
              RowsAreOld, RowsAreStored, CleanIsStored, Stored
<1>2. ASSUME NEW v \in Videos, Delete(v) PROVE IInv'
  <2>1. /\ UNCHANGED <<now, playing, prepares, sessions, flusher, heard, faults>>
        /\ deleted' = deleted \cup {v}
        /\ \A k \in Keys : db'[k] = IF k[2] = v THEN None ELSE db[k]
    BY <1>2 DEF Delete, processVars
  <2>2. Types' /\ FlusherType'
    BY <1>2, <2>1 DEF Delete, IInv, Types, FlusherType
  <2>3. Owed' /\ RowsAreOld'
    BY <2>1 DEF IInv, Owed, OwedEntry, OwedRow, OwedDb, HeardPast, RowsAreOld
  <2>4. RowsAreStored' /\ CleanIsStored'
    BY <2>1 DEF IInv, FlusherType, RowsAreStored, CleanIsStored, Stored
  <2> QED BY <2>2, <2>3, <2>4 DEF IInv
<1>3. CASE Tick
  <2>1. /\ now' \in Times /\ now' = now + 1
        /\ UNCHANGED <<playing, prepares, sessions, flusher, db, deleted, heard, faults>>
    BY <1>3 DEF Tick, processVars, IInv, Types
  <2>2. \A k \in Keys : HeardPast(k)'
    BY <2>1 DEF IInv, Types, Owed, HeardPast, Row
  <2> QED BY <2>1, <2>2 DEF IInv, Types, FlusherType, Owed, OwedEntry, OwedRow, OwedDb,
          RowsAreOld, RowsAreStored, CleanIsStored, Stored
<1>4. CASE Stop \/ Drained \/ UNCHANGED vars
  <2>1. UNCHANGED <<now, playing, prepares, sessions, flusher, db, deleted, heard>> /\ faults' \in Nat
    BY <1>4 DEF Stop, Fault, Drained, vars, IInv, Types
  <2> QED BY <2>1 DEF IInv, Types, FlusherType, Owed, OwedEntry, OwedRow, OwedDb, HeardPast,
          RowsAreOld, RowsAreStored, CleanIsStored, Stored
<1> QED BY <1>1, <1>2, <1>3, <1>4

LEMMA NewProcessSafe == ASSUME IInv, NewProcess, faults' \in Nat PROVE IInv'
<1>1. /\ \A k \in Keys : sessions'[k] = None
      /\ flusher' = NoFlush /\ flusher'.rows = NoRows /\ flusher'.pc = "waiting"
      /\ UNCHANGED <<now, playing, db, deleted, heard>>
  BY DEF NewProcess, NoFlush
<1>2. Types' /\ FlusherType'
  BY <1>1 DEF NewProcess, IInv, Types, FlusherType, NoFlush, NoRows, Phase
<1>3. Owed'
  BY <1>1 DEF IInv, Owed, OwedEntry, OwedRow, OwedDb, HeardPast, NoRows
<1>4. RowsAreOld' /\ RowsAreStored' /\ CleanIsStored'
  BY <1>1 DEF RowsAreOld, RowsAreStored, CleanIsStored, NoRows
<1> QED BY <1>2, <1>3, <1>4 DEF IInv

LEMMA StepIInv == IInv /\ [Next]_vars => IInv'
<1> SUFFICES ASSUME IInv, [Next]_vars PROVE IInv'
  OBVIOUS
<1>1. CASE \E t \in Tabs : Beat(t)
  BY <1>1, BeatSafe
<1>2. CASE Flush
  BY <1>2, CopySafe, WriteSafe, SettleSafe DEF Flush
<1>3. CASE Exit \/ Crash
  <2>1. faults' \in Nat /\ NewProcess
    BY <1>3 DEF Exit, Crash, Fault, IInv, Types
  <2> QED BY <2>1, NewProcessSafe
<1> QED BY <1>1, <1>2, <1>3, RestSafe DEF Next, Shutdown

LEMMA Invariance == Spec => []IInv
<1> QED BY InitIInv, StepIInv, PTL DEF Spec

LEMMA IInvImplies == IInv => TypeOK /\ NeverOvercounts /\ CleanIsSaved
<1> SUFFICES ASSUME IInv PROVE TypeOK /\ NeverOvercounts /\ CleanIsSaved
  OBVIOUS
<1>1. TypeOK
  BY DEF IInv, Types, FlusherType, Phase, TypeOK
<1>2. NeverOvercounts
  BY DEF IInv, Owed, OwedDb, NeverOvercounts
<1>3. CleanIsSaved
  BY DEF IInv, CleanIsStored, Stored, CleanIsSaved, Saved
<1> QED BY <1>1, <1>2, <1>3

\* The variables keep their types (TypeOK).
THEOREM TypeCorrect == Spec => []TypeOK
<1> QED BY Invariance, IInvImplies, PTL

\* No row ever holds more than the capped gaps between the beats of its session,
\* whatever writes are repeated, cut short or follow a crash.
THEOREM NothingIsCountedTwice == Spec => []NeverOvercounts
<1> QED BY Invariance, IInvImplies, PTL

\* An entry is cleared only when the database has what it holds.
THEOREM ClearedIsSaved == Spec => []CleanIsSaved
<1> QED BY Invariance, IInvImplies, PTL

\* A flush forgets only what the database has, or has refused for too long.
THEOREM NothingIsForgotten == Spec => ForgottenIsSaved
<1> DEFINE Safe == \A k \in Keys :
             /\ flusher.pc = "written" /\ faults' = faults
             /\ sessions[k] # None /\ sessions'[k] = None
             => Saved(k) \/ now - sessions[k].lastSeen > DirtyGiveUp
<1>1. IInv /\ [Next]_vars => [Safe]_vars
  <2> SUFFICES ASSUME IInv, [Next]_vars PROVE [Safe]_vars
    OBVIOUS
  <2>1. CASE FlushSettle
    BY <2>1, SettleSafe DEF Stored, Saved
  <2>2. CASE ~FlushSettle
    <3> SUFFICES ASSUME NEW k \in Keys, flusher.pc = "written", faults' = faults,
                        sessions[k] # None
                 PROVE  sessions'[k] # None
      OBVIOUS
    <3>1. ASSUME NEW t \in Tabs, Beat(t) PROVE sessions'[k] # None
      <4>1. sessions'[k] = sessions[k] \/ sessions'[k] = Counted(sessions[k])
        BY <3>1 DEF Beat, IInv, Types
      <4>2. Counted(sessions[k]) \in Entry
        <5>1. /\ sessions[k] \in Entry /\ heard[k] \in Row
              /\ sessions[k].lastSeen = heard[k].lastSeen
          BY DEF IInv, Types, Owed, OwedEntry
        <5>2. sessions[k].lastSeen <= now /\ now \in Nat
          BY <5>1 DEF IInv, Types, Owed, HeardPast
        <5>3. Gap(sessions[k].lastSeen) \in Nat
          BY <5>1, <5>2 DEF Gap, AtMost, Entry
        <5> QED BY <5>1, <5>3 DEF Counted, Entry, IInv, Types
      <4> QED BY <4>1, <4>2
    <3>2. CASE \/ \E t \in Tabs, v \in Videos : Prepared(t, v)
               \/ \E v \in Videos : Delete(v)
               \/ Stop \/ Drained \/ Tick \/ UNCHANGED vars
               \/ FlushCopy \/ FlushWrite \/ FlushFails
      BY <3>2 DEF Prepared, Delete, Stop, Drained, Tick, vars, processVars, FlushCopy, FlushWrite, FlushFails
    <3>3. CASE Exit \/ Crash
      BY <3>3 DEF Exit, Crash, Fault, IInv, Types
    <3> QED BY <2>2, <3>1, <3>2, <3>3 DEF Next, Flush, Shutdown
  <2> QED BY <2>1, <2>2
<1> QED BY Invariance, <1>1, PTL DEF Spec, ForgottenIsSaved
=============================================================================
