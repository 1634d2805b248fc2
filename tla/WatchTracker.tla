---------------------------- MODULE WatchTracker ----------------------------
(***************************************************************************)
(* The viewer's watchTracker (viewer/watchtracker.go): one session per     *)
(* browser tab, a live session count per torrent, and a cancelable timer   *)
(* that drops a torrent some grace after its last viewer left.             *)
(*                                                                         *)
(* One action is one critical section of t.mu.  A timer's function starts  *)
(* when the timer expires and then has to take t.mu, so a Stop can come    *)
(* too late, and it calls the manager after it released t.mu.  Browsers    *)
(* are external: beats and leave beacons of any session come in any order, *)
(* late, twice or never.  The clock is external too: any session may have  *)
(* been silent for longer than ttl, and any armed timer may expire.        *)
(* dropGrace is a positive constant, so the branch for no grace is out.    *)
(***************************************************************************)
EXTENDS Naturals, FiniteSets

CONSTANTS
  Sessions,  \* session ids
  Hashes,    \* infohashes
  NoTorrent,
  MaxTimers  \* bound on the timers of one torrent alive at once

ASSUME WtConstants ==
  /\ IsFiniteSet(Sessions)
  /\ NoTorrent \notin Hashes
  /\ MaxTimers \in Nat \ {0}

VARIABLES
  sessions, \* watchTracker.sessions: the torrent of each session, or NoTorrent
  silent,   \* sessions whose lastSeen is older than ttl
  counts,   \* watchTracker.counts, 0 where the map has no entry
  pending,  \* watchTracker.pending: the timer, or 0
  timers    \* timers[h][i]: "off", "armed", "fired" (waits for t.mu) or
            \* "dropping" (in dropNow)

wtVars == <<sessions, silent, counts, pending, timers>>

Timer == 1..MaxTimers
Viewers(h) == {s \in Sessions : sessions[s] = h}
In(h, state) == {i \in Timer : timers[h][i] = state}
Dropping(h) == In(h, "dropping") # {}

WtInit ==
  /\ sessions = [s \in Sessions |-> NoTorrent]
  /\ silent = {}
  /\ counts = [h \in Hashes |-> 0]
  /\ pending = [h \in Hashes |-> 0]
  /\ timers = [h \in Hashes |-> [i \in Timer |-> "off"]]

-----------------------------------------------------------------------------

\* Faulty: each session that ends is released twice.
Release_Twice(S) == [h \in Hashes |-> counts[h] - 2 * Cardinality(S \cap Viewers(h))]

\* counts after release for each session of S, which all still watch.
Release(S) ==
  [h \in Hashes |-> LET n == Cardinality(S \cap Viewers(h)) IN
                      IF n > 0 /\ counts[h] <= n THEN 0 ELSE counts[h] - n]

\* The torrents release returns a hash for.
LastLeft(S) ==
  {h \in Hashes : S \cap Viewers(h) # {} /\ counts[h] <= Cardinality(S \cap Viewers(h))}

\* A timer that was stopped: too late once its function runs.
Stopped(h, i) == IF i \in In(h, "armed") THEN [timers[h] EXCEPT ![i] = "off"] ELSE timers[h]

\* scheduleDrop for each torrent of H, with the new timers new, and
\* cancelPending for those of C.
Reschedule(H, new, C) ==
  /\ \A h \in H : new[h] \in In(h, "off")
  /\ pending' = [h \in Hashes |->
       IF h \in C THEN 0 ELSE IF h \in H THEN new[h] ELSE pending[h]]
  /\ timers' = [h \in Hashes |->
       IF h \in C THEN Stopped(h, pending[h])
       ELSE IF h \in H THEN [Stopped(h, pending[h]) EXCEPT ![new[h]] = "armed"]
       ELSE timers[h]]

\* Sessions S end; their torrents without another viewer get a timer.
End(S) ==
  /\ sessions' = [s \in Sessions |-> IF s \in S THEN NoTorrent ELSE sessions[s]]
  /\ silent' = silent \ S
  /\ counts' = Release(S)
  /\ \E new \in [LastLeft(S) -> Timer] : Reschedule(LastLeft(S), new, {})

-----------------------------------------------------------------------------

\* The first branch of beat: the session already watches h.
Refresh(s, h) ==
  /\ sessions[s] = h
  /\ silent' = silent \ {s}
  /\ UNCHANGED <<sessions, counts, pending, timers>>

\* beat for a new session or a switch of source: the torrent left loses a
\* viewer, and a pending drop of h is canceled.
Beat(s, h) ==
  LET old == IF sessions[s] = NoTorrent THEN {} ELSE {s} IN
  /\ sessions[s] # h
  /\ sessions' = [sessions EXCEPT ![s] = h]
  /\ silent' = silent \ {s}
  /\ counts' = [Release(old) EXCEPT ![h] = @ + 1]
  /\ \E new \in [LastLeft(old) -> Timer] : Reschedule(LastLeft(old), new, {h})

Leave(s) ==
  /\ sessions[s] # NoTorrent
  /\ End({s})

\* The clock: a session is not heard of for ttl.
GoSilent(s) ==
  /\ sessions[s] # NoTorrent
  /\ silent' = silent \cup {s}
  /\ UNCHANGED <<sessions, counts, pending, timers>>

\* Faulty: the sweep ends sessions without scheduling a drop.
Sweep_Forgets ==
  /\ silent # {}
  /\ sessions' = [s \in Sessions |-> IF s \in silent THEN NoTorrent ELSE sessions[s]]
  /\ silent' = {}
  /\ counts' = Release(silent)
  /\ UNCHANGED <<pending, timers>>

Sweep ==
  /\ silent # {}
  /\ End(silent)

\* The clock: a timer expires and its function starts.
Expire(h, i) ==
  /\ timers[h][i] = "armed"
  /\ timers' = [timers EXCEPT ![h][i] = "fired"]
  /\ UNCHANGED <<sessions, silent, counts, pending>>

\* Faulty: the live count is not rechecked.
Callback_NoRecheck(h, i) ==
  /\ timers[h][i] = "fired"
  /\ pending' = [pending EXCEPT ![h] = 0]
  /\ timers' = [timers EXCEPT ![h][i] = "dropping"]
  /\ UNCHANGED <<sessions, silent, counts>>

\* The critical section of the function scheduleDrop hands to AfterFunc.
Callback(h, i) ==
  /\ timers[h][i] = "fired"
  /\ pending' = [pending EXCEPT ![h] = 0]
  /\ timers' = [timers EXCEPT ![h][i] = IF counts[h] > 0 THEN "off" ELSE "dropping"]
  /\ UNCHANGED <<sessions, silent, counts>>

\* dropNow returns; an error of the manager is logged.
DropReturns(h, i) ==
  /\ timers[h][i] = "dropping"
  /\ timers' = [timers EXCEPT ![h][i] = "off"]
  /\ UNCHANGED <<sessions, silent, counts, pending>>

-----------------------------------------------------------------------------

TimerStep(h, i) == Expire(h, i) \/ Callback(h, i) \/ DropReturns(h, i)

WtNext ==
  \/ \E s \in Sessions, h \in Hashes : Refresh(s, h) \/ Beat(s, h)
  \/ \E s \in Sessions : Leave(s) \/ GoSilent(s)
  \/ Sweep
  \/ \E h \in Hashes, i \in Timer : TimerStep(h, i)

WtSpec == WtInit /\ [][WtNext]_wtVars

\* run ticks for ever, timers expire, and a goroutine that waits for t.mu or
\* for the manager (a 15 s timeout) goes on.  A sweep is never blocked in the
\* code; here MaxTimers can disable it for a while, hence SF.
WtFairSpec ==
  /\ WtSpec
  /\ SF_wtVars(Sweep)
  /\ \A h \in Hashes, i \in Timer : WF_wtVars(TimerStep(h, i))

-----------------------------------------------------------------------------

\* The values the variables range over.
WtTypeOK ==
  /\ sessions \in [Sessions -> Hashes \cup {NoTorrent}]
  /\ silent \subseteq Sessions
  /\ counts \in [Hashes -> Nat]
  /\ pending \in [Hashes -> 0..MaxTimers]
  /\ timers \in [Hashes -> [Timer -> {"off", "armed", "fired", "dropping"}]]

\* The count that decides over a drop is the number of sessions of the torrent,
\* across joins, switches of source, leaves and sweeps.
CountsExact == \A h \in Hashes : counts[h] = Cardinality(Viewers(h))

\* A tracked drop is live and owed: its timer can still fire, and nobody watches
\* the torrent, so a viewer who comes back always finds and cancels it.  (An
\* expired timer that waits for t.mu can untrack a newer one, never the reverse.)
PendingIsUnwatched ==
  \A h \in Hashes :
    pending[h] # 0 => /\ Viewers(h) = {}
                      /\ timers[h][pending[h]] \in {"armed", "fired"}

\* The tracker keeps the promise of Viewership.
Promise == INSTANCE Viewership WITH
  None <- NoTorrent,
  watching <- sessions,
  dropping <- {h \in Hashes : Dropping(h)}
DropsOnlyUnwatched == Promise!ASpec

\* A watched torrent is dropped in the end unless some tab is heard of again
\* and again: no order of beats, leaves, sweeps and late timers loses the drop.
AbandonedIsDropped ==
  \A h \in Hashes :
    [](counts[h] > 0 => \/ <>Dropping(h)
                        \/ []<>(\E s \in Viewers(h) : s \notin silent))

\* watchtracker.go:32-33: "a viewer who is really still watching never has the
\* torrent yanked out from under them".
NoDropUnderViewer == \A h \in Hashes : Dropping(h) => Viewers(h) = {}

\* watchtracker.go:28-29: the tracker waits dropGrace after the last viewer
\* left; a drop is not decided while the grace of a later departure runs.
GraceIsHonoured ==
  [][\A h \in Hashes :
       (\E i \in Timer : timers[h][i] = "fired" /\ timers'[h][i] = "dropping") =>
         In(h, "armed") = {}]_wtVars
=============================================================================
