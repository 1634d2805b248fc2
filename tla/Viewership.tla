----------------------------- MODULE Viewership -----------------------------
(***************************************************************************)
(* What the viewer promises about dropping torrents                        *)
(* (viewer/watchtracker.go:17-27), without counters, timers or locks: a    *)
(* tab watches at most one torrent, and the decision to drop a torrent is  *)
(* taken only while no tab watches it.                                     *)
(***************************************************************************)
CONSTANTS Sessions, Hashes, None

VARIABLES
  watching, \* the torrent each session watches, or None
  dropping  \* torrents a drop call is in flight for

avars == <<watching, dropping>>

Watched(h) == \E s \in Sessions : watching[s] = h

AInit ==
  /\ watching = [s \in Sessions |-> None]
  /\ dropping = {}

Watch(s, h) ==
  /\ watching' = [watching EXCEPT ![s] = h]
  /\ UNCHANGED dropping

\* One session leaves, or a sweep ends several.
Stop(S) ==
  /\ watching' = [s \in Sessions |-> IF s \in S THEN None ELSE watching[s]]
  /\ UNCHANGED dropping

Drop(h) ==
  /\ ~Watched(h)
  /\ dropping' = dropping \cup {h}
  /\ UNCHANGED watching

Dropped(h) ==
  /\ dropping' = dropping \ {h}
  /\ UNCHANGED watching

ANext ==
  \/ \E s \in Sessions, h \in Hashes : Watch(s, h)
  \/ \E S \in SUBSET Sessions : Stop(S)
  \/ \E h \in Hashes : Drop(h) \/ Dropped(h)

ASpec == AInit /\ [][ANext]_avars
=============================================================================
