---------------------------- MODULE RateLimiter -----------------------------
(***************************************************************************)
(* The viewer's sliding-window limiter (ratelimit.go) as operators on its  *)
(* map: hits[k] is the set of calls of key k that are remembered, a call   *)
(* being <<time, n>>, the n-th that was let through at that time.  The     *)
(* order of the slice is never used: it is filtered and counted.           *)
(* allow holds the lock throughout, so each call is one step of its user.  *)
(***************************************************************************)
EXTENDS Integers, FiniteSets

CONSTANTS Window, MaxKeys   \* MaxKeys is maxRateLimitKeys

ASSUME RlConstants == Window \in Nat \ {0} /\ MaxKeys \in Nat

\* Stamps after the cutoff.
\* Faulty: the window closes one moment early.
Live_Early(calls, now) == {c \in calls : c[1] > now - Window + 1}
Live(calls, now) == {c \in calls : c[1] > now - Window}

\* sweepLocked, when the map has grown past MaxKeys.
Swept(hits, now) ==
  IF Cardinality({k \in DOMAIN hits : hits[k] # {}}) > MaxKeys
  THEN [k \in DOMAIN hits |-> Live(hits[k], now)] ELSE hits

Kept(hits, k, now) == Live(Swept(hits, now)[k], now)
Allows(hits, k, now, limit) == Cardinality(Kept(hits, k, now)) < limit
ThisCall(hits, k, now) ==
  <<now, Cardinality({c \in Kept(hits, k, now) : c[1] = now}) + 1>>

\* The map after a call: a rejected one prunes and is not recorded.
Hit(hits, k, now, limit) == [Swept(hits, now) EXCEPT ![k] =
  IF Allows(hits, k, now, limit)
  THEN Kept(hits, k, now) \cup {ThisCall(hits, k, now)} ELSE Kept(hits, k, now)]
=============================================================================
