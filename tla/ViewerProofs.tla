---------------------------- MODULE ViewerProofs ----------------------------
(***************************************************************************)
(* Proofs about the viewer's tabs, one part for each model:                *)
(*                                                                         *)
(*   WatchTracker, for any sessions, torrents and timers.  The inductive   *)
(*     invariant WtInv is the type, the exactness of the counts, and that  *)
(*     a pending drop has a live timer and no viewer; the tracker then     *)
(*     implements Viewership because a drop is decided on a count of 0.    *)
(*   Accounts, for any browsers, tabs, accounts and titles.  The inductive *)
(*     invariant AcInv follows a flow from its cookie to its page: the     *)
(*     nonce of a flow is in the browser it left from and nowhere else     *)
(*     (TabOk), a session names an account that consented there            *)
(*     (CookiesOk), a call whose page is still there is made for such an   *)
(*     account, and a merge carries the whole local list (CallOk).         *)
(***************************************************************************)
EXTENDS WatchTracker, Accounts, FiniteSetTheorems, TLAPS

-----------------------------------------------------------------------------
(***************************************************************************)
(* WatchTracker.                                                           *)
(***************************************************************************)
States == {"off", "armed", "fired", "dropping"}

WtInv == WtTypeOK /\ CountsExact /\ PendingIsUnwatched

LEMMA ViewersFinite == ASSUME NEW h PROVE IsFiniteSet(Viewers(h))
<1>1. Viewers(h) \subseteq Sessions
  BY DEF Viewers
<1> QED BY <1>1, WtConstants, FS_Subset

\* What release leaves of the counts, and which torrents it reports.
LEMMA ReleaseExact ==
  ASSUME WtTypeOK, CountsExact, NEW S \in SUBSET Sessions, NEW h \in Hashes
  PROVE  /\ Release(S)[h] = Cardinality(Viewers(h) \ S)
         /\ Release(S)[h] \in Nat
         /\ h \in LastLeft(S) => Viewers(h) \ S = {}
<1> DEFINE V == Viewers(h)
<1>1. IsFiniteSet(V)
  BY ViewersFinite
<1>2. /\ IsFiniteSet(V \ S)
      /\ Cardinality(V \ S) = Cardinality(V) - Cardinality(V \cap S)
  BY <1>1, FS_Difference
<1>3. V \cap S \in SUBSET V
  OBVIOUS
<1>4. IsFiniteSet(V \cap S) /\ Cardinality(V \cap S) <= Cardinality(V)
  BY ONLY <1>1, <1>3, FS_Subset
<1>5. /\ Cardinality(V) \in Nat /\ Cardinality(V \cap S) \in Nat
      /\ Cardinality(V \ S) \in Nat
  BY <1>1, <1>2, <1>4, FS_CardinalityType
<1>6. counts[h] = Cardinality(V)
  BY DEF CountsExact
<1>7. S \cap V = V \cap S
  OBVIOUS
<1>8. Release(S)[h] = IF Cardinality(V \cap S) > 0 /\ counts[h] <= Cardinality(V \cap S)
                        THEN 0 ELSE counts[h] - Cardinality(V \cap S)
  BY <1>7 DEF Release
<1>9. Release(S)[h] = Cardinality(V \ S)
  <2> HIDE DEF V
  <2> QED BY <1>2, <1>4, <1>5, <1>6, <1>8
<1>10. ASSUME h \in LastLeft(S) PROVE V \ S = {}
  <2>1. counts[h] <= Cardinality(V \cap S)
    BY <1>7, <1>10 DEF LastLeft
  <2>2. Cardinality(V \ S) = 0
    <3> HIDE DEF V
    <3> QED BY <1>2, <1>4, <1>5, <1>6, <2>1
  <2> HIDE DEF V
  <2> QED BY <1>2, <2>2, FS_EmptySet
<1> QED BY <1>5, <1>9, <1>10

\* Scheduling and canceling drops keeps the types, touches no drop that has
\* been decided, and leaves only live timers pending.
LEMMA RescheduleSafe ==
  ASSUME WtTypeOK, NEW H \in SUBSET Hashes, NEW C \in SUBSET Hashes,
         NEW new \in [H -> Timer], Reschedule(H, new, C)
  PROVE  /\ pending' \in [Hashes -> 0..MaxTimers]
         /\ timers' \in [Hashes -> [Timer -> States]]
         /\ \A h \in Hashes, i \in Timer :
              timers'[h][i] = "dropping" <=> timers[h][i] = "dropping"
         /\ \A h \in Hashes : pending'[h] # 0 =>
              /\ h \notin C
              /\ \/ h \in H /\ timers'[h][pending'[h]] = "armed"
                 \/ h \notin H /\ pending'[h] = pending[h] /\ timers'[h] = timers[h]
<1> USE DEF Timer, States
<1>1. ASSUME NEW h \in Hashes, NEW j
      PROVE  /\ Stopped(h, j) \in [Timer -> States]
             /\ \A i \in Timer : Stopped(h, j)[i] = "dropping" <=> timers[h][i] = "dropping"
             /\ \A i \in Timer : timers[h][i] = "off" => Stopped(h, j)[i] = "off"
  BY <1>1 DEF Stopped, In, WtTypeOK
<1>2. \A h \in H : new[h] \in Timer /\ timers[h][new[h]] = "off"
  BY DEF Reschedule, In
<1>3. pending' \in [Hashes -> 0..MaxTimers]
  BY WtConstants DEF Reschedule, WtTypeOK
<1>4. ASSUME NEW h \in Hashes
      PROVE  /\ timers'[h] \in [Timer -> States]
             /\ \A i \in Timer : timers'[h][i] = "dropping" <=> timers[h][i] = "dropping"
  <2>1. CASE h \in C
    <3>1. timers'[h] = Stopped(h, pending[h])
      BY <2>1 DEF Reschedule
    <3> QED BY <3>1, <1>1
  <2>2. CASE h \notin C /\ h \in H
    <3>1. timers'[h] = [Stopped(h, pending[h]) EXCEPT ![new[h]] = "armed"]
      BY <2>2 DEF Reschedule
    <3> QED BY <3>1, <1>1, <1>2, <2>2
  <2>3. CASE h \notin C /\ h \notin H
    <3>1. timers'[h] = timers[h]
      BY <2>3 DEF Reschedule
    <3> QED BY <3>1 DEF WtTypeOK
  <2> QED BY <2>1, <2>2, <2>3
<1>5. ASSUME NEW h \in Hashes, pending'[h] # 0
      PROVE  /\ h \notin C
             /\ \/ h \in H /\ timers'[h][pending'[h]] = "armed"
                \/ h \notin H /\ pending'[h] = pending[h] /\ timers'[h] = timers[h]
  <2>1. h \notin C
    BY <1>5 DEF Reschedule
  <2>2. CASE h \in H
    <3>1. timers'[h] = [Stopped(h, pending[h]) EXCEPT ![new[h]] = "armed"]
      BY <2>1, <2>2 DEF Reschedule
    <3>2. pending'[h] = new[h]
      BY <2>1, <2>2 DEF Reschedule
    <3>3. Stopped(h, pending[h]) \in [Timer -> States]
      BY <1>1
    <3> QED BY <3>1, <3>2, <3>3, <2>1, <2>2, <1>2
  <2>3. CASE h \notin H
    BY <2>1, <2>3 DEF Reschedule
  <2> QED BY <2>1, <2>2, <2>3
<1>6. timers' \in [Hashes -> [Timer -> States]]
  <2>1. timers' = [h \in Hashes |-> timers'[h]]
    BY DEF Reschedule
  <2> QED BY <1>4, <2>1
<1> QED BY <1>3, <1>4, <1>5, <1>6

LEMMA WtInvInit == WtInit => WtInv
<1> SUFFICES ASSUME WtInit PROVE WtInv
  OBVIOUS
<1>1. WtTypeOK
  BY WtConstants DEF WtInit, WtTypeOK, Timer
<1>2. ASSUME NEW h \in Hashes PROVE Viewers(h) = {}
  BY WtConstants DEF WtInit, Viewers
<1>3. CountsExact
  BY <1>2, FS_EmptySet DEF WtInit, CountsExact
<1>4. PendingIsUnwatched
  BY DEF WtInit, PendingIsUnwatched
<1> QED BY <1>1, <1>3, <1>4 DEF WtInv

\* The step of leave and sweep.
LEMMA EndIInv ==
  ASSUME WtInv, NEW S \in SUBSET Sessions, End(S)
  PROVE  /\ WtInv'
         /\ \A h \in Hashes : Dropping(h)' = Dropping(h)
<1>1. WtTypeOK /\ CountsExact /\ PendingIsUnwatched
  BY DEF WtInv
<1>2. PICK new \in [LastLeft(S) -> Timer] : Reschedule(LastLeft(S), new, {})
  BY DEF End
<1>3. LastLeft(S) \in SUBSET Hashes
  BY DEF LastLeft
<1>4. /\ pending' \in [Hashes -> 0..MaxTimers]
      /\ timers' \in [Hashes -> [Timer -> States]]
      /\ \A h \in Hashes, i \in Timer :
           timers'[h][i] = "dropping" <=> timers[h][i] = "dropping"
      /\ \A h \in Hashes : pending'[h] # 0 =>
           \/ h \in LastLeft(S) /\ timers'[h][pending'[h]] = "armed"
           \/ pending'[h] = pending[h] /\ timers'[h] = timers[h]
  BY <1>1, <1>2, <1>3, RescheduleSafe
<1>5. ASSUME NEW h \in Hashes PROVE Viewers(h)' = Viewers(h) \ S
  BY <1>1, WtConstants DEF End, Viewers, WtTypeOK
<1>6. /\ sessions' \in [Sessions -> Hashes \cup {NoTorrent}]
      /\ silent' \subseteq Sessions
  BY <1>1 DEF End, WtTypeOK
<1>7. /\ counts' \in [Hashes -> Nat]
      /\ \A h \in Hashes : counts'[h] = Cardinality(Viewers(h) \ S)
  <2>1. counts' = [h \in Hashes |-> Release(S)[h]]
    BY DEF End, Release
  <2> QED BY <2>1, <1>1, ReleaseExact
<1>8. WtTypeOK'
  BY <1>4, <1>6, <1>7 DEF WtTypeOK, States
<1>9. CountsExact'
  BY <1>5, <1>7 DEF CountsExact
<1>10. PendingIsUnwatched'
  <2> SUFFICES ASSUME NEW h \in Hashes, pending'[h] # 0
               PROVE  Viewers(h)' = {} /\ timers'[h][pending'[h]] \in {"armed", "fired"}
    BY DEF PendingIsUnwatched
  <2>1. CASE h \in LastLeft(S) /\ timers'[h][pending'[h]] = "armed"
    BY <2>1, <1>1, <1>5, ReleaseExact
  <2>2. CASE pending'[h] = pending[h] /\ timers'[h] = timers[h]
    BY <2>2, <1>1, <1>5 DEF PendingIsUnwatched
  <2> QED BY <1>4, <2>1, <2>2
<1>11. \A h \in Hashes : Dropping(h)' = Dropping(h)
  BY <1>4 DEF Dropping, In, Timer
<1> QED BY <1>8, <1>9, <1>10, <1>11 DEF WtInv

LEMMA BeatIInv ==
  ASSUME WtInv, NEW s \in Sessions, NEW h \in Hashes, Beat(s, h)
  PROVE  /\ WtInv'
         /\ \A g \in Hashes : Dropping(g)' = Dropping(g)
<1>1. WtTypeOK /\ CountsExact /\ PendingIsUnwatched
  BY DEF WtInv
<1>2. PICK old : /\ old = IF sessions[s] = NoTorrent THEN {} ELSE {s}
                 /\ counts' = [Release(old) EXCEPT ![h] = @ + 1]
                 /\ \E new \in [LastLeft(old) -> Timer] : Reschedule(LastLeft(old), new, {h})
  BY DEF Beat
<1>3. old \in SUBSET Sessions
  BY <1>2
<1>4. LastLeft(old) \in SUBSET Hashes
  BY DEF LastLeft
<1>5. PICK new \in [LastLeft(old) -> Timer] : Reschedule(LastLeft(old), new, {h})
  BY <1>2
<1>6. /\ pending' \in [Hashes -> 0..MaxTimers]
      /\ timers' \in [Hashes -> [Timer -> States]]
      /\ \A g \in Hashes, i \in Timer :
           timers'[g][i] = "dropping" <=> timers[g][i] = "dropping"
      /\ \A g \in Hashes : pending'[g] # 0 =>
           /\ g # h
           /\ \/ g \in LastLeft(old) /\ timers'[g][pending'[g]] = "armed"
              \/ pending'[g] = pending[g] /\ timers'[g] = timers[g]
  <2>1. {h} \in SUBSET Hashes
    OBVIOUS
  <2> QED BY <1>1, <1>4, <1>5, <2>1, RescheduleSafe
<1>7. /\ sessions' = [sessions EXCEPT ![s] = h] /\ sessions[s] # h
      /\ silent' = silent \ {s}
  BY DEF Beat
<1>8. ASSUME NEW g \in Hashes
      PROVE  Viewers(g)' = IF g = h THEN (Viewers(g) \ old) \cup {s} ELSE Viewers(g) \ old
  BY <1>1, <1>2, <1>7, WtConstants DEF Viewers, WtTypeOK
<1>9. \A g \in Hashes : /\ Release(old)[g] = Cardinality(Viewers(g) \ old)
                        /\ Release(old)[g] \in Nat
                        /\ g \in LastLeft(old) => Viewers(g) \ old = {}
  BY <1>1, <1>3, ReleaseExact
<1>10. DOMAIN Release(old) = Hashes /\ Release(old) = [g \in Hashes |-> Release(old)[g]]
  BY DEF Release
<1>11. /\ counts' \in [Hashes -> Nat]
       /\ \A g \in Hashes : counts'[g] = IF g = h THEN Cardinality(Viewers(g) \ old) + 1
                                                  ELSE Cardinality(Viewers(g) \ old)
  <2>1. counts' = [g \in Hashes |-> IF g = h THEN Release(old)[g] + 1 ELSE Release(old)[g]]
    <3> DEFINE R == Release(old)
    <3>1. counts' = [R EXCEPT ![h] = R[h] + 1] /\ DOMAIN R = Hashes
      BY <1>2, <1>10
    <3> HIDE DEF R
    <3>2. counts' = [g \in Hashes |-> IF g = h THEN R[g] + 1 ELSE R[g]]
      BY <3>1
    <3> QED BY <3>2 DEF R
  <2>2. \A g \in Hashes : counts'[g] = IF g = h THEN Release(old)[g] + 1 ELSE Release(old)[g]
    BY <2>1
  <2>3. \A g \in Hashes : counts'[g] \in Nat
    <3> SUFFICES ASSUME NEW g \in Hashes PROVE counts'[g] \in Nat
      OBVIOUS
    <3> DEFINE r == Release(old)[g]
    <3>1. r \in Nat
      BY <1>9
    <3>2. counts'[g] = IF g = h THEN r + 1 ELSE r
      BY <2>2
    <3> HIDE DEF r
    <3> QED BY <3>1, <3>2
  <2>4. counts' \in [Hashes -> Nat]
    <3>1. counts' = [g \in Hashes |-> counts'[g]]
      BY <2>1
    <3> QED BY <3>1, <2>3
  <2> QED BY <2>2, <2>4, <1>9
<1>12. Cardinality((Viewers(h) \ old) \cup {s}) = Cardinality(Viewers(h) \ old) + 1
  <2>1. IsFiniteSet(Viewers(h) \ old)
    <3>1. Viewers(h) \ old \in SUBSET Viewers(h)
      OBVIOUS
    <3> QED BY <3>1, ViewersFinite, FS_Subset
  <2>2. s \notin Viewers(h) \ old
    BY <1>7 DEF Viewers
  <2> QED BY <2>1, <2>2, FS_AddElement
<1>13. WtTypeOK'
  <2>1. /\ sessions' \in [Sessions -> Hashes \cup {NoTorrent}]
        /\ silent' \subseteq Sessions
    BY <1>1, <1>7 DEF WtTypeOK
  <2> QED BY <2>1, <1>6, <1>11 DEF WtTypeOK, States
<1>14. CountsExact'
  BY <1>8, <1>11, <1>12 DEF CountsExact
<1>15. PendingIsUnwatched'
  <2> SUFFICES ASSUME NEW g \in Hashes, pending'[g] # 0
               PROVE  Viewers(g)' = {} /\ timers'[g][pending'[g]] \in {"armed", "fired"}
    BY DEF PendingIsUnwatched
  <2>1. g # h /\ Viewers(g)' = Viewers(g) \ old
    BY <1>6, <1>8
  <2>2. CASE g \in LastLeft(old) /\ timers'[g][pending'[g]] = "armed"
    BY <2>1, <2>2, <1>9
  <2>3. CASE pending'[g] = pending[g] /\ timers'[g] = timers[g]
    BY <2>1, <2>3, <1>1 DEF PendingIsUnwatched
  <2> QED BY <1>6, <2>2, <2>3
<1>16. \A g \in Hashes : Dropping(g)' = Dropping(g)
  BY <1>6 DEF Dropping, In, Timer
<1> QED BY <1>13, <1>14, <1>15, <1>16 DEF WtInv

\* The steps that end no session: they change at most silent and one timer.
LEMMA TimerIInv ==
  ASSUME WtInv,
         \/ \E s \in Sessions, h \in Hashes : Refresh(s, h)
         \/ \E s \in Sessions : GoSilent(s)
         \/ \E h \in Hashes, i \in Timer : TimerStep(h, i)
         \/ UNCHANGED wtVars
  PROVE  WtInv'
<1>1. WtTypeOK /\ CountsExact /\ PendingIsUnwatched
  BY DEF WtInv
<1>2. ASSUME NEW s \in Sessions, NEW h \in Hashes, Refresh(s, h)
      PROVE  /\ silent' \subseteq Sessions
             /\ UNCHANGED <<sessions, counts, pending, timers>>
  BY <1>1, <1>2 DEF Refresh, WtTypeOK
<1>3. ASSUME NEW s \in Sessions, GoSilent(s)
      PROVE  /\ silent' \subseteq Sessions
             /\ UNCHANGED <<sessions, counts, pending, timers>>
  BY <1>1, <1>3 DEF GoSilent, WtTypeOK
<1>4. ASSUME silent' \subseteq Sessions, UNCHANGED <<sessions, counts, pending, timers>>
      PROVE  WtInv'
  BY <1>1, <1>4 DEF WtInv, WtTypeOK, CountsExact, PendingIsUnwatched, Viewers
<1>5. ASSUME NEW h \in Hashes, NEW i \in Timer, TimerStep(h, i)
      PROVE  WtInv'
  <2>1. /\ UNCHANGED <<sessions, silent, counts>>
        /\ pending' = pending \/ pending' = [pending EXCEPT ![h] = 0]
        /\ \E st \in States : timers' = [timers EXCEPT ![h][i] = st]
    BY <1>5 DEF TimerStep, Expire, Callback, DropReturns, States
  <2>2. PICK st \in States : timers' = [timers EXCEPT ![h][i] = st]
    BY <2>1
  <2>3. timers' \in [Hashes -> [Timer -> States]]
    BY <1>1, <2>2 DEF WtTypeOK, States
  <2>4. pending' \in [Hashes -> 0..MaxTimers]
    BY <1>1, <2>1, WtConstants DEF WtTypeOK
  <2>5. WtTypeOK'
    BY <1>1, <2>1, <2>3, <2>4 DEF WtTypeOK, States
  <2>6. CountsExact'
    BY <1>1, <2>1 DEF CountsExact, Viewers
  <2>7. PendingIsUnwatched'
    <3> SUFFICES ASSUME NEW g \in Hashes, pending'[g] # 0
                 PROVE  /\ Viewers(g)' = {}
                        /\ timers'[g][pending'[g]] \in {"armed", "fired"}
      BY DEF PendingIsUnwatched
    <3>1. pending'[g] = pending[g]
      BY <1>1, <2>1 DEF WtTypeOK
    <3>2. Viewers(g)' = {} /\ timers[g][pending[g]] \in {"armed", "fired"}
      BY <1>1, <2>1, <3>1 DEF PendingIsUnwatched, Viewers
    <3>3. pending[g] \in Timer
      BY <1>1, <3>1 DEF WtTypeOK, Timer
    <3>4. CASE Expire(h, i)
      BY <1>1, <3>1, <3>2, <3>3, <3>4 DEF Expire, WtTypeOK
    <3>5. CASE Callback(h, i)
      <4>1. g # h
        BY <1>1, <3>5 DEF Callback, WtTypeOK
      <4> QED BY <1>1, <2>2, <3>1, <3>2, <3>3, <4>1 DEF WtTypeOK
    <3>6. CASE DropReturns(h, i)
      <4>1. timers[h][i] = "dropping" /\ timers' = [timers EXCEPT ![h][i] = "off"]
        BY <3>6 DEF DropReturns
      <4>2. ~(g = h /\ pending[g] = i)
        BY <3>2, <4>1
      <4> QED BY <1>1, <3>1, <3>2, <3>3, <4>1, <4>2 DEF WtTypeOK
    <3> QED BY <1>5, <3>4, <3>5, <3>6 DEF TimerStep
  <2> QED BY <2>5, <2>6, <2>7 DEF WtInv
<1>6. CASE UNCHANGED wtVars
  BY <1>1, <1>4, <1>6 DEF wtVars, WtTypeOK
<1> QED BY <1>2, <1>3, <1>4, <1>5, <1>6

LEMMA WtInvStep == WtInv /\ [WtNext]_wtVars => WtInv'
<1> SUFFICES ASSUME WtInv, [WtNext]_wtVars PROVE WtInv'
  OBVIOUS
<1>1. WtTypeOK
  BY DEF WtInv
<1>2. ASSUME NEW s \in Sessions, NEW h \in Hashes, Beat(s, h) PROVE WtInv'
  BY <1>2, BeatIInv
<1>3. ASSUME NEW s \in Sessions, Leave(s) PROVE WtInv'
  <2>1. {s} \in SUBSET Sessions /\ End({s})
    BY <1>3 DEF Leave
  <2> QED BY <2>1, EndIInv
<1>4. CASE Sweep
  <2>1. silent \in SUBSET Sessions /\ End(silent)
    BY <1>1, <1>4 DEF Sweep, WtTypeOK
  <2> QED BY <2>1, EndIInv
<1> QED BY <1>2, <1>3, <1>4, TimerIInv DEF WtNext

LEMMA WtInvAlways == WtSpec => []WtInv
<1> QED BY WtInvInit, WtInvStep, PTL DEF WtSpec

\* Every state of the tracker has the types WtTypeOK states.
THEOREM TrackerTypes == WtSpec => []WtTypeOK
<1>1. WtInv => WtTypeOK
  BY DEF WtInv
<1> QED BY <1>1, WtInvAlways, PTL

\* The live count of a torrent is the number of sessions that watch it, whatever
\* beats, switches, leaves and sweeps came in whatever order.
THEOREM CountIsExact == WtSpec => []CountsExact
<1>1. WtInv => CountsExact
  BY DEF WtInv
<1> QED BY <1>1, WtInvAlways, PTL

\* A torrent with a tracked drop has no viewer, and the tracked timer is alive.
THEOREM PendingIsSafe == WtSpec => []PendingIsUnwatched
<1>1. WtInv => PendingIsUnwatched
  BY DEF WtInv
<1> QED BY <1>1, WtInvAlways, PTL

-----------------------------------------------------------------------------

\* The set of torrents being dropped, as Viewership's variable.
LEMMA SameDropping ==
  ASSUME \A h \in Hashes : Dropping(h)' = Dropping(h)
  PROVE  {h \in Hashes : Dropping(h)}' = {h \in Hashes : Dropping(h)}
OBVIOUS

LEMMA StepRefines == WtInv /\ [WtNext]_wtVars => [Promise!ANext]_(Promise!avars)
<1> DEFINE D == {h \in Hashes : Dropping(h)}
<1> SUFFICES ASSUME WtInv, [WtNext]_wtVars
             PROVE  Promise!ANext \/ (sessions' = sessions /\ D' = D)
  BY DEF Promise!avars
<1>1. WtTypeOK /\ CountsExact
  BY DEF WtInv
<1>2. ASSUME UNCHANGED <<sessions, timers>> PROVE sessions' = sessions /\ D' = D
  BY <1>2 DEF Dropping, In
<1>3. ASSUME NEW s \in Sessions, NEW h \in Hashes, Beat(s, h) PROVE Promise!ANext
  <2>1. D' = D
    BY <1>3, BeatIInv, SameDropping
  <2>2. Promise!Watch(s, h)
    BY <1>3, <2>1 DEF Beat, Promise!Watch
  <2> QED BY <2>2 DEF Promise!ANext
<1>4. ASSUME NEW S \in SUBSET Sessions, End(S) PROVE Promise!ANext
  <2>1. D' = D
    BY <1>4, EndIInv, SameDropping
  <2>2. Promise!Stop(S)
    BY <1>4, <2>1 DEF End, Promise!Stop
  <2> QED BY <2>2 DEF Promise!ANext
<1>5. ASSUME NEW h \in Hashes, NEW i \in Timer, TimerStep(h, i)
      PROVE  Promise!ANext \/ (sessions' = sessions /\ D' = D)
  <2>1. sessions' = sessions
    BY <1>5 DEF TimerStep, Expire, Callback, DropReturns
  <2>2. \A g \in Hashes : g # h => Dropping(g)' = Dropping(g)
    BY <1>1, <1>5 DEF TimerStep, Expire, Callback, DropReturns, Dropping, In, WtTypeOK
  <2>3. CASE Dropping(h)' = Dropping(h)
    <3>1. \A g \in Hashes : Dropping(g)' = Dropping(g)
      BY <2>2, <2>3
    <3> QED BY <2>1, <3>1, SameDropping
  <2>4. CASE ~Dropping(h)' /\ Dropping(h)
    <3>1. D' = D \ {h}
      BY <2>2, <2>4
    <3>2. Promise!Dropped(h)
      BY <2>1, <3>1 DEF Promise!Dropped
    <3> QED BY <3>2 DEF Promise!ANext
  <2>5. CASE Dropping(h)' /\ ~Dropping(h)
    <3>1. D' = D \cup {h}
      BY <2>2, <2>5
    <3>2. Callback(h, i) /\ counts[h] <= 0
      <4>1. PICK j \in Timer : timers'[h][j] = "dropping" /\ timers[h][j] # "dropping"
        BY <2>5 DEF Dropping, In
      <4> QED BY <1>1, <1>5, <4>1 DEF TimerStep, Expire, Callback, DropReturns, WtTypeOK
    <3>3. Viewers(h) = {}
      <4>1. IsFiniteSet(Viewers(h)) /\ counts[h] = Cardinality(Viewers(h))
        BY <1>1, ViewersFinite DEF CountsExact
      <4>2. Cardinality(Viewers(h)) = 0
        BY <1>1, <3>2, <4>1 DEF WtTypeOK
      <4> QED BY <4>1, <4>2, FS_EmptySet
    <3>4. Promise!Drop(h)
      BY <2>1, <3>1, <3>3 DEF Promise!Drop, Promise!Watched, Viewers
    <3> QED BY <3>4 DEF Promise!ANext
  <2> QED BY <2>3, <2>4, <2>5 DEF Dropping
<1>6. ASSUME NEW s \in Sessions, Leave(s) PROVE Promise!ANext
  <2>1. {s} \in SUBSET Sessions /\ End({s})
    BY <1>6 DEF Leave
  <2> QED BY <2>1, <1>4
<1>7. CASE Sweep
  BY <1>1, <1>4, <1>7 DEF Sweep, WtTypeOK
<1>8. ASSUME NEW s \in Sessions, NEW h \in Hashes, Refresh(s, h)
      PROVE  sessions' = sessions /\ D' = D
  BY <1>2, <1>8 DEF Refresh
<1>9. ASSUME NEW s \in Sessions, GoSilent(s) PROVE sessions' = sessions /\ D' = D
  BY <1>2, <1>9 DEF GoSilent
<1>10. CASE UNCHANGED wtVars
  BY <1>2, <1>10 DEF wtVars
<1> HIDE DEF D
<1> QED BY <1>3, <1>5, <1>6, <1>7, <1>8, <1>9, <1>10 DEF WtNext

\* The tracker implements Viewership: with all its timers, late callbacks and
\* recounts, a drop is decided only in a state without a viewer of the torrent.
THEOREM RefinesPromise == WtSpec => DropsOnlyUnwatched
<1>1. WtInit => Promise!AInit
  <2> SUFFICES ASSUME WtInit PROVE Promise!AInit
    OBVIOUS
  <2>1. {h \in Hashes : Dropping(h)} = {}
    BY DEF WtInit, Dropping, In
  <2> QED BY <2>1 DEF WtInit, Promise!AInit
<1> QED BY <1>1, StepRefines, WtInvAlways, PTL
    DEF WtSpec, DropsOnlyUnwatched, Promise!ASpec

-----------------------------------------------------------------------------
(***************************************************************************)
(* Accounts: the inductive invariant.                                      *)
(***************************************************************************)
TabRecord ==
  [at : {"blank", "loading", "page", "login", "google", "calling", "back"},
   user : {0} \cup Ids, next : Pages, want : Pages \cup {None}, nonce : Nat,
   who : Subs \cup {None}, state : [nonce : Nat, next : Pages], clears : BOOLEAN]
CallRecord ==
  [kind : {"idle", "add", "remove", "clear", "merge"}, tab : Tabs \cup {None},
   sess : {0} \cup Ids, user : {0} \cup Ids, ids : SUBSET Titles,
   step : {"idle", "sent", "authed", "merged", "done", "failed", "refused"}]

\* The taken rows come first, one for each account.
RowsApart ==
  /\ \A i \in Taken : \A j \in 1..i : j \in Taken
  /\ \A i, j \in Taken : sub[i] = sub[j] => i = j
  /\ blocked \subseteq Taken

\* The account i consented in a flow that the browser b started.
May(i, b) == i \in Taken /\ sub[i] \in consented[b]

CookiesOk(b) ==
  /\ session[b] # 0 => May(session[b], b)
  /\ state[b].nonce \in 0..lastNonce

\* Only the browser that a flow left from has its nonce, and the page it left.
TabOk(t) ==
  LET b == browser[t] IN
  /\ tab[t].at = "google" =>
       /\ tab[t].nonce \in 1..lastNonce
       /\ \A c \in Browsers : state[c].nonce = tab[t].nonce =>
            c = b /\ state[c].next = tab[t].want
  /\ tab[t].at = "calling" /\ Accepted(t) =>
       /\ tab[t].state.next = tab[t].want
       /\ tab[t].who # None => tab[t].who \in consented[b]
  /\ tab[t].at = "back" /\ tab[t].user # 0 =>
       /\ tab[t].next = tab[t].want
       /\ May(tab[t].user, b) /\ sub[tab[t].user] = tab[t].who

\* A call whose page is still there is made for an account of its browser, and a
\* merge has, sent or written, the whole list of that browser.
CallOk(c) ==
  LET k == call[c]
      b == browser[k.tab]
  IN  /\ k.kind = "idle" => k.step = "idle"
      /\ k.step = "authed" => k.user # 0
      /\ k.tab # None /\ k.sess # 0 => May(k.sess, b)
      /\ k.tab # None /\ k.step \in {"authed", "merged", "done"} => May(k.user, b)
      /\ k.tab # None /\ k.kind = "merge" /\ k.step \in {"sent", "authed"} =>
           local[b] \subseteq k.ids
      /\ k.tab # None /\ k.kind = "merge" /\ k.step \in {"merged", "done"} =>
           \A x \in local[b] \cap titles : <<k.user, x>> \in ever

AcInv ==
  /\ TypeOK /\ RowsApart /\ saved \subseteq ever
  /\ \A b \in Browsers : CookiesOk(b)
  /\ \A t \in Tabs : TabOk(t)
  /\ \A c \in Calls : CallOk(c)

LEMMA TypesAre ==
  TypeOK => /\ tab \in [Tabs -> TabRecord] /\ call \in [Calls -> CallRecord]
            /\ \A t \in Tabs : browser[t] \in Browsers
            /\ \A c \in Calls : call[c] \in CallRecord
            /\ \A t \in Tabs : tab[t] \in TabRecord
            /\ 0 \notin Ids
  BY DEF TypeOK, TabRecord, CallRecord, Ids

-----------------------------------------------------------------------------
(***************************************************************************)
(* What the steps share.                                                   *)
(***************************************************************************)
\* What is on record is not taken back.
RecordsGrow ==
  /\ lastNonce' \in Nat /\ lastNonce <= lastNonce' /\ ever \subseteq ever'
  /\ UNCHANGED browser
  /\ \A b \in Browsers : consented[b] \subseteq consented'[b]
  /\ \A i \in Taken : sub'[i] = sub[i]
\* No state cookie comes back, and no local list grows.
StatesGo ==
  \A b \in Browsers :
    \/ state'[b].nonce = state[b].nonce /\ state'[b].next = state[b].next
    \/ state'[b].nonce = 0
    \/ state'[b].nonce = lastNonce + 1 /\ lastNonce' = lastNonce + 1
ListsShrink == titles' \subseteq titles /\ \A b \in Browsers : local'[b] \subseteq local[b]
SessionsEnd == \A b \in Browsers : session'[b] \in {0, session[b]}

\* Where a tab has no flow.
Quiet == {"blank", "loading", "page", "login"}
TabsQuiet == \A t \in Tabs : tab'[t] = tab[t] \/ tab'[t].at \in Quiet

\* What a call becomes that only loses its page, ends or fails.
CallsEnd ==
  \A c \in Calls :
    \/ call'[c] \in {call[c], Idle, [call[c] EXCEPT !.tab = None]}
    \/ call[c].step # "idle" /\ call'[c] = [call[c] EXCEPT !.step = "failed"]

LEMMA MayStays ==
  ASSUME TypeOK, RecordsGrow, NEW b \in Browsers, NEW i, May(i, b)
  PROVE  i \in Taken' /\ sub'[i] \in consented'[b]
  BY AccountsConstants DEF TypeOK, RecordsGrow, May, Taken

LEMMA CookiesStay ==
  ASSUME TypeOK, RecordsGrow, StatesGo, NEW b \in Browsers, CookiesOk(b),
         session'[b] \in {0, session[b]}
  PROVE  CookiesOk(b)'
<1>1. session'[b] # 0 => session'[b] \in Taken' /\ sub'[session'[b]] \in consented'[b]
  BY MayStays DEF CookiesOk
<1>2. lastNonce \in Nat /\ lastNonce' \in Nat /\ lastNonce <= lastNonce'
  BY DEF TypeOK, RecordsGrow
<1>3. state'[b].nonce \in 0..lastNonce'
  BY <1>2 DEF StatesGo, CookiesOk
<1> QED BY <1>1, <1>3 DEF CookiesOk, May

LEMMA TabStays ==
  ASSUME TypeOK, RecordsGrow, StatesGo, NEW t \in Tabs, TabOk(t),
         tab'[t] = tab[t] \/ tab'[t].at \in Quiet
  PROVE  TabOk(t)'
<1>1. CASE tab'[t].at \in Quiet
  BY <1>1 DEF TabOk, Quiet
<1>2. CASE tab'[t] = tab[t]
  <2> DEFINE b == browser[t]
  <2>0. /\ b \in Browsers /\ browser' = browser
        /\ {lastNonce, lastNonce'} \subseteq Nat /\ lastNonce <= lastNonce'
        /\ consented[b] \subseteq consented'[b] /\ (Accepted(t)' <=> Accepted(t))
    BY <1>2, TypesAre DEF TypeOK, RecordsGrow, Accepted
  <2>1. ASSUME tab[t].at = "google"
        PROVE  /\ tab[t].nonce \in 1..lastNonce'
               /\ \A c \in Browsers : state'[c].nonce = tab[t].nonce =>
                    c = b /\ state'[c].next = tab[t].want
    <3>1. tab[t].nonce \in 1..lastNonce
      BY <2>1 DEF TabOk
    <3> QED BY <2>0, <2>1, <3>1 DEF TabOk, StatesGo
  <2>2. ASSUME tab[t].at = "back", tab[t].user # 0
        PROVE  /\ tab[t].next = tab[t].want
               /\ tab[t].user \in Taken' /\ sub'[tab[t].user] \in consented'[b]
               /\ sub'[tab[t].user] = tab[t].who
    BY <2>0, <2>2, MayStays DEF TabOk, May, RecordsGrow
  <2> QED BY <1>2, <2>0, <2>1, <2>2 DEF TabOk, May
<1> QED BY <1>1, <1>2

\* What CallOk says of a record k.
RecordOk(k) ==
  LET b == browser[k.tab] IN
  /\ k.kind = "idle" => k.step = "idle"
  /\ k.step = "authed" => k.user # 0
  /\ k.tab # None /\ k.sess # 0 => May(k.sess, b)
  /\ k.tab # None /\ k.step \in {"authed", "merged", "done"} => May(k.user, b)
  /\ k.tab # None /\ k.kind = "merge" /\ k.step \in {"sent", "authed"} =>
       local[b] \subseteq k.ids
  /\ k.tab # None /\ k.kind = "merge" /\ k.step \in {"merged", "done"} =>
       \A x \in local[b] \cap titles : <<k.user, x>> \in ever

LEMMA CallIsRecord == \A c : CallOk(c) <=> RecordOk(call[c])
  BY DEF CallOk, RecordOk

LEMMA RecordStays ==
  ASSUME TypeOK, RecordsGrow, ListsShrink, NEW k \in CallRecord, RecordOk(k), NEW c,
         call'[c] = k
  PROVE  CallOk(c)'
<1> DEFINE b == browser[k.tab]
<1>1. k.tab # None => k.tab \in Tabs /\ b \in Browsers
  BY TypesAre DEF CallRecord
<1>2. browser' = browser /\ titles' \subseteq titles /\ ever \subseteq ever'
      /\ (k.tab # None => local'[b] \subseteq local[b])
  BY <1>1 DEF RecordsGrow, ListsShrink
<1>3. k.tab # None /\ k.sess # 0 => k.sess \in Taken' /\ sub'[k.sess] \in consented'[b]
  BY <1>1, MayStays DEF RecordOk
<1>4. k.tab # None /\ k.step \in {"authed", "merged", "done"} =>
        k.user \in Taken' /\ sub'[k.user] \in consented'[b]
  BY <1>1, MayStays DEF RecordOk
<1> QED BY <1>2, <1>3, <1>4 DEF CallOk, May, RecordOk

LEMMA CallEnds ==
  ASSUME TypeOK, NEW k \in CallRecord, RecordOk(k)
  PROVE  /\ Idle \in CallRecord /\ RecordOk(Idle)
         /\ [k EXCEPT !.tab = None] \in CallRecord /\ RecordOk([k EXCEPT !.tab = None])
         /\ [k EXCEPT !.step = "failed"] \in CallRecord
         /\ k.kind # "idle" => RecordOk([k EXCEPT !.step = "failed"])
<1>1. Idle \in CallRecord /\ RecordOk(Idle)
  BY DEF Idle, CallRecord, RecordOk
<1>2. [k EXCEPT !.tab = None] \in CallRecord /\ RecordOk([k EXCEPT !.tab = None])
  BY DEF CallRecord, RecordOk
<1>3. [k EXCEPT !.step = "failed"] \in CallRecord
  BY DEF CallRecord
<1>4. k.kind # "idle" => RecordOk([k EXCEPT !.step = "failed"])
  BY DEF CallRecord, RecordOk
<1> QED BY <1>1, <1>2, <1>3, <1>4

-----------------------------------------------------------------------------
(***************************************************************************)
(* The users table.                                                        *)
(***************************************************************************)
\* The taken rows are 1..n.
LEMMA TakenIsPrefix ==
  ASSUME TypeOK, RowsApart
  PROVE  Cardinality(Taken) \in Nat /\ IsFiniteSet(Taken) /\ Taken = 1..Cardinality(Taken)
<1> DEFINE n == Cardinality(Taken)
<1>1. Cardinality(Subs) \in Nat /\ IsFiniteSet(Ids) /\ Taken \subseteq Ids /\ Ids \subseteq Nat
  <2>1. Cardinality(Subs) \in Nat
    BY AccountsFinite, FS_CardinalityType
  <2>2. IsFiniteSet(1..Cardinality(Subs))
    BY <2>1, FS_Interval
  <2> QED BY <2>1, <2>2 DEF Ids, Taken
<1>2. IsFiniteSet(Taken) /\ n \in Nat
  BY <1>1, FS_Subset, FS_CardinalityType
<1> HIDE DEF n
<1>3. ASSUME NEW i \in Taken PROVE i \in 1..n
  <2>1. 1..i \subseteq Taken /\ i \in Nat /\ i > 0
    BY <1>1, <1>3 DEF RowsApart, Taken, Ids
  <2>2. Cardinality(1..i) = i
    BY <2>1, FS_Interval
  <2>3. Cardinality(1..i) <= Cardinality(Taken)
    BY <1>2, <2>1, FS_Subset
  <2> QED BY <1>2, <2>1, <2>2, <2>3 DEF n
<1>4. ASSUME NEW i \in 1..n, i \notin Taken PROVE FALSE
  <2>1. Taken \subseteq 1..(i - 1)
    <3> SUFFICES ASSUME NEW j \in Taken, j \notin 1..(i - 1) PROVE FALSE
      OBVIOUS
    <3>1. j \in Nat /\ j > 0 /\ i \in Nat /\ i > 0
      BY <1>1, <1>2, <1>4 DEF Ids, Taken
    <3>2. i \in 1..j
      BY <3>1
    <3> QED BY <1>4, <3>2 DEF RowsApart
  <2>2. IsFiniteSet(1..(i - 1)) /\ Cardinality(1..(i - 1)) = i - 1
    BY <1>2, <1>4, FS_Interval
  <2>3. Cardinality(Taken) <= Cardinality(1..(i - 1))
    BY <2>1, <2>2, FS_Subset
  <2> QED BY <1>2, <1>4, <2>2, <2>3 DEF n
<1> QED BY <1>2, <1>3, <1>4 DEF n

\* An account without a row gets the next one: there are no more rows than accounts.
LEMMA NextRowIsFree ==
  ASSUME TypeOK, RowsApart, NEW s \in Subs, RowOf(s) = {}
  PROVE  1 + Cardinality(Taken) \in Ids /\ 1 + Cardinality(Taken) \notin Taken
<1> DEFINE n == Cardinality(Taken)
           others == Subs \ {s}
           f == [i \in Taken |-> sub[i]]
<1>1. n \in Nat /\ IsFiniteSet(Taken) /\ Taken = 1..n
  BY TakenIsPrefix
<1>2. /\ IsFiniteSet(others) /\ Cardinality(Subs) \in Nat
      /\ Cardinality(others) = Cardinality(Subs) - 1
  BY AccountsFinite, FS_RemoveElement, FS_CardinalityType
<1>3. f \in [Taken -> others]
  BY DEF TypeOK, Taken, RowOf
<1>4. \A i, j \in Taken : f[i] = f[j] => i = j
  BY DEF RowsApart
<1> HIDE DEF f, others, n
<1>5. ~(Cardinality(others) < Cardinality(Taken))
  BY <1>1, <1>2, <1>3, <1>4, FS_PigeonHole
<1>6. n <= Cardinality(Subs) - 1
  BY <1>1, <1>2, <1>5 DEF n
<1>7. 1 + n \in 1..Cardinality(Subs) /\ 1 + n \notin 1..n
  BY <1>1, <1>2, <1>6
<1> QED BY <1>1, <1>7 DEF Ids, n

LEMMA Upserts ==
  ASSUME TypeOK, RowsApart, NEW s \in Subs, UpsertGoogleUser(s), UNCHANGED blocked
  PROVE  /\ UpsertedId(s) \in Ids /\ sub' \in [Ids -> Subs \cup {None}]
         /\ UpsertedId(s) \in Taken' /\ sub'[UpsertedId(s)] = s
         /\ \A i \in Taken : sub'[i] = sub[i]
         /\ RowsApart'
<1> DEFINE i == UpsertedId(s)
<1>1. CASE RowOf(s) # {}
  <2>1. i \in RowOf(s)
    BY <1>1 DEF UpsertedId
  <2>2. i \in Ids /\ sub[i] = s /\ s # None
    BY <2>1, AccountsConstants DEF RowOf
  <2>3. sub' = sub
    BY <2>2 DEF UpsertGoogleUser, TypeOK
  <2>4. Taken' = Taken /\ i \in Taken
    BY <2>2, <2>3 DEF Taken
  <2>5. RowsApart'
    BY <2>3, <2>4 DEF RowsApart
  <2> QED BY <2>2, <2>3, <2>4, <2>5 DEF TypeOK
<1>2. CASE RowOf(s) = {}
  <2>1. i = 1 + Cardinality(Taken)
    BY <1>2 DEF UpsertedId
  <2>2. i \in Ids /\ i \notin Taken
    BY <1>2, <2>1, NextRowIsFree
  <2>3. s # None /\ \A j \in Ids : sub'[j] = IF j = i THEN s ELSE sub[j]
    BY <2>2, AccountsConstants DEF UpsertGoogleUser, TypeOK
  <2>4. sub' \in [Ids -> Subs \cup {None}]
    BY DEF UpsertGoogleUser, TypeOK
  <2>5. Taken' = Taken \cup {i}
    BY <2>2, <2>3 DEF Taken
  <2>6. \A j \in Taken : sub'[j] = sub[j] /\ sub[j] # s
    BY <1>2, <2>2, <2>3 DEF Taken, RowOf
  <2>7. Cardinality(Taken) \in Nat /\ Taken = 1..Cardinality(Taken)
    BY TakenIsPrefix
  <2>8. sub'[i] = s
    BY <2>2, <2>3
  <2> HIDE DEF i
  <2>9. \A j \in Taken' : \A k \in 1..j : k \in Taken'
    BY <2>1, <2>5, <2>7
  <2>10. \A j, k \in Taken' : sub'[j] = sub'[k] => j = k
    BY <2>5, <2>6, <2>8 DEF RowsApart
  <2>11. blocked' \subseteq Taken'
    BY <2>5 DEF RowsApart
  <2>12. RowsApart'
    BY <2>9, <2>10, <2>11 DEF RowsApart
  <2> QED BY <2>2, <2>4, <2>5, <2>6, <2>8, <2>12 DEF i
<1> QED BY <1>1, <1>2

-----------------------------------------------------------------------------
(***************************************************************************)
(* What the steps do to the tabs and the calls.                            *)
(***************************************************************************)
\* The tab t becomes r, and no other tab changes.
TabBecomes(t, r) ==
  /\ r \in TabRecord /\ tab' \in [Tabs -> TabRecord]
  /\ tab'[t] = r /\ \A u \in Tabs : u # t => tab'[u] = tab[u]
CallBecomes(c, k) ==
  /\ k \in CallRecord /\ call' \in [Calls -> CallRecord]
  /\ call'[c] = k /\ \A d \in Calls : d # c => call'[d] = call[d]

LEMMA TabSet ==
  ASSUME TypeOK, NEW t \in Tabs, NEW r \in TabRecord, tab' = [tab EXCEPT ![t] = r]
  PROVE  TabBecomes(t, r)
  BY TypesAre DEF TabBecomes

LEMMA CallSet ==
  ASSUME TypeOK, NEW c \in Calls, NEW k \in CallRecord, call' = [call EXCEPT ![c] = k]
  PROVE  CallBecomes(c, k)
  BY TypesAre DEF CallBecomes

LEMMA PageRecords ==
  ASSUME TypeOK
  PROVE  /\ Blank \in TabRecord /\ Blank.at = "blank" /\ Blank.user = 0
         /\ \A t \in Tabs : \A p \in Pages : Loading(t, p) \in TabRecord
              /\ Loading(t, p).at = "loading"
         /\ \A p \in Pages \cup {Offsite} : safeNext(p) \in Pages
              /\ FrontDoor(p) \in TabRecord /\ FrontDoor(p).at = "login"
         /\ \A n \in Nat : \A p \in Pages : authCode(n, p) \in TabRecord
              /\ authCode(n, p).at = "google" /\ authCode(n, p).nonce = n
              /\ authCode(n, p).want = p
<1>1. Blank \in TabRecord /\ Blank.at = "blank" /\ Blank.user = 0
  BY AccountsConstants DEF Blank, NoState, TabRecord
<1>2. \A t \in Tabs : session[browser[t]] \in {0} \cup Ids
  BY DEF TypeOK
<1>3. ASSUME NEW t \in Tabs, NEW p \in Pages
      PROVE  Loading(t, p) \in TabRecord /\ Loading(t, p).at = "loading"
  BY <1>1, <1>2 DEF Loading, TabRecord
<1>4. ASSUME NEW p \in Pages \cup {Offsite}
      PROVE  safeNext(p) \in Pages /\ FrontDoor(p) \in TabRecord /\ FrontDoor(p).at = "login"
  <2>1. safeNext(p) \in Pages
    BY AccountsConstants DEF safeNext
  <2> QED BY <1>1, <2>1 DEF FrontDoor, TabRecord
<1>5. ASSUME NEW n \in Nat, NEW p \in Pages
      PROVE  authCode(n, p) \in TabRecord /\ authCode(n, p).at = "google"
             /\ authCode(n, p).nonce = n /\ authCode(n, p).want = p
  BY <1>1, <1>5 DEF authCode, TabRecord
<1> QED BY <1>1, <1>3, <1>4, <1>5

\* A page that is left.
LEMMA LeavePageKeeps ==
  ASSUME TypeOK, NEW t \in Tabs, NEW r \in TabRecord, LeavePage(t, r)
  PROVE  /\ TabBecomes(t, r) /\ marks' \in [Tabs -> SUBSET Titles]
         /\ call' \in [Calls -> CallRecord] /\ CallsEnd
<1>1. TabBecomes(t, r)
  BY TabSet DEF LeavePage
<1>2. marks' \in [Tabs -> SUBSET Titles]
  BY DEF LeavePage, TypeOK
<1>3. \A c \in Calls : [call[c] EXCEPT !.tab = None] \in CallRecord
  BY TypesAre DEF CallRecord
<1>4. call' \in [Calls -> CallRecord] /\ CallsEnd
  BY <1>3, TypesAre DEF LeavePage, Abandon, CallsEnd
<1> QED BY <1>1, <1>2, <1>4

LEMMA UserTypes == ASSUME TypeOK, NEW i \in {0} \cup Ids PROVE UserByID(i) \in {0, i}
  BY DEF UserByID

\* A page that appears, with the call it may send.
LEMMA ShownKeeps ==
  ASSUME TypeOK, NEW t \in Tabs, NEW me \in {0} \cup Ids, NEW sess \in {0} \cup Ids,
         Shown(t, me, sess)
  PROVE  /\ \E r \in TabRecord : TabBecomes(t, r) /\ r.at \in {"page", "login"}
                                 /\ (r.at = "page" => r.user = me /\ me # 0)
         /\ session' = [session EXCEPT ![browser[t]] = sess]
         /\ marks' \in [Tabs -> SUBSET Titles]
         /\ \/ UNCHANGED call
            \/ \E c \in Calls : CallBecomes(c, Merge(t, sess))
<1> DEFINE r == IF requireLogin(me) THEN [tab[t] EXCEPT !.at = "page", !.user = me]
                                    ELSE FrontDoor(tab[t].next)
<1>1. tab[t] \in TabRecord /\ tab[t].next \in Pages
  BY TypesAre DEF TabRecord
<1>4. /\ r \in TabRecord /\ r.at \in {"page", "login"}
      /\ r.at = "page" => r.user = me /\ me # 0
  <2>1. ASSUME me # 0 PROVE r \in TabRecord /\ r.at = "page" /\ r.user = me
    <3>1. r = [tab[t] EXCEPT !.at = "page", !.user = me]
      BY <2>1 DEF requireLogin
    <3> QED BY <1>1, <3>1 DEF TabRecord
  <2>2. ASSUME me = 0 PROVE r \in TabRecord /\ r.at = "login"
    <3>1. r = FrontDoor(tab[t].next)
      BY <2>2 DEF requireLogin
    <3>2. FrontDoor(tab[t].next) \in TabRecord /\ FrontDoor(tab[t].next).at = "login"
      BY <1>1, PageRecords
    <3> HIDE DEF r
    <3> QED BY <3>1, <3>2
  <2> QED BY <2>1, <2>2
<1>5. tab' = [tab EXCEPT ![t] = r] /\ session' = [session EXCEPT ![browser[t]] = sess]
  BY DEF Shown
<1> HIDE DEF r
<1>6. TabBecomes(t, r)
  BY <1>4, <1>5, TabSet
<1>7. marks' \in [Tabs -> SUBSET Titles]
  BY DEF Shown, SavedTitleIDs, TypeOK
<1>8. Merge(t, sess) \in CallRecord
  BY DEF Merge, CallRecord, TypeOK
<1>9. UNCHANGED call \/ \E c \in Calls : CallBecomes(c, Merge(t, sess))
  BY <1>8, CallSet DEF Shown
<1> QED BY <1>4, <1>5, <1>6, <1>7, <1>9

-----------------------------------------------------------------------------
(***************************************************************************)
(* The parts of the invariant that most steps keep.                        *)
(***************************************************************************)
RowTypes ==
  /\ sub \in [Ids -> Subs \cup {None}] /\ blocked \subseteq Ids /\ titles \subseteq Titles
  /\ saved \subseteq Ids \X Titles /\ ever \subseteq Ids \X Titles
CookieTypes ==
  /\ session \in [Browsers -> {0} \cup Ids]
  /\ state \in [Browsers -> [nonce : Nat, next : Pages]]
  /\ local \in [Browsers -> SUBSET Titles]
PageTypes ==
  /\ browser \in [Tabs -> Browsers] /\ tab \in [Tabs -> TabRecord]
  /\ marks \in [Tabs -> SUBSET Titles]
CallTypes == call \in [Calls -> CallRecord]
HistoryTypes ==
  /\ lastNonce \in Nat /\ spent \subseteq Nat /\ events \in Nat
  /\ consented \in [Browsers -> SUBSET Subs]

LEMMA TypeParts ==
  TypeOK <=> RowTypes /\ CookieTypes /\ PageTypes /\ CallTypes /\ HistoryTypes
  BY DEF TypeOK, RowTypes, CookieTypes, PageTypes, CallTypes, HistoryTypes, TabRecord,
     CallRecord

LEMMA TypePartsPrime ==
  ASSUME RowTypes', CookieTypes', PageTypes', CallTypes', HistoryTypes' PROVE TypeOK'
  BY DEF TypeOK, RowTypes, CookieTypes, PageTypes, CallTypes, HistoryTypes, TabRecord,
     CallRecord

\* The users table and the lists saved in it, as the invariant has them.
RowsOk == RowsApart /\ saved \subseteq ever

LEMMA InvParts ==
  ASSUME TypeOK', RowsOk', \A b \in Browsers : CookiesOk(b)', \A t \in Tabs : TabOk(t)',
         \A c \in Calls : CallOk(c)'
  PROVE  AcInv'
  BY DEF AcInv, RowsOk

LEMMA RowsStay ==
  ASSUME AcInv, UNCHANGED <<sub, blocked, saved, ever>> PROVE RowsOk'
  BY DEF AcInv, RowsOk, RowsApart, Taken

LEMMA RecordsStay ==
  ASSUME AcInv, UNCHANGED <<sub, browser, lastNonce, consented>>, ever \subseteq ever'
  PROVE  RecordsGrow
  BY DEF AcInv, TypeOK, RecordsGrow

LEMMA CookiesKeep ==
  ASSUME AcInv, RecordsGrow, StatesGo, SessionsEnd
  PROVE  \A b \in Browsers : CookiesOk(b)'
  BY CookiesStay DEF AcInv, SessionsEnd

LEMMA TabsKeep ==
  ASSUME AcInv, RecordsGrow, StatesGo, TabsQuiet
  PROVE  \A t \in Tabs : TabOk(t)'
  BY TabStays DEF AcInv, TabsQuiet

\* The calls but those of C end, or stay.
LEMMA CallKeeps ==
  ASSUME AcInv, RecordsGrow, ListsShrink, NEW c \in Calls,
         \/ call'[c] \in {call[c], Idle, [call[c] EXCEPT !.tab = None]}
         \/ call[c].step # "idle" /\ call'[c] = [call[c] EXCEPT !.step = "failed"]
  PROVE  CallOk(c)'
<1> DEFINE k == call[c]
<1>1. TypeOK /\ k \in CallRecord /\ RecordOk(k)
  BY TypesAre, CallIsRecord DEF AcInv
<1>2. k.step # "idle" => k.kind # "idle"
  BY <1>1 DEF RecordOk
<1>3. call'[c] \in CallRecord /\ RecordOk(call'[c])
  BY <1>1, <1>2, CallEnds
<1> HIDE DEF k
<1> QED BY <1>1, <1>3, RecordStays

LEMMA CallsKeep ==
  ASSUME AcInv, RecordsGrow, ListsShrink, CallsEnd
  PROVE  \A c \in Calls : CallOk(c)'
  BY CallKeeps DEF CallsEnd

\* One call becomes k, and the others stay.
LEMMA CallMoves ==
  ASSUME AcInv, RecordsGrow, ListsShrink, NEW c \in Calls, NEW k, CallBecomes(c, k),
         RecordOk(k)
  PROVE  \A d \in Calls : CallOk(d)'
<1>1. CallOk(c)'
  BY RecordStays DEF AcInv, CallBecomes
<1>2. ASSUME NEW d \in Calls, d # c PROVE CallOk(d)'
  BY <1>2, CallKeeps DEF CallBecomes
<1> QED BY <1>1, <1>2

\* A step that starts no flow, signs nobody in and makes no call.
LEMMA Steady ==
  ASSUME AcInv, TypeOK', UNCHANGED <<sub, blocked, saved, ever, browser, consented>>,
         lastNonce' = lastNonce, StatesGo, ListsShrink, SessionsEnd, TabsQuiet, CallsEnd
  PROVE  AcInv'
<1>1. RecordsGrow
  BY RecordsStay
<1>2. RowsOk'
  BY RowsStay
<1>3. \A b \in Browsers : CookiesOk(b)'
  BY <1>1, CookiesKeep
<1>4. \A t \in Tabs : TabOk(t)'
  BY <1>1, TabsKeep
<1>5. \A c \in Calls : CallOk(c)'
  BY <1>1, CallsKeep
<1> QED BY <1>2, <1>3, <1>4, <1>5, InvParts

LEMMA TabGoesQuiet ==
  ASSUME NEW t \in Tabs, NEW r, TabBecomes(t, r), r.at \in Quiet
  PROVE  TabsQuiet /\ tab' \in [Tabs -> TabRecord]
  BY DEF TabBecomes, TabsQuiet

LEMMA InitAcInv == Init => AcInv
<1> SUFFICES ASSUME Init PROVE AcInv
  OBVIOUS
<1>1. NoState \in [nonce : Nat, next : Pages] /\ NoState.nonce = 0
  BY AccountsConstants DEF NoState
<1>2. /\ Blank \in TabRecord /\ Blank.at = "blank" /\ Idle \in CallRecord
      /\ Idle.step = "idle" /\ Idle.tab = None
  <2>1. Blank \in TabRecord /\ Blank.at = "blank"
    BY <1>1, AccountsConstants DEF Blank, TabRecord
  <2> QED BY <2>1 DEF Idle, CallRecord
<1>3. RowTypes /\ CookieTypes /\ PageTypes /\ CallTypes /\ HistoryTypes
  BY <1>1, <1>2 DEF Init, RowTypes, CookieTypes, PageTypes, CallTypes, HistoryTypes
<1>4. TypeOK
  BY <1>3, TypeParts
<1>5. Taken = {} /\ RowsApart /\ saved \subseteq ever
  BY DEF Init, Taken, RowsApart
<1>6. \A b \in Browsers : CookiesOk(b)
  BY <1>1 DEF Init, CookiesOk
<1>7. \A t \in Tabs : TabOk(t)
  BY <1>2 DEF Init, TabOk
<1>8. \A c \in Calls : CallOk(c)
  BY <1>2 DEF Init, CallOk
<1> QED BY <1>4, <1>5, <1>6, <1>7, <1>8 DEF AcInv

-----------------------------------------------------------------------------
(***************************************************************************)
(* Pages.                                                                  *)
(***************************************************************************)
LEMMA VisitStep ==
  ASSUME AcInv, NEW t \in Tabs, NEW p \in Pages, Visit(t, p) PROVE AcInv'
<1>1. TypeOK
  BY DEF AcInv
<1>2. Loading(t, p) \in TabRecord /\ Loading(t, p).at = "loading"
  BY <1>1, PageRecords
<1>3. /\ TabBecomes(t, Loading(t, p)) /\ marks' \in [Tabs -> SUBSET Titles]
      /\ call' \in [Calls -> CallRecord] /\ CallsEnd
  BY <1>1, <1>2, LeavePageKeeps DEF Visit
<1>4. UNCHANGED <<sub, blocked, titles, saved, session, state, local, browser, lastNonce,
                  spent, events, consented, ever>>
  BY DEF Visit, rows, cookies, history
<1>5. TabsQuiet /\ tab' \in [Tabs -> TabRecord]
  BY <1>2, <1>3, TabGoesQuiet DEF Quiet
<1>6. RowTypes' /\ CookieTypes' /\ PageTypes' /\ CallTypes' /\ HistoryTypes'
  BY <1>1, <1>3, <1>4, <1>5, TypeParts
     DEF RowTypes, CookieTypes, PageTypes, CallTypes, HistoryTypes
<1>7. StatesGo /\ ListsShrink /\ SessionsEnd
  BY <1>4 DEF StatesGo, ListsShrink, SessionsEnd
<1> QED BY <1>3, <1>4, <1>5, <1>6, <1>7, TypePartsPrime, Steady

LEMMA LogoutStep ==
  ASSUME AcInv, NEW t \in Tabs, handleLogout(t) PROVE AcInv'
<1> DEFINE r == FrontDoor(tab[t].next)
<1>1. TypeOK /\ tab[t].next \in Pages
  BY TypesAre DEF AcInv, TabRecord
<1>2. r \in TabRecord /\ r.at = "login"
  BY <1>1, PageRecords
<1> HIDE DEF r
<1>3. /\ TabBecomes(t, r) /\ marks' \in [Tabs -> SUBSET Titles]
      /\ call' \in [Calls -> CallRecord] /\ CallsEnd
  BY <1>1, <1>2, LeavePageKeeps DEF handleLogout, r
<1>4. /\ session' = [session EXCEPT ![browser[t]] = 0]
      /\ UNCHANGED <<sub, blocked, titles, saved, state, local, browser, lastNonce,
                     spent, events, consented, ever>>
  BY DEF handleLogout, rows, history
<1>5. TabsQuiet /\ tab' \in [Tabs -> TabRecord]
  BY <1>2, <1>3, TabGoesQuiet DEF Quiet
<1>6. RowTypes' /\ CookieTypes' /\ PageTypes' /\ CallTypes' /\ HistoryTypes'
  BY <1>1, <1>3, <1>4, <1>5, TypeParts
     DEF RowTypes, CookieTypes, PageTypes, CallTypes, HistoryTypes
<1>7. StatesGo /\ ListsShrink /\ SessionsEnd
  BY <1>1, <1>4 DEF StatesGo, ListsShrink, SessionsEnd, TypeOK
<1> QED BY <1>3, <1>4, <1>5, <1>6, <1>7, TypePartsPrime, Steady

\* A page that appears: its merge carries the whole local list, for the account of
\* the browser.
LEMMA ShownStep ==
  ASSUME AcInv, NEW t \in Tabs, NEW me \in {0} \cup Ids,
         NEW sess \in {0, session[browser[t]]}, Shown(t, me, sess), events' \in Nat,
         UNCHANGED <<sub, blocked, titles, saved, state, local, browser, lastNonce,
                     spent, consented, ever>>
  PROVE  AcInv'
<1>1. TypeOK /\ browser[t] \in Browsers /\ sess \in {0} \cup Ids
  BY TypesAre DEF AcInv, TypeOK
<1>2. /\ \E r \in TabRecord : TabBecomes(t, r) /\ r.at \in {"page", "login"}
      /\ session' = [session EXCEPT ![browser[t]] = sess]
      /\ marks' \in [Tabs -> SUBSET Titles]
      /\ \/ UNCHANGED call
         \/ \E c \in Calls : CallBecomes(c, Merge(t, sess))
  BY <1>1, ShownKeeps
<1>3. TabsQuiet /\ tab' \in [Tabs -> TabRecord]
  BY <1>2, TabGoesQuiet DEF Quiet
<1>4. call' \in [Calls -> CallRecord]
  BY <1>1, <1>2, TypesAre DEF CallBecomes
<1>5. RowTypes' /\ CookieTypes' /\ PageTypes' /\ CallTypes' /\ HistoryTypes'
  BY <1>1, <1>2, <1>3, <1>4, TypeParts
     DEF RowTypes, CookieTypes, PageTypes, CallTypes, HistoryTypes
<1>6. StatesGo /\ ListsShrink /\ SessionsEnd
  BY <1>1, <1>2 DEF StatesGo, ListsShrink, SessionsEnd, TypeOK
<1>7. RecordsGrow /\ RowsOk'
  BY RecordsStay, RowsStay
<1>8. (\A b \in Browsers : CookiesOk(b)') /\ (\A u \in Tabs : TabOk(u)')
  BY <1>3, <1>6, <1>7, CookiesKeep, TabsKeep
<1>9. RecordOk(Merge(t, sess))
  <2>1. CookiesOk(browser[t])
    BY <1>1 DEF AcInv
  <2> QED BY <2>1 DEF RecordOk, Merge, CookiesOk
<1>10. \A c \in Calls : CallOk(c)'
  <2>1. ASSUME UNCHANGED call PROVE CallsEnd
    BY <2>1 DEF CallsEnd
  <2> QED BY <1>2, <1>6, <1>7, <1>9, <2>1, CallsKeep, CallMoves
<1> QED BY <1>5, <1>7, <1>8, <1>10, TypePartsPrime, InvParts

LEMMA LoadStep ==
  ASSUME AcInv, NEW t \in Tabs, Load(t) \/ LoadFails(t) PROVE AcInv'
<1>1. TypeOK /\ tab[t].user \in {0} \cup Ids /\ events \in Nat
  BY TypesAre DEF AcInv, TabRecord, TypeOK
<1>2. CASE Load(t)
  <2> DEFINE me == UserByID(tab[t].user)
             sess == IF tab[t].user # 0 /\ me = 0 THEN 0 ELSE session[browser[t]]
  <2>1. me \in {0} \cup Ids /\ sess \in {0, session[browser[t]]}
    BY <1>1, UserTypes
  <2>2. Shown(t, me, sess)
    BY <1>2 DEF Load
  <2>3. UNCHANGED <<sub, blocked, titles, saved, state, local, browser, lastNonce,
                    spent, events, consented, ever>>
    BY <1>2 DEF Load, rows, history
  <2> HIDE DEF me, sess
  <2> QED BY <1>1, <2>1, <2>2, <2>3, ShownStep
<1>3. CASE LoadFails(t)
  <2>1. Shown(t, 0, session[browser[t]]) /\ events' \in Nat
    BY <1>1, <1>3 DEF LoadFails, Fault
  <2>2. UNCHANGED <<sub, blocked, titles, saved, state, local, browser, lastNonce,
                    spent, consented, ever>>
    BY <1>3 DEF LoadFails, rows
  <2> QED BY <2>1, <2>2, ShownStep
<1> QED BY <1>2, <1>3

-----------------------------------------------------------------------------
(***************************************************************************)
(* Sign-in.                                                                *)
(***************************************************************************)
\* A step of one tab, which is right about the flow it is in.
LEMMA TabMoves ==
  ASSUME AcInv, RecordsGrow, StatesGo, NEW t \in Tabs, NEW r, TabBecomes(t, r), TabOk(t)'
  PROVE  \A u \in Tabs : TabOk(u)'
  BY TabStays DEF AcInv, TabBecomes

LEMMA StartStep ==
  ASSUME AcInv, NEW t \in Tabs, NEW p \in Pages \cup {Offsite}, handleGoogleStart(t, p)
  PROVE  AcInv'
<1> DEFINE b == browser[t]
           me == UserByID(session[b])
<1>1. TypeOK /\ b \in Browsers /\ safeNext(p) \in Pages /\ lastNonce \in Nat
      /\ session[b] \in {0} \cup Ids
  BY TypesAre, PageRecords DEF AcInv, TypeOK
<1>2. me \in {0, session[b]} /\ me \in {0} \cup Ids
  BY <1>1, UserTypes
<1>3. /\ session' = [session EXCEPT ![b] = me]
      /\ UNCHANGED <<sub, blocked, titles, saved, local, browser, spent, events, consented,
                     ever>>
  BY DEF handleGoogleStart, rows
<1>4. ListsShrink /\ SessionsEnd
  BY <1>1, <1>2, <1>3 DEF ListsShrink, SessionsEnd, TypeOK
<1>5. CASE me # 0
  <2> DEFINE r == Loading(t, safeNext(p))
  <2>1. LeavePage(t, r) /\ UNCHANGED <<state, lastNonce>>
    BY <1>5 DEF handleGoogleStart
  <2>2. r \in TabRecord /\ r.at = "loading"
    BY <1>1, PageRecords
  <2> HIDE DEF r, me
  <2>3. /\ TabBecomes(t, r) /\ marks' \in [Tabs -> SUBSET Titles]
        /\ call' \in [Calls -> CallRecord] /\ CallsEnd
    BY <1>1, <2>1, <2>2, LeavePageKeeps
  <2>4. TabsQuiet /\ tab' \in [Tabs -> TabRecord]
    BY <2>2, <2>3, TabGoesQuiet DEF Quiet
  <2>5. RowTypes' /\ CookieTypes' /\ PageTypes' /\ CallTypes' /\ HistoryTypes'
    BY <1>1, <1>2, <1>3, <2>1, <2>3, <2>4, TypeParts
       DEF RowTypes, CookieTypes, PageTypes, CallTypes, HistoryTypes
  <2>6. StatesGo
    BY <2>1 DEF StatesGo
  <2> QED BY <1>3, <1>4, <2>1, <2>3, <2>4, <2>5, <2>6, TypePartsPrime, Steady
<1>6. CASE me = 0
  <2> DEFINE n == lastNonce + 1
             q == safeNext(p)
             r == authCode(n, q)
  <2>1. /\ lastNonce' = n /\ LeavePage(t, r)
        /\ state' = [state EXCEPT ![b] = setState(n, q)]
    BY <1>6 DEF handleGoogleStart
  <2>2. r \in TabRecord /\ r.at = "google" /\ r.nonce = n /\ r.want = q
    <3>1. n \in Nat /\ q \in Pages
      BY <1>1
    <3> HIDE DEF n, q
    <3> QED BY <1>1, <3>1, PageRecords
  <2> HIDE DEF r, me
  <2>3. /\ TabBecomes(t, r) /\ marks' \in [Tabs -> SUBSET Titles]
        /\ call' \in [Calls -> CallRecord] /\ CallsEnd
    BY <1>1, <2>1, <2>2, LeavePageKeeps
  <2>4. setState(n, q) \in [nonce : Nat, next : Pages] /\ setState(n, q).nonce = n
        /\ setState(n, q).next = q
    BY <1>1 DEF setState
  <2>5. RowTypes' /\ CookieTypes' /\ PageTypes' /\ CallTypes' /\ HistoryTypes'
    BY <1>1, <1>2, <1>3, <2>1, <2>3, <2>4, TypeParts
       DEF RowTypes, CookieTypes, PageTypes, CallTypes, HistoryTypes, TabBecomes
  <2>6. \A c \in Browsers : state'[c] = IF c = b THEN setState(n, q) ELSE state[c]
    BY <1>1, <2>1 DEF TypeOK
  <2>7. StatesGo
    BY <2>1, <2>4, <2>6 DEF StatesGo
  <2>8. RecordsGrow
    BY <1>1, <1>3, <2>1 DEF RecordsGrow
  <2>9. RowsOk'
    BY <1>3, RowsStay
  <2>10. \A c \in Browsers : state[c].nonce # n
    BY <1>1 DEF AcInv, CookiesOk
  <2>11. TabOk(t)'
    <3>1. tab'[t] = r /\ browser' = browser
      BY <1>3, <2>3 DEF TabBecomes
    <3>2. \A c \in Browsers : state'[c].nonce = n => c = b /\ state'[c].next = q
      BY <2>4, <2>6, <2>10
    <3>3. n \in 1..lastNonce'
      BY <1>1, <2>1
    <3> QED BY <2>2, <3>1, <3>2, <3>3 DEF TabOk
  <2>12. \A u \in Tabs : TabOk(u)'
    BY <2>3, <2>7, <2>8, <2>11, TabMoves
  <2>13. (\A c \in Browsers : CookiesOk(c)') /\ (\A c \in Calls : CallOk(c)')
    BY <1>4, <2>3, <2>7, <2>8, CookiesKeep, CallsKeep
  <2> QED BY <2>5, <2>9, <2>12, <2>13, TypePartsPrime, InvParts
<1> QED BY <1>5, <1>6

LEMMA ConsentStep ==
  ASSUME AcInv, NEW t \in Tabs, NEW s \in Subs \cup {None}, NEW u \in Tabs,
         Consent(t, s, u)
  PROVE  AcInv'
<1> DEFINE b == browser[t]
           c == browser[u]
           r == [tab[t] EXCEPT !.at = "calling", !.who = s, !.state = state[c]]
<1>1. /\ TypeOK /\ TabOk(t) /\ b \in Browsers /\ c \in Browsers /\ tab[t] \in TabRecord
      /\ state[c] \in [nonce : Nat, next : Pages] /\ tab[t].at = "google"
  BY TypesAre DEF AcInv, TypeOK, Consent
<1>2. /\ r \in TabRecord /\ r.at = "calling" /\ r.who = s /\ r.state = state[c]
      /\ r.nonce = tab[t].nonce /\ r.want = tab[t].want
  BY <1>1 DEF TabRecord
<1>3. /\ consented' = [consented EXCEPT ![b] = IF s = None THEN @ ELSE @ \cup {s}]
      /\ tab' = [tab EXCEPT ![t] = Blank, ![u] = r]
      /\ UNCHANGED <<sub, blocked, titles, saved, session, state, local, browser, marks, call,
                     lastNonce, spent, events, ever>>
  BY DEF Consent, rows, cookies
<1> HIDE DEF r
<1>4. Blank \in TabRecord /\ Blank.at \in Quiet
  BY <1>1, PageRecords DEF Quiet
<1>5. /\ tab' \in [Tabs -> TabRecord] /\ tab'[u] = r
      /\ \A v \in Tabs : v # u => tab'[v] = tab[v] \/ tab'[v].at \in Quiet
  BY <1>1, <1>2, <1>3, <1>4, TypesAre
<1>6. /\ consented' \in [Browsers -> SUBSET Subs] /\ (s # None => s \in consented'[b])
      /\ \A d \in Browsers : consented[d] \subseteq consented'[d]
  BY <1>1, <1>3 DEF TypeOK
<1>7. RowTypes' /\ CookieTypes' /\ PageTypes' /\ CallTypes' /\ HistoryTypes'
  BY <1>1, <1>3, <1>5, <1>6, TypeParts
     DEF RowTypes, CookieTypes, PageTypes, CallTypes, HistoryTypes
<1>8. RecordsGrow /\ RowsOk'
  BY <1>1, <1>3, <1>6, RowsStay DEF RecordsGrow, TypeOK
<1>9. StatesGo /\ ListsShrink /\ SessionsEnd /\ CallsEnd
  BY <1>3 DEF StatesGo, ListsShrink, SessionsEnd, CallsEnd
<1>10. TabOk(u)'
  <2>1. ASSUME Accepted(u)'
        PROVE  r.state.next = r.want /\ (r.who # None => r.who \in consented'[c])
    <3>1. state[c].nonce = tab[t].nonce
      BY <1>2, <1>5, <2>1 DEF Accepted
    <3>2. c = b /\ state[c].next = tab[t].want
      BY <1>1, <3>1 DEF TabOk
    <3> QED BY <1>2, <1>6, <3>2
  <2> QED BY <1>2, <1>3, <1>5, <2>1 DEF TabOk
<1>11. \A v \in Tabs : TabOk(v)'
  BY <1>5, <1>8, <1>9, <1>10, TabStays DEF AcInv
<1>12. (\A d \in Browsers : CookiesOk(d)') /\ (\A d \in Calls : CallOk(d)')
  BY <1>8, <1>9, CookiesKeep, CallsKeep
<1> QED BY <1>7, <1>8, <1>11, <1>12, TypePartsPrime, InvParts

\* The answer to a callback.
LEMMA AnsweredKeeps ==
  ASSUME TypeOK, NEW t \in Tabs, NEW i \in {0} \cup Ids, NEW p \in Pages,
         Answered(t, i, p)
  PROVE  \E r : /\ TabBecomes(t, r) /\ r.at = "back" /\ r.user = i /\ r.next = p
                /\ r.want = tab[t].want /\ r.who = tab[t].who
<1> DEFINE cl == session[browser[t]] # 0 /\ UserByID(session[browser[t]]) = 0
           r == [tab[t] EXCEPT !.at = "back", !.user = i, !.next = p, !.clears = cl]
<1>1. tab[t] \in TabRecord /\ cl \in BOOLEAN
  BY TypesAre
<1>2. tab' = [tab EXCEPT ![t] = r]
  BY DEF Answered
<1> HIDE DEF cl
<1>3. /\ r \in TabRecord /\ r.at = "back" /\ r.user = i /\ r.next = p
      /\ r.want = tab[t].want /\ r.who = tab[t].who
  BY <1>1 DEF TabRecord
<1> HIDE DEF r
<1> QED BY <1>2, <1>3, TabSet

LEMMA CallbackFailsStep ==
  ASSUME AcInv, NEW t \in Tabs, CallbackRefused(t) \/ CallbackFails(t) PROVE AcInv'
<1>1. TypeOK /\ tab[t].state.next \in Pages /\ tab[t].nonce \in Nat
  BY TypesAre DEF AcInv, TabRecord
<1>2. /\ Answered(t, 0, tab[t].state.next)
      /\ UNCHANGED <<sub, blocked, titles, saved, session, state, local, browser, marks, call,
                     lastNonce, consented, ever>>
  BY DEF CallbackRefused, CallbackFails, rows, cookies, history
<1>3. events' \in Nat /\ spent' \subseteq Nat
  <2>1. ASSUME CallbackRefused(t) PROVE events' \in Nat /\ spent' \subseteq Nat
    BY <1>1, <2>1 DEF CallbackRefused, history, TypeOK
  <2>2. ASSUME CallbackFails(t) PROVE events' \in Nat /\ spent' \subseteq Nat
    <3>1. events' = events + 1 /\ spent' = spent \cup {tab[t].nonce}
      BY <2>2 DEF CallbackFails, Fault
    <3>2. events \in Nat /\ spent \subseteq Nat
      BY <1>1 DEF TypeOK
    <3>3. spent' \subseteq Nat
      BY <1>1, <3>1, <3>2, Zenon
    <3> QED BY <3>1, <3>2, <3>3
  <2> QED BY <2>1, <2>2
<1>4. PICK r : TabBecomes(t, r) /\ r.at = "back" /\ r.user = 0
  BY <1>1, <1>2, AnsweredKeeps
<1>5. RowTypes' /\ CookieTypes' /\ PageTypes' /\ CallTypes' /\ HistoryTypes'
  BY <1>1, <1>2, <1>3, <1>4, TypeParts
     DEF RowTypes, CookieTypes, PageTypes, CallTypes, HistoryTypes, TabBecomes
<1>6. RecordsGrow /\ RowsOk'
  BY <1>2, RecordsStay, RowsStay
<1>7. StatesGo /\ ListsShrink /\ SessionsEnd /\ CallsEnd
  BY <1>2 DEF StatesGo, ListsShrink, SessionsEnd, CallsEnd
<1>8. TabOk(t)'
  BY <1>4 DEF TabOk, TabBecomes
<1>9. (\A b \in Browsers : CookiesOk(b)') /\ (\A u \in Tabs : TabOk(u)')
      /\ (\A c \in Calls : CallOk(c)')
  BY <1>4, <1>6, <1>7, <1>8, CookiesKeep, TabMoves, CallsKeep
<1> QED BY <1>5, <1>6, <1>9, TypePartsPrime, InvParts

\* The account consented in the flow the callback was accepted for.
LEMMA SignsInStep ==
  ASSUME AcInv, NEW t \in Tabs, CallbackSignsIn(t) PROVE AcInv'
<1> DEFINE s == tab[t].who
           i == UpsertedId(s)
           me == IF i \in blocked THEN 0 ELSE i
           b == browser[t]
<1>1. /\ TypeOK /\ tab[t].state.next \in Pages /\ tab[t].nonce \in Nat /\ RowsApart
      /\ b \in Browsers /\ TabOk(t)
  BY TypesAre DEF AcInv, TabRecord
<1>2. s \in Subs
  BY <1>1, TypesAre DEF CallbackSignsIn, Exchanged, TabRecord
<1>3. /\ Answered(t, me, tab[t].state.next) /\ spent' = spent \cup {tab[t].nonce}
      /\ UpsertGoogleUser(s)
      /\ UNCHANGED <<blocked, titles, saved, session, state, local, browser, marks, call,
                     lastNonce, events, consented, ever>>
  BY DEF CallbackSignsIn, cookies
<1>4. /\ i \in Ids /\ sub' \in [Ids -> Subs \cup {None}] /\ i \in Taken' /\ sub'[i] = s
      /\ (\A j \in Taken : sub'[j] = sub[j]) /\ RowsApart'
  BY <1>1, <1>2, <1>3, Upserts
<1>5. tab[t].state.next = tab[t].want /\ s \in consented[b]
  BY <1>1, <1>2, AccountsConstants DEF CallbackSignsIn, TabOk
<1> HIDE DEF i
<1> me \in {0} \cup Ids
  BY <1>4
<1> HIDE DEF me
<1>6. PICK r : /\ TabBecomes(t, r) /\ r.at = "back" /\ r.user = me
               /\ r.next = tab[t].state.next /\ r.want = tab[t].want /\ r.who = s
  BY <1>1, <1>3, <1>4, AnsweredKeeps
<1>7. RowTypes' /\ CookieTypes' /\ PageTypes' /\ CallTypes' /\ HistoryTypes'
  BY <1>1, <1>3, <1>4, <1>6, TypeParts
     DEF RowTypes, CookieTypes, PageTypes, CallTypes, HistoryTypes, TabBecomes
<1>8. RecordsGrow /\ RowsOk'
  BY <1>1, <1>3, <1>4 DEF RecordsGrow, RowsOk, AcInv, TypeOK
<1>9. StatesGo /\ ListsShrink /\ SessionsEnd /\ CallsEnd
  BY <1>3 DEF StatesGo, ListsShrink, SessionsEnd, CallsEnd
<1>10. TabOk(t)'
  <2>1. tab'[t] = r /\ browser' = browser /\ consented' = consented
    BY <1>3, <1>6 DEF TabBecomes
  <2> QED BY <1>4, <1>5, <1>6, <2>1 DEF TabOk, May, me
<1>11. (\A c \in Browsers : CookiesOk(c)') /\ (\A u \in Tabs : TabOk(u)')
       /\ (\A c \in Calls : CallOk(c)')
  BY <1>6, <1>8, <1>9, <1>10, CookiesKeep, TabMoves, CallsKeep
<1> QED BY <1>7, <1>8, <1>11, TypePartsPrime, InvParts

LEMMA ReturnStep ==
  ASSUME AcInv, NEW t \in Tabs, Return(t) PROVE AcInv'
<1> DEFINE b == browser[t]
           i == IF tab[t].user # 0 THEN tab[t].user
                ELSE IF tab[t].clears THEN 0 ELSE session[b]
           r == IF requireLogin(i) THEN [Loading(t, tab[t].next) EXCEPT !.user = i]
                                   ELSE FrontDoor(tab[t].next)
<1>1. /\ TypeOK /\ tab[t] \in TabRecord /\ tab[t].next \in Pages /\ b \in Browsers
      /\ tab[t].user \in {0} \cup Ids /\ session[b] \in {0} \cup Ids
      /\ TabOk(t) /\ CookiesOk(b)
  BY TypesAre DEF AcInv, TabRecord, TypeOK
<1>2. i \in {0} \cup Ids /\ (i # 0 => May(i, b))
  BY <1>1 DEF TabOk, CookiesOk, Return
<1> HIDE DEF i
<1>3. r \in TabRecord /\ r.at \in Quiet
  <2>1. /\ Loading(t, tab[t].next) \in TabRecord /\ Loading(t, tab[t].next).at = "loading"
        /\ FrontDoor(tab[t].next) \in TabRecord /\ FrontDoor(tab[t].next).at = "login"
    BY <1>1, PageRecords
  <2>2. /\ [Loading(t, tab[t].next) EXCEPT !.user = i] \in TabRecord
        /\ [Loading(t, tab[t].next) EXCEPT !.user = i].at = "loading"
    BY <1>2, <2>1 DEF TabRecord
  <2> QED BY <2>1, <2>2 DEF Quiet
<1>4. /\ state' = [state EXCEPT ![b] = NoState] /\ session' = [session EXCEPT ![b] = i]
      /\ tab' = [tab EXCEPT ![t] = r]
      /\ UNCHANGED <<sub, blocked, titles, saved, local, browser, marks, call, lastNonce,
                     spent, events, consented, ever>>
  BY DEF Return, rows, history, i
<1> HIDE DEF r
<1>5. TabsQuiet /\ tab' \in [Tabs -> TabRecord]
  BY <1>1, <1>3, <1>4, TabSet, TabGoesQuiet
<1>6. NoState \in [nonce : Nat, next : Pages] /\ NoState.nonce = 0
  BY AccountsConstants DEF NoState
<1>7. RowTypes' /\ CookieTypes' /\ PageTypes' /\ CallTypes' /\ HistoryTypes'
  BY <1>1, <1>2, <1>4, <1>5, <1>6, TypeParts
     DEF RowTypes, CookieTypes, PageTypes, CallTypes, HistoryTypes
<1>8. RecordsGrow /\ RowsOk'
  BY <1>4, RecordsStay, RowsStay
<1>9. StatesGo /\ ListsShrink /\ CallsEnd
  BY <1>1, <1>4, <1>6 DEF StatesGo, ListsShrink, CallsEnd, TypeOK
<1>10. ASSUME NEW c \in Browsers, c = b PROVE CookiesOk(c)'
  <2>1. session'[c] = i /\ state'[c].nonce = 0 /\ lastNonce' \in Nat
    BY <1>1, <1>4, <1>6, <1>10 DEF TypeOK
  <2>2. i # 0 => i \in Taken' /\ sub'[i] \in consented'[c]
    BY <1>1, <1>2, <1>8, <1>10, MayStays
  <2>3. 0 \in 0..lastNonce'
    BY <2>1
  <2> QED BY <2>1, <2>2, <2>3 DEF CookiesOk, May
<1>11. ASSUME NEW c \in Browsers, c # b PROVE CookiesOk(c)'
  BY <1>1, <1>4, <1>8, <1>9, <1>11, CookiesStay DEF AcInv, TypeOK
<1>12. (\A c \in Browsers : CookiesOk(c)') /\ (\A u \in Tabs : TabOk(u)')
       /\ (\A c \in Calls : CallOk(c)')
  BY <1>5, <1>8, <1>9, <1>10, <1>11, TabsKeep, CallsKeep
<1> QED BY <1>7, <1>8, <1>12, TypePartsPrime, InvParts

-----------------------------------------------------------------------------
(***************************************************************************)
(* The saved list.                                                         *)
(***************************************************************************)
\* A step of one call that writes nothing.
LEMMA CallSteady ==
  ASSUME AcInv, NEW c \in Calls, NEW k, CallBecomes(c, k), RecordOk(k),
         marks' \in [Tabs -> SUBSET Titles], events' \in Nat,
         UNCHANGED <<sub, blocked, titles, saved, session, state, local, browser, tab,
                     lastNonce, spent, consented, ever>>
  PROVE  AcInv'
<1>1. TypeOK
  BY DEF AcInv
<1>2. RowTypes' /\ CookieTypes' /\ PageTypes' /\ CallTypes' /\ HistoryTypes'
  BY <1>1, TypeParts
     DEF RowTypes, CookieTypes, PageTypes, CallTypes, HistoryTypes, CallBecomes
<1>3. RecordsGrow /\ RowsOk'
  BY RecordsStay, RowsStay
<1>4. StatesGo /\ ListsShrink /\ SessionsEnd /\ TabsQuiet
  BY DEF StatesGo, ListsShrink, SessionsEnd, TabsQuiet
<1>5. (\A b \in Browsers : CookiesOk(b)') /\ (\A t \in Tabs : TabOk(t)')
      /\ (\A d \in Calls : CallOk(d)')
  BY <1>3, <1>4, CookiesKeep, TabsKeep, CallMoves
<1> QED BY <1>2, <1>3, <1>5, TypePartsPrime, InvParts

\* A call that is sent goes with the session of the browser.
LEMMA SendStep ==
  ASSUME AcInv, NEW t \in Tabs, NEW c \in Calls, NEW kind \in {"add", "remove", "clear"},
         NEW ids \in SUBSET Titles, Send(t, c, kind, ids), marks' \in [Tabs -> SUBSET Titles]
  PROVE  AcInv'
<1> DEFINE k == [kind |-> kind, tab |-> t, user |-> 0, ids |-> ids,
                 sess |-> session[browser[t]], step |-> "sent"]
<1>1. TypeOK /\ browser[t] \in Browsers /\ session[browser[t]] \in {0} \cup Ids
      /\ CookiesOk(browser[t])
  BY TypesAre DEF AcInv, TypeOK
<1>2. k \in CallRecord
  BY <1>1 DEF CallRecord
<1>3. RecordOk(k)
  BY <1>1 DEF RecordOk, CookiesOk
<1>4. call' = [call EXCEPT ![c] = k]
  BY DEF Send
<1> HIDE DEF k
<1>5. CallBecomes(c, k)
  BY <1>1, <1>2, <1>4, CallSet
<1>6. UNCHANGED <<sub, blocked, titles, saved, session, state, local, browser, tab,
                  lastNonce, spent, events, consented, ever>>
  BY DEF Send, rows, cookies, history
<1>7. events' \in Nat
  BY <1>1, <1>6 DEF TypeOK
<1> QED BY <1>3, <1>5, <1>6, <1>7, CallSteady

LEMMA ClickStep ==
  ASSUME AcInv, NEW t \in Tabs, NEW c \in Calls,
         (\E x \in Titles : Click(t, c, x)) \/ ClickClear(t, c)
  PROVE  AcInv'
<1>1. marks \in [Tabs -> SUBSET Titles]
  BY DEF AcInv, TypeOK
<1>2. marks' \in [Tabs -> SUBSET Titles]
  BY <1>1 DEF Click, ClickClear
<1>3. \E kind \in {"add", "remove", "clear"}, ids \in SUBSET Titles : Send(t, c, kind, ids)
  BY DEF Click, ClickClear
<1> QED BY <1>2, <1>3, SendStep

LEMMA RequireUserStep ==
  ASSUME AcInv, NEW c \in Calls, requireUser(c) PROVE AcInv'
<1> DEFINE i == UserByID(call[c].sess)
           k == [call[c] EXCEPT !.user = i, !.step = IF i = 0 THEN "refused" ELSE "authed"]
<1>1. TypeOK /\ call[c] \in CallRecord /\ RecordOk(call[c]) /\ call[c].sess \in {0} \cup Ids
      /\ call[c].step = "sent"
  BY TypesAre, CallIsRecord DEF AcInv, CallRecord, requireUser
<1>2. i \in {0, call[c].sess}
  BY <1>1, UserTypes
<1>3. call' = [call EXCEPT ![c] = k]
  BY DEF requireUser
<1> HIDE DEF i
<1>4. k \in CallRecord
  BY <1>1, <1>2 DEF CallRecord
<1>5. RecordOk(k)
  BY <1>1, <1>2 DEF CallRecord, RecordOk
<1> HIDE DEF k
<1>6. CallBecomes(c, k)
  BY <1>1, <1>3, <1>4, CallSet
<1>7. UNCHANGED <<sub, blocked, titles, saved, session, state, local, browser, tab, marks,
                  lastNonce, spent, events, consented, ever>>
  BY DEF requireUser, rows, cookies, pages, history
<1>8. marks' \in [Tabs -> SUBSET Titles] /\ events' \in Nat
  BY <1>1, <1>7 DEF TypeOK
<1> QED BY <1>5, <1>6, <1>7, <1>8, CallSteady

\* A call fails or its write is refused, is read back, or its answer finds nobody.
LEMMA CallEndsStep ==
  ASSUME AcInv, NEW c \in Calls, WriteRefused(c) \/ CallFails(c) \/ Reload(c) \/ Unread(c)
  PROVE  AcInv'
<1> DEFINE k == call[c]
           failed == [k EXCEPT !.step = "failed"]
           read == [k EXCEPT !.step = "done", !.ids = SavedTitleIDs(k.user)]
<1>1. TypeOK /\ k \in CallRecord /\ RecordOk(k) /\ events \in Nat
  BY TypesAre, CallIsRecord DEF AcInv, TypeOK
<1>2. SavedTitleIDs(k.user) \in SUBSET Titles
  BY <1>1 DEF SavedTitleIDs, TypeOK
<1>3. ASSUME k.step = "merged" PROVE read \in CallRecord /\ RecordOk(read)
  <2>1. read \in CallRecord
    BY <1>1, <1>2 DEF CallRecord
  <2>2. /\ read.kind = k.kind /\ read.tab = k.tab /\ read.sess = k.sess /\ read.user = k.user
        /\ read.step = "done"
    BY <1>1 DEF CallRecord
  <2> HIDE DEF read
  <2> QED BY <1>1, <1>3, <2>1, <2>2 DEF RecordOk
<1>4. /\ Idle \in CallRecord /\ RecordOk(Idle) /\ failed \in CallRecord
      /\ k.step # "idle" => RecordOk(failed)
  BY <1>1, CallEnds DEF RecordOk
<1>5. \E r \in CallRecord : call' = [call EXCEPT ![c] = r] /\ RecordOk(r)
  <2>1. ASSUME Reload(c) PROVE k.step = "merged" /\ call' = [call EXCEPT ![c] = read]
    BY <2>1 DEF Reload
  <2>2. ASSUME WriteRefused(c) \/ CallFails(c)
        PROVE  k.step # "idle" /\ call' = [call EXCEPT ![c] = failed]
    BY <2>2 DEF WriteRefused, CallFails
  <2>3. ASSUME Unread(c) PROVE call' = [call EXCEPT ![c] = Idle]
    BY <2>3 DEF Unread
  <2> HIDE DEF k, read, failed
  <2> QED BY <1>3, <1>4, <2>1, <2>2, <2>3
<1>6. PICK r : CallBecomes(c, r) /\ RecordOk(r)
  BY <1>1, <1>5, CallSet
<1>7. UNCHANGED <<sub, blocked, titles, saved, session, state, local, browser, tab, marks,
                  lastNonce, spent, consented, ever>>
  BY DEF WriteRefused, CallFails, Reload, Unread, rows, cookies, pages, history
<1>8. marks' \in [Tabs -> SUBSET Titles] /\ events' \in Nat
  BY <1>1, <1>7 DEF TypeOK, WriteRefused, CallFails, Reload, Unread, Fault, history
<1> QED BY <1>6, <1>7, <1>8, CallSteady

\* The list a call leaves, of the titles it names.
LEMMA WrittenRows ==
  ASSUME TypeOK, NEW k \in CallRecord, k.user # 0, k.kind # "idle"
  PROVE  /\ Written(k) \subseteq Ids \X Titles
         /\ k.kind = "merge" => \A x \in k.ids \cap titles : <<k.user, x>> \in Written(k)
<1> DEFINE mine == {<<k.user, x>> : x \in k.ids}
<1>1. k.user \in Ids /\ k.ids \subseteq Titles /\ saved \subseteq Ids \X Titles
      /\ k.kind \in {"add", "remove", "clear", "merge"}
  BY DEF CallRecord, TypeOK
<1>2. mine \subseteq Ids \X Titles
  BY <1>1
<1>3. Written(k) \subseteq saved \cup mine
  BY <1>1 DEF Written
<1>4. ASSUME k.kind = "merge", NEW x \in k.ids \cap titles PROVE <<k.user, x>> \in Written(k)
  <2>1. Written(k) = saved \cup {e \in mine : e[2] \in titles}
    BY <1>4 DEF Written
  <2>2. <<k.user, x>> \in mine /\ <<k.user, x>>[2] \in titles
    OBVIOUS
  <2> HIDE DEF mine
  <2> QED BY <2>1, <2>2
<1> QED BY <1>1, <1>2, <1>3, <1>4

LEMMA WriteStep ==
  ASSUME AcInv, NEW c \in Calls, Write(c) PROVE AcInv'
<1> DEFINE k == call[c]
           r == [k EXCEPT !.step = IF k.kind = "merge" THEN "merged" ELSE "done"]
<1>1. /\ TypeOK /\ k \in CallRecord /\ RecordOk(k) /\ k.step = "authed"
      /\ k.user # 0 /\ k.kind # "idle"
  BY TypesAre, CallIsRecord DEF AcInv, Write, RecordOk
<1>2. /\ saved' = Written(k) /\ ever' = ever \cup saved' /\ call' = [call EXCEPT ![c] = r]
      /\ UNCHANGED <<sub, blocked, titles, session, state, local, browser, tab, marks,
                     lastNonce, spent, events, consented>>
  BY DEF Write, cookies, pages
<1>3. /\ saved' \subseteq Ids \X Titles
      /\ k.kind = "merge" => \A x \in k.ids \cap titles : <<k.user, x>> \in ever'
  BY <1>1, <1>2, WrittenRows
<1>4. /\ r \in CallRecord /\ r.kind = k.kind /\ r.tab = k.tab /\ r.sess = k.sess
      /\ r.user = k.user /\ r.step \in {"merged", "done"}
      /\ k.kind = "merge" <=> r.step = "merged"
  BY <1>1 DEF CallRecord
<1> HIDE DEF k, r
<1>5. CallBecomes(c, r)
  BY <1>1, <1>2, <1>4, CallSet
<1>6. RowTypes' /\ CookieTypes' /\ PageTypes' /\ CallTypes' /\ HistoryTypes'
  BY <1>1, <1>2, <1>3, <1>5, TypeParts
     DEF RowTypes, CookieTypes, PageTypes, CallTypes, HistoryTypes, CallBecomes
<1>7. RecordsGrow
  BY <1>2, RecordsStay
<1>8. RowsOk'
  BY <1>2 DEF AcInv, RowsOk, RowsApart, Taken
<1>9. StatesGo /\ ListsShrink /\ SessionsEnd /\ TabsQuiet
  BY <1>2 DEF StatesGo, ListsShrink, SessionsEnd, TabsQuiet
<1>10. CallOk(c)'
  <2> DEFINE b == browser[k.tab]
  <2>1. k.tab # None => k.tab \in Tabs /\ b \in Browsers /\ May(k.user, b)
        /\ (k.sess # 0 => May(k.sess, b)) /\ (k.kind = "merge" => local[b] \subseteq k.ids)
    BY <1>1, TypesAre DEF RecordOk, CallRecord
  <2>2. k.tab # None =>
          /\ k.user \in Taken' /\ sub'[k.user] \in consented'[b]
          /\ k.sess # 0 => k.sess \in Taken' /\ sub'[k.sess] \in consented'[b]
    BY <1>1, <1>7, <2>1, MayStays
  <2>3. call'[c] = r /\ browser' = browser /\ local' = local /\ titles' = titles
    BY <1>2, <1>5 DEF CallBecomes
  <2> QED BY <1>1, <1>3, <1>4, <2>1, <2>2, <2>3 DEF CallOk, May
<1>11. ASSUME NEW d \in Calls, d # c PROVE CallOk(d)'
  BY <1>5, <1>7, <1>9, <1>11, CallKeeps DEF CallBecomes
<1>12. (\A b \in Browsers : CookiesOk(b)') /\ (\A t \in Tabs : TabOk(t)')
       /\ (\A d \in Calls : CallOk(d)')
  BY <1>7, <1>9, <1>10, <1>11, CookiesKeep, TabsKeep
<1> QED BY <1>6, <1>8, <1>12, TypePartsPrime, InvParts

LEMMA AnswerStep ==
  ASSUME AcInv, NEW c \in Calls, Answer(c) PROVE AcInv'
<1> DEFINE k == call[c]
           t == k.tab
           b == browser[t]
           seen == MarksAfter(k, marks[t])
           kept == LocalAfter(k, local[b])
           sess == IF k.step = "refused" /\ k.sess # 0 THEN 0 ELSE session[b]
<1>1. /\ TypeOK /\ k \in CallRecord /\ t \in Tabs /\ b \in Browsers
      /\ marks[t] \subseteq Titles /\ local[b] \subseteq Titles
      /\ session[b] \in {0} \cup Ids /\ k.ids \subseteq Titles
  BY TypesAre DEF AcInv, Answer, CallRecord, TypeOK
<1>2. seen \subseteq Titles
  BY <1>1 DEF MarksAfter
<1>3. kept \subseteq local[b]
  BY DEF LocalAfter
<1>4. sess \in {0, session[b]}
  OBVIOUS
<1>5. /\ call' = [call EXCEPT ![c] = Idle] /\ marks' = [marks EXCEPT ![t] = seen]
      /\ local' = [local EXCEPT ![b] = kept] /\ session' = [session EXCEPT ![b] = sess]
      /\ UNCHANGED <<sub, blocked, titles, saved, browser, state, tab, lastNonce, spent,
                     events, consented, ever>>
  BY DEF Answer, rows, history
<1> HIDE DEF seen, kept, sess, b, t, k
<1>6. CallBecomes(c, Idle)
  BY <1>1, <1>5, CallSet, CallEnds, TypesAre, CallIsRecord DEF AcInv
<1>7. RowTypes' /\ CookieTypes' /\ PageTypes' /\ CallTypes' /\ HistoryTypes'
  BY <1>1, <1>2, <1>3, <1>4, <1>5, <1>6, TypeParts
     DEF RowTypes, CookieTypes, PageTypes, CallTypes, HistoryTypes, CallBecomes
<1>8. StatesGo /\ SessionsEnd /\ TabsQuiet /\ CallsEnd
  BY <1>1, <1>4, <1>5, <1>6
     DEF StatesGo, SessionsEnd, TabsQuiet, CallsEnd, CallBecomes, TypeOK
<1>9. ListsShrink
  BY <1>1, <1>3, <1>5 DEF ListsShrink, TypeOK
<1> QED BY <1>5, <1>7, <1>8, <1>9, TypePartsPrime, Steady

-----------------------------------------------------------------------------
(***************************************************************************)
(* The admin, and time.                                                    *)
(***************************************************************************)
LEMMA SetBlockedStep ==
  ASSUME AcInv, NEW i \in Ids, SetUserBlocked(i) PROVE AcInv'
<1>1. TypeOK /\ events \in Nat /\ RowsApart /\ saved \subseteq ever /\ i \in Taken
  BY DEF AcInv, TypeOK, SetUserBlocked, Taken
<1>2. /\ blocked' \subseteq blocked \cup {i}
      /\ UNCHANGED <<sub, titles, saved, session, state, local, browser, tab, marks, call,
                     lastNonce, spent, consented, ever>>
      /\ events' \in Nat
  BY <1>1 DEF SetUserBlocked, Fault, cookies, pages
<1>3. RowTypes' /\ CookieTypes' /\ PageTypes' /\ CallTypes' /\ HistoryTypes'
  BY <1>1, <1>2, TypeParts
     DEF RowTypes, CookieTypes, PageTypes, CallTypes, HistoryTypes
<1>4. RecordsGrow /\ RowsOk'
  BY <1>1, <1>2, RecordsStay DEF RowsOk, RowsApart, Taken
<1>5. StatesGo /\ ListsShrink /\ SessionsEnd /\ TabsQuiet /\ CallsEnd
  BY <1>2 DEF StatesGo, ListsShrink, SessionsEnd, TabsQuiet, CallsEnd
<1>6. (\A b \in Browsers : CookiesOk(b)') /\ (\A t \in Tabs : TabOk(t)')
      /\ (\A c \in Calls : CallOk(c)')
  BY <1>4, <1>5, CookiesKeep, TabsKeep, CallsKeep
<1> QED BY <1>3, <1>4, <1>6, TypePartsPrime, InvParts

LEMMA DeleteTitleStep ==
  ASSUME AcInv, NEW x \in Titles, DeleteTitle(x) PROVE AcInv'
<1>1. TypeOK /\ events \in Nat /\ RowsApart /\ saved \subseteq ever
  BY DEF AcInv, TypeOK
<1>2. /\ titles' \subseteq titles /\ saved' \subseteq saved /\ events' \in Nat
      /\ UNCHANGED <<sub, blocked, session, state, local, browser, tab, marks, call,
                     lastNonce, spent, consented, ever>>
  BY <1>1 DEF DeleteTitle, Fault, cookies, pages
<1>3. RowTypes' /\ CookieTypes' /\ PageTypes' /\ CallTypes' /\ HistoryTypes'
  BY <1>1, <1>2, TypeParts
     DEF RowTypes, CookieTypes, PageTypes, CallTypes, HistoryTypes
<1>4. RecordsGrow /\ RowsOk'
  BY <1>1, <1>2, RecordsStay DEF RowsOk, RowsApart, Taken
<1>5. StatesGo /\ ListsShrink /\ SessionsEnd /\ TabsQuiet /\ CallsEnd
  BY <1>2 DEF StatesGo, ListsShrink, SessionsEnd, TabsQuiet, CallsEnd
<1>6. (\A b \in Browsers : CookiesOk(b)') /\ (\A t \in Tabs : TabOk(t)')
      /\ (\A c \in Calls : CallOk(c)')
  BY <1>4, <1>5, CookiesKeep, TabsKeep, CallsKeep
<1> QED BY <1>3, <1>4, <1>6, TypePartsPrime, InvParts

LEMMA ExpiresStep ==
  ASSUME AcInv, NEW b \in Browsers, CookieExpires(b) PROVE AcInv'
<1>1. TypeOK /\ events \in Nat
  BY DEF AcInv, TypeOK
<1>2. NoState \in [nonce : Nat, next : Pages] /\ NoState.nonce = 0
  BY AccountsConstants DEF NoState
<1>3. /\ \/ session' = [session EXCEPT ![b] = 0] /\ UNCHANGED state
         \/ state' = [state EXCEPT ![b] = NoState] /\ UNCHANGED session
      /\ UNCHANGED <<sub, blocked, titles, saved, local, browser, tab, marks, call,
                     lastNonce, spent, consented, ever>>
      /\ events' \in Nat
  BY <1>1 DEF CookieExpires, Fault, rows, pages
<1>4. CookieTypes'
  <2>1. CookieTypes
    BY <1>1, TypeParts
  <2>2. CASE session' = [session EXCEPT ![b] = 0] /\ UNCHANGED state
    BY <1>3, <2>1, <2>2 DEF CookieTypes
  <2>3. CASE state' = [state EXCEPT ![b] = NoState] /\ UNCHANGED session
    BY <1>2, <1>3, <2>1, <2>3 DEF CookieTypes
  <2> QED BY <1>3, <2>2, <2>3
<1>5. RowTypes' /\ PageTypes' /\ CallTypes' /\ HistoryTypes'
  BY <1>1, <1>3, TypeParts
     DEF RowTypes, PageTypes, CallTypes, HistoryTypes
<1>6. StatesGo /\ SessionsEnd
  BY <1>1, <1>2, <1>3 DEF StatesGo, SessionsEnd, TypeOK
<1>7. ListsShrink /\ TabsQuiet /\ CallsEnd
  BY <1>3 DEF ListsShrink, TabsQuiet, CallsEnd
<1> QED BY <1>3, <1>4, <1>5, <1>6, <1>7, TypePartsPrime, Steady

-----------------------------------------------------------------------------
(***************************************************************************)
(* The invariant, and what it says.                                        *)
(***************************************************************************)
LEMMA AcInvStep == AcInv /\ [Next]_vars => AcInv'
<1> SUFFICES ASSUME AcInv, [Next]_vars PROVE AcInv'
  OBVIOUS
<1>1. ASSUME NEW t \in Tabs, TabStep(t) PROVE AcInv'
  BY <1>1, VisitStep, LoadStep, LogoutStep, StartStep, ConsentStep, CallbackFailsStep,
     SignsInStep, ReturnStep DEF TabStep
<1>2. ASSUME NEW c \in Calls, CallStep(c) PROVE AcInv'
  BY <1>2, ClickStep, RequireUserStep, WriteStep, CallEndsStep, AnswerStep DEF CallStep
<1>3. ASSUME UNCHANGED vars PROVE AcInv'
  <2>1. TypeOK' /\ RowsOk'
    BY <1>3 DEF AcInv, TypeOK, Ids, vars, RowsOk, RowsApart, Taken
  <2>2. RecordsGrow /\ StatesGo /\ ListsShrink /\ SessionsEnd /\ TabsQuiet /\ CallsEnd
    BY <1>3, RecordsStay DEF vars, StatesGo, ListsShrink, SessionsEnd, TabsQuiet, CallsEnd
  <2> QED BY <2>1, <2>2, CookiesKeep, TabsKeep, CallsKeep, InvParts
<1> QED BY <1>1, <1>2, <1>3, SetBlockedStep, DeleteTitleStep, ExpiresStep DEF Next

LEMMA AcInvAlways == Spec => []AcInv
<1> QED BY InitAcInv, AcInvStep, PTL DEF Spec

\* The values the variables range over.
THEOREM AccountTypes == Spec => []TypeOK
<1>1. AcInv => TypeOK
  BY DEF AcInv
<1> QED BY <1>1, AcInvAlways, PTL

\* A browser is only ever signed in as an account that consented, in that very browser,
\* to a flow the browser started, and its tab goes back to the page that flow left
\* (handleGoogleCallback, UpsertGoogleUser): the state cookie of a flow is in the browser
\* it left from and nowhere else, and names its page.
THEOREM SignInsAreSafe == Spec => []FlowsAreNotMixed
<1>1. AcInv => FlowsAreNotMixed
  BY DEF AcInv, FlowsAreNotMixed, CookiesOk, TabOk, May
<1> QED BY <1>1, AcInvAlways, PTL

\* Only the answer to a call touches a local list.
LEMMA ListsAnswer == [Next]_vars => UNCHANGED local \/ \E c \in Calls : Answer(c)
<1> SUFFICES ASSUME [Next]_vars, ~UNCHANGED local PROVE \E c \in Calls : Answer(c)
  OBVIOUS
<1>1. ~UNCHANGED vars
  BY DEF vars
<1>2. ASSUME NEW t \in Tabs, TabStep(t) PROVE FALSE
  BY <1>2 DEF TabStep, Visit, Load, LoadFails, handleLogout, handleGoogleStart, Consent,
     CallbackRefused, CallbackFails, CallbackSignsIn, Return, cookies
<1>3. ASSUME NEW c \in Calls, CallStep(c) PROVE Answer(c)
  BY <1>3 DEF CallStep, Click, ClickClear, Send, requireUser, Write, WriteRefused, Reload,
     CallFails, Unread, cookies
<1>4. (\A i \in Ids : ~SetUserBlocked(i)) /\ (\A x \in Titles : ~DeleteTitle(x))
      /\ (\A b \in Browsers : ~CookieExpires(b))
  BY DEF SetUserBlocked, DeleteTitle, CookieExpires, cookies
<1> QED BY <1>1, <1>2, <1>3, <1>4 DEF Next

\* A title leaves a local list only after it was in the saved list of an account of that
\* browser, or when it is gone itself (mergeLocal, MergeBookmarks): the call that clears
\* the list carried all of it, and its write named an account that had signed in there.
THEOREM ListsAreSafe == Spec => NothingSavedIsLost
<1> DEFINE Kept == \A b \in Browsers : \A x \in (local[b] \ local'[b]) \cap titles :
                     \E i \in Taken : sub[i] \in consented[b] /\ <<i, x>> \in ever
<1>1. ASSUME AcInv, [Next]_vars PROVE Kept
  <2> SUFFICES ASSUME NEW b \in Browsers, NEW x \in (local[b] \ local'[b]) \cap titles
               PROVE  \E i \in Taken : sub[i] \in consented[b] /\ <<i, x>> \in ever
    OBVIOUS
  <2>1. PICK c \in Calls : Answer(c)
    BY <1>1, ListsAnswer
  <2> DEFINE k == call[c]
  <2>2. k.tab # None /\ local \in [Browsers -> SUBSET Titles] /\ CallOk(c)
        /\ local' = [local EXCEPT ![browser[k.tab]] = LocalAfter(k, @)]
    BY <1>1, <2>1 DEF Answer, AcInv, TypeOK
  <2>3. b = browser[k.tab] /\ k.kind = "merge" /\ k.step = "done"
    BY <2>2 DEF LocalAfter
  <2>4. May(k.user, b) /\ <<k.user, x>> \in ever
    BY <2>2, <2>3 DEF CallOk
  <2> QED BY <2>4 DEF May
<1>2. AcInv /\ [Next]_vars => [Kept]_vars
  BY <1>1
<1> QED BY <1>2, AcInvAlways, PTL DEF Spec, NothingSavedIsLost

-----------------------------------------------------------------------------
(***************************************************************************)
(* A blocked account gets nothing new.                                     *)
(***************************************************************************)
Showing == {"page", "back"}

\* What a tab and a call become, as far as the account they stand for goes.
TabsOut ==
  \A t \in Tabs : \/ tab'[t].at \notin Showing \/ tab'[t].user \notin blocked
                  \/ tab'[t].at = tab[t].at /\ tab'[t].user = tab[t].user
CallsOut ==
  \A c \in Calls : \/ call'[c].step # "authed" \/ call'[c].user \notin blocked
                   \/ call'[c].step = call[c].step /\ call'[c].user = call[c].user
\* A list that changes is that of a call past the gate, or loses a title that is gone.
ListsOut ==
  \A i \in blocked : \/ Using(i) \cap Calls # {}
                     \/ \A x \in titles' : <<i, x>> \in saved <=> <<i, x>> \in saved'

LEMMA UserIsNotBlocked ==
  ASSUME TypeOK, NEW i PROVE UserByID(i) \notin blocked
  BY DEF TypeOK, UserByID, Ids

LEMMA TabOut ==
  ASSUME NEW t \in Tabs, NEW r, TabBecomes(t, r),
         r.at \notin Showing \/ r.user \notin blocked
  PROVE  TabsOut
  BY DEF TabBecomes, TabsOut

LEMMA CallOut ==
  ASSUME NEW c \in Calls, NEW k, CallBecomes(c, k),
         k.step # "authed" \/ k.user \notin blocked
  PROVE  CallsOut
  BY DEF CallBecomes, CallsOut

LEMMA LeavesOut ==
  ASSUME TypeOK, NEW t \in Tabs, NEW r \in TabRecord, r.at \notin Showing, LeavePage(t, r)
  PROVE  TabsOut /\ CallsOut
<1>1. TabsOut
  BY LeavePageKeeps, TabOut
<1>2. \A c \in Calls : /\ [call[c] EXCEPT !.tab = None].step = call[c].step
                       /\ [call[c] EXCEPT !.tab = None].user = call[c].user
  BY TypesAre DEF CallRecord
<1>3. \A c \in Calls : call'[c] \in {call[c], [call[c] EXCEPT !.tab = None]}
  BY DEF LeavePage, Abandon
<1> QED BY <1>1, <1>2, <1>3 DEF CallsOut

LEMMA ShownOut ==
  ASSUME TypeOK, NEW t \in Tabs, NEW me \in {0} \cup Ids, NEW sess \in {0} \cup Ids,
         Shown(t, me, sess), me \notin blocked
  PROVE  TabsOut /\ CallsOut
<1>1. PICK r \in TabRecord : /\ TabBecomes(t, r) /\ r.at \in {"page", "login"}
                             /\ (r.at = "page" => r.user = me)
  BY ShownKeeps
<1>2. TabsOut
  BY <1>1, TabOut DEF Showing
<1>3. UNCHANGED call \/ \E c \in Calls : CallBecomes(c, Merge(t, sess))
  BY ShownKeeps
<1>4. Merge(t, sess).step = "sent"
  BY DEF Merge
<1>5. CallsOut
  BY <1>3, <1>4, CallOut DEF CallsOut
<1> QED BY <1>2, <1>5

LEMMA PageStepsOut ==
  ASSUME TypeOK, NEW t \in Tabs,
         \/ \E p \in Pages : Visit(t, p)
         \/ Load(t) \/ LoadFails(t) \/ handleLogout(t)
         \/ \E p \in Pages \cup {Offsite} : handleGoogleStart(t, p)
  PROVE  TabsOut /\ CallsOut /\ UNCHANGED saved
<1>1. ASSUME NEW p \in Pages, Visit(t, p) PROVE TabsOut /\ CallsOut /\ UNCHANGED saved
  BY <1>1, PageRecords, LeavesOut DEF Visit, Showing, rows
<1>2. tab[t].user \in {0} \cup Ids /\ session[browser[t]] \in {0} \cup Ids
      /\ tab[t].next \in Pages /\ lastNonce + 1 \in Nat /\ 0 \notin blocked
  BY TypesAre DEF TabRecord, TypeOK
<1>3. ASSUME Load(t) PROVE TabsOut /\ CallsOut /\ UNCHANGED saved
  <2> DEFINE me == UserByID(tab[t].user)
             sess == IF tab[t].user # 0 /\ me = 0 THEN 0 ELSE session[browser[t]]
  <2>1. me \in {0} \cup Ids /\ sess \in {0} \cup Ids /\ me \notin blocked
    BY <1>2, UserTypes, UserIsNotBlocked
  <2>2. Shown(t, me, sess) /\ UNCHANGED saved
    BY <1>3 DEF Load, rows
  <2> HIDE DEF me, sess
  <2> QED BY <2>1, <2>2, ShownOut
<1>4. ASSUME LoadFails(t) PROVE TabsOut /\ CallsOut /\ UNCHANGED saved
  BY <1>2, <1>4, ShownOut DEF LoadFails, rows
<1>5. ASSUME handleLogout(t) PROVE TabsOut /\ CallsOut /\ UNCHANGED saved
  <2>1. /\ FrontDoor(tab[t].next) \in TabRecord /\ FrontDoor(tab[t].next).at = "login"
        /\ LeavePage(t, FrontDoor(tab[t].next)) /\ UNCHANGED saved
    BY <1>2, <1>5, PageRecords DEF handleLogout, rows
  <2> QED BY <2>1, LeavesOut DEF Showing
<1>6. ASSUME NEW p \in Pages \cup {Offsite}, handleGoogleStart(t, p)
      PROVE  TabsOut /\ CallsOut /\ UNCHANGED saved
  <2> DEFINE q == safeNext(p)
  <2>1. /\ Loading(t, q) \in TabRecord /\ Loading(t, q).at = "loading"
        /\ authCode(lastNonce + 1, q) \in TabRecord /\ authCode(lastNonce + 1, q).at = "google"
    BY <1>2, PageRecords
  <2>2. (LeavePage(t, Loading(t, q)) \/ LeavePage(t, authCode(lastNonce + 1, q)))
        /\ UNCHANGED saved
    BY <1>6 DEF handleGoogleStart, rows
  <2> QED BY <2>1, <2>2, LeavesOut DEF Showing
<1> QED BY <1>1, <1>3, <1>4, <1>5, <1>6

\* A sign-in that is answered hides a blocked account, and what follows shows no page.
LEMMA SignInStepsOut ==
  ASSUME AcInv, NEW t \in Tabs,
         \/ \E s \in Subs \cup {None}, u \in Tabs : Consent(t, s, u)
         \/ CallbackRefused(t) \/ CallbackFails(t) \/ CallbackSignsIn(t) \/ Return(t)
  PROVE  TabsOut /\ CallsOut /\ UNCHANGED saved
<1>1. /\ TypeOK /\ RowsApart /\ tab[t] \in TabRecord /\ tab[t].state.next \in Pages
      /\ tab[t].next \in Pages /\ 0 \notin blocked
  BY TypesAre DEF AcInv, TabRecord, TypeOK
<1>2. UNCHANGED <<call, saved>>
  BY DEF Consent, CallbackRefused, CallbackFails, CallbackSignsIn, Return, rows
<1>3. CallsOut
  BY <1>2 DEF CallsOut
<1>4. ASSUME NEW s \in Subs \cup {None}, NEW u \in Tabs, Consent(t, s, u) PROVE TabsOut
  <2> DEFINE r == [tab[t] EXCEPT !.at = "calling", !.who = s, !.state = state[browser[u]]]
  <2>1. tab' = [tab EXCEPT ![t] = Blank, ![u] = r] /\ r.at = "calling" /\ Blank.at = "blank"
    BY <1>1, <1>4, PageRecords DEF Consent, TabRecord
  <2>2. tab \in [Tabs -> TabRecord]
    BY <1>1, TypesAre
  <2> HIDE DEF r
  <2>3. \A v \in Tabs : tab'[v] = tab[v] \/ tab'[v].at \in {"calling", "blank"}
    BY <2>1, <2>2
  <2> QED BY <2>3 DEF TabsOut, Showing
<1>5. ASSUME CallbackRefused(t) \/ CallbackFails(t) PROVE TabsOut
  <2>1. Answered(t, 0, tab[t].state.next)
    BY <1>5 DEF CallbackRefused, CallbackFails
  <2> QED BY <1>1, <2>1, AnsweredKeeps, TabOut
<1>6. ASSUME CallbackSignsIn(t) PROVE TabsOut
  <2> DEFINE i == UpsertedId(tab[t].who)
             me == IF i \in blocked THEN 0 ELSE i
  <2>1. /\ tab[t].who \in Subs /\ UpsertGoogleUser(tab[t].who) /\ UNCHANGED blocked
        /\ Answered(t, me, tab[t].state.next)
    BY <1>1, <1>6 DEF CallbackSignsIn, Exchanged, TabRecord
  <2>2. i \in Ids
    BY <1>1, <2>1, Upserts
  <2> HIDE DEF i
  <2>3. me \in {0} \cup Ids /\ me \notin blocked
    BY <1>1, <2>2
  <2> HIDE DEF me
  <2> QED BY <1>1, <2>1, <2>3, AnsweredKeeps, TabOut
<1>7. ASSUME Return(t) PROVE TabsOut
  <2>1. \E i \in {0} \cup Ids :
          tab' = [tab EXCEPT ![t] = IF requireLogin(i)
                                      THEN [Loading(t, tab[t].next) EXCEPT !.user = i]
                                      ELSE FrontDoor(tab[t].next)]
    BY <1>1, <1>7, TypesAre DEF Return, TabRecord, TypeOK
  <2>2. PICK i \in {0} \cup Ids :
          tab' = [tab EXCEPT ![t] = IF requireLogin(i)
                                      THEN [Loading(t, tab[t].next) EXCEPT !.user = i]
                                      ELSE FrontDoor(tab[t].next)]
    BY <2>1
  <2>3. /\ Loading(t, tab[t].next) \in TabRecord /\ Loading(t, tab[t].next).at = "loading"
        /\ FrontDoor(tab[t].next) \in TabRecord /\ FrontDoor(tab[t].next).at = "login"
    BY <1>1, PageRecords
  <2>4. /\ [Loading(t, tab[t].next) EXCEPT !.user = i] \in TabRecord
        /\ [Loading(t, tab[t].next) EXCEPT !.user = i].at = "loading"
    BY <2>3 DEF TabRecord
  <2>5. \E r \in TabRecord : r.at \in {"loading", "login"} /\ tab' = [tab EXCEPT ![t] = r]
    BY <2>2, <2>3, <2>4
  <2> QED BY <1>1, <2>5, TabSet, TabOut DEF Showing
<1> QED BY <1>2, <1>3, <1>4, <1>5, <1>6, <1>7

\* A write is made by a call past the gate, to the list of its account.
LEMMA CallStepsOut ==
  ASSUME AcInv, NEW c \in Calls, CallStep(c)
  PROVE  TabsOut /\ CallsOut /\ ListsOut
<1> DEFINE k == call[c]
<1>1. TypeOK /\ k \in CallRecord /\ RecordOk(k) /\ call \in [Calls -> CallRecord]
  BY TypesAre, CallIsRecord DEF AcInv
<1>2. UNCHANGED tab
  BY DEF CallStep, Click, ClickClear, Send, requireUser, Write, WriteRefused, Reload,
     CallFails, Answer, Unread, pages
<1>3. TabsOut
  BY <1>2 DEF TabsOut
<1>4. CallsOut
  <2>1. \E r : /\ call' = [call EXCEPT ![c] = r]
               /\ r.step # "authed" \/ r.user \notin blocked
    <3>1. ASSUME NEW t \in Tabs, NEW kind, NEW ids, Send(t, c, kind, ids)
          PROVE  \E r : call' = [call EXCEPT ![c] = r] /\ r.step # "authed"
      <4>1. [kind |-> kind, tab |-> t, user |-> 0, ids |-> ids,
             sess |-> session[browser[t]], step |-> "sent"].step # "authed"
        OBVIOUS
      <4> QED BY <3>1, <4>1 DEF Send
    <3>2. ASSUME requireUser(c)
          PROVE  \E r : call' = [call EXCEPT ![c] = r] /\ r.user \notin blocked
      <4> DEFINE i == UserByID(k.sess)
                 r == [k EXCEPT !.user = i, !.step = IF i = 0 THEN "refused" ELSE "authed"]
      <4>1. call' = [call EXCEPT ![c] = r]
        BY <3>2 DEF requireUser
      <4>2. i \notin blocked
        BY <1>1, UserIsNotBlocked
      <4> HIDE DEF i
      <4>3. r.user = i
        BY <1>1 DEF CallRecord
      <4> HIDE DEF r
      <4> QED BY <4>1, <4>2, <4>3
    <3>3. ASSUME NEW s \in {"merged", "done", "failed"}
          PROVE  [k EXCEPT !.step = s].step # "authed"
      BY <1>1 DEF CallRecord
    <3>4. Idle.step # "authed"
      BY DEF Idle
    <3>5. ASSUME Write(c) PROVE \E r : call' = [call EXCEPT ![c] = r] /\ r.step # "authed"
      BY <3>3, <3>5 DEF Write
    <3>6. ASSUME WriteRefused(c) \/ CallFails(c)
          PROVE  \E r : call' = [call EXCEPT ![c] = r] /\ r.step # "authed"
      BY <3>3, <3>6 DEF WriteRefused, CallFails
    <3>7. ASSUME Reload(c) PROVE \E r : call' = [call EXCEPT ![c] = r] /\ r.step # "authed"
      <4>1. [k EXCEPT !.step = "done", !.ids = SavedTitleIDs(k.user)].step # "authed"
        BY <1>1 DEF CallRecord
      <4> QED BY <3>7, <4>1 DEF Reload
    <3>8. ASSUME Answer(c) \/ Unread(c)
          PROVE  \E r : call' = [call EXCEPT ![c] = r] /\ r.step # "authed"
      BY <3>4, <3>8 DEF Answer, Unread
    <3>9. CASE \/ \E t \in Tabs, x \in Titles : Click(t, c, x)
               \/ \E t \in Tabs : ClickClear(t, c)
      BY <3>1, <3>9 DEF Click, ClickClear
    <3> QED BY <3>2, <3>5, <3>6, <3>7, <3>8, <3>9 DEF CallStep
  <2>2. PICK r : /\ call' = [call EXCEPT ![c] = r]
                 /\ r.step # "authed" \/ r.user \notin blocked
    BY <2>1
  <2> QED BY <1>1, <2>2 DEF CallsOut
<1>5. ListsOut
  <2>1. ASSUME Write(c), NEW i \in blocked, i # k.user, NEW x
        PROVE  <<i, x>> \in saved <=> <<i, x>> \in saved'
    <3>1. saved' = Written(k) /\ k.step = "authed"
      BY <2>1 DEF Write
    <3>2. k.kind \in {"add", "remove", "clear", "merge"}
      BY <1>1, <3>1 DEF RecordOk, CallRecord
    <3>3. <<i, x>> \notin {<<k.user, y>> : y \in k.ids} /\ <<i, x>>[1] = i
      BY <2>1
    <3> QED BY <2>1, <3>1, <3>2, <3>3 DEF Written
  <2>2. ASSUME Write(c), NEW i \in blocked, i = k.user PROVE Using(i) \cap Calls # {}
    BY <2>2 DEF Write, Using
  <2>3. ASSUME ~Write(c) PROVE UNCHANGED saved
    BY <2>3 DEF CallStep, Click, ClickClear, Send, requireUser, WriteRefused, Reload,
       CallFails, Answer, Unread, rows
  <2> QED BY <2>1, <2>2, <2>3 DEF ListsOut
<1> QED BY <1>3, <1>4, <1>5

LEMMA AdminStepsOut ==
  ASSUME \/ \E i \in Ids : SetUserBlocked(i)
         \/ \E x \in Titles : DeleteTitle(x)
         \/ \E b \in Browsers : CookieExpires(b)
  PROVE  TabsOut /\ CallsOut /\ ListsOut
<1>1. UNCHANGED <<tab, call>>
  BY DEF SetUserBlocked, DeleteTitle, CookieExpires, pages
<1>2. ASSUME NEW x \in Titles, DeleteTitle(x), NEW y \in titles', NEW i
      PROVE  <<i, y>> \in saved <=> <<i, y>> \in saved'
  BY <1>2 DEF DeleteTitle
<1>3. ASSUME NEW i \in Ids, SetUserBlocked(i) PROVE UNCHANGED saved
  BY <1>3 DEF SetUserBlocked
<1>4. ASSUME NEW b \in Browsers, CookieExpires(b) PROVE UNCHANGED saved
  BY <1>4 DEF CookieExpires, rows
<1> QED BY <1>1, <1>2, <1>3, <1>4 DEF TabsOut, CallsOut, ListsOut

\* A blocked account gets nothing new, whatever pages and cookies it still has, and its
\* saved list changes only by the calls that were past the gate already: whatever loads an
\* account goes through UserByID, which hides a blocked one.
THEOREM BlockedAccountsAreSafe == Spec => BlockedStaysOut
<1> DEFINE Out == \A i \in blocked \cap blocked' :
                    /\ Using(i)' \subseteq Using(i)
                    /\ \/ Using(i) \cap Calls # {}
                       \/ \A x \in titles' : <<i, x>> \in saved <=> <<i, x>> \in saved'
<1>1. ASSUME AcInv, [Next]_vars PROVE TabsOut /\ CallsOut /\ ListsOut
  <2>1. ASSUME UNCHANGED saved PROVE ListsOut
    BY <2>1 DEF ListsOut
  <2>2. ASSUME UNCHANGED vars PROVE TabsOut /\ CallsOut /\ ListsOut
    BY <2>1, <2>2 DEF vars, TabsOut, CallsOut
  <2>3. ASSUME NEW t \in Tabs, TabStep(t) PROVE TabsOut /\ CallsOut /\ ListsOut
    BY <1>1, <2>1, <2>3, PageStepsOut, SignInStepsOut DEF TabStep, AcInv
  <2> QED BY <1>1, <2>2, <2>3, CallStepsOut, AdminStepsOut DEF Next
<1>2. ASSUME TabsOut, CallsOut, NEW i \in blocked \cap blocked'
      PROVE  Using(i)' \subseteq Using(i)
  BY <1>2 DEF TabsOut, CallsOut, Using, Showing
<1>3. AcInv /\ [Next]_vars => [Out]_vars
  BY <1>1, <1>2 DEF ListsOut
<1> QED BY <1>3, AcInvAlways, PTL DEF Spec, BlockedStaysOut
=============================================================================
