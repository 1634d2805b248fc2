---------------------------- MODULE RouterProofs ----------------------------
(***************************************************************************)
(* Proofs about Router, for any streamers, torrents, requests and bounds.  *)
(* The invariant ScanCovers is what makes a scan trustworthy:              *)
(* while a request asks the streamers one by one, every streamer that has  *)
(* served its torrent ever since is still to be asked.                     *)
(***************************************************************************)
EXTENDS Router, FiniteSetTheorems, TLAPS

Call == [pc: {"idle", "add", "own", "probe", "scan", "act", "clear"},
         op: TorrentOps \cup {"add", None}, hash: Hashes \cup {None},
         object: Objects \cup {None}, todo: SUBSET Objects]

Typed ==
  /\ TypeOK
  /\ request \in [Requests -> Call]
  /\ round.owners \in [Hashes -> Objects \cup {None}]
  /\ round = [on |-> round.on, todo |-> round.todo, owners |-> round.owners, listed |-> round.listed]
  /\ \A r \in Requests :
       /\ request[r].pc # "idle" => request[r].hash \in Hashes
       /\ request[r].pc \in {"add", "own", "probe", "act"} => request[r].object \in Objects

ScanCovers ==
  \A r \in Requests : request[r].pc = "scan" => steady[r] \subseteq request[r].todo

-----------------------------------------------------------------------------
(***************************************************************************)
(* The placer.                                                             *)
(***************************************************************************)

\* leastBandwidth.Pick and leastTorrents.Pick have one answer: of two streamers
\* one is always the less loaded, so the order in which a Go map is walked cannot
\* send two adds of one moment to different streamers.
THEOREM LeastLoadedIsUnique ==
  ASSUME NEW egress \in [Ids -> Int], NEW a \in LeastLoaded(egress), NEW b \in LeastLoaded(egress)
  PROVE  a = b
<1>1. \A o \in HealthyInstances : o[1] \in Ids /\ o = <<o[1], current[o[1]]>>
  BY DEF HealthyInstances
<1>2. a \in HealthyInstances /\ b \in HealthyInstances
  BY DEF LeastLoaded
<1> DEFINE la == Load(a, egress)
           lb == Load(b, egress)
<1>3. la.egress \in Int /\ lb.egress \in Int
  BY <1>1, <1>2 DEF Load, IdOf
<1>4. SUFFICES ASSUME a # b PROVE FALSE
  OBVIOUS
<1>5. LessLoaded(la, lb) /\ LessLoaded(lb, la)
  BY <1>2, <1>4 DEF LeastLoaded
<1>6. la.id \in Nat /\ lb.id \in Nat
  BY <1>1, <1>2, RtConstants DEF Load, IdOf
<1>7. la.torrents \in Nat /\ lb.torrents \in Nat
  BY <1>1, <1>2, RtConstants, FS_Subset, FS_CardinalityType DEF Load, IdOf, OwnerCounts
<1>8. la.id = lb.id
  <2> HIDE DEF la, lb
  <2> QED
    BY <1>3, <1>5, <1>6, <1>7 DEF LessLoaded
<1>9. la.id = a[1] /\ lb.id = b[1]
  BY DEF Load, IdOf
<1>10. a = b
  <2> HIDE DEF la, lb
  <2> QED
    BY <1>1, <1>2, <1>8, <1>9
<1> QED
  BY <1>4, <1>10

\* Whatever the strategy, an add goes to a registered and healthy instance.
LEMMA PickableIsHealthy == Pickable \subseteq HealthyInstances
<1>1. \A egress : LeastLoaded(egress) \subseteq HealthyInstances
  BY DEF LeastLoaded
<1>2. UNION {LeastLoaded(egress) : egress \in [Ids -> 0..1]} \subseteq HealthyInstances
  BY <1>1
<1> QED
  BY <1>1, <1>2, RtConstants DEF Pickable, LeastTorrents

-----------------------------------------------------------------------------
(***************************************************************************)
(* Types.                                                                  *)
(***************************************************************************)

LEMMA HealthyAreObjects == TypeOK => HealthyInstances \subseteq Objects
<1> SUFFICES ASSUME TypeOK, NEW o \in HealthyInstances PROVE o \in Objects
  OBVIOUS
<1>1. PICK i \in Ids : Live(i) /\ o = <<i, current[i]>>
  BY DEF HealthyInstances
<1> QED
  BY <1>1 DEF Live, TypeOK

LEMMA IdOfObject == \A o \in Objects : IdOf(o) \in Ids
  BY DEF Objects, IdOf

LEMMA InitTyped == Init => Typed
  BY RtConstants DEF Init, Typed, TypeOK, Idle, NoRound, Call

\* What a request may be set to.
RequestOK(q) ==
  /\ q \in Call
  /\ q.pc # "idle" => q.hash \in Hashes
  /\ q.pc \in {"add", "own", "probe", "act"} => q.object \in Objects

LEMMA IdleOK == RequestOK(Idle)
  BY DEF Idle, RequestOK, Call

LEMMA RequestsTyped ==
  ASSUME Typed, NEW r \in Requests, NEW q, RequestOK(q), request' = [request EXCEPT ![r] = q]
  PROVE  /\ request' \in [Requests -> Call]
         /\ \A s \in Requests :
              /\ request'[s].pc \in {"idle", "add", "own", "probe", "scan", "act", "clear"}
              /\ request'[s].pc # "idle" => request'[s].hash \in Hashes
              /\ request'[s].pc \in {"add", "own", "probe", "act"} => request'[s].object \in Objects
<1>1. request' \in [Requests -> Call]
  BY DEF Typed, RequestOK
<1>2. \A s \in Requests : request'[s] = IF s = r THEN q ELSE request[s]
  BY DEF Typed
<1>3. \A s \in Requests : RequestOK(request'[s])
  BY <1>2 DEF Typed, RequestOK
<1> QED
  BY <1>1, <1>3 DEF RequestOK, Call

\* A step of one request: what it is set to, and what else it changes.
LEMMA RequestStepTyped ==
  ASSUME Typed, NEW r \in Requests, NEW q, RequestOK(q), To(r, q),
         owners' \in [Hashes -> Objects \cup {None}], holds' \in [Ids -> SUBSET Hashes],
         UNCHANGED <<fleetVars, up, round>>
  PROVE  Typed'
<1>1. /\ request' \in [Requests -> Call]
      /\ \A s \in Requests :
           /\ request'[s].pc \in {"idle", "add", "own", "probe", "scan", "act", "clear"}
           /\ request'[s].pc # "idle" => request'[s].hash \in Hashes
           /\ request'[s].pc \in {"add", "own", "probe", "act"} => request'[s].object \in Objects
  BY RequestsTyped DEF To
<1> QED
  BY <1>1 DEF Typed, TypeOK, fleetVars

LEMMA StepTyped == Typed /\ [Next]_vars => Typed'
<1> SUFFICES ASSUME Typed, [Next]_vars PROVE Typed'
  OBVIOUS
<1>0. /\ TypeOK
      /\ owners \in [Hashes -> Objects \cup {None}]
      /\ holds \in [Ids -> SUBSET Hashes]
      /\ HealthyInstances \subseteq Objects
  BY HealthyAreObjects DEF Typed, TypeOK
<1>1. ASSUME NEW i \in Ids, Register(i) PROVE Typed'
  <2>1. current' \in [Ids -> 0..MaxGen] /\ minted' \in [Ids -> 0..MaxGen] /\ healthy' \subseteq Objects
    <3>1. CASE /\ minted[i] < MaxGen /\ minted' = [minted EXCEPT ![i] = @ + 1]
               /\ current' = [current EXCEPT ![i] = minted'[i]]
               /\ healthy' = healthy \cup {<<i, minted'[i]>>}
      <4>1. minted[i] + 1 \in 1..MaxGen /\ minted'[i] = minted[i] + 1
        BY <3>1, RtConstants DEF Typed, TypeOK
      <4> QED
        BY <1>0, <3>1, <4>1 DEF TypeOK, Objects
    <3>2. CASE /\ Registered(i) /\ healthy' = healthy \cup {<<i, current[i]>>}
               /\ UNCHANGED <<current, minted>>
      <4>1. current[i] \in 1..MaxGen
        BY <1>0, <3>2, RtConstants DEF TypeOK, Registered
      <4> QED
        BY <1>0, <3>2, <4>1 DEF TypeOK, Objects
    <3> QED
      BY <1>1, <3>1, <3>2 DEF Register
  <2> QED
    BY <1>1, <2>1 DEF Register, Typed, TypeOK
<1>2. ASSUME NEW S \in SUBSET Ids, Forget(S) PROVE Typed'
  <2>1. current' \in [Ids -> 0..MaxGen] /\ owners' \in [Hashes -> Objects \cup {None}]
    BY <1>0, <1>2, RtConstants DEF Forget, TypeOK
  <2> QED
    BY <1>2, <2>1 DEF Forget, Typed, TypeOK
<1>3. ASSUME NEW i \in Ids, Deregister(i) PROVE Typed'
  BY <1>2, <1>3 DEF Deregister
<1>4. CASE ExpireStale
  BY <1>2, <1>4 DEF ExpireStale
<1>5. ASSUME NEW o \in Objects, GoStale(o) PROVE Typed'
  BY <1>5 DEF GoStale, Typed, TypeOK
<1>6. ASSUME NEW i \in Ids, NEW h \in Hashes, Lose(i, h) PROVE Typed'
  BY <1>6 DEF Lose, fleetVars, Typed, TypeOK
<1>7. ASSUME NEW i \in Ids, Flip(i) PROVE Typed'
  BY <1>7 DEF Flip, fleetVars, Typed, TypeOK
<1>8. ASSUME NEW r \in Requests, NEW h \in Hashes, AddRequest(r, h) PROVE Typed'
  <2>1. ASSUME NEW o \in Objects PROVE RequestOK([Idle EXCEPT !.pc = "add", !.op = "add", !.hash = h, !.object = o])
    BY DEF Idle, RequestOK, Call
  <2>2. \A o \in HealthyInstances : o \in Objects
    BY <1>0
  <2>3. ASSUME NEW i \in Ids, Live(i) PROVE <<i, current[i]>> \in Objects
    BY <2>2, <2>3 DEF HealthyInstances
  <2>4. /\ UNCHANGED <<fleetVars, up, round, owners, holds>>
        /\ \E o \in Objects : StartAdd(r, h, o)
    BY <1>8, <2>2, <2>3, PickableIsHealthy DEF AddRequest, PlaceAdd, AddToInstance
  <2> QED
    BY <1>0, <2>1, <2>4, RequestStepTyped DEF StartAdd
<1>9. ASSUME NEW r \in Requests, NEW op \in TorrentOps, NEW h \in Hashes, Resolve(r, op, h) PROVE Typed'
  <2> DEFINE ask == [Idle EXCEPT !.pc = "probe", !.op = op, !.hash = h, !.object = owners[h]]
             scan == [Idle EXCEPT !.pc = "scan", !.op = op, !.hash = h, !.todo = HealthyInstances]
  <2>1. Trusted(h) => RequestOK(ask)
    BY <1>0 DEF Trusted, Idle, RequestOK, Call
  <2>2. RequestOK(scan)
    BY <1>0 DEF Idle, RequestOK, Call
  <2>3. /\ UNCHANGED <<fleetVars, up, round, owners, holds>>
        /\ To(r, IF Trusted(h) THEN ask ELSE scan)
    BY <1>9 DEF Resolve
  <2>4. RequestOK(IF Trusted(h) THEN ask ELSE scan)
    BY <2>1, <2>2
  <2> HIDE DEF ask, scan
  <2> QED
    BY <1>0, <2>3, <2>4, RequestStepTyped
<1>10. ASSUME NEW r \in Requests, RequestStep(r) PROVE Typed'
  <2> DEFINE q == request[r]
  <2>0. /\ q \in Call
        /\ q.pc # "idle" => q.hash \in Hashes
        /\ q.pc \in {"add", "own", "probe", "act"} => q.object \in Objects
        /\ UNCHANGED <<fleetVars, up, round>>
    BY <1>10 DEF Typed, RequestStep, ForwardAdd, RecordOwner, ProbeOwner, ProbeFinds, ProbeMisses,
                 ResolvedGone, Get, GetFound, GetGone, GetMetainfo, Delete, ClearDeleted
  <2>1. ASSUME NEW h \in Hashes, NEW o \in Objects \cup {None}, SetOwner(h, o)
        PROVE  owners' \in [Hashes -> Objects \cup {None}]
    BY <1>0, <2>1 DEF SetOwner
  <2>2. CASE ForwardAdd(r)
    <3>1. q.pc = "add" /\ UNCHANGED owners /\ holds' \in [Ids -> SUBSET Hashes]
      BY <1>0, <2>0, <2>2, IdOfObject DEF ForwardAdd
    <3>2. q.pc = "add" => RequestOK([q EXCEPT !.pc = "own"])
      BY <2>0 DEF RequestOK, Call
    <3>3. To(r, [q EXCEPT !.pc = "own"]) \/ To(r, Idle)
      BY <2>2 DEF ForwardAdd, Done
    <3> QED
      BY <1>0, <2>0, <3>1, <3>2, <3>3, IdleOK, RequestStepTyped
  <2>3. CASE RecordOwner(r)
    <3>1. owners' \in [Hashes -> Objects \cup {None}] /\ UNCHANGED holds
      BY <2>0, <2>1, <2>3 DEF RecordOwner
    <3> QED
      BY <1>0, <2>0, <2>3, <3>1, IdleOK, RequestStepTyped DEF RecordOwner, Done
  <2>4. CASE ProbeOwner(r)
    <3>1. q.pc = "probe" => RequestOK([q EXCEPT !.pc = "act"])
      BY <2>0 DEF RequestOK, Call
    <3>2. q.pc = "probe" => RequestOK([q EXCEPT !.pc = "scan", !.todo = HealthyInstances])
      BY <1>0, <2>0 DEF RequestOK, Call
    <3>3. /\ q.pc = "probe" /\ UNCHANGED <<owners, holds>>
          /\ To(r, [q EXCEPT !.pc = "act"]) \/ To(r, [q EXCEPT !.pc = "scan", !.todo = HealthyInstances])
      BY <2>4 DEF ProbeOwner
    <3> QED
      BY <1>0, <2>0, <3>1, <3>2, <3>3, RequestStepTyped
  <2>5. ASSUME NEW o \in Objects, ProbeFinds(r, o) PROVE Typed'
    <3>1. q.pc = "scan" => RequestOK([q EXCEPT !.pc = "act", !.object = o, !.todo = {}])
      BY <2>0 DEF RequestOK, Call
    <3>2. /\ q.pc = "scan" /\ UNCHANGED holds /\ SetOwner(q.hash, o)
          /\ To(r, [q EXCEPT !.pc = "act", !.object = o, !.todo = {}])
      BY <2>5 DEF ProbeFinds
    <3>3. owners' \in [Hashes -> Objects \cup {None}]
      BY <2>0, <2>1, <3>2
    <3> QED
      BY <1>0, <2>0, <3>1, <3>2, <3>3, RequestStepTyped
  <2>6. ASSUME NEW o \in Objects, ProbeMisses(r, o) PROVE Typed'
    <3>1. q.pc = "scan" => RequestOK([q EXCEPT !.todo = @ \ {o}])
      BY <2>0 DEF RequestOK, Call
    <3>2. q.pc = "scan" /\ UNCHANGED <<owners, holds>> /\ To(r, [q EXCEPT !.todo = @ \ {o}])
      BY <2>6 DEF ProbeMisses
    <3> QED
      BY <1>0, <2>0, <3>1, <3>2, RequestStepTyped
  <2>7. CASE ResolvedGone(r) \/ ClearDeleted(r)
    <3>1. owners' \in [Hashes -> Objects \cup {None}] /\ UNCHANGED holds
      BY <2>0, <2>1, <2>7 DEF ResolvedGone, ClearDeleted
    <3> QED
      BY <1>0, <2>0, <2>7, <3>1, IdleOK, RequestStepTyped DEF ResolvedGone, ClearDeleted, Done
  <2>8. CASE Get(r) \/ GetMetainfo(r)
    <3>1. owners' \in [Hashes -> Objects \cup {None}] /\ UNCHANGED holds
      BY <1>0, <2>0, <2>1, <2>8 DEF Get, GetFound, GetGone, GetMetainfo
    <3> QED
      BY <1>0, <2>0, <2>8, <3>1, IdleOK, RequestStepTyped DEF Get, GetFound, GetGone, GetMetainfo, Done
  <2>9. CASE Delete(r)
    <3>1. q.pc = "act" /\ UNCHANGED owners /\ holds' \in [Ids -> SUBSET Hashes]
      BY <1>0, <2>0, <2>9, IdOfObject DEF Delete
    <3>2. q.pc = "act" => RequestOK([q EXCEPT !.pc = "clear"])
      BY <2>0 DEF RequestOK, Call
    <3>3. To(r, [q EXCEPT !.pc = "clear"]) \/ To(r, Idle)
      BY <2>9 DEF Delete, Done
    <3> QED
      BY <1>0, <2>0, <3>1, <3>2, <3>3, IdleOK, RequestStepTyped
  <2> QED
    BY <1>10, <2>2, <2>3, <2>4, <2>5, <2>6, <2>7, <2>8, <2>9 DEF RequestStep
<1>11. CASE StartRound
  <2>1. round' = [on |-> TRUE, todo |-> HealthyInstances, owners |-> [h \in Hashes |-> None], listed |-> {}]
    BY <1>11 DEF StartRound, NoRound
  <2> QED
    BY <1>0, <1>11, <2>1 DEF StartRound, fleetVars, Typed, TypeOK
<1>12. ASSUME NEW o \in Objects, List(o) PROVE Typed'
  <2> DEFINE found == [h \in Hashes |-> IF h \in holds[IdOf(o)] THEN o ELSE round.owners[h]]
  <2>1. round' = [on |-> round.on, todo |-> round.todo \ {o}, owners |-> found,
                  listed |-> round.listed \cup {IdOf(o)}]
    BY <1>12 DEF List, Typed
  <2>2. found \in [Hashes -> Objects \cup {None}]
    BY DEF Typed
  <2>3. round.todo \subseteq Objects /\ round.listed \subseteq Ids /\ round.on
    BY <1>0, <1>12 DEF TypeOK, List, NoRound
  <2> HIDE DEF found
  <2>4. /\ round'.on = round.on /\ round'.todo = round.todo \ {o} /\ round'.owners = found
        /\ round'.listed = round.listed \cup {IdOf(o)}
        /\ round' = [on |-> round'.on, todo |-> round'.todo, owners |-> round'.owners,
                     listed |-> round'.listed]
    BY <2>1
  <2>5. round'.todo \subseteq Objects /\ round'.listed \subseteq Ids /\ round'.on
    BY <2>3, <2>4, IdOfObject
  <2>6. UNCHANGED <<fleetVars, owners, holds, up, request>>
    BY <1>12 DEF List
  <2> QED
    BY <2>2, <2>4, <2>5, <2>6 DEF fleetVars, Typed, TypeOK
<1>13. ASSUME NEW o \in Objects, ListFails(o) PROVE Typed'
  <2>1. round' = [on |-> round.on, todo |-> round.todo \ {o}, owners |-> round.owners,
                  listed |-> round.listed]
    BY <1>13 DEF ListFails, Typed
  <2>2. round.on
    BY <1>0, <1>13 DEF TypeOK, ListFails, NoRound
  <2> QED
    BY <1>13, <2>1, <2>2 DEF ListFails, fleetVars, Typed, TypeOK
<1>14. CASE Rebuild
  <2>1. owners' \in [Hashes -> Objects \cup {None}]
    BY <1>0, <1>14 DEF Rebuild, Rebuilt, Typed
  <2>2. round' = [on |-> FALSE, todo |-> {}, owners |-> [h \in Hashes |-> None], listed |-> {}]
    BY <1>14 DEF Rebuild, NoRound
  <2> QED
    BY <1>14, <2>1, <2>2 DEF Rebuild, NoRound, fleetVars, Typed, TypeOK
<1>15. CASE UNCHANGED vars
  BY <1>15 DEF vars, Typed, TypeOK
<1> QED
  BY <1>1, <1>3, <1>4, <1>5, <1>6, <1>7, <1>8, <1>9, <1>10, <1>11, <1>12, <1>13, <1>14, <1>15
     DEF Next, Step, RoundStep

\* Every state of the router is of the type the model says.
THEOREM RouterTypeOK == Spec => []Typed
  BY InitTyped, StepTyped, PTL DEF Spec

-----------------------------------------------------------------------------
(***************************************************************************)
(* A stale owner entry is not fatal.                                       *)
(***************************************************************************)

\* A request that goes on keeps no instance steady that was not so before, and
\* only those that serve its torrent still.
LEMMA SteadyShrinks ==
  ASSUME Typed, NEW r \in Requests, TrackSteady, request[r] # Idle, request'[r] # Idle
  PROVE  steady'[r] \subseteq steady[r]
  BY DEF TrackSteady

\* A request that has just begun to scan is to ask every healthy instance.
LEMMA ScanStartsFull ==
  ASSUME Typed, NEW r \in Requests, TrackSteady, request'[r] # Idle, UNCHANGED fleetVars,
         HealthyInstances \subseteq request'[r].todo
  PROVE  steady'[r] \subseteq request'[r].todo
<1>1. steady'[r] \subseteq HealthyInstances'
  BY DEF TrackSteady, Serves
<1>2. HealthyInstances' = HealthyInstances
  BY DEF HealthyInstances, Live, Registered, fleetVars
<1> QED
  BY <1>1, <1>2

LEMMA NotIdle == \A r \in Requests : request[r].pc # "idle" => request[r] # Idle
  BY DEF Idle

LEMMA StepScanCovers == Typed /\ Typed' /\ ScanCovers /\ Step /\ TrackSteady => ScanCovers'
<1> SUFFICES ASSUME Typed, Typed', ScanCovers, Step, TrackSteady,
                    NEW r \in Requests, request'[r].pc = "scan"
             PROVE  steady'[r] \subseteq request'[r].todo
  BY DEF ScanCovers
<1>0. request'[r] # Idle
  BY DEF Idle
<1>1. ASSUME request'[r] = request[r] PROVE steady'[r] \subseteq request'[r].todo
  BY <1>0, <1>1, SteadyShrinks DEF ScanCovers
<1>2. ASSUME NEW s \in Requests, NEW q, To(s, q), s # r PROVE request'[r] = request[r]
  BY <1>2 DEF To, Typed
<1>3. ASSUME NEW q, To(r, q) PROVE request'[r] = q
  BY <1>3 DEF To, Typed
<1>4. ASSUME NEW s \in Requests, NEW h \in Hashes, AddRequest(s, h)
      PROVE  steady'[r] \subseteq request'[r].todo
  <2>1. PICK o \in Pickable \cup {<<i, current[i]>> : i \in Ids} : StartAdd(s, h, o)
    BY <1>4 DEF AddRequest, PlaceAdd, AddToInstance
  <2>2. s # r
    BY <1>3, <2>1 DEF StartAdd, Idle
  <2> QED
    BY <1>1, <1>2, <2>1, <2>2 DEF StartAdd
<1>5. ASSUME NEW s \in Requests, NEW op \in TorrentOps, NEW h \in Hashes, Resolve(s, op, h)
      PROVE  steady'[r] \subseteq request'[r].todo
  <2>1. CASE s # r
    BY <1>1, <1>2, <1>5, <2>1 DEF Resolve
  <2>2. CASE s = r
    <3>1. request'[r].todo = HealthyInstances /\ UNCHANGED fleetVars
      BY <1>3, <1>5, <2>2 DEF Resolve, Idle
    <3> QED
      BY <1>0, <3>1, ScanStartsFull
  <2> QED
    BY <2>1, <2>2
<1>6. ASSUME NEW s \in Requests, ProbeOwner(s) PROVE steady'[r] \subseteq request'[r].todo
  <2>1. CASE s # r
    BY <1>1, <1>2, <1>6, <2>1 DEF ProbeOwner
  <2>2. CASE s = r
    <3>1. request'[r].todo = HealthyInstances /\ UNCHANGED fleetVars
      BY <1>3, <1>6, <2>2 DEF ProbeOwner, Typed, Call
    <3> QED
      BY <1>0, <3>1, ScanStartsFull
  <2> QED
    BY <2>1, <2>2
<1>7. ASSUME NEW s \in Requests, NEW o \in Objects, ProbeMisses(s, o)
      PROVE  steady'[r] \subseteq request'[r].todo
  <2>1. CASE s # r
    BY <1>1, <1>2, <1>7, <2>1 DEF ProbeMisses
  <2>2. CASE s = r
    <3>1. /\ request[r].pc = "scan" /\ UNCHANGED <<fleetVars, up, holds>>
          /\ request' = [request EXCEPT ![r] = [request[r] EXCEPT !.todo = @ \ {o}]]
          /\ MayMiss(o) \/ request[r].hash \notin holds[IdOf(o)]
      BY <1>7, <2>2 DEF ProbeMisses, To
    <3>2. request'[r].hash = request[r].hash /\ request'[r].todo = request[r].todo \ {o}
      BY <3>1 DEF Typed, Call
    <3>3. steady'[r] \subseteq request[r].todo
      BY <1>0, <3>1, NotIdle, SteadyShrinks DEF ScanCovers
    <3>4. o \notin steady'[r]
      <4>1. SUFFICES ASSUME o \in steady'[r] PROVE FALSE
        OBVIOUS
      <4>2. Serves(o, request[r].hash)'
        BY <1>0, <3>2, <4>1 DEF TrackSteady
      <4>3. o \in HealthyInstances' /\ IdOf(o) \in up /\ request[r].hash \in holds[IdOf(o)]
        BY <3>1, <3>2, <4>2 DEF Serves
      <4>4. o \in HealthyInstances
        BY <3>1, <4>3 DEF HealthyInstances, Live, Registered, fleetVars
      <4>5. o[2] = current[IdOf(o)]
        BY <4>4 DEF HealthyInstances, IdOf
      <4> QED
        BY <3>1, <4>3, <4>5 DEF MayMiss, Reaches
    <3> QED
      BY <3>2, <3>3, <3>4
  <2> QED
    BY <2>1, <2>2
<1>8. ASSUME NEW s \in Requests,
             \/ ForwardAdd(s) \/ RecordOwner(s) \/ ResolvedGone(s) \/ Get(s) \/ GetMetainfo(s)
             \/ Delete(s) \/ ClearDeleted(s) \/ \E o \in Objects : ProbeFinds(s, o)
      PROVE  steady'[r] \subseteq request'[r].todo
  <2>1. \E q : To(s, q) /\ q.pc # "scan"
    <3>1. Idle.pc = "idle" /\ request[s] \in Call
      BY DEF Idle, Typed
    <3>2. ASSUME NEW pc, pc # "scan" PROVE [request[s] EXCEPT !.pc = pc].pc # "scan"
      BY <3>1, <3>2 DEF Call
    <3>3. ASSUME NEW o PROVE [request[s] EXCEPT !.pc = "act", !.object = o, !.todo = {}].pc # "scan"
      BY <3>1 DEF Call
    <3>4. \/ To(s, Idle)
          \/ To(s, [request[s] EXCEPT !.pc = "own"])
          \/ To(s, [request[s] EXCEPT !.pc = "clear"])
          \/ \E o \in Objects : To(s, [request[s] EXCEPT !.pc = "act", !.object = o, !.todo = {}])
      BY <1>8 DEF ForwardAdd, RecordOwner, ResolvedGone, Get, GetFound, GetGone, GetMetainfo, Delete, ClearDeleted, ProbeFinds, Done
    <3> QED
      BY <3>1, <3>2, <3>3, <3>4
  <2>2. s # r
    BY <1>3, <2>1
  <2> QED
    BY <1>1, <1>2, <2>1, <2>2
<1>9. CASE UNCHANGED request
  BY <1>1, <1>9
<1>10. \/ UNCHANGED request
       \/ \E s \in Requests, h \in Hashes : AddRequest(s, h)
       \/ \E s \in Requests, op \in TorrentOps, h \in Hashes : Resolve(s, op, h)
       \/ \E s \in Requests : RequestStep(s)
  BY DEF Step, Register, Deregister, Flip, GoStale, ExpireStale, Forget, Lose, RoundStep, StartRound, List,
         ListFails, Rebuild
<1> QED
  BY <1>4, <1>5, <1>6, <1>7, <1>8, <1>9, <1>10 DEF RequestStep

\* router.go:199-221: whatever the owner map says and whoever changes it meanwhile,
\* resolveOwner finds somebody when one instance has had the torrent all along.
THEOREM ScanMissesNothingSafe == Spec => ScanMissesNothing
<1> DEFINE Told == \A r \in Requests :
             request[r].pc = "scan" /\ request'[r] = Idle => steady[r] = {}
<1>1. Init => ScanCovers
  BY DEF Init, ScanCovers, Idle
<1>2. Typed /\ Typed' /\ ScanCovers /\ [Next]_vars => ScanCovers'
  BY StepScanCovers DEF Next, vars, ScanCovers
<1>3. Typed /\ ScanCovers /\ [Next]_vars => [Told]_vars
  <2> SUFFICES ASSUME Typed, ScanCovers, Step, NEW r \in Requests,
                      request[r].pc = "scan", request'[r] = Idle
               PROVE  steady[r] = {}
    BY DEF Next
  <2>1. request[r] # request'[r]
    BY NotIdle
  <2>2. ASSUME NEW s \in Requests, NEW q, To(s, q) PROVE s = r /\ q = Idle
    BY <2>1, <2>2 DEF To, Typed
  <2>3. request[r].todo = {}
    <3>1. ASSUME NEW s \in Requests, RequestStep(s) PROVE request[r].todo = {}
      <4>1. PICK q : To(s, q)
        BY <3>1 DEF RequestStep, ForwardAdd, RecordOwner, ProbeOwner, ProbeFinds, ProbeMisses, ResolvedGone,
                    Get, GetFound, GetGone, GetMetainfo, Delete, ClearDeleted, Done
      <4>2. s = r
        BY <2>2, <4>1
      <4>3. ASSUME NEW o \in Objects, ProbeFinds(r, o) \/ ProbeMisses(r, o) PROVE FALSE
        <5>1. \/ To(r, [request[r] EXCEPT !.pc = "act", !.object = o, !.todo = {}])
              \/ To(r, [request[r] EXCEPT !.todo = @ \ {o}])
          BY <4>3 DEF ProbeFinds, ProbeMisses
        <5>2. /\ [request[r] EXCEPT !.pc = "act", !.object = o, !.todo = {}].pc = "act"
              /\ [request[r] EXCEPT !.todo = @ \ {o}].pc = "scan"
          BY DEF Typed, Call
        <5>3. Idle.pc = "idle"
          BY DEF Idle
        <5> QED
          BY <2>2, <5>1, <5>2, <5>3
      <4> QED
        BY <3>1, <4>2, <4>3 DEF RequestStep, ForwardAdd, RecordOwner, ProbeOwner, ResolvedGone, Get,
                                GetFound, GetGone, GetMetainfo, Delete, ClearDeleted
    <3>2. ASSUME NEW s \in Requests, request[s] = Idle, NEW q, To(s, q) PROVE FALSE
      BY <2>1, <2>2, <3>2
    <3>3. ASSUME NEW s \in Requests, NEW h \in Hashes, AddRequest(s, h) PROVE FALSE
      BY <3>2, <3>3 DEF AddRequest, PlaceAdd, AddToInstance, StartAdd
    <3>4. ASSUME NEW s \in Requests, NEW op \in TorrentOps, NEW h \in Hashes, Resolve(s, op, h) PROVE FALSE
      BY <3>2, <3>4 DEF Resolve
    <3>5. \/ UNCHANGED request
          \/ \E s \in Requests, h \in Hashes : AddRequest(s, h)
          \/ \E s \in Requests, op \in TorrentOps, h \in Hashes : Resolve(s, op, h)
          \/ \E s \in Requests : RequestStep(s)
      BY DEF Step, Register, Deregister, Flip, GoStale, ExpireStale, Forget, Lose, RoundStep, StartRound,
             List, ListFails, Rebuild
    <3> QED
      BY <2>1, <3>1, <3>3, <3>4, <3>5
  <2> QED
    BY <2>3 DEF ScanCovers
<1> QED
  BY <1>1, <1>2, <1>3, RouterTypeOK, PTL DEF Spec, ScanMissesNothing
=============================================================================
