------------------------------- MODULE Router -------------------------------
(***************************************************************************)
(* Which streamer has which torrent: the manager's owner map               *)
(* (manager/registry.go) and the requests routed by it (manager/router.go).*)
(*                                                                         *)
(* One action is one critical section of Registry.mu or one HTTP call to a *)
(* streamer; a request takes several, and reconcile lists one streamer at  *)
(* a time.  The map holds Instance objects: a streamer that registers with *)
(* other URLs or another token gets a new object, and requests in flight   *)
(* keep the old one.  How instances come and go is the subject of          *)
(* Enrollment; what a streamer does with its torrents is external.  Where  *)
(* a request reads the owner, the healthy instances and their counts under *)
(* three read locks in a row, the three reads are one action.              *)
(***************************************************************************)
EXTENDS Naturals, FiniteSets

CONSTANTS
  Ids,       \* streamers, in the order of their identifiers
  Strategy,  \* MANAGER_LB_STRATEGY
  Hashes,    \* infohashes
  Requests,  \* handler goroutines of the manager
  None,
  MaxGen,    \* bound on the Instance objects of one id
  MaxEvents  \* bound on what happens outside the manager

ASSUME RtConstants ==
  /\ Ids \subseteq Nat
  /\ IsFiniteSet(Hashes)
  /\ Strategy \in {"least-torrents", "least-bandwidth", "round-robin"}
  /\ None \notin Ids /\ None \notin Hashes
  /\ MaxGen \in Nat /\ MaxEvents \in Nat

Objects == Ids \X (1..MaxGen)
IdOf(o) == o[1]

VARIABLES
  current,  \* Registry.instances: the generation of each id, 0 if absent
  minted,   \* the newest generation of each id
  healthy,  \* objects that heartbeated within ttl
  owners,   \* Registry.owners
  holds,    \* the torrents each streamer has (external)
  up,       \* streamers that answer (external)
  request,  \* the call each request is in
  steady,   \* history: instances that were registered, healthy and up, and
            \* had the torrent, ever since the request began
  round,    \* the reconcile round in progress
  events

vars == <<current, minted, healthy, owners, holds, up, request, steady, round, events>>
fleetVars == <<current, minted, healthy>>

Idle == [pc |-> "idle", op |-> None, hash |-> None, object |-> None, todo |-> {}]
NoRound == [on |-> FALSE, todo |-> {}, owners |-> [h \in Hashes |-> None], listed |-> {}]

Init ==
  /\ current = [i \in Ids |-> 0]
  /\ minted = [i \in Ids |-> 0]
  /\ healthy = {}
  /\ owners = [h \in Hashes |-> None]
  /\ holds = [i \in Ids |-> {}]
  /\ up = Ids
  /\ request = [r \in Requests |-> Idle]
  /\ steady = [r \in Requests |-> {}]
  /\ round = NoRound
  /\ events = 0

Registered(i) == current[i] # 0
Live(i) == Registered(i) /\ <<i, current[i]>> \in healthy
HealthyInstances == {<<i, current[i]>> : i \in {j \in Ids : Live(j)}}
Serves(o, h) == o \in HealthyInstances /\ IdOf(o) \in up /\ h \in holds[IdOf(o)]

\* After any step an instance stays steady for a request only while it serves.
TrackSteady ==
  steady' = [r \in Requests |->
    IF request'[r] = Idle THEN {}
    ELSE {o \in IF request[r] = Idle THEN Objects ELSE steady[r] :
            \E h \in Hashes : h = request'[r].hash /\ Serves(o, h)'}]

-----------------------------------------------------------------------------
(***************************************************************************)
(* Outside the router.                                                     *)
(***************************************************************************)
Event == events < MaxEvents /\ events' = events + 1

\* Register: a new object, or a heartbeat of the one it has.
Register(i) ==
  /\ Event
  /\ \/ /\ minted[i] < MaxGen
        /\ minted' = [minted EXCEPT ![i] = @ + 1]
        /\ current' = [current EXCEPT ![i] = minted'[i]]
        /\ healthy' = healthy \cup {<<i, minted'[i]>>}
     \/ /\ Registered(i)
        /\ healthy' = healthy \cup {<<i, current[i]>>}
        /\ UNCHANGED <<current, minted>>
  /\ UNCHANGED <<owners, holds, up, request, round>>

GoStale(o) ==
  /\ Event
  /\ o \in healthy
  /\ healthy' = healthy \ {o}
  /\ UNCHANGED <<current, minted, owners, holds, up, request, round>>

\* Drop the instances S and the owner entries with their ids.
Forget(S) ==
  /\ current' = [i \in Ids |-> IF i \in S THEN 0 ELSE current[i]]
  /\ owners' = [h \in Hashes |->
       IF owners[h] # None /\ IdOf(owners[h]) \in S THEN None ELSE owners[h]]
  /\ UNCHANGED <<minted, healthy, holds, up, request, round>>

Deregister(i) ==
  /\ Event
  /\ Registered(i)
  /\ Forget({i})

ExpireStale ==
  LET stale == {i \in Ids : Registered(i) /\ ~Live(i)} IN
  /\ stale # {}
  /\ Forget(stale)
  /\ UNCHANGED events

\* A streamer loses torrents: its reaper, a restart.
Lose(i, h) ==
  /\ Event
  /\ h \in holds[i]
  /\ holds' = [holds EXCEPT ![i] = @ \ {h}]
  /\ UNCHANGED <<fleetVars, owners, up, request, round>>

Flip(i) ==
  /\ Event
  /\ up' = IF i \in up THEN up \ {i} ELSE up \cup {i}
  /\ UNCHANGED <<fleetVars, owners, holds, request, round>>

-----------------------------------------------------------------------------
(***************************************************************************)
(* Requests.  An outdated object may still reach its streamer or not.      *)
(***************************************************************************)
Reaches(o) == IdOf(o) \in up
MayMiss(o) == ~Reaches(o) \/ o[2] # current[IdOf(o)]

To(r, rec) == request' = [request EXCEPT ![r] = rec]
Done(r) == To(r, Idle)

SetOwner(h, o) == owners' = [owners EXCEPT ![h] = o]

\* The cached owner as dedupeAdd and resolveOwner use it.
Trusted(h) == owners[h] # None /\ owners[h] \in healthy

-----------------------------------------------------------------------------
(***************************************************************************)
(* What an add request says, and where a new torrent goes.                 *)
(***************************************************************************)

\* A request names its torrent by a magnet with a hexadecimal hash, by one with
\* a base32 hash, or only by a .torrent file.
Magnets == {"hex", "base32", "none"}
Bodies == [type: {"json", "form", "other"}, whole: BOOLEAN, magnet: Magnets]

\* multipartMagnet: the magnet field, if the form can be read as far as that.
MultipartMagnet(body) == IF body.whole THEN body.magnet ELSE "none"

\* The magnet that is sniffed off the body.  The body is forwarded as it is.
MagnetOf(body) ==
  CASE body.type = "form" -> MultipartMagnet(body)
    [] body.type = "json" /\ body.whole -> body.magnet
    [] OTHER -> "none"

\* Only a hexadecimal hash is recognised.
InfohashFromMagnet(magnet, h) == IF magnet = "hex" THEN h ELSE None

\* The healthy owner of a torrent whose hash the request shows.
DedupeAdd(hash) == hash # None /\ Trusted(hash)

OwnerCounts == [i \in Ids |-> Cardinality({h \in Hashes : owners[h] # None /\ IdOf(owners[h]) = i})]

\* Less viewer traffic, then fewer torrents, then the smaller identifier.
LessLoaded(a, b) ==
  \/ a.egress < b.egress
  \/ a.egress = b.egress /\ a.torrents < b.torrents
  \/ a.egress = b.egress /\ a.torrents = b.torrents /\ a.id < b.id

Load(o, egress) == [egress |-> egress[IdOf(o)], torrents |-> OwnerCounts[IdOf(o)], id |-> IdOf(o)]

\* leastBandwidth.Pick, over the rates polled last.
LeastLoaded(egress) ==
  {o \in HealthyInstances : \A p \in HealthyInstances \ {o} : LessLoaded(Load(o, egress), Load(p, egress))}

\* leastTorrents.Pick does not look at the rates.
LeastTorrents == LeastLoaded([i \in Ids |-> 0])

\* The instances the placer may choose: round robin counts along a list whose
\* order is that of a Go map, and the polled rates are whatever viewers cause.
Pickable ==
  CASE Strategy = "least-torrents" -> LeastTorrents
    [] Strategy = "least-bandwidth" -> UNION {LeastLoaded(egress) : egress \in [Ids -> 0..1]}
    [] Strategy = "round-robin" -> HealthyInstances

StartAdd(r, h, o) ==
  To(r, [Idle EXCEPT !.pc = "add", !.op = "add", !.hash = h, !.object = o])

\* handleAddTorrent: a healthy owner is the answer, else the placer picks.
PlaceAdd(r, h, body) ==
  /\ request[r] = Idle
  /\ Event
  /\ ~DedupeAdd(InfohashFromMagnet(MagnetOf(body), h))
  /\ \E o \in Pickable : StartAdd(r, h, o)
  /\ UNCHANGED <<fleetVars, owners, holds, up, round>>

\* handleAddToInstance: the caller names the streamer.
AddToInstance(r, h, i, body) ==
  LET hash == InfohashFromMagnet(MagnetOf(body), h) IN
  /\ request[r] = Idle
  /\ Event
  /\ Live(i)
  /\ ~(DedupeAdd(hash) /\ IdOf(owners[hash]) = i)
  /\ StartAdd(r, h, <<i, current[i]>>)
  /\ UNCHANGED <<fleetVars, owners, holds, up, round>>

\* The two add endpoints.
AddRequest(r, h) == \E body \in Bodies :
  PlaceAdd(r, h, body) \/ \E i \in Ids : AddToInstance(r, h, i, body)

-----------------------------------------------------------------------------

\* addVia: the streamer adds the torrent, and its answer arrives or is lost.
ForwardAdd(r) ==
  LET q == request[r] IN
  /\ q.pc = "add"
  /\ \/ /\ Reaches(q.object)
        /\ holds' = [holds EXCEPT ![IdOf(q.object)] = @ \cup {q.hash}]
        /\ To(r, [q EXCEPT !.pc = "own"]) \/ Done(r)
     \/ /\ MayMiss(q.object)
        /\ Done(r)
        /\ UNCHANGED holds
  /\ UNCHANGED <<fleetVars, owners, up, round, events>>

RecordOwner(r) ==
  /\ request[r].pc = "own"
  /\ SetOwner(request[r].hash, request[r].object)
  /\ Done(r)
  /\ UNCHANGED <<fleetVars, holds, up, round, events>>

\* The endpoints of one torrent.
TorrentOps == {"get", "metainfo", "delete"}

\* getTorrent, getMetainfo or deleteTorrent: trust the map, else probe everyone.
Resolve(r, op, h) ==
  /\ request[r] = Idle
  /\ Event
  /\ To(r, IF Trusted(h)
             THEN [Idle EXCEPT !.pc = "probe", !.op = op, !.hash = h, !.object = owners[h]]
             ELSE [Idle EXCEPT !.pc = "scan", !.op = op, !.hash = h, !.todo = HealthyInstances])
  /\ UNCHANGED <<fleetVars, owners, holds, up, round>>

\* Faulty: when the cached owner no longer has it, the torrent is gone.
ProbeOwner_NoReResolve(r) ==
  LET q == request[r] IN
  /\ q.pc = "probe"
  /\ \/ /\ Reaches(q.object) /\ q.hash \in holds[IdOf(q.object)]
        /\ To(r, [q EXCEPT !.pc = "act"])
     \/ /\ MayMiss(q.object) \/ q.hash \notin holds[IdOf(q.object)]
        /\ To(r, [q EXCEPT !.pc = "scan", !.todo = {}])
  /\ UNCHANGED <<fleetVars, owners, holds, up, round, events>>

\* resolveOwner: instanceHas on the cached owner.
ProbeOwner(r) ==
  LET q == request[r] IN
  /\ q.pc = "probe"
  /\ \/ /\ Reaches(q.object) /\ q.hash \in holds[IdOf(q.object)]
        /\ To(r, [q EXCEPT !.pc = "act"])
     \/ /\ MayMiss(q.object) \/ q.hash \notin holds[IdOf(q.object)]
        /\ To(r, [q EXCEPT !.pc = "scan", !.todo = HealthyInstances])
  /\ UNCHANGED <<fleetVars, owners, holds, up, round, events>>

\* reResolve: the first instance that has it becomes the owner.
ProbeFinds(r, o) ==
  LET q == request[r] IN
  /\ q.pc = "scan" /\ o \in q.todo
  /\ Reaches(o) /\ q.hash \in holds[IdOf(o)]
  /\ SetOwner(q.hash, o)
  /\ To(r, [q EXCEPT !.pc = "act", !.object = o, !.todo = {}])
  /\ UNCHANGED <<fleetVars, holds, up, round, events>>

ProbeMisses(r, o) ==
  LET q == request[r] IN
  /\ q.pc = "scan" /\ o \in q.todo
  /\ MayMiss(o) \/ q.hash \notin holds[IdOf(o)]
  /\ To(r, [q EXCEPT !.todo = @ \ {o}])
  /\ UNCHANGED <<fleetVars, owners, holds, up, round, events>>

\* Nobody has it: not found for a get, success for a delete.
ResolvedGone(r) ==
  /\ request[r].pc = "scan" /\ request[r].todo = {}
  /\ SetOwner(request[r].hash, None)
  /\ Done(r)
  /\ UNCHANGED <<fleetVars, holds, up, round, events>>

\* getTorrent fetches from the one it resolved.
GetFound(r) ==
  LET q == request[r] IN
  /\ q.pc = "act" /\ q.op = "get"
  /\ Reaches(q.object) /\ q.hash \in holds[IdOf(q.object)]
  /\ Done(r)
  /\ UNCHANGED <<fleetVars, owners, holds, up, round, events>>

\* An error of any kind clears the owner and is answered as not found; nobody
\* else is asked.
GetGone(r) ==
  LET q == request[r] IN
  /\ q.pc = "act" /\ q.op = "get"
  /\ MayMiss(q.object) \/ q.hash \notin holds[IdOf(q.object)]
  /\ SetOwner(q.hash, None)
  /\ Done(r)
  /\ UNCHANGED <<fleetVars, holds, up, round, events>>

Get(r) == GetFound(r) \/ GetGone(r)

\* getMetainfo fetches; whatever comes back, the map stays.
GetMetainfo(r) ==
  /\ request[r].pc = "act" /\ request[r].op = "metainfo"
  /\ Done(r)
  /\ UNCHANGED <<fleetVars, owners, holds, up, round, events>>

\* deleteTorrent: an error leaves the owner, an answer clears it afterwards.
Delete(r) ==
  LET q == request[r] IN
  /\ q.pc = "act" /\ q.op = "delete"
  /\ \/ /\ Reaches(q.object)
        /\ holds' = [holds EXCEPT ![IdOf(q.object)] = @ \ {q.hash}]
        /\ To(r, [q EXCEPT !.pc = "clear"])
     \/ /\ MayMiss(q.object)
        /\ Done(r)
        /\ UNCHANGED holds
  /\ UNCHANGED <<fleetVars, owners, up, round, events>>

ClearDeleted(r) ==
  /\ request[r].pc = "clear"
  /\ SetOwner(request[r].hash, None)
  /\ Done(r)
  /\ UNCHANGED <<fleetVars, holds, up, round, events>>

-----------------------------------------------------------------------------
(***************************************************************************)
(* reconcileOnce: list the healthy instances one by one, then rebuild.     *)
(***************************************************************************)
StartRound ==
  /\ ~round.on
  /\ round' = [NoRound EXCEPT !.on = TRUE, !.todo = HealthyInstances]
  /\ UNCHANGED <<fleetVars, owners, holds, up, request, events>>

List(o) ==
  /\ o \in round.todo
  /\ Reaches(o)
  /\ round' = [round EXCEPT !.todo = @ \ {o}, !.listed = @ \cup {IdOf(o)},
       !.owners = [h \in Hashes |-> IF h \in holds[IdOf(o)] THEN o ELSE @[h]]]
  /\ UNCHANGED <<fleetVars, owners, holds, up, request, events>>

ListFails(o) ==
  /\ o \in round.todo
  /\ MayMiss(o)
  /\ round' = [round EXCEPT !.todo = @ \ {o}]
  /\ UNCHANGED <<fleetVars, owners, holds, up, request, events>>

\* Faulty: entries of listed instances are carried over too.
Rebuilt_KeepsStale == [h \in Hashes |->
  IF round.owners[h] # None THEN round.owners[h] ELSE owners[h]]

\* rebuildOwners: the fresh list wins; only the owners that could not be listed
\* are carried over.
Rebuilt == [h \in Hashes |->
  IF round.owners[h] # None THEN round.owners[h]
  ELSE IF owners[h] # None /\ IdOf(owners[h]) \notin round.listed THEN owners[h]
  ELSE None]

Rebuild ==
  /\ round.on /\ round.todo = {}
  /\ owners' = Rebuilt
  /\ round' = NoRound
  /\ UNCHANGED <<fleetVars, holds, up, request, events>>

-----------------------------------------------------------------------------

RequestStep(r) ==
  \/ ForwardAdd(r) \/ RecordOwner(r)
  \/ ProbeOwner(r)
  \/ \E o \in Objects : ProbeFinds(r, o) \/ ProbeMisses(r, o)
  \/ ResolvedGone(r)
  \/ Get(r) \/ GetMetainfo(r) \/ Delete(r) \/ ClearDeleted(r)

RoundStep ==
  \/ StartRound
  \/ \E o \in Objects : List(o) \/ ListFails(o)
  \/ Rebuild

Step ==
  \/ \E i \in Ids : Register(i) \/ Deregister(i) \/ Flip(i)
  \/ \E o \in Objects : GoStale(o)
  \/ ExpireStale
  \/ \E i \in Ids, h \in Hashes : Lose(i, h)
  \/ \E r \in Requests, h \in Hashes : AddRequest(r, h)
  \/ \E r \in Requests, op \in TorrentOps, h \in Hashes : Resolve(r, op, h)
  \/ \E r \in Requests : RequestStep(r)
  \/ RoundStep

Next == Step /\ TrackSteady

Spec == Init /\ [][Next]_vars

\* The tickers of Run fire for ever and every request ends.
FairSpec ==
  /\ Spec
  /\ WF_vars(RoundStep /\ TrackSteady)
  /\ WF_vars(ExpireStale /\ TrackSteady)
  /\ \A r \in Requests : WF_vars(RequestStep(r) /\ TrackSteady)

-----------------------------------------------------------------------------

\* The values the variables range over; a round starts with an empty record.
TypeOK ==
  /\ current \in [Ids -> 0..MaxGen] /\ minted \in [Ids -> 0..MaxGen]
  /\ healthy \subseteq Objects
  /\ owners \in [Hashes -> Objects \cup {None}]
  /\ holds \in [Ids -> SUBSET Hashes]
  /\ up \subseteq Ids
  /\ \A r \in Requests : request[r].pc \in {"idle", "add", "own", "probe", "scan", "act", "clear"}
  /\ round.todo \subseteq Objects /\ round.listed \subseteq Ids
  /\ ~round.on => round = NoRound

\* resolveOwner (router.go:199-221) misses nobody: it answers that no instance has
\* a torrent only if none had it, registered and answering, ever since the request
\* began, whatever the owner map said and whoever else changed it meanwhile.  What
\* getTorrent does after it is not in this: see StaleOwnerIsNotFatal.
ScanMissesNothing ==
  [][\A r \in Requests :
       request[r].pc = "scan" /\ request'[r] = Idle => steady[r] = {}]_vars

\* The map agrees with the streamers that answer.
Converged ==
  \A h \in Hashes :
    /\ owners[h] # None /\ Live(IdOf(owners[h])) /\ IdOf(owners[h]) \in up
         => h \in holds[IdOf(owners[h])]
    /\ owners[h] = None => \A o \in Objects : ~Serves(o, h)

\* Once nothing changes outside, reconcile brings the map back to the truth and
\* no late request or round spoils it again.
OwnersConverge == <>[]Converged

\* server.go:262-264: "a second viewer of the same title must land on the
\* streamer that already owns it".
OneCopy == \A h \in Hashes : Cardinality({i \in Ids : h \in holds[i]}) <= 1

\* "self-heals on 404 (see router.go), so a stale entry is never fatal"
\* (registry.go:11-13), and getTorrent's "ok=false means no instance has it"
\* (router.go:136): the scan and the fetch after it call a torrent gone only if
\* no instance had it ever since the request began.
StaleOwnerIsNotFatal ==
  [][\A r \in Requests :
       (request[r].pc = "scan" /\ request'[r] = Idle) \/ GetGone(r) => steady[r] = {}]_vars

\* router.go:177-178: a delete that finds no owner succeeds because the torrent
\* "is already in the desired state": no registered streamer has it.
DeleteLeavesNothing ==
  [][\A r \in Requests :
       request[r].pc = "scan" /\ request[r].op = "delete" /\ request'[r] = Idle =>
         \A i \in Ids : Registered(i) => request[r].hash \notin holds[i]]_vars
=============================================================================
