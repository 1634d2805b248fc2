----------------------------- MODULE Enrollment -----------------------------
(***************************************************************************)
(* How a streamer joins the fleet: the streamer's register and heartbeat   *)
(* loop (streamer/manager_client.go), the manager's handlers               *)
(* (manager/server.go), its persisted allow-list (manager/enrollment.go)   *)
(* and the live instances (manager/registry.go).                           *)
(*                                                                         *)
(* One action is one critical section of EnrollmentStore.mu or Registry.mu,*)
(* or one step of a streamer's loop; the handlers of register, deregister  *)
(* and revoke take two critical sections each.  A machine stands for the   *)
(* control token it generated; two machines may claim one id.  A call is   *)
(* an HTTP request from the moment it is sent until it is answered, and    *)
(* goes on in the manager when the streamer has given it up.               *)
(***************************************************************************)
EXTENDS Naturals, FiniteSets

CONSTANTS
  Machines,     \* streamer hosts, each with its control token
  Ids,          \* STREAMER_INSTANCE_ID values
  Id,           \* Id[m] is the id machine m claims
  Urls,         \* advertised URLs
  None,
  Tokens,       \* session tokens, more than can be in use at once
  MaxCalls,     \* bound on the calls in flight
  MaxFaults     \* bound on timeouts, stops, crashes, restarts and failed writes

ASSUME EnrConstants ==
  /\ Id \in [Machines -> Ids]
  /\ None \notin Machines \cup Urls \cup Tokens
  /\ MaxCalls \in Nat /\ MaxFaults \in Nat

\* A registration takes a call that shows no token, so this leaves one unused.
ASSUME EnrFinite ==
  /\ IsFiniteSet(Machines) /\ IsFiniteSet(Ids) /\ IsFiniteSet(Tokens)
  /\ Urls # {}
  /\ Cardinality(Ids) + Cardinality(Machines) + MaxCalls <= Cardinality(Tokens)

VARIABLES
  enrolled,  \* EnrollmentStore.set: the pinned fingerprint of each id, or None
  approved,  \* ids whose enrollment is approved
  disk,      \* enrollments.json
  saved,     \* history: the last flush succeeded
  instances, \* Registry.instances
  streamer,  \* each machine's managerClient
  calls,     \* requests sent and not answered
  revoking,  \* ids whose revoke handler is about to call Deregister
  granted,   \* history: the machines the operator approved for each id
  faults

vars == <<enrolled, approved, disk, saved, instances, streamer, calls, revoking, granted, faults>>
storeVars == <<enrolled, approved, disk, saved, granted>>

Instance == [token: Tokens, machine: Machines, url: Urls, fresh: BOOLEAN]
Call == [kind: {"register", "heartbeat", "deregister"}, pc: {"sent", "checked"},
         from: Machines, url: Urls, token: Tokens \cup {None}, live: BOOLEAN]
Off == [on |-> FALSE, registered |-> FALSE, token |-> None, url |-> CHOOSE u \in Urls : TRUE]

Init ==
  /\ enrolled = [i \in Ids |-> None]
  /\ approved = {}
  /\ disk = [enrolled |-> enrolled, approved |-> approved]
  /\ saved = TRUE
  /\ instances = [i \in Ids |-> None]
  /\ streamer = [m \in Machines |-> Off]
  /\ calls = {}
  /\ revoking = {}
  /\ granted = [i \in Ids |-> {}]
  /\ faults = 0

Waiting(m) == \E c \in calls : c.from = m /\ c.live
Abandoned(m) == {[c EXCEPT !.live = IF c.from = m THEN FALSE ELSE @] : c \in calls}
Fresh(t) ==
  /\ \A i \in Ids : instances[i] # None => instances[i].token # t
  /\ \A m \in Machines : streamer[m].token # t
  /\ \A c \in calls : c.token # t

\* A random token is one nobody has, and which one makes no difference.
NewToken == CHOOSE t \in Tokens : Fresh(t)

-----------------------------------------------------------------------------
(***************************************************************************)
(* The streamer: register until it works, then heartbeat, register again   *)
(* on any failure; deregister on a clean stop.                             *)
(***************************************************************************)
Send(m, kind) ==
  /\ ~Waiting(m)
  /\ Cardinality(calls) < MaxCalls
  /\ calls' = calls \cup {[kind |-> kind, pc |-> "sent", from |-> m, live |-> TRUE, url |-> streamer[m].url,
                           token |-> IF kind = "register" THEN None ELSE streamer[m].token]}

Start(m, u) ==
  /\ ~streamer[m].on
  /\ streamer' = [streamer EXCEPT ![m] = [Off EXCEPT !.on = TRUE, !.url = u]]
  /\ UNCHANGED <<storeVars, instances, calls, revoking, faults>>

SendRegister(m) ==
  /\ streamer[m].on /\ ~streamer[m].registered
  /\ Send(m, "register")
  /\ UNCHANGED <<storeVars, instances, streamer, revoking, faults>>

SendHeartbeat(m) ==
  /\ streamer[m].on /\ streamer[m].registered
  /\ Send(m, "heartbeat")
  /\ UNCHANGED <<storeVars, instances, streamer, revoking, faults>>

\* The client's 10 s timeout: the manager may still handle the request.
TimesOut(m) ==
  /\ faults < MaxFaults /\ faults' = faults + 1
  /\ Waiting(m)
  /\ calls' = Abandoned(m)
  /\ streamer' = [streamer EXCEPT ![m].registered = FALSE]
  /\ UNCHANGED <<storeVars, instances, revoking>>

\* Stop lets the loop finish, then deregisters with the last session token.
Stop(m) ==
  /\ faults < MaxFaults /\ faults' = faults + 1
  /\ streamer[m].on /\ ~Waiting(m)
  /\ Cardinality(calls) < MaxCalls
  /\ calls' = calls \cup
       IF streamer[m].token = None THEN {}
       ELSE {[kind |-> "deregister", pc |-> "sent", from |-> m, live |-> FALSE,
              url |-> streamer[m].url, token |-> streamer[m].token]}
  /\ streamer' = [streamer EXCEPT ![m] = Off]
  /\ UNCHANGED <<storeVars, instances, revoking>>

Crash(m) ==
  /\ faults < MaxFaults /\ faults' = faults + 1
  /\ streamer[m].on
  /\ streamer' = [streamer EXCEPT ![m] = Off]
  /\ calls' = Abandoned(m)
  /\ UNCHANGED <<storeVars, instances, revoking>>

-----------------------------------------------------------------------------
(***************************************************************************)
(* The manager's handlers.                                                 *)
(***************************************************************************)

\* flush writes the whole allow-list, or fails and is only logged.
Flush(e, a) ==
  \/ /\ disk' = [enrolled |-> e, approved |-> a] /\ saved' = TRUE
     /\ UNCHANGED faults
  \/ /\ faults < MaxFaults /\ faults' = faults + 1
     /\ saved' = FALSE
     /\ UNCHANGED disk

\* Faulty: the streamer still takes itself for registered.
Refuse_StaysRegistered(c) ==
  /\ calls' = calls \ {c}
  /\ UNCHANGED streamer

\* An answer other than success: the streamer is not registered.
Refuse(c) ==
  /\ calls' = calls \ {c}
  /\ streamer' = [streamer EXCEPT ![c.from].registered = IF c.live THEN FALSE ELSE @]

\* verify: first contact, or not approved yet: pin what is presented.
VerifyPending(c) ==
  LET i == Id[c.from] IN
  /\ c.kind = "register" /\ c.pc = "sent"
  /\ i \notin approved
  /\ enrolled' = [enrolled EXCEPT ![i] = c.from]
  /\ Flush(enrolled', approved)
  /\ Refuse(c)
  /\ UNCHANGED <<approved, granted, instances, revoking>>

VerifyApproved(c) ==
  /\ c.kind = "register" /\ c.pc = "sent"
  /\ Id[c.from] \in approved
  /\ enrolled[Id[c.from]] = c.from
  /\ calls' = (calls \ {c}) \cup {[c EXCEPT !.pc = "checked"]}
  /\ UNCHANGED <<storeVars, instances, streamer, revoking, faults>>

VerifyMismatch(c) ==
  /\ c.kind = "register" /\ c.pc = "sent"
  /\ Id[c.from] \in approved
  /\ enrolled[Id[c.from]] # c.from
  /\ Refuse(c)
  /\ UNCHANGED <<storeVars, instances, revoking, faults>>

\* Faulty: the control token is left out of the comparison of Register.
SameStreamer_ByUrl(in, c) == in # None /\ in.url = c.url

\* Registered before with the same URLs and control token?
SameStreamer(in, c) == in # None /\ in.machine = c.from /\ in.url = c.url

\* Register: keep the instance and its session, or mint a new one.
Register(c) ==
  LET i == Id[c.from] IN
  /\ c.kind = "register" /\ c.pc = "checked"
  /\ \E t \in Tokens :
       /\ t = IF SameStreamer(instances[i], c) THEN instances[i].token ELSE NewToken
       /\ instances' = [instances EXCEPT ![i] =
            IF SameStreamer(@, c) THEN [@ EXCEPT !.fresh = TRUE]
            ELSE [token |-> t, machine |-> c.from, url |-> c.url, fresh |-> TRUE]]
       /\ streamer' = IF c.live THEN [streamer EXCEPT ![c.from].registered = TRUE,
                                                      ![c.from].token = t]
                                ELSE streamer
  /\ calls' = calls \ {c}
  /\ UNCHANGED <<storeVars, revoking, faults>>

HasSession(c) ==
  LET in == instances[Id[c.from]] IN in # None /\ in.token = c.token

Heartbeat(c) ==
  /\ c.kind = "heartbeat"
  /\ \/ /\ HasSession(c)
        /\ instances' = [instances EXCEPT ![Id[c.from]].fresh = TRUE]
        /\ calls' = calls \ {c}
        /\ UNCHANGED streamer
     \/ /\ ~HasSession(c)
        /\ Refuse(c)
        /\ UNCHANGED instances
  /\ UNCHANGED <<storeVars, revoking, faults>>

\* DeregisterWithToken compares under the read lock, Deregister deletes later.
CheckDeregister(c) ==
  /\ c.kind = "deregister" /\ c.pc = "sent"
  /\ calls' = (calls \ {c}) \cup (IF HasSession(c) THEN {[c EXCEPT !.pc = "checked"]} ELSE {})
  /\ UNCHANGED <<storeVars, instances, streamer, revoking, faults>>

Deregister(c) ==
  /\ c.kind = "deregister" /\ c.pc = "checked"
  /\ instances' = [instances EXCEPT ![Id[c.from]] = None]
  /\ calls' = calls \ {c}
  /\ UNCHANGED <<storeVars, streamer, revoking, faults>>

-----------------------------------------------------------------------------
(***************************************************************************)
(* The operator, the clock and the manager's process.                      *)
(***************************************************************************)
Approve(i) ==
  /\ enrolled[i] # None
  /\ approved' = approved \cup {i}
  /\ granted' = [granted EXCEPT ![i] = @ \cup {enrolled[i]}]
  /\ Flush(enrolled, approved')
  /\ UNCHANGED <<enrolled, instances, streamer, calls, revoking>>

\* Faulty: the removal is not written to disk.
RevokeEnrollment_NoFlush(i) ==
  /\ enrolled[i] # None
  /\ enrolled' = [enrolled EXCEPT ![i] = None]
  /\ approved' = approved \ {i}
  /\ revoking' = revoking \cup {i}
  /\ UNCHANGED <<disk, saved, granted, instances, streamer, calls, faults>>

\* The revoke handler deletes the enrollment, then calls Deregister.
RevokeEnrollment(i) ==
  /\ enrolled[i] # None
  /\ enrolled' = [enrolled EXCEPT ![i] = None]
  /\ approved' = approved \ {i}
  /\ Flush(enrolled', approved')
  /\ revoking' = revoking \cup {i}
  /\ UNCHANGED <<granted, instances, streamer, calls>>

\* revoke finds no enrollment; its result is ignored.
RevokeUnknown(i) ==
  /\ enrolled[i] = None
  /\ revoking' = revoking \cup {i}
  /\ UNCHANGED <<storeVars, instances, streamer, calls, faults>>

RevokeInstance(i) ==
  /\ i \in revoking
  /\ instances' = [instances EXCEPT ![i] = None]
  /\ revoking' = revoking \ {i}
  /\ UNCHANGED <<storeVars, streamer, calls, faults>>

\* ttl passes without a heartbeat.
GoStale(i) ==
  /\ instances[i] # None
  /\ instances' = [instances EXCEPT ![i].fresh = FALSE]
  /\ UNCHANGED <<storeVars, streamer, calls, revoking, faults>>

ExpireStale ==
  LET stale == {i \in Ids : instances[i] # None /\ ~instances[i].fresh} IN
  /\ stale # {}
  /\ instances' = [i \in Ids |-> IF i \in stale THEN None ELSE instances[i]]
  /\ UNCHANGED <<storeVars, streamer, calls, revoking, faults>>

\* load: only the allow-list survives; every call in flight fails.
ManagerRestart ==
  /\ faults < MaxFaults /\ faults' = faults + 1
  /\ enrolled' = disk.enrolled
  /\ approved' = disk.approved
  /\ instances' = [i \in Ids |-> None]
  /\ streamer' = [m \in Machines |->
       IF Waiting(m) THEN [streamer[m] EXCEPT !.registered = FALSE] ELSE streamer[m]]
  /\ calls' = {}
  /\ revoking' = {}
  /\ saved' = TRUE
  /\ UNCHANGED <<disk, granted>>

-----------------------------------------------------------------------------

StreamerStep(m) == SendRegister(m) \/ SendHeartbeat(m)

Handle(c) ==
  \/ VerifyPending(c) \/ VerifyApproved(c) \/ VerifyMismatch(c) \/ Register(c)
  \/ Heartbeat(c)
  \/ CheckDeregister(c) \/ Deregister(c)

Next ==
  \/ \E m \in Machines, u \in Urls : Start(m, u)
  \/ \E m \in Machines : StreamerStep(m) \/ TimesOut(m) \/ Stop(m) \/ Crash(m)
  \/ \E c \in calls : Handle(c)
  \/ \E i \in Ids : Approve(i) \/ RevokeEnrollment(i) \/ RevokeUnknown(i)
                      \/ RevokeInstance(i) \/ GoStale(i)
  \/ ExpireStale
  \/ ManagerRestart

Spec == Init /\ [][Next]_vars

\* A streamer's loop ticks for ever and the manager answers what reaches it.
FairSpec ==
  /\ Spec
  /\ \A m \in Machines : SF_vars(StreamerStep(m))
  /\ \A m \in Machines : WF_vars(\E c \in calls : c.from = m /\ Handle(c))

-----------------------------------------------------------------------------

\* The values the variables range over.
TypeOK ==
  /\ enrolled \in [Ids -> Machines \cup {None}]
  /\ approved \subseteq {i \in Ids : enrolled[i] # None}
  /\ disk.enrolled \in [Ids -> Machines \cup {None}] /\ disk.approved \subseteq Ids
  /\ saved \in BOOLEAN
  /\ instances \in [Ids -> Instance \cup {None}]
  /\ streamer \in [Machines -> [on: BOOLEAN, registered: BOOLEAN,
                                token: Tokens \cup {None}, url: Urls]]
  /\ calls \subseteq Call
  /\ revoking \subseteq Ids

\* Only a machine the operator approved for an id ever becomes its live
\* instance, whoever else claims the id and however the handlers interleave.
OnlyApprovedMachines ==
  \A i \in Ids : instances[i] # None => instances[i].machine \in granted[i]

\* A session belongs to the machine it was minted for: no other streamer can
\* keep it alive or deregister it with the token it holds itself.
SessionIsPersonal ==
  \A i \in Ids, m \in Machines :
    /\ instances[i] # None
    /\ Id[m] = i
    /\ streamer[m].token = instances[i].token
    => instances[i].machine = m

\* A restart of the manager changes no decision of the operator, once a flush
\* has succeeded: what is approved stays approved, what is revoked revoked, and
\* the decisions whose own writes failed are saved with the next.
RestartKeepsDecisions ==
  saved => disk = [enrolled |-> enrolled, approved |-> approved]

\* A running streamer whose identity stays approved is live again and again,
\* across lost answers, expiry and restarts on both sides.
ApprovedIsServed ==
  \A m \in Machines :
    <>[](streamer[m].on /\ Id[m] \in approved /\ enrolled[Id[m]] = m) =>
      []<>(instances[Id[m]] # None /\ instances[Id[m]].machine = m)

\* server.go:218: a revoke drops "the live instance too, if any".
RevokedIsDropped ==
  \A i \in Ids : instances[i] # None => i \in approved \cup revoking

\* registry.go:77-78: DeregisterWithToken "drops an instance only when the
\* presented session token matches".
DeregisterNeedsSession ==
  [][\A c \in calls : /\ c.kind = "deregister" /\ c.pc = "checked"
                      /\ calls' = calls \ {c}
                      /\ instances[Id[c.from]] # None
                      => instances[Id[c.from]].token = c.token]_vars
=============================================================================
