-------------------------- MODULE EnrollmentProofs --------------------------
(***************************************************************************)
(* Proofs about Enrollment, for any machines, ids, URLs and bounds.        *)
(* Three invariants, each on top of the one before: the store's (what is   *)
(* approved was granted, in memory and on disk), the registrations' (a     *)
(* call that passed verify comes from a granted machine) and the sessions' *)
(* (a token is held by one machine and by one instance).                   *)
(***************************************************************************)
EXTENDS Enrollment, FiniteSetTheorems, TLAPS

Stored ==
  /\ disk = [enrolled |-> disk.enrolled, approved |-> disk.approved]
  /\ granted \in [Ids -> SUBSET Machines]
  /\ disk.approved \subseteq {i \in Ids : disk.enrolled[i] # None}
  /\ \A i \in approved : enrolled[i] \in granted[i]
  /\ \A i \in disk.approved : disk.enrolled[i] \in granted[i]

Checked == \A c \in calls :
  c.kind = "register" /\ c.pc = "checked" => c.from \in granted[Id[c.from]]

Bounded == IsFiniteSet(calls) /\ Cardinality(calls) <= MaxCalls

Sessions ==
  /\ \A c \in calls : c.kind = "register" => c.token = None
  /\ \A i, j \in Ids :
       instances[i] # None /\ instances[j] # None /\ instances[i].token = instances[j].token => i = j
  /\ \A i \in Ids, m \in Machines :
       instances[i] # None /\ streamer[m].token = instances[i].token => instances[i].machine = m

-----------------------------------------------------------------------------

LEMMA ImageBound ==
  ASSUME NEW S, IsFiniteSet(S), NEW f, f = [x \in S |-> f[x]]
  PROVE  /\ IsFiniteSet({f[x] : x \in S})
         /\ Cardinality({f[x] : x \in S}) \in Nat
         /\ Cardinality({f[x] : x \in S}) <= Cardinality(S)
<1>1. f \in Surjection(S, {f[x] : x \in S})
  BY DEF Surjection
<1> QED
  BY <1>1, FS_Surjection, FS_CardinalityType

LEMMA UnionBound ==
  ASSUME NEW S, NEW T, IsFiniteSet(S), IsFiniteSet(T)
  PROVE  /\ IsFiniteSet(S \cup T) /\ Cardinality(S \cup T) \in Nat
         /\ Cardinality(S \cup T) <= Cardinality(S) + Cardinality(T)
<1>1. IsFiniteSet(S \cap T) /\ IsFiniteSet(S \cup T)
  BY FS_Intersection, FS_Union
<1>2. /\ Cardinality(S) \in Nat /\ Cardinality(T) \in Nat
      /\ Cardinality(S \cap T) \in Nat /\ Cardinality(S \cup T) \in Nat
  BY <1>1, FS_CardinalityType
<1>3. Cardinality(S \cup T) = Cardinality(S) + Cardinality(T) - Cardinality(S \cap T)
  BY FS_Union
<1> QED
  BY <1>1, <1>2, <1>3

\* Giving a request up changes neither how many there are nor what they show.
LEMMA AbandonedCalls ==
  ASSUME NEW m \in Machines, TypeOK
  PROVE  /\ Abandoned(m) \subseteq Call
         /\ Bounded => IsFiniteSet(Abandoned(m)) /\ Cardinality(Abandoned(m)) <= MaxCalls
         /\ \A d \in Abandoned(m) : \E c \in calls :
              d.kind = c.kind /\ d.pc = c.pc /\ d.from = c.from /\ d.token = c.token
<1> DEFINE give == [c \in calls |-> [c EXCEPT !.live = IF c.from = m THEN FALSE ELSE @]]
<1>1. Abandoned(m) = {give[c] : c \in calls}
  BY DEF Abandoned
<1>2. \A c \in calls : c \in Call
  BY DEF TypeOK
<1>3. \A c \in calls : /\ give[c] \in Call
                       /\ give[c].kind = c.kind /\ give[c].pc = c.pc
                       /\ give[c].from = c.from /\ give[c].token = c.token
  BY <1>2 DEF Call
<1>4. ASSUME Bounded PROVE IsFiniteSet(Abandoned(m)) /\ Cardinality(Abandoned(m)) <= MaxCalls
  <2>1. give = [c \in calls |-> give[c]]
    OBVIOUS
  <2>2. /\ IsFiniteSet({give[c] : c \in calls})
        /\ Cardinality({give[c] : c \in calls}) \in Nat
        /\ Cardinality({give[c] : c \in calls}) <= Cardinality(calls)
    <3> HIDE DEF give
    <3> QED BY <2>1, <1>4, ImageBound DEF Bounded
  <2>3. Cardinality(calls) \in Nat
    BY <1>4, FS_CardinalityType DEF Bounded
  <2> HIDE DEF give
  <2> QED BY <1>1, <1>4, <2>2, <2>3, EnrConstants DEF Bounded
<1>5. ASSUME NEW d \in Abandoned(m)
      PROVE  /\ d \in Call
             /\ \E c \in calls : d.kind = c.kind /\ d.pc = c.pc /\ d.from = c.from /\ d.token = c.token
  <2>1. PICK c \in calls : d = give[c]
    BY <1>1
  <2> QED
    BY <1>3, <2>1
<1> QED
  BY <1>4, <1>5

-----------------------------------------------------------------------------
(***************************************************************************)
(* Types and the store.                                                    *)
(***************************************************************************)

LEMMA InitTypeOK == Init => TypeOK /\ Stored
<1> SUFFICES ASSUME Init PROVE TypeOK /\ Stored
  OBVIOUS
<1>1. Off \in [on: BOOLEAN, registered: BOOLEAN, token: Tokens \cup {None}, url: Urls]
  BY EnrFinite DEF Off
<1> QED
  BY <1>1 DEF Init, TypeOK, Stored

\* What flush writes keeps the store's types.
LEMMA FlushTyped ==
  ASSUME TypeOK, NEW e \in [Ids -> Machines \cup {None}], NEW a \in SUBSET Ids, Flush(e, a)
  PROVE  /\ disk'.enrolled \in [Ids -> Machines \cup {None}] /\ disk'.approved \subseteq Ids
         /\ saved' \in BOOLEAN
<1>1. CASE disk' = [enrolled |-> e, approved |-> a] /\ saved' = TRUE
  BY <1>1
<1>2. CASE UNCHANGED disk /\ saved' = FALSE
  BY <1>2 DEF TypeOK
<1> QED
  BY <1>1, <1>2 DEF Flush

LEMMA StepTypeOK == TypeOK /\ Stored /\ [Next]_vars => TypeOK'
<1> SUFFICES ASSUME TypeOK, Stored, [Next]_vars PROVE TypeOK'
  OBVIOUS
<1> DEFINE Streamer == [on: BOOLEAN, registered: BOOLEAN, token: Tokens \cup {None}, url: Urls]
<1>0. /\ Off \in Streamer
      /\ \A m \in Machines : streamer[m] \in Streamer
      /\ \A c \in calls : c \in Call
      /\ \A m \in Machines : Id[m] \in Ids
  BY EnrFinite, EnrConstants DEF Off, TypeOK
<1>a. streamer \in [Machines -> Streamer]
  BY DEF TypeOK
<1>1. ASSUME NEW m \in Machines, NEW u \in Urls, Start(m, u) PROVE TypeOK'
  <2>1. [Off EXCEPT !.on = TRUE, !.url = u] \in Streamer
    BY <1>0
  <2> QED
    BY <1>1, <2>1 DEF Start, storeVars, TypeOK
<1>2. ASSUME NEW m \in Machines, StreamerStep(m) PROVE TypeOK'
  <2>1. ASSUME NEW kind \in {"register", "heartbeat", "deregister"}, Send(m, kind) PROVE calls' \subseteq Call
    <3>1. streamer[m].url \in Urls /\ streamer[m].token \in Tokens \cup {None}
      BY <1>0
    <3>2. [kind |-> kind, pc |-> "sent", from |-> m, live |-> TRUE, url |-> streamer[m].url,
           token |-> IF kind = "register" THEN None ELSE streamer[m].token] \in Call
      BY <3>1 DEF Call
    <3> QED
      BY <2>1, <3>2 DEF Send, TypeOK
  <2>2. calls' \subseteq Call
    BY <1>2, <2>1 DEF StreamerStep, SendRegister, SendHeartbeat
  <2> QED
    BY <1>2, <2>2 DEF StreamerStep, SendRegister, SendHeartbeat, storeVars, TypeOK
<1>3. ASSUME NEW m \in Machines, TimesOut(m) \/ Crash(m) PROVE TypeOK'
  <2>1. calls' \subseteq Call
    BY <1>3, AbandonedCalls DEF TimesOut, Crash
  <2>2. streamer' \in [Machines -> Streamer]
    <3>1. [streamer[m] EXCEPT !.registered = FALSE] \in Streamer
      BY <1>0
    <3>2. \/ streamer' = [streamer EXCEPT ![m] = [streamer[m] EXCEPT !.registered = FALSE]]
          \/ streamer' = [streamer EXCEPT ![m] = Off]
      BY <1>3 DEF TimesOut, Crash
    <3> HIDE DEF Streamer
    <3> QED
      BY <3>1, <3>2, <1>0, <1>a
  <2> QED
    BY <1>3, <2>1, <2>2 DEF TimesOut, Crash, storeVars, TypeOK
<1>4. ASSUME NEW m \in Machines, Stop(m) PROVE TypeOK'
  <2>1. calls' \subseteq Call
    <3>1. streamer[m].url \in Urls /\ streamer[m].token \in Tokens \cup {None}
      BY <1>0
    <3>2. ASSUME streamer[m].token # None
          PROVE  [kind |-> "deregister", pc |-> "sent", from |-> m, live |-> FALSE,
                  url |-> streamer[m].url, token |-> streamer[m].token] \in Call
      BY <3>1 DEF Call
    <3> QED
      BY <1>4, <3>2 DEF Stop, TypeOK
  <2>2. streamer' \in [Machines -> Streamer]
    BY <1>4, <1>0 DEF Stop, TypeOK
  <2> QED
    BY <1>4, <2>1, <2>2 DEF Stop, storeVars, TypeOK
<1>5. ASSUME NEW c \in calls, Refuse(c)
      PROVE  calls' \subseteq Call /\ streamer' \in [Machines -> Streamer]
  BY <1>5, <1>0 DEF Refuse, TypeOK, Call
<1>6. ASSUME NEW c \in calls, VerifyPending(c) PROVE TypeOK'
  <2> DEFINE i == Id[c.from]
  <2>1. i \in Ids /\ c.from \in Machines
    BY <1>0 DEF Call
  <2>2. enrolled' \in [Ids -> Machines \cup {None}]
    BY <1>6, <2>1 DEF VerifyPending, TypeOK
  <2>3. approved' \subseteq {j \in Ids : enrolled'[j] # None}
    BY <1>6, <2>1 DEF VerifyPending, TypeOK
  <2>4. /\ disk'.enrolled \in [Ids -> Machines \cup {None}] /\ disk'.approved \subseteq Ids
        /\ saved' \in BOOLEAN
    BY <1>6, <2>2, FlushTyped DEF VerifyPending, TypeOK
  <2> QED
    BY <1>6, <1>5, <2>2, <2>3, <2>4 DEF VerifyPending, TypeOK
<1>7. ASSUME NEW c \in calls, VerifyApproved(c) \/ VerifyMismatch(c) \/ CheckDeregister(c) PROVE TypeOK'
  <2>1. calls' \subseteq Call /\ streamer' \in [Machines -> Streamer]
    BY <1>7, <1>5, <1>0 DEF VerifyApproved, VerifyMismatch, CheckDeregister, TypeOK, Call
  <2> QED
    BY <1>7, <2>1 DEF VerifyApproved, VerifyMismatch, CheckDeregister, storeVars, TypeOK
<1>8. ASSUME NEW c \in calls, Register(c) PROVE TypeOK'
  <2> DEFINE i == Id[c.from]
  <2>1. c.from \in Machines /\ c.url \in Urls /\ Id[c.from] \in Ids
    BY <1>0 DEF Call
  <2>2. instances' \in [Ids -> Instance \cup {None}]
    <3>1. PICK t \in Tokens :
            /\ t = IF SameStreamer(instances[i], c) THEN instances[i].token ELSE NewToken
            /\ instances' = [instances EXCEPT ![i] =
                 IF SameStreamer(@, c) THEN [@ EXCEPT !.fresh = TRUE]
                 ELSE [token |-> t, machine |-> c.from, url |-> c.url, fresh |-> TRUE]]
      BY <1>8 DEF Register
    <3>2. [token |-> t, machine |-> c.from, url |-> c.url, fresh |-> TRUE] \in Instance
      BY <2>1 DEF Instance
    <3>3. ASSUME SameStreamer(instances[i], c) PROVE [instances[i] EXCEPT !.fresh = TRUE] \in Instance
      BY <2>1, <3>3 DEF SameStreamer, TypeOK, Instance
    <3> QED
      BY <2>1, <3>1, <3>2, <3>3 DEF TypeOK
  <2>3. streamer' \in [Machines -> Streamer]
    <3>1. PICK t \in Tokens :
            streamer' = IF c.live THEN [streamer EXCEPT ![c.from].registered = TRUE,
                                                        ![c.from].token = t]
                                  ELSE streamer
      BY <1>8 DEF Register
    <3> QED
      BY <3>1, <2>1, <1>0 DEF TypeOK
  <2> QED
    BY <1>8, <2>2, <2>3 DEF Register, storeVars, TypeOK
<1>9. ASSUME NEW c \in calls, Heartbeat(c) PROVE TypeOK'
  <2>1. Id[c.from] \in Ids
    BY <1>0 DEF Call
  <2>2. instances' \in [Ids -> Instance \cup {None}]
    <3>1. CASE HasSession(c) /\ instances' = [instances EXCEPT ![Id[c.from]].fresh = TRUE]
      <4>1. [instances[Id[c.from]] EXCEPT !.fresh = TRUE] \in Instance
        BY <2>1, <3>1 DEF HasSession, TypeOK, Instance
      <4> QED
        BY <2>1, <3>1, <4>1 DEF TypeOK
    <3>2. CASE UNCHANGED instances
      BY <3>2 DEF TypeOK
    <3> QED
      BY <1>9, <3>1, <3>2 DEF Heartbeat
  <2> QED
    BY <1>9, <1>5, <2>2 DEF Heartbeat, storeVars, TypeOK
<1>10. ASSUME NEW c \in calls, Deregister(c) PROVE TypeOK'
  BY <1>10 DEF Deregister, storeVars, TypeOK
<1>11. ASSUME NEW i \in Ids, Approve(i) PROVE TypeOK'
  <2>1. approved' \in SUBSET Ids /\ enrolled' = enrolled
    BY <1>11 DEF Approve, TypeOK
  <2>2. /\ disk'.enrolled \in [Ids -> Machines \cup {None}] /\ disk'.approved \subseteq Ids
        /\ saved' \in BOOLEAN
    BY <1>11, <2>1, FlushTyped DEF Approve, TypeOK
  <2> QED
    BY <1>11, <2>2 DEF Approve, TypeOK
<1>12. ASSUME NEW i \in Ids, RevokeEnrollment(i) PROVE TypeOK'
  <2>1. enrolled' \in [Ids -> Machines \cup {None}] /\ approved' \in SUBSET Ids
    BY <1>12 DEF RevokeEnrollment, TypeOK
  <2>2. /\ disk'.enrolled \in [Ids -> Machines \cup {None}] /\ disk'.approved \subseteq Ids
        /\ saved' \in BOOLEAN
    BY <1>12, <2>1, FlushTyped DEF RevokeEnrollment
  <2> QED
    BY <1>12, <2>1, <2>2 DEF RevokeEnrollment, TypeOK
<1>13. ASSUME NEW i \in Ids, RevokeUnknown(i) \/ RevokeInstance(i) PROVE TypeOK'
  BY <1>13 DEF RevokeUnknown, RevokeInstance, storeVars, TypeOK
<1>14. ASSUME NEW i \in Ids, GoStale(i) PROVE TypeOK'
  <2>1. instances' \in [Ids -> Instance \cup {None}]
    BY <1>14 DEF GoStale, TypeOK, Instance
  <2> QED
    BY <1>14, <2>1 DEF GoStale, storeVars, TypeOK
<1>15. CASE ExpireStale
  BY <1>15 DEF ExpireStale, storeVars, TypeOK
<1>16. CASE ManagerRestart
  <2>1. streamer' \in [Machines -> Streamer]
    BY <1>16, <1>0 DEF ManagerRestart
  <2> QED
    BY <1>16, <2>1 DEF ManagerRestart, TypeOK, Stored
<1>17. CASE UNCHANGED vars
  BY <1>17 DEF vars, TypeOK
<1> QED
  BY <1>1, <1>2, <1>3, <1>4, <1>6, <1>7, <1>8, <1>9, <1>10, <1>11, <1>12, <1>13, <1>14, <1>15,
     <1>16, <1>17 DEF Next, Handle

\* The actions that touch the store: verify, approve, revoke, a restart.
StoreStep ==
  \/ \E c \in calls : VerifyPending(c)
  \/ \E i \in Ids : Approve(i) \/ RevokeEnrollment(i)
  \/ ManagerRestart

LEMMA OthersLeaveStore == [Next]_vars => StoreStep \/ UNCHANGED storeVars
  BY DEF Next, StreamerStep, Handle, StoreStep, Start, SendRegister, SendHeartbeat, TimesOut, Stop, Crash,
         VerifyApproved, VerifyMismatch, Register, Heartbeat, CheckDeregister, Deregister, RevokeUnknown,
         RevokeInstance, GoStale, ExpireStale, vars, storeVars

\* A flush writes what it is given, or leaves the disk as it was.
LEMMA FlushStores ==
  ASSUME Stored, NEW e \in [Ids -> Machines \cup {None}], NEW a \in SUBSET {i \in Ids : e[i] # None},
         granted' \in [Ids -> SUBSET Machines], \A i \in Ids : granted[i] \subseteq granted'[i],
         \A i \in a : e[i] \in granted'[i], Flush(e, a)
  PROVE  /\ disk' = [enrolled |-> disk'.enrolled, approved |-> disk'.approved]
         /\ disk'.approved \subseteq {i \in Ids : disk'.enrolled[i] # None}
         /\ \A i \in disk'.approved : disk'.enrolled[i] \in granted'[i]
<1>1. CASE disk' = [enrolled |-> e, approved |-> a]
  <2>1. disk'.enrolled = e /\ disk'.approved = a
    BY <1>1
  <2> QED
    BY <1>1, <2>1
<1>2. CASE UNCHANGED disk
  BY <1>2 DEF Stored
<1> QED
  BY <1>1, <1>2 DEF Flush

LEMMA StepStored == TypeOK /\ Stored /\ [Next]_vars => Stored'
<1> SUFFICES ASSUME TypeOK, Stored, [Next]_vars PROVE Stored'
  OBVIOUS
<1>0. /\ \A c \in calls : c.from \in Machines /\ Id[c.from] \in Ids
      /\ enrolled \in [Ids -> Machines \cup {None}]
      /\ approved \subseteq {i \in Ids : enrolled[i] # None}
      /\ granted \in [Ids -> SUBSET Machines]
      /\ \A i \in approved : enrolled[i] \in granted[i]
  BY EnrConstants DEF TypeOK, Call, Stored
<1>1. ASSUME NEW c \in calls, VerifyPending(c) PROVE Stored'
  <2> DEFINE i == Id[c.from]
  <2>1. /\ enrolled' \in [Ids -> Machines \cup {None}] /\ UNCHANGED <<approved, granted>>
        /\ i \notin approved /\ enrolled' = [enrolled EXCEPT ![i] = c.from]
        /\ Flush(enrolled', approved)
    BY <1>0, <1>1 DEF VerifyPending
  <2>2. \A j \in approved : enrolled'[j] = enrolled[j] /\ enrolled'[j] # None
    BY <1>0, <2>1
  <2>3. approved \subseteq {j \in Ids : enrolled'[j] # None}
    BY <1>0, <2>2
  <2>4. /\ disk' = [enrolled |-> disk'.enrolled, approved |-> disk'.approved]
        /\ disk'.approved \subseteq {j \in Ids : disk'.enrolled[j] # None}
        /\ \A j \in disk'.approved : disk'.enrolled[j] \in granted'[j]
    BY <1>0, <2>1, <2>2, <2>3, FlushStores
  <2> QED
    BY <1>0, <2>1, <2>2, <2>4 DEF Stored
<1>2. ASSUME NEW i \in Ids, Approve(i) PROVE Stored'
  <2>1. /\ enrolled[i] \in Machines /\ enrolled' = enrolled
        /\ approved' = approved \cup {i}
        /\ granted' = [granted EXCEPT ![i] = @ \cup {enrolled[i]}]
        /\ Flush(enrolled, approved')
    BY <1>0, <1>2 DEF Approve
  <2>2. /\ granted' \in [Ids -> SUBSET Machines]
        /\ \A j \in Ids : granted[j] \subseteq granted'[j]
        /\ \A j \in approved' : enrolled[j] \in granted'[j]
        /\ approved' \subseteq {j \in Ids : enrolled[j] # None}
    BY <1>0, <2>1, EnrConstants
  <2>3. /\ disk' = [enrolled |-> disk'.enrolled, approved |-> disk'.approved]
        /\ disk'.approved \subseteq {j \in Ids : disk'.enrolled[j] # None}
        /\ \A j \in disk'.approved : disk'.enrolled[j] \in granted'[j]
    BY <1>0, <2>1, <2>2, FlushStores
  <2> QED
    BY <2>1, <2>2, <2>3 DEF Stored
<1>3. ASSUME NEW i \in Ids, RevokeEnrollment(i) PROVE Stored'
  <2>1. /\ enrolled' = [enrolled EXCEPT ![i] = None] /\ approved' = approved \ {i}
        /\ UNCHANGED granted /\ Flush(enrolled', approved')
    BY <1>3 DEF RevokeEnrollment
  <2>2. /\ enrolled' \in [Ids -> Machines \cup {None}]
        /\ approved' \subseteq {j \in Ids : enrolled'[j] # None}
        /\ \A j \in approved' : enrolled'[j] \in granted'[j]
    BY <1>0, <2>1
  <2>3. /\ disk' = [enrolled |-> disk'.enrolled, approved |-> disk'.approved]
        /\ disk'.approved \subseteq {j \in Ids : disk'.enrolled[j] # None}
        /\ \A j \in disk'.approved : disk'.enrolled[j] \in granted'[j]
    BY <1>0, <2>1, <2>2, FlushStores
  <2> QED
    BY <1>0, <2>1, <2>2, <2>3 DEF Stored
<1>4. CASE ManagerRestart
  BY <1>4 DEF ManagerRestart, Stored
<1>5. CASE UNCHANGED storeVars
  BY <1>5 DEF storeVars, Stored
<1> QED
  BY <1>1, <1>2, <1>3, <1>4, <1>5, OthersLeaveStore DEF StoreStep

\* Every state is of the type the model-checked TypeOK says, for any constants.
THEOREM EnrollmentTypeOK == Spec => [](TypeOK /\ Stored)
<1>1. Init => TypeOK /\ Stored
  BY InitTypeOK
<1>2. TypeOK /\ Stored /\ [Next]_vars => (TypeOK /\ Stored)'
  BY StepTypeOK, StepStored
<1> QED
  BY <1>1, <1>2, PTL DEF Spec

\* enrollment.go:86-104 and :139-159: a restart finds the operator's decisions
\* as they are, once a flush has succeeded.
THEOREM RestartKeepsDecisionsSafe == Spec => []RestartKeepsDecisions
<1>1. Init => RestartKeepsDecisions
  BY DEF Init, RestartKeepsDecisions
<1>2. TypeOK /\ Stored /\ RestartKeepsDecisions /\ [Next]_vars => RestartKeepsDecisions'
  <2> SUFFICES ASSUME TypeOK, Stored, RestartKeepsDecisions, [Next]_vars PROVE RestartKeepsDecisions'
    OBVIOUS
  <2>1. ASSUME Flush(enrolled', approved') PROVE RestartKeepsDecisions'
    BY <2>1 DEF Flush, RestartKeepsDecisions
  <2>2. ASSUME NEW c \in calls, VerifyPending(c) PROVE RestartKeepsDecisions'
    BY <2>2, <2>1 DEF VerifyPending
  <2>3. ASSUME NEW i \in Ids, Approve(i) \/ RevokeEnrollment(i) PROVE RestartKeepsDecisions'
    BY <2>3, <2>1 DEF Approve, RevokeEnrollment
  <2>4. CASE ManagerRestart
    BY <2>4 DEF ManagerRestart, RestartKeepsDecisions, Stored
  <2>5. CASE UNCHANGED storeVars
    BY <2>5 DEF storeVars, RestartKeepsDecisions
  <2> QED
    BY <2>2, <2>3, <2>4, <2>5, OthersLeaveStore DEF StoreStep
<1> QED
  BY <1>1, <1>2, EnrollmentTypeOK, PTL DEF Spec

-----------------------------------------------------------------------------
(***************************************************************************)
(* Registrations.                                                          *)
(***************************************************************************)

\* What the operator has granted is never taken back from the record.
LEMMA GrantedGrows ==
  ASSUME TypeOK, Stored, [Next]_vars
  PROVE  \A i \in Ids : granted[i] \subseteq granted'[i]
<1>1. ASSUME NEW i \in Ids, Approve(i) PROVE \A j \in Ids : granted[j] \subseteq granted'[j]
  BY <1>1 DEF Approve, Stored
<1>2. CASE UNCHANGED granted
  BY <1>2
<1>3. \/ \E i \in Ids : Approve(i)
      \/ UNCHANGED granted
  BY OthersLeaveStore DEF StoreStep, VerifyPending, RevokeEnrollment, ManagerRestart, storeVars
<1> QED
  BY <1>1, <1>2, <1>3

\* The calls of the next state that have passed verify.
LEMMA StepChecked == TypeOK /\ Stored /\ Checked /\ [Next]_vars => Checked'
<1> SUFFICES ASSUME TypeOK, Stored, Checked, [Next]_vars PROVE Checked'
  OBVIOUS
<1>0. /\ \A i \in Ids : granted[i] \subseteq granted'[i]
      /\ \A c \in calls : c \in Call /\ Id[c.from] \in Ids
  BY GrantedGrows, EnrConstants DEF TypeOK, Call
<1>1. ASSUME \A d \in calls' : d.kind = "register" /\ d.pc = "checked" =>
               \E c \in calls : c.kind = "register" /\ c.pc = "checked" /\ d.from = c.from
      PROVE  Checked'
  BY <1>0, <1>1 DEF Checked
<1>2. ASSUME NEW m \in Machines, StreamerStep(m) PROVE Checked'
  BY <1>1, <1>2 DEF StreamerStep, SendRegister, SendHeartbeat, Send
<1>3. ASSUME NEW m \in Machines, TimesOut(m) \/ Crash(m) PROVE Checked'
  BY <1>1, <1>3, AbandonedCalls DEF TimesOut, Crash
<1>4. ASSUME NEW m \in Machines, Stop(m) PROVE Checked'
  BY <1>1, <1>4 DEF Stop
<1>5. ASSUME NEW c \in calls, VerifyApproved(c) PROVE Checked'
  <2>1. c.from \in granted[Id[c.from]] /\ c \in Call
    BY <1>5, <1>0 DEF VerifyApproved, Stored
  <2>2. ASSUME NEW d \in calls', d \notin calls PROVE d.from = c.from
    BY <1>5, <2>1, <2>2 DEF VerifyApproved, Call
  <2>3. UNCHANGED granted
    BY <1>5 DEF VerifyApproved, storeVars
  <2> QED
    BY <2>1, <2>2, <2>3 DEF Checked
<1>6. ASSUME NEW c \in calls, CheckDeregister(c) PROVE Checked'
  <2>1. ASSUME NEW d \in calls', d \notin calls PROVE d.kind = "deregister"
    BY <1>6, <1>0, <2>1 DEF CheckDeregister, Call
  <2> QED
    BY <1>1, <2>1
<1>7. CASE calls' \subseteq calls
  BY <1>1, <1>7
<1>8. \/ \E m \in Machines : StreamerStep(m) \/ TimesOut(m) \/ Stop(m) \/ Crash(m)
      \/ \E c \in calls : VerifyApproved(c) \/ CheckDeregister(c)
      \/ calls' \subseteq calls
  BY DEF Next, Handle, Start, VerifyPending, VerifyMismatch, Refuse, Register, Heartbeat, Deregister,
         Approve, RevokeEnrollment, RevokeUnknown, RevokeInstance, GoStale, ExpireStale, ManagerRestart, vars
<1> QED
  BY <1>2, <1>3, <1>4, <1>5, <1>6, <1>7, <1>8

\* registry.go and enrollment.go together: whoever claims an id, only a machine
\* the operator approved for it becomes its instance, though verify and Register
\* are two critical sections.
THEOREM OnlyApprovedMachinesSafe == Spec => []OnlyApprovedMachines
<1>1. Init => Checked /\ OnlyApprovedMachines
  BY DEF Init, Checked, OnlyApprovedMachines
<1>2. TypeOK /\ Stored /\ Checked /\ OnlyApprovedMachines /\ [Next]_vars => OnlyApprovedMachines'
  <2> SUFFICES ASSUME TypeOK, Stored, Checked, OnlyApprovedMachines, [Next]_vars
               PROVE  OnlyApprovedMachines'
    OBVIOUS
  <2>0. \A i \in Ids : granted[i] \subseteq granted'[i]
    BY GrantedGrows
  <2>1. ASSUME \A i \in Ids : instances'[i] # None =>
                 instances[i] # None /\ instances'[i].machine = instances[i].machine
        PROVE  OnlyApprovedMachines'
    BY <2>0, <2>1 DEF OnlyApprovedMachines
  <2>2. ASSUME NEW c \in calls, Register(c) PROVE OnlyApprovedMachines'
    <3> DEFINE i == Id[c.from]
    <3>1. c.from \in granted'[i] /\ i \in Ids
      BY <2>0, <2>2, EnrConstants DEF Register, Checked, TypeOK, Call
    <3>2. ASSUME SameStreamer(instances[i], c),
                 instances' = [instances EXCEPT ![i] = [@ EXCEPT !.fresh = TRUE]]
          PROVE  OnlyApprovedMachines'
      BY <2>1, <3>1, <3>2 DEF SameStreamer, TypeOK, Instance
    <3>3. ASSUME NEW t \in Tokens,
                 instances' = [instances EXCEPT ![i] =
                   [token |-> t, machine |-> c.from, url |-> c.url, fresh |-> TRUE]]
          PROVE  OnlyApprovedMachines'
      BY <2>0, <3>1, <3>3 DEF OnlyApprovedMachines, TypeOK
    <3> QED
      BY <2>2, <3>2, <3>3 DEF Register
  <2>3. ASSUME NEW c \in calls, Heartbeat(c) PROVE OnlyApprovedMachines'
    <3>1. Id[c.from] \in Ids
      BY EnrConstants DEF TypeOK, Call
    <3> QED
      BY <2>1, <2>3, <3>1 DEF Heartbeat, HasSession, TypeOK, Instance
  <2>4. ASSUME NEW i \in Ids, GoStale(i) PROVE OnlyApprovedMachines'
    BY <2>1, <2>4 DEF GoStale, TypeOK, Instance
  <2>5. CASE \A i \in Ids : instances'[i] = instances[i] \/ instances'[i] = None
    BY <2>1, <2>5
  <2>6. ASSUME NEW c \in calls, Deregister(c)
        PROVE  \A i \in Ids : instances'[i] = instances[i] \/ instances'[i] = None
    BY <2>6 DEF Deregister, TypeOK
  <2>7. ASSUME NEW j \in Ids, RevokeInstance(j)
        PROVE  \A i \in Ids : instances'[i] = instances[i] \/ instances'[i] = None
    BY <2>7 DEF RevokeInstance, TypeOK
  <2>8. \/ \E c \in calls : Register(c) \/ Heartbeat(c) \/ Deregister(c)
        \/ \E i \in Ids : GoStale(i) \/ RevokeInstance(i)
        \/ \A i \in Ids : instances'[i] = instances[i] \/ instances'[i] = None
    BY DEF Next, StreamerStep, Handle, Start, SendRegister, SendHeartbeat, TimesOut, Stop, Crash, VerifyPending,
           VerifyApproved, VerifyMismatch, CheckDeregister, Approve, RevokeEnrollment, RevokeUnknown,
           ExpireStale, ManagerRestart, vars
  <2> QED
    BY <2>2, <2>3, <2>4, <2>5, <2>6, <2>7, <2>8
<1> QED
  BY <1>1, <1>2, StepChecked, EnrollmentTypeOK, PTL DEF Spec

-----------------------------------------------------------------------------
(***************************************************************************)
(* Sessions.                                                               *)
(***************************************************************************)

\* While a registration is handled some token is unused.
LEMMA TokenLeft ==
  ASSUME TypeOK, Bounded, Sessions, NEW c \in calls, c.kind = "register"
  PROVE  NewToken \in Tokens /\ Fresh(NewToken)
<1> DEFINE byId == [i \in Ids |-> instances[i].token]
           byMachine == [m \in Machines |-> streamer[m].token]
           byCall == [d \in calls \ {c} |-> d.token]
           A == {byId[i] : i \in Ids}
           B == {byMachine[m] : m \in Machines}
           C == {byCall[d] : d \in calls \ {c}}
<1>1. /\ IsFiniteSet(calls \ {c}) /\ Cardinality(calls \ {c}) = Cardinality(calls) - 1
      /\ Cardinality(calls) \in Nat
  BY FS_RemoveElement, FS_CardinalityType DEF Bounded
<1>2. IsFiniteSet(A) /\ Cardinality(A) \in Nat /\ Cardinality(A) <= Cardinality(Ids)
  <2>1. byId = [i \in Ids |-> byId[i]]
    OBVIOUS
  <2> HIDE DEF byId
  <2> QED
    BY <2>1, ImageBound, EnrFinite
<1>3. IsFiniteSet(B) /\ Cardinality(B) \in Nat /\ Cardinality(B) <= Cardinality(Machines)
  <2>1. byMachine = [m \in Machines |-> byMachine[m]]
    OBVIOUS
  <2> HIDE DEF byMachine
  <2> QED
    BY <2>1, ImageBound, EnrFinite
<1>4. IsFiniteSet(C) /\ Cardinality(C) \in Nat /\ Cardinality(C) <= Cardinality(calls \ {c})
  <2>1. byCall = [d \in calls \ {c} |-> byCall[d]]
    OBVIOUS
  <2> HIDE DEF byCall
  <2> QED
    BY <2>1, <1>1, ImageBound
<1>5. \E t \in Tokens : t \notin A \cup B \cup C
  <2> HIDE DEF A, B, C
  <2>1. /\ IsFiniteSet(A \cup B) /\ Cardinality(A \cup B) \in Nat
        /\ Cardinality(A \cup B) <= Cardinality(A) + Cardinality(B)
    BY <1>2, <1>3, UnionBound
  <2>2. /\ IsFiniteSet((A \cup B) \cup C) /\ Cardinality((A \cup B) \cup C) \in Nat
        /\ Cardinality((A \cup B) \cup C) <= Cardinality(A \cup B) + Cardinality(C)
    BY <1>4, <2>1, UnionBound
  <2>3. Cardinality(Ids) \in Nat /\ Cardinality(Machines) \in Nat /\ Cardinality(Tokens) \in Nat
    BY EnrFinite, FS_CardinalityType
  <2>4. Cardinality((A \cup B) \cup C) < Cardinality(Tokens)
    BY <1>1, <1>2, <1>3, <1>4, <2>1, <2>2, <2>3, EnrFinite, EnrConstants DEF Bounded
  <2>5. ASSUME Tokens \subseteq (A \cup B) \cup C PROVE FALSE
    BY <2>2, <2>3, <2>4, <2>5, FS_Subset
  <2> QED
    BY <2>5
<1>6. PICK t \in Tokens : t \notin A \cup B \cup C
  BY <1>5
<1>7. \A i \in Ids : instances[i].token # t
  BY <1>6
<1>8. \A m \in Machines : streamer[m].token # t
  BY <1>6
<1>9. \A d \in calls : d.token # t
  <2>1. \A d \in calls \ {c} : d.token # t
    BY <1>6
  <2>2. c.token # t
    BY EnrConstants DEF Sessions
  <2> QED
    BY <2>1, <2>2
<1>10. Fresh(t)
  BY <1>7, <1>8, <1>9 DEF Fresh
<1> QED
  BY <1>6, <1>10 DEF NewToken

LEMMA StepBounded == TypeOK /\ Bounded /\ [Next]_vars => Bounded'
<1> SUFFICES ASSUME TypeOK, Bounded, [Next]_vars PROVE Bounded'
  OBVIOUS
<1>0. Cardinality(calls) \in Nat
  BY FS_CardinalityType DEF Bounded
<1>1. ASSUME NEW x, Cardinality(calls) < MaxCalls, calls' = calls \cup {x} PROVE Bounded'
  <2>1. IsFiniteSet({x}) /\ Cardinality({x}) = 1
    BY FS_Singleton
  <2>2. /\ IsFiniteSet(calls \cup {x}) /\ Cardinality(calls \cup {x}) \in Nat
        /\ Cardinality(calls \cup {x}) <= Cardinality(calls) + 1
    BY <2>1, UnionBound DEF Bounded
  <2> QED
    BY <1>0, <1>1, <2>2, EnrConstants DEF Bounded
<1>2. CASE calls' \subseteq calls
  <2>1. /\ IsFiniteSet(calls') /\ Cardinality(calls') <= Cardinality(calls)
        /\ Cardinality(calls') \in Nat
    BY <1>2, FS_Subset, FS_CardinalityType DEF Bounded
  <2> QED
    BY <1>0, <2>1, EnrConstants DEF Bounded
<1>3. ASSUME NEW m \in Machines, StreamerStep(m) PROVE Bounded'
  BY <1>1, <1>3 DEF StreamerStep, SendRegister, SendHeartbeat, Send
<1>4. ASSUME NEW m \in Machines, TimesOut(m) \/ Crash(m) PROVE Bounded'
  BY <1>4, AbandonedCalls DEF TimesOut, Crash, Bounded
<1>5. ASSUME NEW m \in Machines, Stop(m) PROVE Bounded'
  BY <1>1, <1>2, <1>5 DEF Stop
<1>6. ASSUME NEW c \in calls, NEW x, calls' = (calls \ {c}) \cup {x} PROVE Bounded'
  <2>1. /\ IsFiniteSet(calls \ {c}) /\ Cardinality(calls \ {c}) = Cardinality(calls) - 1
    BY FS_RemoveElement DEF Bounded
  <2>2. IsFiniteSet(calls') /\ Cardinality(calls') <= Cardinality(calls)
    BY <1>0, <1>6, <2>1, FS_AddElement
  <2>3. Cardinality(calls') \in Nat
    BY <2>2, FS_CardinalityType
  <2> QED
    BY <1>0, <2>2, <2>3, EnrConstants DEF Bounded
<1>7. ASSUME NEW c \in calls, VerifyApproved(c) \/ CheckDeregister(c) PROVE Bounded'
  BY <1>2, <1>6, <1>7 DEF VerifyApproved, CheckDeregister
<1>8. \/ \E m \in Machines : StreamerStep(m) \/ TimesOut(m) \/ Stop(m) \/ Crash(m)
      \/ \E c \in calls : VerifyApproved(c) \/ CheckDeregister(c)
      \/ calls' \subseteq calls
  BY DEF Next, Handle, Start, VerifyPending, VerifyMismatch, Refuse, Register, Heartbeat, Deregister,
         Approve, RevokeEnrollment, RevokeUnknown, RevokeInstance, GoStale, ExpireStale, ManagerRestart, vars
<1> QED
  BY <1>2, <1>3, <1>4, <1>5, <1>7, <1>8

\* Handling that mints nothing only forgets instances and tokens.
LEMMA Forgetting ==
  ASSUME Sessions,
         \A c \in calls' : c.kind = "register" => c.token = None,
         \A i \in Ids : instances'[i] # None =>
           /\ instances[i] # None
           /\ instances'[i].token = instances[i].token
           /\ instances'[i].machine = instances[i].machine,
         \A m \in Machines : streamer'[m].token = streamer[m].token \/ streamer'[m].token = None,
         TypeOK, TypeOK'
  PROVE  Sessions'
<1>1. ASSUME NEW i \in Ids, NEW m \in Machines, instances'[i] # None,
             streamer'[m].token = instances'[i].token
      PROVE  instances'[i].machine = m
  <2>1. instances[i].token # None
    BY <1>1, EnrConstants DEF TypeOK, Instance
  <2> QED
    BY <1>1, <2>1 DEF Sessions
<1>2. ASSUME NEW i \in Ids, NEW j \in Ids, instances'[i] # None, instances'[j] # None,
             instances'[i].token = instances'[j].token
      PROVE  i = j
  BY <1>2 DEF Sessions
<1> QED
  BY <1>1, <1>2 DEF Sessions

LEMMA StepSessions == TypeOK /\ TypeOK' /\ Bounded /\ Sessions /\ [Next]_vars => Sessions'
<1> SUFFICES ASSUME TypeOK, TypeOK', Bounded, Sessions, [Next]_vars PROVE Sessions'
  OBVIOUS
<1> DEFINE CallsOK == \A c \in calls' : c.kind = "register" => c.token = None
           InstancesOK == \A i \in Ids : instances'[i] # None =>
             /\ instances[i] # None
             /\ instances'[i].token = instances[i].token
             /\ instances'[i].machine = instances[i].machine
           TokensOK == \A m \in Machines :
             streamer'[m].token = streamer[m].token \/ streamer'[m].token = None
<1>0. /\ \A c \in calls : c \in Call /\ c.from \in Machines /\ Id[c.from] \in Ids
      /\ \A c \in calls : c.kind = "register" => c.token = None
      /\ Off.token = None
  BY EnrConstants DEF TypeOK, Call, Sessions, Off
<1>1. ASSUME CallsOK, InstancesOK, TokensOK PROVE Sessions'
  BY <1>1, Forgetting
<1>2. ASSUME NEW m \in Machines, StreamerStep(m) PROVE Sessions'
  <2>1. CallsOK
    BY <1>0, <1>2 DEF StreamerStep, SendRegister, SendHeartbeat, Send
  <2>2. UNCHANGED <<instances, streamer>>
    BY <1>2 DEF StreamerStep, SendRegister, SendHeartbeat
  <2> QED
    BY <1>1, <2>1, <2>2
<1>3. ASSUME NEW m \in Machines, TimesOut(m) \/ Crash(m) PROVE Sessions'
  <2>1. CallsOK
    BY <1>0, <1>3, AbandonedCalls DEF TimesOut, Crash
  <2>2. InstancesOK /\ TokensOK
    BY <1>0, <1>3 DEF TimesOut, Crash, TypeOK
  <2> QED
    BY <1>1, <2>1, <2>2
<1>4. ASSUME NEW m \in Machines, Stop(m) PROVE Sessions'
  <2>1. CallsOK
    BY <1>0, <1>4 DEF Stop
  <2>2. InstancesOK /\ TokensOK
    BY <1>0, <1>4 DEF Stop, TypeOK
  <2> QED
    BY <1>1, <2>1, <2>2
<1>5. ASSUME NEW m \in Machines, NEW u \in Urls, Start(m, u) PROVE Sessions'
  <2>1. UNCHANGED <<calls, instances>> /\ streamer' = [streamer EXCEPT ![m] = [Off EXCEPT !.on = TRUE, !.url = u]]
    BY <1>5 DEF Start
  <2>2. [Off EXCEPT !.on = TRUE, !.url = u].token = None
    BY DEF Off
  <2>3. TokensOK
    BY <2>1, <2>2 DEF TypeOK
  <2> QED
    BY <1>0, <1>1, <2>1, <2>3
<1>6. ASSUME NEW c \in calls, Refuse(c) PROVE CallsOK /\ TokensOK
  BY <1>0, <1>6 DEF Refuse, TypeOK
<1>7. ASSUME NEW c \in calls, VerifyPending(c) \/ VerifyMismatch(c) PROVE Sessions'
  BY <1>1, <1>6, <1>7 DEF VerifyPending, VerifyMismatch
<1>8. ASSUME NEW c \in calls, VerifyApproved(c) \/ CheckDeregister(c) PROVE Sessions'
  <2>1. c \in Call /\ [c EXCEPT !.pc = "checked"].kind = c.kind /\ [c EXCEPT !.pc = "checked"].token = c.token
    BY <1>0 DEF Call
  <2>2. CallsOK
    BY <1>0, <1>8, <2>1 DEF VerifyApproved, CheckDeregister
  <2>3. UNCHANGED <<instances, streamer>>
    BY <1>8 DEF VerifyApproved, CheckDeregister
  <2> QED
    BY <1>1, <2>2, <2>3
<1>9. ASSUME NEW c \in calls, Register(c) PROVE Sessions'
  <2> DEFINE i == Id[c.from]
  <2>1. i \in Ids /\ c.from \in Machines /\ c.kind = "register" /\ calls' = calls \ {c}
    BY <1>0, <1>9 DEF Register
  <2>2. PICK t \in Tokens :
          /\ t = IF SameStreamer(instances[i], c) THEN instances[i].token ELSE NewToken
          /\ instances' = [instances EXCEPT ![i] =
               IF SameStreamer(@, c) THEN [@ EXCEPT !.fresh = TRUE]
               ELSE [token |-> t, machine |-> c.from, url |-> c.url, fresh |-> TRUE]]
          /\ streamer' = IF c.live THEN [streamer EXCEPT ![c.from].registered = TRUE,
                                                        ![c.from].token = t]
                                  ELSE streamer
    BY <1>9 DEF Register
  <2>3. \A m \in Machines : \/ streamer'[m].token = streamer[m].token
                            \/ m = c.from /\ streamer'[m].token = t
    BY <2>1, <2>2 DEF TypeOK
  <2>4. CASE SameStreamer(instances[i], c)
    <3>1. t = instances[i].token /\ instances[i] # None /\ instances[i].machine = c.from
      BY <2>2, <2>4 DEF SameStreamer
    <3>2. instances' = [instances EXCEPT ![i] = [instances[i] EXCEPT !.fresh = TRUE]]
      BY <2>2, <2>4
    <3>3. InstancesOK
      BY <2>1, <3>1, <3>2 DEF TypeOK, Instance
    <3>4. \A j \in Ids, k \in Ids :
            instances'[j] # None /\ instances'[k] # None /\ instances'[j].token = instances'[k].token => j = k
      BY <3>3 DEF Sessions
    <3>5. ASSUME NEW j \in Ids, NEW m \in Machines, instances'[j] # None,
                 streamer'[m].token = instances'[j].token
          PROVE  instances'[j].machine = m
      <4>1. instances[j] # None /\ instances'[j].token = instances[j].token
            /\ instances'[j].machine = instances[j].machine
        BY <3>3, <3>5
      <4>2. CASE streamer'[m].token = streamer[m].token
        BY <3>5, <4>1, <4>2 DEF Sessions
      <4>3. CASE m = c.from /\ streamer'[m].token = t
        <5>1. i = j
          BY <2>1, <3>1, <3>5, <4>1, <4>3 DEF Sessions
        <5> QED
          BY <3>1, <4>1, <4>3, <5>1
      <4> QED
        BY <2>3, <4>2, <4>3
    <3> QED
      BY <1>0, <2>1, <3>4, <3>5 DEF Sessions
  <2>5. CASE ~SameStreamer(instances[i], c)
    <3>1. t = NewToken /\ Fresh(t)
      BY <2>1, <2>2, <2>5, TokenLeft
    <3>2. /\ instances'[i] = [token |-> t, machine |-> c.from, url |-> c.url, fresh |-> TRUE]
          /\ \A j \in Ids \ {i} : instances'[j] = instances[j]
      BY <2>1, <2>2, <2>5 DEF TypeOK
    <3>3. instances'[i].token = t /\ instances'[i].machine = c.from
      BY <3>2
    <3>4. /\ \A j \in Ids \ {i} : instances'[j] # None => instances'[j].token # t
          /\ \A m \in Machines : streamer[m].token # t
      BY <3>1, <3>2 DEF Fresh
    <3>5. ASSUME NEW j \in Ids, NEW k \in Ids, instances'[j] # None, instances'[k] # None,
                 instances'[j].token = instances'[k].token
          PROVE  j = k
      <4>1. CASE j # i /\ k # i
        BY <3>2, <3>5, <4>1 DEF Sessions
      <4>2. CASE j = i \/ k = i
        BY <3>3, <3>4, <3>5, <4>2
      <4> QED
        BY <4>1, <4>2
    <3>6. ASSUME NEW j \in Ids, NEW m \in Machines, instances'[j] # None,
                 streamer'[m].token = instances'[j].token
          PROVE  instances'[j].machine = m
      <4>1. CASE j = i
        <5>1. streamer'[m].token = t
          BY <3>3, <3>6, <4>1
        <5> QED
          BY <2>3, <3>3, <3>4, <4>1, <5>1
      <4>2. CASE j # i
        <5>1. instances[j] # None /\ instances'[j] = instances[j] /\ instances[j].token # t
          BY <3>2, <3>4, <3>6, <4>2
        <5> QED
          BY <2>3, <3>6, <5>1 DEF Sessions
      <4> QED
        BY <4>1, <4>2
    <3> QED
      BY <1>0, <2>1, <3>5, <3>6 DEF Sessions
  <2> QED
    BY <2>4, <2>5
<1>10. ASSUME NEW c \in calls, Heartbeat(c) PROVE Sessions'
  <2>1. InstancesOK
    BY <1>0, <1>10 DEF Heartbeat, HasSession, TypeOK, Instance
  <2>2. CallsOK /\ TokensOK
    BY <1>0, <1>6, <1>10 DEF Heartbeat
  <2> QED
    BY <1>1, <2>1, <2>2
<1>11. ASSUME NEW c \in calls, Deregister(c) PROVE Sessions'
  BY <1>0, <1>1, <1>11 DEF Deregister, TypeOK
<1>12. ASSUME NEW i \in Ids, Approve(i) \/ RevokeEnrollment(i) \/ RevokeUnknown(i) PROVE Sessions'
  BY <1>0, <1>1, <1>12 DEF Approve, RevokeEnrollment, RevokeUnknown
<1>13. ASSUME NEW i \in Ids, RevokeInstance(i) PROVE Sessions'
  BY <1>0, <1>1, <1>13 DEF RevokeInstance, TypeOK
<1>14. ASSUME NEW i \in Ids, GoStale(i) PROVE Sessions'
  <2>1. InstancesOK
    BY <1>14 DEF GoStale, TypeOK, Instance
  <2> QED
    BY <1>0, <1>1, <1>14, <2>1 DEF GoStale
<1>15. CASE ExpireStale
  BY <1>0, <1>1, <1>15 DEF ExpireStale
<1>16. CASE ManagerRestart
  <2>1. TokensOK
    BY <1>0, <1>16 DEF ManagerRestart, TypeOK
  <2> QED
    BY <1>1, <1>16, <2>1 DEF ManagerRestart
<1>17. CASE UNCHANGED vars
  BY <1>0, <1>1, <1>17 DEF vars
<1> QED
  BY <1>2, <1>3, <1>4, <1>5, <1>7, <1>8, <1>9, <1>10, <1>11, <1>12, <1>13, <1>14, <1>15, <1>16,
     <1>17 DEF Next, Handle

\* registry.go:46-95: whatever is lost, late or restarted, the session token a
\* machine holds for its id is that of its own registration.
THEOREM SessionIsPersonalSafe == Spec => []SessionIsPersonal
<1>1. Init => Bounded /\ Sessions
  BY FS_EmptySet, EnrConstants DEF Init, Bounded, Sessions
<1>2. Sessions => SessionIsPersonal
  BY DEF Sessions, SessionIsPersonal
<1> QED
  BY <1>1, <1>2, StepBounded, StepSessions, EnrollmentTypeOK, PTL DEF Spec
=============================================================================
