------------------------------ MODULE Pairing -------------------------------
(***************************************************************************)
(* Pairing a television (viewer: device.go, the tv_devices part of         *)
(* store.go, the bearer half of session.go and auth.go; tv: Pairing.kt,    *)
(* LinkScreen.kt, Nav.kt).  The TV shows a short code, a phone that is     *)
(* signed in approves it, and the TV's poll trades its long code for a     *)
(* token that names the pairing row.                                       *)
(*                                                                         *)
(* One action is one SQL statement of a handler, or one step of the TV's   *)
(* coroutine; a handler that makes two statements may be overtaken between *)
(* them.  The long code is a secret of the TV and stands for its row.      *)
(***************************************************************************)
EXTENDS ViewerWorld, RateLimiter

CONSTANTS
  Tvs, Codes,
  CodeTtl,       \* devicePairingTTL
  TokenTtl,      \* deviceTokenTTL
  TvCodes,       \* MAX_CODES: codes a TV shows before it stops
  Limit,         \* deviceApprovalsPerHour
  Slack,         \* 1: every poll interval ends before the clock moves on; 0: it need not
  MaxRows        \* bound

ASSUME PaConstants ==
  /\ None \notin Codes \cup {"pending", "approved", "revoked"}
  /\ {CodeTtl, TokenTtl, TvCodes, Limit} \subseteq Nat \ {0}
  /\ MaxRows \in Nat
  /\ Slack \in {0, 1}

PairingIds == 1..MaxRows

VARIABLES
  devices,   \* tv_devices
  created,   \* ids handed out
  blocked,   \* users.is_blocked
  hits,      \* deviceApprovals.hits
  tv,        \* each TV: its screen, the row of its code, the token it keeps
  poll,      \* the token poll of each TV, from request to answer
  phone,     \* the approval each user's phone has in flight
  req,       \* the request each paired TV has in flight
  linked,    \* history: who approved each row while it was open
  ended,     \* history: rows that were unpaired
  accepted,  \* history: the approvals each user was let try in this window
  cut,       \* history: TVs whose pairing screen was left
  blips      \* history: TVs whose poll met a failed statement

paVars == <<now, devices, created, blocked, hits, tv, poll, phone, req,
            linked, ended, accepted, cut, blips, events>>
history == <<linked, ended, accepted, cut, blips>>
web == <<blocked, hits, phone>>
rows == <<devices, created>>

NoRow == [status |-> None, code |-> None, user |-> None, expires |-> 0]
NoToken == [user |-> None, row |-> 0, expires |-> 0]
NoPoll == [pc |-> "none", answer |-> None, token |-> NoToken]
NoReq == [pc |-> "none", kind |-> None, token |-> NoToken,
          dead |-> FALSE, barred |-> FALSE]
SignedOut == [pc |-> "out", row |-> 0, left |-> 0, deadline |-> 0, polled |-> FALSE,
              token |-> NoToken]

PaInit ==
  /\ now = 0
  /\ devices = [r \in PairingIds |-> NoRow] /\ created = 0
  /\ blocked = {}
  /\ hits = [u \in Users |-> {}]
  /\ tv = [t \in Tvs |-> SignedOut]
  /\ poll = [t \in Tvs |-> NoPoll]
  /\ phone = [u \in Users |-> None]
  /\ req = [t \in Tvs |-> NoReq]
  /\ linked = [r \in PairingIds |-> {}] /\ ended = {}
  /\ accepted = [u \in Users |-> {}]
  /\ cut = {} /\ blips = {}
  /\ events = 0

\* A statement or an exchange that may fail.
Fails(f) == IF f THEN Event ELSE UNCHANGED events

-----------------------------------------------------------------------------
(***************************************************************************)
(* tv_devices.                                                             *)
(***************************************************************************)
Open(r) == devices[r].status = "pending" /\ devices[r].expires > now
Taken == {devices[r].code : r \in PairingIds} \ {None}   \* the unique index

\* Faulty: the row's status is not looked at.
DeviceActive_AnyStatus(r, u) == r # 0 /\ devices[r].user = u
DeviceActive(r, u) == r # 0 /\ devices[r].user = u /\ devices[r].status = "approved"

RevokeDevice(r, u) ==
  IF r # 0 /\ devices[r].user = u
  THEN /\ devices' = [devices EXCEPT ![r].status = "revoked", ![r].code = None]
       /\ ended' = ended \cup {r}
  ELSE UNCHANGED <<devices, ended>>

ReapDevicePairings ==
  /\ \E r \in PairingIds : devices[r].status = "pending" /\ ~Open(r)
  /\ devices' = [r \in PairingIds |->
       IF devices[r].status = "pending" /\ ~Open(r) THEN NoRow ELSE devices[r]]
  /\ UNCHANGED <<now, created, web, tv, poll, req, history, events>>

-----------------------------------------------------------------------------
(***************************************************************************)
(* The TV's pairing screen: pairingFlow and pollForToken.                  *)
(***************************************************************************)
SignIn(t) ==
  /\ tv[t].pc = "out"
  /\ tv' = [tv EXCEPT ![t] = [SignedOut EXCEPT !.pc = "asking", !.left = TvCodes]]
  /\ UNCHANGED <<now, rows, web, poll, req, history, events>>

\* The screen after a code is dead: another one, or Idle after MAX_CODES.
NextCode(s) == IF s.left = 0 THEN SignedOut
               ELSE [SignedOut EXCEPT !.pc = "asking", !.left = s.left]

\* handleDeviceCode: a code nobody has, or none after its attempts.  When the
\* answer is lost the row stays and the flow throws: the screen offers a retry.
DeviceCode(t, lost) ==
  /\ tv[t].pc = "asking" /\ created < MaxRows
  /\ now + CodeTtl <= MaxTime   \* bound: the clock reaches the end of every code
  /\ Fails(lost)
  /\ \/ \E code \in Codes \ Taken :
          /\ created' = created + 1
          /\ devices' = [devices EXCEPT ![created + 1] = [status |-> "pending",
                           code |-> code, user |-> None, expires |-> now + CodeTtl]]
          /\ tv' = [tv EXCEPT ![t] = IF lost THEN SignedOut ELSE
               [SignedOut EXCEPT !.pc = "showing", !.row = created + 1,
                  !.left = tv[t].left - 1, !.deadline = now + CodeTtl]]
     \/ /\ Codes \subseteq Taken
        /\ tv' = [tv EXCEPT ![t] = SignedOut]
        /\ UNCHANGED rows
  /\ UNCHANGED <<now, web, poll, req, history>>

PollStart(t) ==
  /\ tv[t].pc = "showing" /\ poll[t].pc = "none" /\ ~tv[t].polled
  /\ poll' = [poll EXCEPT ![t].pc = "read"]
  /\ tv' = [tv EXCEPT ![t].polled = TRUE]
  /\ UNCHANGED <<now, rows, web, req, history, events>>

Answered(t, a, token) ==
  poll' = [poll EXCEPT ![t] = [pc |-> "answer", answer |-> a, token |-> token]]

\* handleDeviceToken: the pairing.
DevicePairing(t) ==
  /\ poll[t].pc = "read"
  /\ LET d == devices[tv[t].row] IN
       \/ /\ d.status \in {None, "revoked"} \/ (d.status = "pending" /\ ~Open(tv[t].row))
          /\ Answered(t, "expired_token", NoToken)
       \/ Open(tv[t].row) /\ Answered(t, "authorization_pending", NoToken)
       \/ /\ d.status = "approved"
          /\ poll' = [poll EXCEPT ![t] = [pc |-> "mint", answer |-> d.user, token |-> NoToken]]
  /\ UNCHANGED <<now, rows, web, tv, req, history, events>>

\* handleDeviceToken: the user; no difference between an error and nobody.
MintToken(t, fails) ==
  /\ poll[t].pc = "mint"
  /\ Fails(fails)
  /\ IF fails \/ poll[t].answer \in blocked
     THEN Answered(t, "expired_token", NoToken)
     ELSE Answered(t, "granted", [user |-> poll[t].answer, row |-> tv[t].row,
                                  expires |-> now + TokenTtl])
  /\ blips' = IF fails THEN blips \cup {t} ELSE blips
  /\ UNCHANGED <<now, rows, web, tv, req, linked, ended, accepted, cut>>

\* Faulty: a poll that failed costs the code.
StaysOn_Answered(a, lost) == ~lost /\ a = "authorization_pending"
StaysOn(a, lost) == lost \/ a = "authorization_pending"

\* The answer reaches the TV, or is lost: then it polls again.
PollAnswer(t, lost) ==
  /\ poll[t].pc = "answer"
  /\ Fails(lost)
  /\ poll' = [poll EXCEPT ![t] = NoPoll]
  /\ tv' = [tv EXCEPT ![t] =
       IF StaysOn(poll[t].answer, lost) THEN @
       ELSE IF poll[t].answer = "granted" THEN [SignedOut EXCEPT !.pc = "in", !.token = poll[t].token]
       ELSE NextCode(@)]
  /\ UNCHANGED <<now, rows, web, req, history>>

\* withTimeoutOrNull(expiresIn), which cancels a poll in flight.
CodeTimeout(t) ==
  /\ tv[t].pc = "showing" /\ now >= tv[t].deadline
  /\ tv' = [tv EXCEPT ![t] = NextCode(@)]
  /\ poll' = [poll EXCEPT ![t] = NoPoll]
  /\ UNCHANGED <<now, rows, web, req, history, events>>

LeaveScreen(t) ==
  /\ Event
  /\ tv[t].pc \in {"asking", "showing"}
  /\ tv' = [tv EXCEPT ![t] = SignedOut]
  /\ poll' = [poll EXCEPT ![t] = NoPoll]
  /\ cut' = cut \cup {t}
  /\ UNCHANGED <<now, rows, web, req, linked, ended, accepted, blips>>

-----------------------------------------------------------------------------
(***************************************************************************)
(* The phone and the account page, and the admin.                          *)
(***************************************************************************)
\* handleDeviceApprove up to the limiter; any code may be typed.
TypeCode(u, code) ==
  /\ u \notin blocked /\ phone[u] = None
  /\ code \in Taken
  /\ hits' = Hit(hits, u, now, Limit)
  /\ IF Allows(hits, u, now, Limit)
     THEN /\ phone' = [phone EXCEPT ![u] = code]
          /\ accepted' = [accepted EXCEPT ![u] = @ \cup {ThisCall(hits, u, now)}]
     ELSE UNCHANGED <<phone, accepted>>
  /\ UNCHANGED <<now, rows, blocked, tv, poll, req, linked, ended, cut, blips, events>>

Approvable(r, code) == devices[r].code = code /\ Open(r)

ApproveDevicePairing(u) ==
  /\ phone[u] # None
  /\ LET bound == {r \in PairingIds : Approvable(r, phone[u])} IN
       /\ devices' = [r \in PairingIds |-> IF r \in bound
            THEN [devices[r] EXCEPT !.user = u, !.status = "approved", !.code = None] ELSE devices[r]]
       /\ linked' = [r \in PairingIds |->
            IF r \in bound /\ Open(r) THEN linked[r] \cup {u} ELSE linked[r]]
  /\ phone' = [phone EXCEPT ![u] = None]
  /\ UNCHANGED <<now, created, blocked, hits, tv, poll, req, ended, accepted, cut, blips, events>>

DeviceRevoke(u, r) ==
  /\ Event
  /\ u \notin blocked /\ devices[r].user = u
  /\ RevokeDevice(r, u)
  /\ UNCHANGED <<now, created, web, tv, poll, req, linked, accepted, cut, blips>>

SetUserBlocked(u) ==
  /\ Event
  /\ blocked' = IF u \in blocked THEN blocked \ {u} ELSE blocked \cup {u}
  /\ req' = [t \in Tvs |-> [req[t] EXCEPT !.barred = @ /\ req[t].token.user # u]]
  /\ UNCHANGED <<now, rows, hits, phone, tv, poll, history>>

-----------------------------------------------------------------------------
(***************************************************************************)
(* Requests of a paired TV: currentUser, deviceUser, then a handler.       *)
(***************************************************************************)
readBearer(token) == token.expires > now

\* What makes a token worthless: its time, an unpairing, or that its row was
\* never approved by its user.
Dead(token) == \/ ~readBearer(token) \/ token.row \in ended
               \/ token.user \notin linked[token.row]

Request(t, kind) ==
  /\ tv[t].pc = "in" /\ req[t].pc = "none"
  /\ req' = [req EXCEPT ![t] = [pc |-> "device", kind |-> kind, token |-> tv[t].token,
                                dead |-> Dead(tv[t].token),
                                barred |-> tv[t].token.user \in blocked]]
  /\ UNCHANGED <<now, rows, web, tv, poll, history, events>>

\* handleTVMe says signed_in false, which the app takes for the end of the
\* pairing; a sign-out ends it whatever the server says.
Anonymous(t) ==
  /\ req' = [req EXCEPT ![t] = NoReq]
  /\ tv' = [tv EXCEPT ![t] = IF req[t].kind = "other" THEN @ ELSE SignedOut]

deviceUser(t, fails) ==
  /\ req[t].pc = "device"
  /\ Fails(fails)
  /\ IF ~fails /\ readBearer(req[t].token) /\ DeviceActive(req[t].token.row, req[t].token.user)
     THEN req' = [req EXCEPT ![t].pc = "user"] /\ UNCHANGED tv
     ELSE Anonymous(t)
  /\ UNCHANGED <<now, rows, web, poll, history>>

currentUser(t, fails) ==
  /\ req[t].pc = "user"
  /\ Fails(fails)
  /\ IF ~fails /\ req[t].token.user \notin blocked
     THEN req' = [req EXCEPT ![t].pc = "in"] /\ UNCHANGED tv
     ELSE Anonymous(t)
  /\ UNCHANGED <<now, rows, web, poll, history>>

\* The handler: handleDeviceLogout revokes the caller's own row.
Handle(t) ==
  /\ req[t].pc = "in"
  /\ IF req[t].kind = "logout"
     THEN RevokeDevice(req[t].token.row, req[t].token.user) /\ tv' = [tv EXCEPT ![t] = SignedOut]
     ELSE UNCHANGED <<devices, ended, tv>>
  /\ req' = [req EXCEPT ![t] = NoReq]
  /\ UNCHANGED <<now, created, web, poll, linked, accepted, cut, blips, events>>

\* The request or its answer is lost: only a sign-out goes on without it.
RequestLost(t) ==
  /\ Event
  /\ req[t].pc # "none"
  /\ req' = [req EXCEPT ![t] = NoReq]
  /\ tv' = [tv EXCEPT ![t] = IF req[t].kind = "logout" THEN SignedOut ELSE @]
  /\ UNCHANGED <<now, rows, web, poll, history>>

-----------------------------------------------------------------------------
\* The viewer restarts: the limiter forgets, calls in flight are cut off.
Restart ==
  /\ Event
  /\ hits' = [u \in Users |-> {}] /\ accepted' = [u \in Users |-> {}]
  /\ phone' = [u \in Users |-> None]
  /\ poll' = [t \in Tvs |-> NoPoll]
  /\ req' = [t \in Tvs |-> NoReq]
  /\ tv' = [t \in Tvs |-> IF req[t].kind = "logout" THEN SignedOut ELSE tv[t]]
  /\ UNCHANGED <<now, rows, blocked, linked, ended, cut, blips>>

PaTick ==
  /\ now < MaxTime
  /\ Slack = 1 => \A t \in Tvs : tv[t].pc = "showing" => tv[t].polled /\ poll[t].pc = "none"
  /\ now' = now + 1
  /\ tv' = [t \in Tvs |-> [tv[t] EXCEPT !.polled = FALSE]]
  /\ accepted' = [u \in Users |-> {c \in accepted[u] : c[1] > now' - Window}]
  /\ UNCHANGED <<rows, web, poll, req, linked, ended, cut, blips, events>>

TvStep(t) ==
  \/ DeviceCode(t, FALSE) \/ PollStart(t) \/ DevicePairing(t) \/ MintToken(t, FALSE)
  \/ PollAnswer(t, FALSE) \/ CodeTimeout(t)
  \/ deviceUser(t, FALSE) \/ currentUser(t, FALSE) \/ Handle(t)

PaNext ==
  \/ \E t \in Tvs : \/ SignIn(t) \/ TvStep(t) \/ LeaveScreen(t) \/ RequestLost(t)
                    \/ DeviceCode(t, TRUE) \/ MintToken(t, TRUE) \/ PollAnswer(t, TRUE)
                    \/ deviceUser(t, TRUE) \/ currentUser(t, TRUE)
                    \/ \E kind \in {"me", "logout", "other"} : Request(t, kind)
  \/ \E u \in Users : \/ ApproveDevicePairing(u) \/ SetUserBlocked(u)
                      \/ \E code \in Codes : TypeCode(u, code)
                      \/ \E r \in PairingIds : DeviceRevoke(u, r)
  \/ ReapDevicePairings \/ Restart \/ PaTick

-----------------------------------------------------------------------------
(***************************************************************************)
(* Properties.                                                             *)
(***************************************************************************)
Tokens == [user : Users \cup {None}, row : PairingIds \cup {0}, expires : Nat]
Calls == SUBSET (Nat \X Nat)

PaTypeOK ==
  /\ now \in Nat /\ events \in Nat /\ created \in 0..MaxRows
  /\ devices \in [PairingIds -> [status : {None, "pending", "approved", "revoked"},
                    code : Codes \cup {None}, user : Users \cup {None}, expires : Nat]]
  /\ blocked \subseteq Users /\ ended \subseteq PairingIds
  /\ cut \subseteq Tvs /\ blips \subseteq Tvs
  /\ hits \in [Users -> Calls] /\ accepted \in [Users -> Calls]
  /\ phone \in [Users -> Codes \cup {None}]
  /\ linked \in [PairingIds -> SUBSET Users]
  /\ tv \in [Tvs -> [pc : {"out", "asking", "showing", "in"}, row : PairingIds \cup {0},
               left : Nat, deadline : Nat, polled : BOOLEAN, token : Tokens]]
  /\ poll \in [Tvs -> [pc : {"none", "read", "mint", "answer"}, token : Tokens,
        answer : Users \cup {None, "expired_token", "authorization_pending", "granted"}]]
  /\ req \in [Tvs -> [pc : {"none", "device", "user", "in"}, token : Tokens,
               kind : {None, "me", "logout", "other"}, dead : BOOLEAN, barred : BOOLEAN]]

\* A request of a television is served only if, when it came in, its token was
\* live: approved by its user while the code was open, and not unpaired, signed
\* out or run out; nor is one served whose user was blocked all the time
\* (handleDeviceToken, deviceUser, currentUser against approval and revocation).
AccessIsGranted == \A t \in Tvs : req[t].pc = "in" => ~req[t].dead /\ ~req[t].barred

\* In no window does a user try more than Limit codes, however calls, prunings
\* and sweeps of other users' keys fall (rateLimiter.allow, sweepLocked).
QuotaHolds == \A u \in Users : Cardinality(accepted[u]) <= Limit

\* A television whose code was approved with some polls to spare is signed in,
\* though answers are lost and the viewer restarts, unless its screen is left,
\* it is unpaired, its user is blocked or the database fails (pollForToken).
Approved(t, r) == tv[t].pc = "showing" /\ tv[t].row = r /\ devices[r].status = "approved"
Spared(t, r) == tv[t].pc = "in" \/ t \in cut \/ r \in ended \/ devices[r].user \in blocked
ApprovedIsPaired == \A t \in Tvs, r \in PairingIds :
  (Approved(t, r) /\ now + 1 + MaxEvents - events < tv[t].deadline)
    ~> (Spared(t, r) \/ t \in blips)

\* Not so in this code: see the README's divergences.
\* A television whose code was approved is signed in.
LinkedTvIsPaired == \A t \in Tvs, r \in PairingIds : Approved(t, r) ~> Spared(t, r)

\* A television forgets its token only when somebody signs it out or the token
\* is dead.
TvKeepsItsToken == [][\A t \in Tvs :
  tv[t].pc = "in" /\ tv'[t].pc # "in" =>
    req[t].kind = "logout" \/ req[t].dead \/ req[t].barred \/ Dead(tv[t].token)
    \/ tv[t].token.user \in blocked]_paVars

PaSpec == PaInit /\ [][PaNext]_paVars
PaFairSpec == PaSpec /\ WF_paVars(PaTick) /\ \A t \in Tvs : WF_paVars(TvStep(t))
=============================================================================
