------------------------------ MODULE Accounts ------------------------------
(***************************************************************************)
(* Sign-in and the saved list of the viewer: the Google flow               *)
(* (viewer/auth.go, session.go), the user rows and bookmarks               *)
(* (viewer/store.go), the saved-titles API (viewer/server.go) and the      *)
(* script that calls it (viewer/static/bookmarks.js).                      *)
(*                                                                         *)
(* The tabs of a browser share its cookies and its localStorage.  A tab    *)
(* makes one navigation at a time: the request leaves with the cookies of  *)
(* that moment, and the answer, a later step, sets cookies when it arrives *)
(* (that of the callback in a step after the server made it).  The calls   *)
(* bookmarks.js makes from a page run beside it: sent, authenticated,      *)
(* written, answered.                                                      *)
(* Google is external: it returns a browser to the callback with the state *)
(* it was given and a code that is good for one exchange.  The callback    *)
(* may open in another tab than the one that left, even in another browser *)
(* (an in-app browser hands the address over to the phone's own).          *)
(***************************************************************************)
EXTENDS Naturals, FiniteSets

CONSTANTS
  Browsers,
  Tabs,
  Subs,       \* Google accounts, by their "sub" claim
  Titles,     \* catalogue titles
  Pages,      \* pages behind requireLogin
  Home,       \* the page safeNext falls back to
  Offsite,    \* a return path safeNext refuses
  Calls,      \* identities of the saved-titles calls in flight
  None,
  MaxNonce,   \* bound on the sign-ins started
  MaxEvents   \* bound on the failures, expiries, blocks and removed titles

ASSUME AccountsConstants ==
  /\ Home \in Pages
  /\ Offsite \notin Pages
  /\ None \notin Subs \cup Tabs \cup Pages
  /\ MaxNonce \in Nat
  /\ MaxEvents \in Nat

ASSUME AccountsFinite == IsFiniteSet(Subs)

VARIABLES
  sub,        \* users: the Google account of each row, None when there is none
  blocked,    \* users.is_blocked
  titles,     \* the titles that exist
  saved,      \* user_bookmarks
  session,    \* the session cookie of each browser: a user id, 0 when none
  state,      \* the OAuth state cookie of each browser: nonce 0 when none
  local,      \* localStorage: the list saved before sign-in
  browser,    \* the browser each tab is opened in; it never changes
  tab,        \* what each tab shows or waits for
  marks,      \* savedIDs of the page each tab shows
  call,       \* the saved-titles calls
  lastNonce,  \* the newest nonce minted
  spent,      \* codes Google has exchanged, by the nonce they came with
  events,     \* failures and admin actions so far
  consented,  \* accounts that consented in a flow each browser started
  ever        \* bookmarks that were ever written

rows == <<sub, blocked, titles, saved>>
cookies == <<session, state, local>>
pages == <<browser, tab, marks>>
history == <<lastNonce, spent, events, consented, ever>>
vars == <<sub, blocked, titles, saved, session, state, local, browser, tab, marks,
          call, lastNonce, spent, events, consented, ever>>

Ids == 1 .. Cardinality(Subs)
NoState == [nonce |-> 0, next |-> Home]

Blank == [at |-> "blank", user |-> 0, next |-> Home, want |-> None, nonce |-> 0,
          who |-> None, state |-> NoState, clears |-> FALSE]
Idle == [kind |-> "idle", tab |-> None, sess |-> 0, user |-> 0, ids |-> {},
         step |-> "idle"]

Init ==
  /\ sub = [i \in Ids |-> None]
  /\ blocked = {}
  /\ titles = Titles
  /\ saved = {}
  /\ session = [b \in Browsers |-> 0]
  /\ state = [b \in Browsers |-> NoState]
  /\ local \in [Browsers -> SUBSET Titles]
  /\ browser \in [Tabs -> Browsers]
  /\ tab = [t \in Tabs |-> Blank]
  /\ marks = [t \in Tabs |-> {}]
  /\ call = [c \in Calls |-> Idle]
  /\ lastNonce = 0
  /\ spent = {}
  /\ events = 0
  /\ consented = [b \in Browsers |-> {}]
  /\ ever = {}

-----------------------------------------------------------------------------
(***************************************************************************)
(* The rows                                                                *)
(***************************************************************************)
SavedTitleIDs(i) == {x \in titles : <<i, x>> \in saved}

\* Faulty: a blocked account is loaded like any other.
UserByID_Blocked(i) == IF i \in Ids /\ sub[i] # None THEN i ELSE 0

\* The account a session names; 0 when its row is gone or blocked.
UserByID(i) == IF i \in Ids /\ sub[i] # None /\ i \notin blocked THEN i ELSE 0

Taken == {i \in Ids : sub[i] # None}
RowOf(s) == {i \in Ids : sub[i] = s}

\* The row UpsertGoogleUser inserts or refreshes: one per Google account.
UpsertedId(s) == IF RowOf(s) # {} THEN CHOOSE i \in RowOf(s) : TRUE
                                  ELSE 1 + Cardinality(Taken)

UpsertGoogleUser(s) == sub' = [sub EXCEPT ![UpsertedId(s)] = s]

Fault == events < MaxEvents /\ events' = events + 1

-----------------------------------------------------------------------------
(***************************************************************************)
(* Pages                                                                   *)
(***************************************************************************)
safeNext(p) == IF p = Offsite THEN Home ELSE p

\* A page that is left takes its script with it: nobody reads the answers of
\* the calls it made.
Abandon(t) == [c \in Calls |-> IF call[c].tab = t THEN [call[c] EXCEPT !.tab = None]
                                                  ELSE call[c]]

LeavePage(t, to) ==
  /\ tab' = [tab EXCEPT ![t] = to]
  /\ marks' = [marks EXCEPT ![t] = {}]
  /\ call' = Abandon(t)

Loading(t, p) ==
  [Blank EXCEPT !.at = "loading", !.next = p, !.user = session[browser[t]]]

Visit(t, p) ==
  /\ tab[t].at \in {"blank", "login", "page", "google"}
  /\ LeavePage(t, Loading(t, p))
  /\ UNCHANGED <<rows, browser, cookies, history>>

(***************************************************************************)
(* currentUser, requireLogin and the page handler: a session that names no *)
(* account is cleared, and whoever is not signed in is sent to the front   *)
(* door, which remembers the page.  A database that fails makes the        *)
(* request anonymous and leaves the cookie alone.                          *)
(***************************************************************************)
Merge(t, sess) ==
  [kind |-> "merge", tab |-> t, sess |-> sess, user |-> 0,
   ids |-> local[browser[t]], step |-> "sent"]

\* Only an account gets past the gate of the pages.
requireLogin(me) == me # 0

\* The front door remembers the page that was asked for.
FrontDoor(p) == [Blank EXCEPT !.at = "login", !.next = safeNext(p)]

\* The page appears for the account me; a signed-in one first folds the local
\* list in (mergeLocal).
Shown(t, me, sess) ==
  LET b == browser[t] IN
  /\ tab[t].at = "loading"
  /\ session' = [session EXCEPT ![b] = sess]
  /\ tab' = [tab EXCEPT ![t] = IF requireLogin(me)
                                 THEN [@ EXCEPT !.at = "page", !.user = me]
                                 ELSE FrontDoor(@.next)]
  /\ marks' = [marks EXCEPT ![t] = SavedTitleIDs(me)]
  /\ IF me = 0 \/ local[b] = {}
       THEN UNCHANGED call
       ELSE \E c \in Calls : /\ call[c] = Idle
                             /\ call' = [call EXCEPT ![c] = Merge(t, sess)]

Load(t) ==
  LET me == UserByID(tab[t].user) IN
  /\ Shown(t, me, IF tab[t].user # 0 /\ me = 0 THEN 0 ELSE session[browser[t]])
  /\ UNCHANGED <<rows, browser, state, local, history>>

LoadFails(t) ==
  /\ tab[t].user # 0
  /\ Fault
  /\ Shown(t, 0, session[browser[t]])
  /\ UNCHANGED <<rows, browser, state, local, lastNonce, spent, consented, ever>>

handleLogout(t) ==
  /\ tab[t].at = "page"
  /\ session' = [session EXCEPT ![browser[t]] = 0]
  /\ LeavePage(t, FrontDoor(tab[t].next))
  /\ UNCHANGED <<rows, browser, state, local, history>>

-----------------------------------------------------------------------------
(***************************************************************************)
(* Sign-in                                                                 *)
(***************************************************************************)
setState(n, p) == [nonce |-> n, next |-> p]

\* The consent screen: it carries the nonce, and the tab's user wants page p.
authCode(n, p) == [Blank EXCEPT !.at = "google", !.nonce = n, !.want = p]

\* The button of the front door, or a link elsewhere that names a return path.
\* Whoever is signed in already goes straight back.
handleGoogleStart(t, p) ==
  LET b == browser[t] IN
  /\ tab[t].at \in {"login", "blank"}
  /\ tab[t].at = "login" => p \in {tab[t].next, Offsite}
  /\ session' = [session EXCEPT ![b] = UserByID(@)]
  /\ IF UserByID(session[b]) # 0
       THEN /\ LeavePage(t, Loading(t, safeNext(p)))
            /\ UNCHANGED <<state, lastNonce>>
       ELSE /\ lastNonce < MaxNonce
            /\ lastNonce' = lastNonce + 1
            /\ state' = [state EXCEPT ![b] = setState(lastNonce + 1, safeNext(p))]
            /\ LeavePage(t, authCode(lastNonce + 1, safeNext(p)))
  /\ UNCHANGED <<rows, browser, local, spent, events, consented, ever>>

\* Google sends the browser to the callback; s = None is "Cancel".
Consent(t, s, u) ==
  LET b == browser[t] IN
  /\ tab[t].at = "google"
  /\ u # t => tab[u].at = "blank"
  /\ consented' = [consented EXCEPT ![b] = IF s = None THEN @ ELSE @ \cup {s}]
  /\ tab' = [tab EXCEPT ![t] = Blank,
                        ![u] = [tab[t] EXCEPT !.at = "calling", !.who = s,
                                              !.state = state[browser[u]]]]
  /\ UNCHANGED <<rows, browser, cookies, marks, call, lastNonce, spent, events, ever>>

\* The answer to a callback.  It passed currentUser on the way.
Answered(t, i, p) ==
  LET me == session[browser[t]] IN
  tab' = [tab EXCEPT ![t].at = "back", ![t].user = i, ![t].next = p,
                     ![t].clears = me # 0 /\ UserByID(me) = 0]

\* Faulty: any state cookie will do.
Accepted_AnyState(t) == tab[t].state.nonce # 0

Accepted(t) == tab[t].state.nonce # 0 /\ tab[t].state.nonce = tab[t].nonce

\* The code is there, and Google has not exchanged it before; a flow has one
\* callback, so a code does not come twice here.
Exchanged(t) == tab[t].who # None /\ tab[t].nonce \notin spent

CallbackRefused(t) ==
  /\ tab[t].at = "calling"
  /\ ~Accepted(t) \/ ~Exchanged(t)
  /\ Answered(t, 0, tab[t].state.next)
  /\ UNCHANGED <<rows, browser, cookies, marks, call, history>>

\* exchange, an unverified address or the store fails.
CallbackFails(t) ==
  /\ tab[t].at = "calling"
  /\ Accepted(t)
  /\ Fault
  /\ Answered(t, 0, tab[t].state.next)
  /\ spent' = spent \cup {tab[t].nonce}
  /\ UNCHANGED <<rows, browser, cookies, marks, call, lastNonce, consented, ever>>

\* exchange, UpsertGoogleUser and its UserByID, which hides a blocked account.
CallbackSignsIn(t) ==
  LET i == UpsertedId(tab[t].who) IN
  /\ tab[t].at = "calling"
  /\ Accepted(t)
  /\ Exchanged(t)
  /\ spent' = spent \cup {tab[t].nonce}
  /\ UpsertGoogleUser(tab[t].who)
  /\ Answered(t, IF i \in blocked THEN 0 ELSE i, tab[t].state.next)
  /\ UNCHANGED <<blocked, titles, saved, browser, cookies, marks, call, lastNonce, events,
                 consented, ever>>

\* The answer arrives: clearState whatever happened, setSession, and the redirect
\* to the page or to the front door, which lets whoever is signed in through.
Return(t) ==
  LET b == browser[t]
      i == IF tab[t].user # 0 THEN tab[t].user
           ELSE IF tab[t].clears THEN 0 ELSE session[b]
  IN  /\ tab[t].at = "back"
      /\ state' = [state EXCEPT ![b] = NoState]
      /\ session' = [session EXCEPT ![b] = i]
      /\ tab' = [tab EXCEPT ![t] = IF requireLogin(i)
                                     THEN [Loading(t, @.next) EXCEPT !.user = i]
                                     ELSE FrontDoor(@.next)]
      /\ UNCHANGED <<rows, browser, local, marks, call, history>>

-----------------------------------------------------------------------------
(***************************************************************************)
(* The saved list                                                          *)
(***************************************************************************)
Send(t, c, kind, ids) ==
  /\ tab[t].at = "page"
  /\ call[c] = Idle
  /\ call' = [call EXCEPT ![c] = [kind |-> kind, tab |-> t, user |-> 0, ids |-> ids,
                                  sess |-> session[browser[t]], step |-> "sent"]]
  /\ UNCHANGED <<rows, browser, cookies, tab, history>>

\* A click marks the button before the server knows of it.
Click(t, c, x) ==
  IF x \in marks[t]
    THEN /\ Send(t, c, "remove", {x})
         /\ marks' = [marks EXCEPT ![t] = @ \ {x}]
    ELSE /\ Send(t, c, "add", {x})
         /\ marks' = [marks EXCEPT ![t] = @ \cup {x}]

ClickClear(t, c) ==
  /\ marks[t] # {}
  /\ Send(t, c, "clear", {})
  /\ UNCHANGED marks

\* currentUser and requireUser: without a user the call is refused.
requireUser(c) ==
  LET i == UserByID(call[c].sess) IN
  /\ call[c].step = "sent"
  /\ call' = [call EXCEPT ![c].user = i,
                          ![c].step = IF i = 0 THEN "refused" ELSE "authed"]
  /\ UNCHANGED <<rows, cookies, pages, history>>

Written(k) ==
  LET mine == {<<k.user, x>> : x \in k.ids} IN
  CASE k.kind = "add"    -> saved \cup mine
    [] k.kind = "remove" -> saved \ mine
    [] k.kind = "clear"  -> {e \in saved : e[1] # k.user}
    [] k.kind = "merge"  -> saved \cup {e \in mine : e[2] \in titles}

\* The foreign key refuses a title that is gone; a merge only ignores it.
Writable(k) == k.kind = "add" => k.ids \subseteq titles

Write(c) ==
  /\ call[c].step = "authed"
  /\ Writable(call[c])
  /\ saved' = Written(call[c])
  /\ ever' = ever \cup saved'
  /\ call' = [call EXCEPT ![c].step = IF call[c].kind = "merge" THEN "merged" ELSE "done"]
  /\ UNCHANGED <<sub, blocked, titles, cookies, pages, lastNonce, spent, events,
                 consented>>

WriteRefused(c) ==
  /\ call[c].step = "authed"
  /\ ~Writable(call[c])
  /\ call' = [call EXCEPT ![c].step = "failed"]
  /\ UNCHANGED <<rows, cookies, pages, history>>

\* handleMergeSaved reads the list back for its answer.
Reload(c) ==
  /\ call[c].step = "merged"
  /\ call' = [call EXCEPT ![c].step = "done", ![c].ids = SavedTitleIDs(call[c].user)]
  /\ UNCHANGED <<rows, cookies, pages, history>>

\* The database or the connection fails, before the write or after it.
CallFails(c) ==
  /\ call[c].step \in {"sent", "authed", "merged", "done"}
  /\ Fault
  /\ call' = [call EXCEPT ![c].step = "failed"]
  /\ UNCHANGED <<rows, cookies, pages, lastNonce, spent, consented, ever>>

-----------------------------------------------------------------------------

\* The marks after the answer: a write that failed is reverted, a merge or a
\* clear that succeeded replaces them.
MarksAfter(k, now) ==
  CASE k.step # "done" /\ k.kind = "add"    -> now \ k.ids
    [] k.step # "done" /\ k.kind = "remove" -> now \cup k.ids
    [] k.step = "done" /\ k.kind = "merge"  -> k.ids
    [] k.step = "done" /\ k.kind = "clear"  -> {}
    [] OTHER -> now

\* Faulty: the local list is dropped whatever the server said.
LocalAfter_Always(k, now) == IF k.kind = "merge" THEN {} ELSE now

LocalAfter(k, now) == IF k.kind = "merge" /\ k.step = "done" THEN {} ELSE now

\* A 401 whose session named nobody takes the cookie with it.
Answer(c) ==
  LET k == call[c]
      b == browser[k.tab]
  IN  /\ k.step \in {"done", "failed", "refused"}
      /\ k.tab # None
      /\ call' = [call EXCEPT ![c] = Idle]
      /\ marks' = [marks EXCEPT ![k.tab] = MarksAfter(k, @)]
      /\ local' = [local EXCEPT ![b] = LocalAfter(k, @)]
      /\ session' = [session EXCEPT ![b] = IF k.step = "refused" /\ k.sess # 0 THEN 0 ELSE @]
      /\ UNCHANGED <<rows, browser, state, tab, history>>

\* The page that sent the call is gone: nobody reads the answer.
Unread(c) ==
  /\ call[c].step \in {"done", "failed", "refused"}
  /\ call[c].tab = None
  /\ call' = [call EXCEPT ![c] = Idle]
  /\ UNCHANGED <<rows, cookies, pages, history>>

-----------------------------------------------------------------------------
(***************************************************************************)
(* The admin, and time                                                     *)
(***************************************************************************)
SetUserBlocked(i) ==
  /\ sub[i] # None
  /\ Fault
  /\ blocked' = (blocked \cup {i}) \ (blocked \cap {i})
  /\ UNCHANGED <<sub, titles, saved, cookies, pages, call, lastNonce, spent,
                 consented, ever>>

\* The bookmarks of a deleted title go with it (ON DELETE CASCADE).
DeleteTitle(x) ==
  /\ x \in titles
  /\ Fault
  /\ titles' = titles \ {x}
  /\ saved' = {e \in saved : e[2] # x}
  /\ UNCHANGED <<sub, blocked, cookies, pages, call, lastNonce, spent, consented,
                 ever>>

\* A cookie reaches its MaxAge; the exp inside it is the same moment.
CookieExpires(b) ==
  /\ session[b] # 0 \/ state[b] # NoState
  /\ Fault
  /\ \/ session' = [session EXCEPT ![b] = 0] /\ UNCHANGED state
     \/ state' = [state EXCEPT ![b] = NoState] /\ UNCHANGED session
  /\ UNCHANGED <<rows, local, pages, call, lastNonce, spent, consented, ever>>

TabStep(t) ==
  \/ \E p \in Pages : Visit(t, p)
  \/ Load(t)
  \/ LoadFails(t)
  \/ handleLogout(t)
  \/ \E p \in Pages \cup {Offsite} : handleGoogleStart(t, p)
  \/ \E s \in Subs \cup {None}, u \in Tabs : Consent(t, s, u)
  \/ CallbackRefused(t)
  \/ CallbackFails(t)
  \/ CallbackSignsIn(t)
  \/ Return(t)

CallStep(c) ==
  \/ \E t \in Tabs, x \in Titles : Click(t, c, x)
  \/ \E t \in Tabs : ClickClear(t, c)
  \/ requireUser(c)
  \/ Write(c)
  \/ WriteRefused(c)
  \/ Reload(c)
  \/ CallFails(c)
  \/ Answer(c)
  \/ Unread(c)

Next ==
  \/ \E t \in Tabs : TabStep(t)
  \/ \E c \in Calls : CallStep(c)
  \/ \E i \in Ids : SetUserBlocked(i)
  \/ \E x \in Titles : DeleteTitle(x)
  \/ \E b \in Browsers : CookieExpires(b)

Spec == Init /\ [][Next]_vars
-----------------------------------------------------------------------------

\* The values the variables range over.
TypeOK ==
  /\ sub \in [Ids -> Subs \cup {None}]
  /\ blocked \subseteq Ids
  /\ titles \subseteq Titles
  /\ saved \subseteq Ids \X Titles
  /\ session \in [Browsers -> {0} \cup Ids]
  /\ state \in [Browsers -> [nonce : Nat, next : Pages]]
  /\ local \in [Browsers -> SUBSET Titles]
  /\ browser \in [Tabs -> Browsers]
  /\ tab \in [Tabs -> [at : {"blank", "loading", "page", "login", "google",
                             "calling", "back"},
                       user : {0} \cup Ids, next : Pages, want : Pages \cup {None},
                       nonce : Nat, who : Subs \cup {None},
                       state : [nonce : Nat, next : Pages], clears : BOOLEAN]]
  /\ marks \in [Tabs -> SUBSET Titles]
  /\ call \in [Calls -> [kind : {"idle", "add", "remove", "clear", "merge"},
                         tab : Tabs \cup {None}, sess : {0} \cup Ids,
                         user : {0} \cup Ids, ids : SUBSET Titles,
                         step : {"idle", "sent", "authed", "merged", "done", "failed",
                                 "refused"}]]
  /\ lastNonce \in Nat
  /\ spent \subseteq Nat
  /\ events \in Nat
  /\ consented \in [Browsers -> SUBSET Subs]
  /\ ever \subseteq Ids \X Titles

\* A browser is only ever signed in as an account that consented, in that very
\* browser, to a flow the browser started, and a sign-in that succeeds takes its
\* tab to the page that flow left from: a callback that opens elsewhere or is
\* overtaken by another tab's flow signs nobody in and leads nobody astray
\* (handleGoogleCallback, UpsertGoogleUser).
FlowsAreNotMixed ==
  /\ \A b \in Browsers : session[b] # 0 => sub[session[b]] \in consented[b]
  /\ \A t \in Tabs : tab[t].at = "back" /\ tab[t].user # 0
                      => tab[t].next = tab[t].want /\ sub[tab[t].user] = tab[t].who

\* "localStorage is only dropped once the server has accepted the list": a title
\* leaves a browser's local list only after it was in the saved list of an account
\* of that browser, unless the title itself is gone by then (mergeLocal,
\* MergeBookmarks).
NothingSavedIsLost ==
  [][\A b \in Browsers : \A x \in (local[b] \ local'[b]) \cap titles :
       \E i \in Taken : sub[i] \in consented[b] /\ <<i, x>> \in ever]_vars

\* What an account has open: pages, calls past the gate, sign-ins answered.
Using(i) ==
  {t \in Tabs : tab[t].user = i /\ tab[t].at \in {"page", "back"}}
    \cup {c \in Calls : call[c].user = i /\ call[c].step = "authed"}

\* A blocked account gets nothing new, whatever pages and cookies it still has: no
\* page, no session, no call past the gate; and its saved list changes only by the
\* calls that were past it already (is_blocked in UserByID).
BlockedStaysOut ==
  [][\A i \in blocked \cap blocked' :
       /\ Using(i)' \subseteq Using(i)
       /\ \/ Using(i) \cap Calls # {}
          \/ \A x \in titles' : <<i, x>> \in saved <=> <<i, x>> \in saved']_vars

\* "Idempotent, so a double-click is harmless": when the last call of a page is
\* answered, its buttons show what the server has saved.
DoubleClickIsHarmless ==
  [][\A t \in Tabs :
       (\E c \in Calls : /\ call[c].tab = t
                         /\ call[c].step = "done"
                         /\ \A d \in Calls : call'[d] = Idle)
         => marks'[t] = SavedTitleIDs(tab[t].user)]_vars

\* "The merge is idempotent": a title that was removed from a saved list comes back
\* only when somebody adds it.
RemovedStaysRemoved ==
  [][\A e \in (ever \ saved) \cap saved' :
       \E c \in Calls : call[c].kind = "add" /\ e[2] \in call[c].ids]_vars

\* The front door remembers "where to go afterwards and, after a failed attempt,
\* why it failed": a sign-in that fails still knows its page.
RemembersWhereHeaded ==
  \A t \in Tabs : tab[t].at = "back" => tab[t].next = tab[t].want
=============================================================================
