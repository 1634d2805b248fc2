------------------------------ MODULE Billing -------------------------------
(***************************************************************************)
(* Paid 4K in the viewer: invoices that are identified by their exact      *)
(* amount (billing_http.go, billing.go, store.go), the poller that scans   *)
(* the chains for payments and settles them (billing.go, chain_evm.go),    *)
(* and what an entitlement opens (server.go, models.go; the admin's comp). *)
(*                                                                         *)
(* One action is one SQL statement or transaction, or one call of a chain. *)
(* A deploy overlaps two viewer processes, so there may be two pollers.    *)
(* The chains and the buyers are external: transfers are mined into the    *)
(* next block, and blocks that are not yet MinConf deep may be reorganised.*)
(***************************************************************************)
EXTENDS ViewerWorld

CONSTANTS
  Titles,
  Chains,        \* the configured rails, all in the one namespace "evm"
  WideChains,    \* chains whose token is finer than the amounts (BSC-USD)
  Pollers,       \* running viewer processes
  PassUnits, TitleUnits,  \* prices, in units of 10^-6 dollars
  MaxDust,       \* amounts a price can be nudged to
  Fine,          \* raw units of a wide token per unit (10^12)
  Ttl,           \* an invoice's minutes
  PassDays,      \* what a pass adds
  MinConf,       \* blocks on top of one that is scanned
  ScanChunk,     \* blocks of one log query
  ScanLag,       \* blocks mined while a poller is between its count and its scan
  NewChains,     \* chains that have never been scanned
  MaxInvoices, MaxTransfers, MaxHeight   \* bounds

ASSUME BlConstants ==
  /\ WideChains \subseteq Chains /\ NewChains \subseteq Chains
  /\ None \notin Titles \cup Chains \cup {"pending", "paid"}
  /\ {PassUnits, TitleUnits, MaxDust, Fine, Ttl, PassDays, ScanChunk} \subseteq Nat \ {0}
  /\ {MinConf, ScanLag, MaxInvoices, MaxTransfers, MaxHeight} \subseteq Nat

Refs == 1..MaxInvoices   \* invoices, in the order they are created
Txs == 1..MaxTransfers   \* transfers, in the order they are made

\* maxDust is below the smallest step between two prices, one cent.
ASSUME BlPrices == PassUnits + MaxDust <= TitleUnits \/ TitleUnits + MaxDust <= PassUnits

VARIABLES
  invoices,   \* payment_invoices
  passUntil,  \* users.plan_expires_at, 0 for NULL
  comp,       \* users whose comp_expires_at has not passed (admin)
  unlocks,    \* user_title_unlocks
  titles,     \* titles in the catalogue
  cursors,    \* billing_chain_cursors, None before the first scan
  height,     \* the tip of each chain (external)
  transfers,  \* token transfers to the receive address (external)
  pollers,    \* where each poller is in its tick
  credited,   \* history: the invoices each transfer settled
  played,     \* history: the 4K titles a user was let play
  comped      \* history: users who ever held a comp

vars == <<now, invoices, passUntil, comp, unlocks, titles, cursors, height,
          transfers, pollers, credited, played, comped, events>>
ledger == <<invoices, passUntil, unlocks>>
outside == <<now, titles, comp, height, transfers, played, comped>>

NoInvoice == [status |-> None, user |-> None, kind |-> None, title |-> None,
              amount |-> None, locked |-> FALSE, expires |-> 0]
Idle == [pc |-> "idle", todo |-> {}, chain |-> None, seen |-> 0, wanted |-> FALSE,
         next |-> None, obs |-> {}, match |-> None, row |-> NoInvoice]

Init ==
  /\ now = 0
  /\ invoices = [i \in Refs |-> NoInvoice]
  /\ passUntil = [u \in Users |-> 0]
  /\ comp = {} /\ unlocks = {} /\ titles = Titles
  /\ height = [c \in Chains |-> MinConf]
  /\ cursors = [c \in Chains |-> IF c \in NewChains THEN None ELSE 0]
  /\ transfers = {}
  /\ pollers = [p \in Pollers |-> Idle]
  /\ credited = [x \in Txs |-> {}]
  /\ played = {} /\ comped = {} /\ events = 0

-----------------------------------------------------------------------------
(***************************************************************************)
(* Amounts.  An exact amount is a whole number of units and a rest below   *)
(* one unit; invoices have no rest.                                        *)
(***************************************************************************)
Price(kind) == IF kind = "pass" THEN PassUnits ELSE TitleUnits
formatAmount(kind, dust) == [units |-> Price(kind) + dust, rest |-> 0]

RawPerUnit(c) == IF c \in WideChains THEN Fine ELSE 1
\* Faulty: the digits below one unit are cut off.
scaleDecimal_Cut(raw, perUnit) == [units |-> raw \div perUnit, rest |-> 0]
scaleDecimal(raw, perUnit) == [units |-> raw \div perUnit, rest |-> raw % perUnit]

-----------------------------------------------------------------------------
(***************************************************************************)
(* Invoices.                                                               *)
(***************************************************************************)
NextOf(S, used, n) == n \in S \ used /\ \A k \in S \ used : n <= k

Payable(i) == invoices[i].status = "pending" /\ invoices[i].expires > now

\* handleCreateInvoice: a title that exists and is not owned, or a pass.
MaySell(u, kind, t) ==
  IF kind = "title" THEN t \in titles /\ <<u, t>> \notin unlocks ELSE t = None

\* createInvoice tries other dust while the unique index rejects the amount.
Reserved(a) == \E i \in Refs : invoices[i].locked /\ invoices[i].amount = a

CreateInvoice(u, i, kind, t, dust) ==
  /\ NextOf(Refs, {j \in Refs : invoices[j] # NoInvoice}, i)
  /\ MaySell(u, kind, t)
  /\ ~Reserved(formatAmount(kind, dust))
  /\ now + Ttl <= MaxTime   \* bound: the clock reaches every expiry
  /\ invoices' = [invoices EXCEPT ![i] =
       [status |-> "pending", user |-> u, kind |-> kind, title |-> t,
        amount |-> formatAmount(kind, dust), locked |-> TRUE, expires |-> now + Ttl]]
  /\ UNCHANGED <<outside, passUntil, unlocks, cursors, pollers, credited, events>>

\* The entitlement check of handlePrepareSource for a 2160p source.
HasPass(u) == passUntil[u] > now
accessForTitle(u, t) ==
  [unlimited |-> HasPass(u) \/ u \in comp, unlocked |-> <<u, t>> \in unlocks]
resolutionLock(a) ==
  IF a.unlimited \/ a.unlocked THEN "none"
  ELSE IF Chains = {} THEN "paid" ELSE "upgrade"

HasVideo(t) == t \in titles

PrepareSource(u, t) ==
  /\ HasVideo(t)
  /\ resolutionLock(accessForTitle(u, t)) = "none"
  /\ played' = played \cup {<<u, t>>}
  /\ UNCHANGED <<now, titles, comp, height, transfers, comped, ledger, cursors,
                 pollers, credited, events>>

-----------------------------------------------------------------------------
(***************************************************************************)
(* Outside: the clock, the admin, the buyers and the chains.               *)
(***************************************************************************)
Tick ==
  /\ now < MaxTime
  /\ now' = now + 1
  /\ UNCHANGED <<titles, comp, height, transfers, played, comped, ledger, cursors,
                 pollers, credited, events>>

\* A grant that has not run out, or none: revoked or run out.
Toggled(u) == IF u \in comp THEN comp \ {u} ELSE comp \cup {u}

SetUserComp(u) ==
  /\ Event
  /\ comp' = Toggled(u)
  /\ comped' = comped \cup {u}
  /\ UNCHANGED <<now, titles, height, transfers, played, ledger, cursors,
                 pollers, credited>>

\* The foreign keys: an invoice loses its title, an unlock goes with it.
DeleteTitle(t) ==
  /\ Event
  /\ t \in titles
  /\ titles' = titles \ {t}
  /\ invoices' = [i \in Refs |->
       IF invoices[i].title = t THEN [invoices[i] EXCEPT !.title = None] ELSE invoices[i]]
  /\ unlocks' = {x \in unlocks : x[2] # t}
  /\ UNCHANGED <<now, comp, height, transfers, played, comped, passUntil, cursors,
                 pollers, credited>>

\* A buyer pays an invoice on any chain, at any time, also late or again; at
\* times the amount is mistyped by one raw unit.
Pay(x, i, c, slip) ==
  /\ invoices[i] # NoInvoice
  /\ NextOf(Txs, {y.tx : y \in transfers}, x)
  /\ height[c] < MaxHeight
  /\ IF slip = 0 THEN UNCHANGED events ELSE Event
  /\ transfers' = transfers \cup
       {[tx |-> x, chain |-> c, block |-> height[c] + 1, for |-> i,
         raw |-> invoices[i].amount.units * RawPerUnit(c) + slip]}
  /\ UNCHANGED <<now, titles, comp, height, played, comped, ledger, cursors,
                 pollers, credited>>

Counting(p, c) == pollers[p].pc = "scan" /\ pollers[p].chain = c
Mine(c) ==
  /\ height[c] < MaxHeight
  /\ \A p \in Pollers : Counting(p, c) => height[c] - pollers[p].seen < ScanLag
  /\ height' = [height EXCEPT ![c] = @ + 1]
  /\ UNCHANGED <<now, titles, comp, transfers, played, comped, ledger, cursors,
                 pollers, credited, events>>

\* A shallow block is replaced: its transfer is mined again in the next one.
Reorg(y) ==
  /\ Event
  /\ height[y.chain] - MinConf < y.block /\ y.block <= height[y.chain]
  /\ height[y.chain] < MaxHeight
  /\ transfers' = (transfers \ {y}) \cup {[y EXCEPT !.block = height[y.chain] + 1]}
  /\ UNCHANGED <<now, titles, comp, height, played, comped, ledger, cursors,
                 pollers, credited>>

-----------------------------------------------------------------------------
(***************************************************************************)
(* The poller: billingService.tick and scanChain.                          *)
(***************************************************************************)
At(p, pc) == pollers[p].pc = pc
Move(p, rec) == pollers' = [pollers EXCEPT ![p] = rec]
NextChain(p) == Move(p, IF pollers[p].todo = {} THEN Idle
                        ELSE [Idle EXCEPT !.pc = "count", !.todo = pollers[p].todo])

ExpireInvoices(p) ==
  /\ At(p, "idle")
  /\ invoices' = [i \in Refs |->
       IF invoices[i].status = "pending" /\ invoices[i].expires <= now
       THEN [invoices[i] EXCEPT !.status = "expired", !.locked = FALSE] ELSE invoices[i]]
  /\ Move(p, [Idle EXCEPT !.pc = "count", !.todo = Chains])
  /\ UNCHANGED <<outside, passUntil, unlocks, cursors, credited, events>>

\* The next chain in the configured order, any here.
CountPendingInvoices(p) ==
  /\ At(p, "count")
  /\ \E c \in pollers[p].todo :
       Move(p, [pollers[p] EXCEPT !.pc = "scan", !.chain = c, !.todo = @ \ {c},
                  !.seen = height[c], !.wanted = \E i \in Refs : Payable(i)])
  /\ UNCHANGED <<outside, ledger, cursors, credited, events>>

\* What a transfer looks like to a watcher.
observed(y) == [tx |-> y.tx, block |-> y.block,
                amount |-> scaleDecimal(y.raw, RawPerUnit(y.chain))]

\* Faulty: the newest block is read, unconfirmed.
ScanTo_Unconfirmed(c) == height[c]
\* Faulty: the chunk ends where it begins.
ScanTo_NoProgress(c) == IF cursors[c] = None THEN height[c] - MinConf ELSE cursors[c]

ScanTo(c) ==
  LET safeTo == height[c] - MinConf
      to == cursors[c] + ScanChunk
  IN  IF cursors[c] = None \/ to > safeTo THEN safeTo ELSE to

Scan(p) ==
  /\ At(p, "scan")
  /\ LET c == pollers[p].chain
         cur == cursors[c]
         logs == {y \in transfers : y.chain = c /\ cur < y.block /\ y.block <= ScanTo(c)}
     IN  IF height[c] < MinConf \/ (cur # None /\ cur + 1 > height[c] - MinConf)
         THEN NextChain(p)
         ELSE Move(p, [Idle EXCEPT !.pc = "match", !.todo = pollers[p].todo, !.chain = c,
                !.next = ScanTo(c),
                !.obs = IF cur # None /\ pollers[p].wanted THEN {observed(y) : y \in logs} ELSE {}])
  /\ UNCHANGED <<outside, ledger, cursors, credited, events>>

FirstObs(p) == CHOOSE o \in pollers[p].obs : \A q \in pollers[p].obs : o.block <= q.block
Matches(i, a) == Payable(i) /\ invoices[i].locked /\ invoices[i].amount = a

\* MatchPendingInvoice: the row is read here and settled later.  A transfer
\* nothing owes is logged and passed over.
MatchPendingInvoice(p) ==
  /\ At(p, "match") /\ pollers[p].obs # {}
  /\ LET o == FirstObs(p) IN
       \/ \E i \in Refs : Matches(i, o.amount)
            /\ Move(p, [pollers[p] EXCEPT !.pc = "settle", !.match = i, !.row = invoices[i]])
       \/ /\ \A i \in Refs : ~Matches(i, o.amount)
          /\ Move(p, [pollers[p] EXCEPT !.obs = @ \ {o}])
  /\ UNCHANGED <<outside, ledger, cursors, credited, events>>

Later(a, b) == IF a > b THEN a ELSE b

\* SettleInvoice, one transaction: nothing if it is no longer pending; an
\* error, and nothing, if it is an unlock whose title was gone when read.
\* Faulty: without AND status = 'pending'.
Settles_Always(i) == invoices[i] # NoInvoice
Settles(i) == invoices[i].status = "pending"

PassAfter(row) == IF row.kind = "pass"
  THEN [passUntil EXCEPT ![row.user] = Later(@, now) + PassDays] ELSE passUntil
UnlocksAfter(row) == IF row.kind = "title" /\ row.title \in titles
  THEN unlocks \cup {<<row.user, row.title>>} ELSE unlocks
Unsellable(row) == row.kind = "title" /\ row.title = None

Handled(p) == Move(p, [pollers[p] EXCEPT !.pc = "match", !.obs = @ \ {FirstObs(p)},
                         !.match = None, !.row = NoInvoice])

SettleInvoice(p) ==
  LET i == pollers[p].match
      row == pollers[p].row
  IN
  /\ At(p, "settle")
  /\ \/ /\ ~Settles(i)
        /\ Handled(p)
        /\ UNCHANGED <<ledger, credited>>
     \/ /\ Settles(i) /\ Unsellable(row)
        /\ NextChain(p)
        /\ UNCHANGED <<ledger, credited>>
     \/ /\ Settles(i) /\ ~Unsellable(row)
        /\ invoices' = [invoices EXCEPT ![i].status = "paid", ![i].locked = FALSE]
        /\ passUntil' = PassAfter(row)
        /\ unlocks' = UnlocksAfter(row)
        /\ credited' = [credited EXCEPT ![FirstObs(p).tx] = @ \cup {i}]
        /\ Handled(p)
  /\ UNCHANGED <<outside, cursors, events>>

SetChainCursor(p) ==
  /\ At(p, "match") /\ pollers[p].obs = {}
  /\ cursors' = [cursors EXCEPT ![pollers[p].chain] = pollers[p].next]
  /\ NextChain(p)
  /\ UNCHANGED <<outside, ledger, credited, events>>

\* A statement or an RPC call fails: scanChain returns, the next chain is due.
ScanFails(p) ==
  /\ Event
  /\ pollers[p].pc \in {"scan", "match", "settle"}
  /\ NextChain(p)
  /\ UNCHANGED <<outside, ledger, cursors, credited>>

\* The process dies and is started again.
Crash(p) ==
  /\ Event
  /\ ~At(p, "idle")
  /\ Move(p, Idle)
  /\ UNCHANGED <<outside, ledger, cursors, credited>>

Step(p) ==
  \/ ExpireInvoices(p) \/ CountPendingInvoices(p) \/ Scan(p)
  \/ MatchPendingInvoice(p) \/ SettleInvoice(p) \/ SetChainCursor(p)

Next ==
  \/ \E u \in Users, i \in Refs, kind \in {"pass", "title"}, t \in Titles \cup {None},
        dust \in 0..(MaxDust - 1) : CreateInvoice(u, i, kind, t, dust)
  \/ \E u \in Users, t \in Titles : PrepareSource(u, t)
  \/ \E u \in Users : SetUserComp(u)
  \/ \E t \in Titles : DeleteTitle(t)
  \/ \E x \in Txs, i \in Refs, c \in Chains, slip \in {0, 1} : Pay(x, i, c, slip)
  \/ \E c \in Chains : Mine(c)
  \/ \E y \in transfers : Reorg(y)
  \/ Tick
  \/ \E p \in Pollers : Step(p) \/ ScanFails(p) \/ Crash(p)

-----------------------------------------------------------------------------
(***************************************************************************)
(* Properties.                                                             *)
(***************************************************************************)
Amounts == [units : Nat, rest : Nat]
Rows == [status : {None, "pending", "paid", "expired"}, user : Users \cup {None},
         kind : {None, "pass", "title"}, title : Titles \cup {None},
         amount : Amounts \cup {None}, locked : BOOLEAN, expires : Nat]

TypeOK ==
  /\ now \in Nat /\ events \in Nat
  /\ invoices \in [Refs -> Rows]
  /\ passUntil \in [Users -> Nat]
  /\ comp \subseteq Users /\ comped \subseteq Users
  /\ unlocks \subseteq Users \X Titles /\ played \subseteq Users \X Titles
  /\ titles \subseteq Titles
  /\ cursors \in [Chains -> Nat \cup {None}] /\ height \in [Chains -> Nat]
  /\ transfers \subseteq [tx : Txs, chain : Chains, block : Nat, for : Refs, raw : Nat]
  /\ pollers \in [Pollers -> [pc : {"idle", "count", "scan", "match", "settle"},
       todo : SUBSET Chains, chain : Chains \cup {None}, seen : Nat, wanted : BOOLEAN,
       next : Nat \cup {None}, obs : SUBSET [tx : Txs, block : Nat, amount : Amounts],
       match : Refs \cup {None}, row : Rows]]
  /\ credited \in [Txs -> SUBSET Refs]

PaidPasses(u) == {i \in Refs : invoices[i].status = "paid" /\ invoices[i].user = u
                                 /\ invoices[i].kind = "pass"}
BoughtDays(u) == PassDays * Cardinality(PaidPasses(u))

\* Renewals stack and nothing is granted twice (SettleInvoice's status guard
\* and GREATEST): a pass never ends before the days that were paid for, nor
\* more than those days from now, whatever crashes, second pollers and
\* repeated observations did.
PassIsExact == \A u \in Users :
  BoughtDays(u) <= passUntil[u] /\ passUntil[u] <= now + BoughtDays(u)

\* Whoever was let play a 4K title was given a comp, or has a paid invoice for
\* a pass or that title, and a transfer of exactly its amount was made
\* (resolutionLock over what settlement and the admin wrote, scaleDecimal).
Exactly(y, i) == y.raw = invoices[i].amount.units * RawPerUnit(y.chain)
PaidFor(u, t) == \E i \in Refs :
  /\ invoices[i].status = "paid" /\ invoices[i].user = u
  /\ invoices[i].kind = "pass" \/ invoices[i].title = t \/ t \notin titles
  /\ \E y \in transfers : Exactly(y, i)
PlayIsPaidFor == \A x \in played : x[1] \in comped \/ PaidFor(x[1], x[2])

\* The cursor never passes a transfer that would still settle an invoice:
\* every payment made in time and deep enough in time is credited
\* (wantPayments, the cursor written after the settlements, MinConf).
Behind(y) == cursors[y.chain] # None /\ y.block <= cursors[y.chain]
NoPaymentIsSkipped == \A y \in transfers : Behind(y) /\ Exactly(y, y.for) => ~Payable(y.for)

\* Failed calls, crashes and an invoice that cannot be settled delay a chain
\* and never wedge it: its cursor reaches the last block deep enough (tick).
ScanCatchesUp == \A c \in Chains : <>[](cursors[c] = height[c] - MinConf)

\* Not so in this code: see the README's divergences.
\* A payment settles the invoice it was made for, and no other.
PaysItsInvoice == \A y \in transfers : credited[y.tx] \subseteq {y.for}

\* A payment settles one invoice.
OneCreditPerPayment == \A x \in Txs : Cardinality(credited[x]) <= 1

\* What was paid in full while the invoice was open is credited in the end.
PaidInTimeIsCredited == \A i \in Refs :
  (Payable(i) /\ \E y \in transfers : y.for = i /\ Exactly(y, i)) ~> (invoices[i].status = "paid")

Spec == Init /\ [][Next]_vars
FairSpec == Spec /\ WF_vars(Tick) /\ \A p \in Pollers : WF_vars(Step(p))
=============================================================================
