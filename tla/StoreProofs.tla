---------------------------- MODULE StoreProofs ----------------------------
(***************************************************************************)
(* Proofs about the tables of viewer and admin, one part for each model:   *)
(*                                                                         *)
(*   Billing: the inductive invariant Granted, about who is given what     *)
(*     (the age of every hold, invoice and transfer; what a poller holds   *)
(*     was transferred), and Unskipped, about what the cursors have passed *)
(*     (a transfer of a pending invoice is ahead of the cursor, or in a    *)
(*     range whose scan will see it).                                      *)
(*   Pairing: the inductive invariant PairingInv.  RowsFollow ties rows to *)
(*     their history, TvOk each screen, poll and request to the rows,      *)
(*     QuotaOk the limiter's calls to the tries it let through.            *)
(*   Featured, as F: calls that do not overlap.                            *)
(***************************************************************************)
EXTENDS Billing, Pairing, FiniteSetTheorems, WellFoundedInduction, TLAPS

-----------------------------------------------------------------------------
(***************************************************************************)
(* Amounts.                                                                *)
(***************************************************************************)

LEMMA PerUnit == \A c \in Chains : RawPerUnit(c) \in Nat \ {0}
  BY BlConstants DEF RawPerUnit

\* No amount is rounded: a transfer looks like an invoice's amount exactly when
\* it is that many raw units.
LEMMA ScalingIsExact ==
  ASSUME NEW raw \in Nat, NEW per \in Nat \ {0}, NEW n \in Nat
  PROVE  /\ scaleDecimal(raw, per) \in Amounts
         /\ scaleDecimal(raw, per) = [units |-> n, rest |-> 0] <=> raw = n * per
<1>1. scaleDecimal(raw, per).units = raw \div per /\ scaleDecimal(raw, per).rest = raw % per
  BY DEF scaleDecimal
<1>2. raw \div per \in Nat /\ raw % per \in Nat
  OBVIOUS
<1>3. scaleDecimal(raw, per) \in Amounts
  BY <1>2 DEF scaleDecimal, Amounts
<1>4. raw = n * per => raw \div per = n /\ raw % per = 0
  OBVIOUS
<1>5. raw \div per = n /\ raw % per = 0 => raw = n * per
  OBVIOUS
<1>6. scaleDecimal(raw, per) = [units |-> n, rest |-> 0] <=> raw \div per = n /\ raw % per = 0
  BY DEF scaleDecimal
<1> QED BY <1>3, <1>4, <1>5, <1>6

LEMMA FormatOk ==
  ASSUME NEW kind \in {"pass", "title"}, NEW dust \in 0..(MaxDust - 1)
  PROVE  formatAmount(kind, dust) \in Amounts /\ formatAmount(kind, dust).rest = 0
  BY BlConstants DEF formatAmount, Price, Amounts

-----------------------------------------------------------------------------
(***************************************************************************)
(* Types.                                                                  *)
(***************************************************************************)

PollerRecs == [pc : {"idle", "count", "scan", "match", "settle"},
               todo : SUBSET Chains, chain : Chains \cup {None}, seen : Nat, wanted : BOOLEAN,
               next : Nat \cup {None}, obs : SUBSET [tx : Txs, block : Nat, amount : Amounts],
               match : Refs \cup {None}, row : Rows]
Transfers == [tx : Txs, chain : Chains, block : Nat, for : Refs, raw : Nat]

\* An invoice that was created.
Created(i) == /\ invoices[i].user \in Users /\ invoices[i].kind \in {"pass", "title"}
              /\ invoices[i].status \in {"pending", "paid", "expired"}
              /\ invoices[i].amount \in Amounts /\ invoices[i].amount.rest = 0
              /\ invoices[i].status = "pending" => invoices[i].locked

Types ==
  /\ TypeOK
  /\ \A i \in Refs : invoices[i] = NoInvoice \/ Created(i)
  /\ \A y \in transfers : invoices[y.for] # NoInvoice
  /\ \A p \in Pollers : pollers[p].pc = "settle" => pollers[p].obs # {}
  /\ \A p \in Pollers : pollers[p].pc \in {"scan", "match", "settle"} => pollers[p].chain \in Chains
  /\ \A p \in Pollers : pollers[p].pc \in {"match", "settle"} => pollers[p].next \in Nat

LEMMA NoInvoiceType ==
  /\ NoInvoice \in Rows /\ NoInvoice.title = None
  /\ \A row : row.user \in Users => row # NoInvoice
  BY BlConstants, VwConstants DEF NoInvoice, Rows

LEMMA IdleType == Idle \in PollerRecs
  BY NoInvoiceType DEF Idle, PollerRecs

\* The earliest observation exists.
LEMMA FirstExists ==
  ASSUME Types, NEW p \in Pollers, pollers[p].obs # {}
  PROVE  /\ FirstObs(p) \in pollers[p].obs
         /\ FirstObs(p) \in [tx : Txs, block : Nat, amount : Amounts]
<1> DEFINE S == pollers[p].obs
           B == {o.block : o \in S}
<1>1. S \subseteq [tx : Txs, block : Nat, amount : Amounts] /\ B \subseteq Nat /\ B # {}
  BY DEF Types, TypeOK
<1>2. \E b \in B : \A a \in B : b <= a
  <2>1. PICK b \in B : \A a \in B : ~(<<a, b>> \in OpToRel(<, Nat))
    BY <1>1, NatLessThanWellFounded, WFMin
  <2>2. \A a \in B : ~(a < b)
    BY <1>1, <2>1 DEF OpToRel
  <2> QED BY <1>1, <2>2
<1>3. \E o \in S : \A q \in S : o.block <= q.block
  BY <1>2
<1> QED BY <1>1, <1>3 DEF FirstObs

\* What no step takes back: an invoice keeps its owner and its amount and never
\* becomes pending again, time and deletions go one way, and a transfer may be
\* mined again but keeps its worth.
InvoicesAge ==
  \A i \in Refs : invoices[i] # NoInvoice =>
    /\ invoices'[i] # NoInvoice
    /\ invoices'[i].user = invoices[i].user /\ invoices'[i].kind = invoices[i].kind
    /\ invoices'[i].amount = invoices[i].amount /\ invoices'[i].expires = invoices[i].expires
    /\ invoices'[i].status = "pending" => invoices[i].status = "pending"
    /\ invoices[i].status = "paid" => invoices'[i].status = "paid"
    /\ invoices'[i].locked => invoices[i].locked
    /\ \/ invoices'[i].title = invoices[i].title
       \/ invoices'[i].title = None /\ invoices[i].title \notin titles'
TransfersAge ==
  \A y \in transfers : \E z \in transfers' : z.raw = y.raw /\ z.chain = y.chain
Ages == /\ InvoicesAge /\ TransfersAge
        /\ now <= now' /\ titles' \subseteq titles /\ comped \subseteq comped'

\* Nothing is settled and nothing granted.
NoneSettled ==
  /\ UNCHANGED passUntil /\ unlocks' \subseteq unlocks
  /\ \A i \in Refs : invoices'[i].status = "paid" => invoices[i].status = "paid"
\* No amount is reserved.
NoneReserved ==
  \A i \in Refs : invoices'[i].locked =>
    invoices[i].locked /\ invoices'[i].amount = invoices[i].amount

LEMMA SameInvoices ==
  ASSUME UNCHANGED <<invoices, titles>>
  PROVE  InvoicesAge
  BY DEF InvoicesAge

LEMMA SameLedger ==
  ASSUME UNCHANGED ledger
  PROVE  NoneSettled /\ NoneReserved
  BY DEF ledger, NoneSettled, NoneReserved

LEMMA CreateTypes ==
  ASSUME Types, NEW u \in Users, NEW i \in Refs, NEW kind \in {"pass", "title"},
         NEW t \in Titles \cup {None}, NEW dust \in 0..(MaxDust - 1),
         CreateInvoice(u, i, kind, t, dust)
  PROVE  /\ Types' /\ Ages /\ NoneSettled
         /\ invoices[i] = NoInvoice /\ ~Reserved(invoices'[i].amount)
         /\ \A j \in Refs \ {i} : invoices'[j] = invoices[j]
         /\ UNCHANGED <<outside, cursors, pollers, events>>
<1> DEFINE row == [status |-> "pending", user |-> u, kind |-> kind, title |-> t,
                   amount |-> formatAmount(kind, dust), locked |-> TRUE,
                   expires |-> now + Ttl]
<1>1. row \in Rows /\ row # NoInvoice
  BY FormatOk, BlConstants DEF Rows, Types, TypeOK, NoInvoice
<1>2. /\ row.user = u /\ row.kind = kind /\ row.status = "pending" /\ row.locked
      /\ row.amount = formatAmount(kind, dust)
  OBVIOUS
<1>3. /\ invoices' = [invoices EXCEPT ![i] = row] /\ invoices[i] = NoInvoice
      /\ UNCHANGED <<outside, passUntil, unlocks, cursors, pollers, credited, events>>
  BY DEF CreateInvoice, NextOf
<1> HIDE DEF row
<1>4. TypeOK'
  BY <1>1, <1>3 DEF Types, TypeOK, outside
<1>5. invoices'[i] = row /\ \A j \in Refs \ {i} : invoices'[j] = invoices[j]
  BY <1>3 DEF Types, TypeOK
<1>6. Created(i)'
  BY <1>2, <1>5, FormatOk DEF Created
<1>7. \A j \in Refs : invoices'[j] = NoInvoice \/ Created(j)'
  BY <1>5, <1>6 DEF Types, Created
<1>8. \A y \in transfers' : invoices'[y.for] # NoInvoice
  BY <1>1, <1>3, <1>5 DEF Types, TypeOK, outside
<1>9. Types'
  BY <1>3, <1>4, <1>7, <1>8 DEF Types
<1>10. InvoicesAge
  BY <1>3, <1>5 DEF InvoicesAge
<1>11. now' = now /\ titles' = titles /\ comped' = comped /\ transfers' = transfers
  BY <1>3 DEF outside
<1>12. NoneSettled
  BY <1>2, <1>3, <1>5 DEF NoneSettled
<1>13. Types' /\ Ages
  BY <1>9, <1>10, <1>11 DEF Ages, TransfersAge, Types, TypeOK
<1>14. ~Reserved(invoices'[i].amount)
  BY <1>2, <1>5 DEF CreateInvoice
<1> QED BY <1>3, <1>5, <1>12, <1>13, <1>14

LEMMA DeleteTypes ==
  ASSUME Types, NEW t \in Titles, DeleteTitle(t)
  PROVE  /\ Types' /\ Ages /\ NoneSettled /\ NoneReserved
         /\ UNCHANGED <<now, comp, height, transfers, played, comped, cursors, pollers>>
<1> DEFINE SameBut(j) ==
             /\ invoices'[j].user = invoices[j].user
             /\ invoices'[j].kind = invoices[j].kind
             /\ invoices'[j].amount = invoices[j].amount
             /\ invoices'[j].expires = invoices[j].expires
             /\ invoices'[j].status = invoices[j].status
             /\ invoices'[j].locked = invoices[j].locked
             /\ \/ invoices'[j].title = invoices[j].title
                \/ invoices'[j].title = None /\ invoices[j].title = t
<1>1. \A j \in Refs : /\ invoices[j].title # t => invoices'[j] = invoices[j]
                      /\ invoices[j].title = t =>
                           invoices'[j] = [invoices[j] EXCEPT !.title = None]
  BY DEF DeleteTitle
<1>2. \A j \in Refs : invoices'[j] \in Rows /\ SameBut(j)
  <2> SUFFICES ASSUME NEW j \in Refs PROVE invoices'[j] \in Rows /\ SameBut(j)
    OBVIOUS
  <2>1. invoices[j] \in Rows
    BY DEF Types, TypeOK
  <2>2. CASE invoices[j].title = t
    <3>1. invoices'[j] = [invoices[j] EXCEPT !.title = None]
      BY <1>1, <2>2
    <3> QED BY <2>1, <2>2, <3>1 DEF Rows
  <2>3. CASE invoices[j].title # t
    BY <1>1, <2>1, <2>3
  <2> QED BY <2>2, <2>3
<1>3. \A j \in Refs : /\ invoices[j] = NoInvoice => invoices'[j] = NoInvoice
                      /\ Created(j) => Created(j)'
  <2>1. NoInvoice.title # t
    BY NoInvoiceType, BlConstants
  <2> QED BY <1>1, <1>2, <2>1 DEF Created
<1>4. /\ UNCHANGED <<now, comp, height, transfers, played, comped, passUntil, cursors,
                     pollers, credited>>
      /\ events' \in Nat /\ titles' = titles \ {t} /\ unlocks' \subseteq unlocks
      /\ t \in titles
  BY DEF DeleteTitle, Event, Types, TypeOK
<1>5. invoices' \in [Refs -> Rows]
  BY <1>2 DEF DeleteTitle
<1>6. TypeOK'
  BY <1>4, <1>5 DEF Types, TypeOK
<1>7. \A y \in transfers' : invoices'[y.for] # NoInvoice
  BY <1>3, <1>4, NoInvoiceType DEF Types, TypeOK, Created
<1>8. Types'
  BY <1>3, <1>4, <1>6, <1>7 DEF Types
<1>9. InvoicesAge
  BY <1>2, <1>3, <1>4, NoInvoiceType DEF InvoicesAge, Types, Created
<1>10. NoneSettled /\ NoneReserved
  BY <1>2, <1>4 DEF NoneSettled, NoneReserved
<1>11. Types' /\ Ages
  BY <1>4, <1>8, <1>9 DEF Ages, TransfersAge, Types, TypeOK
<1> QED BY <1>4, <1>10, <1>11

LEMMA ChainTypes ==
  ASSUME Types,
         \/ \E x \in Txs, i \in Refs, c \in Chains, slip \in {0, 1} : Pay(x, i, c, slip)
         \/ \E c \in Chains : Mine(c)
         \/ \E y \in transfers : Reorg(y)
  PROVE  /\ Types' /\ Ages
         /\ UNCHANGED <<now, titles, comp, played, comped, ledger, cursors, pollers>>
<1>1. ASSUME NEW x \in Txs, NEW i \in Refs, NEW c \in Chains, NEW slip \in {0, 1},
             Pay(x, i, c, slip)
      PROVE  Types' /\ Ages
  <2> DEFINE y == [tx |-> x, chain |-> c, block |-> height[c] + 1, for |-> i,
                   raw |-> invoices[i].amount.units * RawPerUnit(c) + slip]
  <2>1. invoices[i] # NoInvoice /\ invoices[i].amount.units \in Nat
    BY <1>1 DEF Pay, Types, Created, Amounts
  <2>2. y \in Transfers
    <3>1. \A a, b \in Nat : a * b + slip \in Nat
      OBVIOUS
    <3>2. invoices[i].amount.units * RawPerUnit(c) + slip \in Nat
      BY <2>1, <3>1, PerUnit
    <3>3. height[c] + 1 \in Nat
      BY DEF Types, TypeOK
    <3> QED BY <3>2, <3>3 DEF Transfers
  <2>3. /\ transfers' = transfers \cup {y}
        /\ UNCHANGED <<now, titles, comp, height, played, comped, ledger, cursors,
                       pollers, credited>>
        /\ events' \in Nat
    BY <1>1 DEF Pay, Event, Types, TypeOK
  <2>4. y.for = i
    OBVIOUS
  <2> HIDE DEF y
  <2>5. TypeOK'
    BY <2>2, <2>3 DEF Types, TypeOK, Transfers, ledger
  <2>6. Types'
    BY <2>1, <2>3, <2>4, <2>5 DEF Types, ledger, Created
  <2>7. InvoicesAge
    BY <2>3, SameInvoices DEF ledger
  <2> QED BY <2>3, <2>6, <2>7 DEF Ages, TransfersAge, Types, TypeOK
<1>2. ASSUME NEW c \in Chains, Mine(c) PROVE Types' /\ Ages
  <2>1. /\ UNCHANGED <<now, titles, comp, transfers, played, comped, ledger, cursors,
                       pollers, credited, events>>
        /\ height' \in [Chains -> Nat]
    BY <1>2 DEF Mine, Types, TypeOK
  <2>2. Types'
    BY <2>1 DEF Types, TypeOK, ledger, Created
  <2> QED BY <2>1, <2>2, SameInvoices DEF Ages, TransfersAge, ledger, Types, TypeOK
<1>3. ASSUME NEW y \in transfers, Reorg(y) PROVE Types' /\ Ages
  <2> DEFINE z == [y EXCEPT !.block = height[y.chain] + 1]
  <2>1. y \in Transfers
    BY DEF Types, TypeOK, Transfers
  <2>2. z \in Transfers /\ z.for = y.for /\ z.raw = y.raw /\ z.chain = y.chain
    BY <2>1 DEF Transfers, Types, TypeOK
  <2>3. /\ transfers' = (transfers \ {y}) \cup {z}
        /\ UNCHANGED <<now, titles, comp, height, played, comped, ledger, cursors,
                       pollers, credited>>
        /\ events' \in Nat
    BY <1>3 DEF Reorg, Event, Types, TypeOK
  <2> HIDE DEF z
  <2>4. Types'
    BY <2>2, <2>3 DEF Types, TypeOK, Transfers, ledger, Created
  <2>5. InvoicesAge
    BY <2>3, SameInvoices DEF ledger
  <2>6. TransfersAge
    BY <2>2, <2>3 DEF TransfersAge
  <2> QED BY <2>3, <2>4, <2>5, <2>6 DEF Ages, Types, TypeOK
<1>4. UNCHANGED <<now, titles, comp, played, comped, ledger, cursors, pollers>>
  BY DEF Pay, Mine, Reorg
<1> QED BY <1>1, <1>2, <1>3, <1>4

LEMMA OtherTypes ==
  ASSUME Types,
         \/ \E u \in Users, t \in Titles : PrepareSource(u, t)
         \/ \E u \in Users : SetUserComp(u)
         \/ Tick
         \/ UNCHANGED vars
  PROVE  /\ Types' /\ Ages
         /\ UNCHANGED <<titles, height, transfers, ledger, cursors, pollers>>
<1>1. /\ UNCHANGED <<titles, height, transfers, ledger, cursors, pollers, credited>>
      /\ now' \in Nat /\ now <= now' /\ comped \subseteq comped'
  BY DEF PrepareSource, SetUserComp, Tick, vars, ledger, Types, TypeOK
<1>2. played' \subseteq Users \X Titles
  BY DEF PrepareSource, SetUserComp, Tick, vars, Types, TypeOK
<1>3. comp' \subseteq Users /\ comped' \subseteq Users /\ events' \in Nat
  BY DEF PrepareSource, SetUserComp, Toggled, Event, Tick, vars, Types, TypeOK
<1>4. Types'
  BY <1>1, <1>2, <1>3 DEF Types, TypeOK, ledger, Created
<1>5. Ages
  BY <1>1, <1>4, SameInvoices DEF Ages, TransfersAge, ledger, Types, TypeOK
<1> QED BY <1>1, <1>4, <1>5

\* A step of a poller in which it goes from one record to another.
LEMMA PollerTypes ==
  ASSUME Types, NEW p \in Pollers, NEW rec \in PollerRecs, Move(p, rec),
         UNCHANGED <<outside, ledger>>,
         events' \in Nat, cursors' \in [Chains -> Nat \cup {None}],
         UNCHANGED credited,
         rec.pc = "settle" => rec.obs # {},
         rec.pc \in {"scan", "match", "settle"} => rec.chain \in Chains,
         rec.pc \in {"match", "settle"} => rec.next \in Nat
  PROVE  Types' /\ Ages
<1>1. pollers' \in [Pollers -> PollerRecs]
  BY DEF Move, Types, TypeOK, PollerRecs
<1>2. pollers'[p] = rec /\ \A q \in Pollers \ {p} : pollers'[q] = pollers[q]
  BY DEF Move, Types, TypeOK
<1>3. TypeOK'
  BY <1>1 DEF Types, TypeOK, PollerRecs, outside, ledger
<1>4. Types'
  BY <1>2, <1>3 DEF Types, outside, ledger, Created
<1>5. InvoicesAge
  BY SameInvoices DEF outside, ledger
<1> QED BY <1>4, <1>5 DEF Ages, TransfersAge, outside, Types, TypeOK

\* What the next chain's record is.
Starts(rec) ==
  /\ rec \in PollerRecs /\ rec.pc \in {"idle", "count"} /\ rec.obs = {}
LEMMA NextChainStarts ==
  ASSUME Types, NEW p \in Pollers
  PROVE  /\ Starts(Idle)
         /\ NextChain(p) => \E rec : Starts(rec) /\ Move(p, rec)
         /\ Starts([Idle EXCEPT !.pc = "count", !.todo = Chains])
<1>1. Starts(Idle)
  BY IdleType DEF Starts, Idle
<1>2. \A S \in SUBSET Chains : Starts([Idle EXCEPT !.pc = "count", !.todo = S])
  BY IdleType DEF Starts, Idle, PollerRecs
<1>3. pollers[p].todo \in SUBSET Chains
  BY DEF Types, TypeOK
<1> QED BY <1>1, <1>2, <1>3 DEF NextChain

LEMMA ExpireTypes ==
  ASSUME Types, NEW p \in Pollers, ExpireInvoices(p)
  PROVE  /\ Types' /\ Ages /\ NoneSettled /\ NoneReserved
         /\ Starts(pollers'[p]) /\ \A q \in Pollers \ {p} : pollers'[q] = pollers[q]
         /\ UNCHANGED <<outside, cursors, events>>
<1> DEFINE Due(j) == invoices[j].status = "pending" /\ invoices[j].expires <= now
           SameBut(j) ==
             /\ invoices'[j].user = invoices[j].user
             /\ invoices'[j].kind = invoices[j].kind
             /\ invoices'[j].amount = invoices[j].amount
             /\ invoices'[j].expires = invoices[j].expires
             /\ invoices'[j].title = invoices[j].title
             /\ \/ /\ invoices'[j].status = "expired" /\ invoices[j].status = "pending"
                   /\ ~invoices'[j].locked
                \/ /\ invoices'[j].status = invoices[j].status
                   /\ invoices'[j].locked = invoices[j].locked
<1>1. \A j \in Refs : invoices'[j] = IF Due(j)
        THEN [invoices[j] EXCEPT !.status = "expired", !.locked = FALSE] ELSE invoices[j]
  BY DEF ExpireInvoices
<1> HIDE DEF Due
<1>2. \A j \in Refs : invoices'[j] \in Rows /\ SameBut(j)
  <2> SUFFICES ASSUME NEW j \in Refs PROVE invoices'[j] \in Rows /\ SameBut(j)
    OBVIOUS
  <2>1. invoices[j] \in Rows
    BY DEF Types, TypeOK
  <2>2. CASE Due(j)
    <3>1. invoices'[j] = [invoices[j] EXCEPT !.status = "expired", !.locked = FALSE]
      BY <1>1, <2>2
    <3> QED BY <2>1, <2>2, <3>1 DEF Rows, Due
  <2>3. CASE ~Due(j)
    BY <1>1, <2>1, <2>3
  <2> QED BY <2>2, <2>3
<1>3. \A j \in Refs : /\ Created(j) => Created(j)'
                      /\ invoices[j] = NoInvoice => invoices'[j] = NoInvoice
  <2>1. \A j \in Refs : Created(j) => Created(j)'
    BY <1>2 DEF Created
  <2>2. NoInvoice.status # "pending"
    BY BlConstants DEF NoInvoice
  <2> QED BY <1>1, <2>1, <2>2 DEF Due
<1>4. PICK rec : Starts(rec) /\ Move(p, rec)
  BY NextChainStarts DEF ExpireInvoices
<1>5. pollers' \in [Pollers -> PollerRecs]
      /\ pollers'[p] = rec /\ \A q \in Pollers \ {p} : pollers'[q] = pollers[q]
  BY <1>4 DEF Move, Starts, Types, TypeOK, PollerRecs
<1>6. /\ UNCHANGED <<outside, passUntil, unlocks, cursors, credited, events>>
      /\ invoices' \in [Refs -> Rows]
  BY <1>2 DEF ExpireInvoices
<1>7. TypeOK'
  BY <1>5, <1>6 DEF Types, TypeOK, PollerRecs, outside
<1>8. \A y \in transfers' : invoices'[y.for] # NoInvoice
  BY <1>3, <1>6, NoInvoiceType DEF Types, TypeOK, Created, outside
<1>9. Types'
  BY <1>3, <1>4, <1>5, <1>6, <1>7, <1>8 DEF Types, Starts
<1>10. InvoicesAge
  BY <1>2, <1>3, NoInvoiceType DEF InvoicesAge, Types, Created
<1>11. NoneSettled /\ NoneReserved
  BY <1>2, <1>6 DEF NoneSettled, NoneReserved
<1>12. Ages
  BY <1>6, <1>9, <1>10 DEF Ages, TransfersAge, outside, Types, TypeOK
<1> QED BY <1>4, <1>5, <1>6, <1>9, <1>11, <1>12

LEMMA CountTypes ==
  ASSUME Types, NEW p \in Pollers, CountPendingInvoices(p)
  PROVE  /\ Types' /\ Ages
         /\ \E c \in Chains : /\ pollers'[p].pc = "scan" /\ pollers'[p].chain = c
                              /\ pollers'[p].seen = height[c]
                              /\ pollers'[p].wanted = \E i \in Refs : Payable(i)
                              /\ pollers'[p].obs = pollers[p].obs
         /\ \A q \in Pollers \ {p} : pollers'[q] = pollers[q]
         /\ UNCHANGED <<outside, ledger, cursors, credited, events>>
<1>1. pollers[p] \in PollerRecs
  BY DEF Types, TypeOK, PollerRecs
<1>2. PICK c \in pollers[p].todo :
        Move(p, [pollers[p] EXCEPT !.pc = "scan", !.chain = c, !.todo = @ \ {c},
                   !.seen = height[c], !.wanted = \E i \in Refs : Payable(i)])
  BY DEF CountPendingInvoices
<1> DEFINE rec == [pollers[p] EXCEPT !.pc = "scan", !.chain = c, !.todo = @ \ {c},
                     !.seen = height[c], !.wanted = \E i \in Refs : Payable(i)]
<1>3. c \in Chains /\ height[c] \in Nat
  BY <1>1 DEF PollerRecs, Types, TypeOK
<1>4. /\ rec \in PollerRecs /\ rec.pc = "scan" /\ rec.chain = c /\ rec.seen = height[c]
      /\ rec.wanted = (\E i \in Refs : Payable(i)) /\ rec.obs = pollers[p].obs
  BY <1>1, <1>3 DEF PollerRecs
<1> HIDE DEF rec
<1>5. Move(p, rec)
  BY <1>2 DEF rec
<1>6. UNCHANGED <<outside, ledger, cursors, credited, events>>
  BY DEF CountPendingInvoices
<1>7. events' \in Nat /\ cursors' \in [Chains -> Nat \cup {None}]
  BY <1>6 DEF Types, TypeOK
<1>8. Types' /\ Ages
  BY <1>3, <1>4, <1>5, <1>6, <1>7, PollerTypes
<1>9. pollers'[p] = rec /\ \A q \in Pollers \ {p} : pollers'[q] = pollers[q]
  BY <1>5 DEF Move, Types, TypeOK
<1> QED BY <1>3, <1>4, <1>6, <1>8, <1>9

\* What the watcher returns.
LEMMA ObservedType ==
  ASSUME Types, NEW y \in transfers
  PROVE  /\ observed(y) \in [tx : Txs, block : Nat, amount : Amounts]
         /\ observed(y).block = y.block
         /\ observed(y).amount = scaleDecimal(y.raw, RawPerUnit(y.chain))
<1>1. y \in Transfers
  BY DEF Types, TypeOK, Transfers
<1>2. scaleDecimal(y.raw, RawPerUnit(y.chain)) \in Amounts
  BY <1>1, PerUnit, ScalingIsExact DEF Transfers
<1> QED BY <1>1, <1>2 DEF observed, Transfers

LEMMA ScanTypes ==
  ASSUME Types, NEW p \in Pollers, Scan(p)
  PROVE  /\ Types' /\ Ages
         /\ \A q \in Pollers \ {p} : pollers'[q] = pollers[q]
         /\ UNCHANGED <<outside, ledger, cursors, credited, events>>
         /\ LET c == pollers[p].chain IN
            \/ Starts(pollers'[p])
            \/ /\ pollers'[p].pc = "match" /\ pollers'[p].chain = c
               /\ height[c] >= MinConf
               /\ pollers'[p].next = ScanTo(c)
               /\ pollers'[p].obs =
                    IF cursors[c] # None /\ pollers[p].wanted
                    THEN {observed(y) : y \in {y \in transfers : y.chain = c /\ cursors[c] < y.block
                                                                 /\ y.block <= ScanTo(c)}}
                    ELSE {}
<1> DEFINE c == pollers[p].chain
           obs == IF cursors[c] # None /\ pollers[p].wanted
                  THEN {observed(y) : y \in {y \in transfers : y.chain = c /\ cursors[c] < y.block
                                                               /\ y.block <= ScanTo(c)}}
                  ELSE {}
           rec == [Idle EXCEPT !.pc = "match", !.todo = pollers[p].todo, !.chain = c,
                     !.next = ScanTo(c), !.obs = obs]
<1>1. /\ UNCHANGED <<outside, ledger, cursors, credited, events>>
      /\ c \in Chains /\ pollers[p].todo \in SUBSET Chains
      /\ events' \in Nat /\ cursors' \in [Chains -> Nat \cup {None}]
  BY DEF Scan, At, Types, TypeOK
<1>2. obs \in SUBSET [tx : Txs, block : Nat, amount : Amounts]
  BY ObservedType
<1>3. height[c] \in Nat /\ (cursors[c] = None \/ cursors[c] \in Nat)
  BY <1>1 DEF Types, TypeOK
<1>4. CASE height[c] >= MinConf /\ Move(p, rec)
  <2>1. ScanTo(c) \in Nat
    BY <1>3, <1>4, BlConstants DEF ScanTo
  <2> HIDE DEF obs, c
  <2>2. /\ rec \in PollerRecs /\ rec.pc = "match" /\ rec.chain = c /\ rec.next = ScanTo(c)
        /\ rec.obs = obs
    BY <1>1, <1>2, <2>1, IdleType DEF PollerRecs, Idle
  <2> HIDE DEF rec
  <2>3. Types' /\ Ages
    BY <1>1, <1>4, <2>1, <2>2, PollerTypes
  <2>4. pollers'[p] = rec /\ \A q \in Pollers \ {p} : pollers'[q] = pollers[q]
    BY <1>4 DEF Move, Types, TypeOK
  <2> QED BY <1>1, <1>4, <2>2, <2>3, <2>4 DEF obs, c
<1>5. CASE NextChain(p)
  <2>1. PICK next : Starts(next) /\ Move(p, next)
    BY <1>5, NextChainStarts
  <2>2. Types' /\ Ages
    BY <1>1, <2>1, PollerTypes DEF Starts
  <2>3. pollers'[p] = next /\ \A q \in Pollers \ {p} : pollers'[q] = pollers[q]
    BY <2>1 DEF Move, Types, TypeOK
  <2> QED BY <1>1, <2>1, <2>2, <2>3
<1>6. ~(height[c] < MinConf) => height[c] >= MinConf
  BY <1>3, BlConstants
<1> QED BY <1>4, <1>5, <1>6 DEF Scan

LEMMA MatchTypes ==
  ASSUME Types, NEW p \in Pollers, MatchPendingInvoice(p)
  PROVE  /\ Types' /\ Ages
         /\ \A q \in Pollers \ {p} : pollers'[q] = pollers[q]
         /\ UNCHANGED <<outside, ledger, cursors, credited, events>>
         /\ pollers'[p].chain = pollers[p].chain /\ pollers'[p].next = pollers[p].next
         /\ \/ \E i \in Refs :
                 /\ Matches(i, FirstObs(p).amount)
                 /\ pollers'[p].pc = "settle" /\ pollers'[p].match = i
                 /\ pollers'[p].row = invoices[i] /\ pollers'[p].obs = pollers[p].obs
            \/ /\ \A i \in Refs : ~Matches(i, FirstObs(p).amount)
               /\ pollers'[p].pc = "match"
               /\ pollers'[p].obs = pollers[p].obs \ {FirstObs(p)}
<1>1. /\ UNCHANGED <<outside, ledger, cursors, credited, events>>
      /\ pollers[p] \in PollerRecs /\ pollers[p].pc = "match" /\ pollers[p].obs # {}
      /\ pollers[p].chain \in Chains /\ pollers[p].next \in Nat
      /\ events' \in Nat /\ cursors' \in [Chains -> Nat \cup {None}]
  BY DEF MatchPendingInvoice, At, Types, TypeOK, PollerRecs
<1>2. ASSUME NEW i \in Refs, Matches(i, FirstObs(p).amount),
             Move(p, [pollers[p] EXCEPT !.pc = "settle", !.match = i, !.row = invoices[i]])
      PROVE  /\ Types' /\ Ages
             /\ \A q \in Pollers \ {p} : pollers'[q] = pollers[q]
             /\ pollers'[p].chain = pollers[p].chain /\ pollers'[p].next = pollers[p].next
             /\ pollers'[p].pc = "settle" /\ pollers'[p].match = i
             /\ pollers'[p].row = invoices[i] /\ pollers'[p].obs = pollers[p].obs
  <2> DEFINE rec == [pollers[p] EXCEPT !.pc = "settle", !.match = i, !.row = invoices[i]]
  <2>1. invoices[i] \in Rows
    BY DEF Types, TypeOK
  <2>2. /\ rec \in PollerRecs /\ rec.pc = "settle" /\ rec.match = i /\ rec.row = invoices[i]
        /\ rec.obs = pollers[p].obs /\ rec.chain = pollers[p].chain
        /\ rec.next = pollers[p].next
    BY <1>1, <2>1 DEF PollerRecs
  <2> HIDE DEF rec
  <2>3. Move(p, rec)
    BY <1>2 DEF rec
  <2>4. Types' /\ Ages
    BY <1>1, <2>2, <2>3, PollerTypes
  <2>5. pollers'[p] = rec /\ \A q \in Pollers \ {p} : pollers'[q] = pollers[q]
    BY <2>3 DEF Move, Types, TypeOK
  <2> QED BY <2>2, <2>4, <2>5
<1>3. ASSUME Move(p, [pollers[p] EXCEPT !.obs = @ \ {FirstObs(p)}])
      PROVE  /\ Types' /\ Ages
             /\ \A q \in Pollers \ {p} : pollers'[q] = pollers[q]
             /\ pollers'[p].chain = pollers[p].chain /\ pollers'[p].next = pollers[p].next
             /\ pollers'[p].pc = "match" /\ pollers'[p].obs = pollers[p].obs \ {FirstObs(p)}
  <2> DEFINE rec == [pollers[p] EXCEPT !.obs = @ \ {FirstObs(p)}]
  <2>2. /\ rec \in PollerRecs /\ rec.pc = "match" /\ rec.obs = pollers[p].obs \ {FirstObs(p)}
        /\ rec.chain = pollers[p].chain /\ rec.next = pollers[p].next
    BY <1>1 DEF PollerRecs
  <2> HIDE DEF rec
  <2>3. Move(p, rec)
    BY <1>3 DEF rec
  <2>4. Types' /\ Ages
    BY <1>1, <2>2, <2>3, PollerTypes
  <2>5. pollers'[p] = rec /\ \A q \in Pollers \ {p} : pollers'[q] = pollers[q]
    BY <2>3 DEF Move, Types, TypeOK
  <2> QED BY <2>2, <2>4, <2>5
<1> QED BY <1>1, <1>2, <1>3 DEF MatchPendingInvoice

\* The row a poller read is still the invoice's, but for a title that is gone.
RowOk(rec) ==
  /\ rec.match \in Refs /\ invoices[rec.match] # NoInvoice
  /\ rec.row.user = invoices[rec.match].user /\ rec.row.kind = invoices[rec.match].kind
  /\ rec.row.title = invoices[rec.match].title \/ rec.row.title \notin titles
RowsOk == \A p \in Pollers : pollers[p].pc = "settle" => RowOk(pollers[p])

LEMMA RowKept ==
  ASSUME Ages, NEW rec, RowOk(rec)
  PROVE  RowOk(rec)'
  BY BlConstants DEF Ages, InvoicesAge, RowOk

\* What SettleInvoice may do: nothing, give up, or pay.
Paying(p) ==
  LET i == pollers[p].match
      row == pollers[p].row
  IN
  /\ invoices[i].status = "pending" /\ ~Unsellable(row)
  /\ invoices' = [invoices EXCEPT ![i].status = "paid", ![i].locked = FALSE]
  /\ passUntil' = PassAfter(row) /\ unlocks' = UnlocksAfter(row)

LEMMA SettleTypes ==
  ASSUME Types, RowsOk, NEW p \in Pollers, SettleInvoice(p)
  PROVE  /\ Types' /\ Ages /\ NoneReserved
         /\ \A q \in Pollers \ {p} : pollers'[q] = pollers[q]
         /\ UNCHANGED <<outside, cursors, events>>
         /\ pollers[p].pc = "settle"
         /\ \/ Paying(p)
            \/ UNCHANGED ledger
         /\ \/ Starts(pollers'[p])
            \/ /\ Paying(p) \/ invoices[pollers[p].match].status # "pending"
               /\ pollers'[p].pc = "match" /\ pollers'[p].chain = pollers[p].chain
               /\ pollers'[p].next = pollers[p].next
               /\ pollers'[p].obs = pollers[p].obs \ {FirstObs(p)}
<1> DEFINE i == pollers[p].match
           row == pollers[p].row
           rec == [pollers[p] EXCEPT !.pc = "match", !.obs = @ \ {FirstObs(p)},
                     !.match = None, !.row = NoInvoice]
<1>1. /\ UNCHANGED <<outside, cursors, events>>
      /\ pollers[p] \in PollerRecs /\ pollers[p].pc = "settle"
      /\ pollers[p].chain \in Chains /\ pollers[p].next \in Nat /\ pollers[p].obs # {}
      /\ events' \in Nat /\ cursors' \in [Chains -> Nat \cup {None}]
      /\ RowOk(pollers[p])
  BY DEF SettleInvoice, At, Types, TypeOK, PollerRecs, RowsOk
<1>2. /\ rec \in PollerRecs /\ rec.pc = "match" /\ rec.obs = pollers[p].obs \ {FirstObs(p)}
      /\ rec.chain = pollers[p].chain /\ rec.next = pollers[p].next
  BY <1>1, NoInvoiceType DEF PollerRecs
<1> HIDE DEF rec
<1>3. Handled(p) => Move(p, rec)
  BY DEF Handled, rec
<1>4. ASSUME UNCHANGED <<ledger, credited>>, Handled(p)
      PROVE  /\ Types' /\ Ages /\ pollers'[p] = rec
             /\ \A q \in Pollers \ {p} : pollers'[q] = pollers[q]
  <2>1. Types' /\ Ages
    BY <1>1, <1>2, <1>3, <1>4, PollerTypes
  <2>2. pollers'[p] = rec /\ \A q \in Pollers \ {p} : pollers'[q] = pollers[q]
    BY <1>3, <1>4 DEF Move, Types, TypeOK
  <2> QED BY <2>1, <2>2
<1>5. ASSUME UNCHANGED <<ledger, credited>>, NextChain(p)
      PROVE  /\ Types' /\ Ages /\ Starts(pollers'[p])
             /\ \A q \in Pollers \ {p} : pollers'[q] = pollers[q]
  <2>1. PICK next : Starts(next) /\ Move(p, next)
    BY <1>5, NextChainStarts
  <2>2. Types' /\ Ages
    BY <1>1, <1>5, <2>1, PollerTypes DEF Starts
  <2>3. pollers'[p] = next /\ \A q \in Pollers \ {p} : pollers'[q] = pollers[q]
    BY <2>1 DEF Move, Types, TypeOK
  <2> QED BY <2>1, <2>2, <2>3
<1>6. ASSUME Paying(p), Handled(p),
             credited' = [credited EXCEPT ![FirstObs(p).tx] = @ \cup {i}]
      PROVE  /\ Types' /\ Ages /\ pollers'[p] = rec /\ NoneReserved
             /\ \A q \in Pollers \ {p} : pollers'[q] = pollers[q]
  <2>1. PICK k \in Refs : /\ k = pollers[p].match /\ invoices[k] # NoInvoice
                          /\ Created(k) /\ invoices[k] \in Rows
    BY <1>1 DEF RowOk, Types, TypeOK
  <2>2. /\ \A j \in Refs \ {k} : invoices'[j] = invoices[j]
        /\ invoices'[k] = [invoices[k] EXCEPT !.status = "paid", !.locked = FALSE]
        /\ DOMAIN invoices' = Refs
    BY <1>6, <2>1 DEF Paying, Types, TypeOK
  <2>3. /\ invoices'[k] \in Rows
        /\ invoices'[k].user = invoices[k].user /\ invoices'[k].kind = invoices[k].kind
        /\ invoices'[k].amount = invoices[k].amount
        /\ invoices'[k].expires = invoices[k].expires
        /\ invoices'[k].title = invoices[k].title
        /\ invoices'[k].status = "paid" /\ ~invoices'[k].locked
    BY <2>1, <2>2 DEF Rows
  <2>4. invoices' \in [Refs -> Rows]
    <3>1. \A j \in Refs : invoices'[j] \in Rows
      BY <2>2, <2>3 DEF Types, TypeOK
    <3> QED BY <1>6, <3>1 DEF Paying, Types, TypeOK
  <2>5. passUntil' \in [Users -> Nat]
    <3>1. \A a, b \in Nat : Later(a, b) + PassDays \in Nat
      BY BlConstants DEF Later
    <3>2. now \in Nat /\ passUntil \in [Users -> Nat] /\ row.user \in Users
      BY <1>1, <2>1 DEF RowOk, Created, Types, TypeOK
    <3>3. Later(passUntil[row.user], now) + PassDays \in Nat
      BY <3>1, <3>2
    <3> QED BY <1>6, <3>2, <3>3 DEF Paying, PassAfter
  <2>6. unlocks' \subseteq Users \X Titles
    BY <1>1, <1>6, <2>1 DEF Paying, UnlocksAfter, RowOk, Created, Types, TypeOK
  <2>7. credited' \in [Txs -> SUBSET Refs]
    BY <1>6, <2>1 DEF Types, TypeOK
  <2>8. pollers'[p] = rec /\ (\A q \in Pollers \ {p} : pollers'[q] = pollers[q])
        /\ pollers' \in [Pollers -> PollerRecs]
    BY <1>2, <1>3, <1>6 DEF Move, Types, TypeOK, PollerRecs
  <2>9. TypeOK'
    BY <1>1, <2>4, <2>5, <2>6, <2>7, <2>8 DEF Types, TypeOK, PollerRecs, outside
  <2>10. Created(k)'
    BY <2>1, <2>3 DEF Created
  <2>11. \A j \in Refs : invoices'[j] = NoInvoice \/ Created(j)'
    <3>1. \A j \in Refs \ {k} : invoices'[j] = NoInvoice \/ Created(j)'
      BY <2>2 DEF Types, Created
    <3> QED BY <2>10, <3>1
  <2>12. \A y \in transfers' : invoices'[y.for] # NoInvoice
    BY <1>1, <2>2, <2>10, NoInvoiceType DEF Types, TypeOK, Created, outside
  <2>13. Types'
    BY <1>1, <1>2, <2>8, <2>9, <2>11, <2>12 DEF Types
  <2>14. InvoicesAge
    BY <2>1, <2>2, <2>3, <2>10, NoInvoiceType DEF InvoicesAge, Created
  <2>15. NoneReserved
    BY <2>1, <2>2, <2>3 DEF NoneReserved
  <2> QED BY <1>1, <2>8, <2>13, <2>14, <2>15 DEF Ages, TransfersAge, outside, Types, TypeOK
<1>7. NoneReserved
  BY <1>6, SameLedger DEF SettleInvoice, Settles, Paying
<1> QED BY <1>1, <1>2, <1>4, <1>5, <1>6, <1>7 DEF SettleInvoice, Settles, Paying

LEMMA CursorTypes ==
  ASSUME Types, NEW p \in Pollers, SetChainCursor(p)
  PROVE  /\ Types' /\ Ages /\ Starts(pollers'[p])
         /\ \A q \in Pollers \ {p} : pollers'[q] = pollers[q]
         /\ UNCHANGED <<outside, ledger, credited, events>>
         /\ pollers[p].pc = "match" /\ pollers[p].obs = {}
         /\ cursors' = [cursors EXCEPT ![pollers[p].chain] = pollers[p].next]
<1>1. /\ UNCHANGED <<outside, ledger, credited, events>>
      /\ pollers[p].pc = "match" /\ pollers[p].obs = {}
      /\ cursors' = [cursors EXCEPT ![pollers[p].chain] = pollers[p].next]
      /\ cursors' \in [Chains -> Nat \cup {None}] /\ events' \in Nat
  BY DEF SetChainCursor, At, Types, TypeOK
<1>2. PICK next : Starts(next) /\ Move(p, next)
  BY NextChainStarts DEF SetChainCursor
<1>3. Types' /\ Ages
  BY <1>1, <1>2, PollerTypes DEF Starts
<1>4. pollers'[p] = next /\ \A q \in Pollers \ {p} : pollers'[q] = pollers[q]
  BY <1>2 DEF Move, Types, TypeOK
<1> QED BY <1>1, <1>2, <1>3, <1>4

LEMMA FaultTypes ==
  ASSUME Types, NEW p \in Pollers, ScanFails(p) \/ Crash(p)
  PROVE  /\ Types' /\ Ages /\ Starts(pollers'[p])
         /\ \A q \in Pollers \ {p} : pollers'[q] = pollers[q]
         /\ UNCHANGED <<outside, ledger, cursors, credited>>
<1>1. /\ UNCHANGED <<outside, ledger, cursors, credited>>
      /\ cursors' \in [Chains -> Nat \cup {None}] /\ events' \in Nat
  BY DEF ScanFails, Crash, Event, Types, TypeOK
<1>2. PICK next : Starts(next) /\ Move(p, next)
  BY NextChainStarts DEF ScanFails, Crash
<1>3. Types' /\ Ages
  BY <1>1, <1>2, PollerTypes DEF Starts
<1>4. pollers'[p] = next /\ \A q \in Pollers \ {p} : pollers'[q] = pollers[q]
  BY <1>2 DEF Move, Types, TypeOK
<1> QED BY <1>1, <1>2, <1>3, <1>4

-----------------------------------------------------------------------------
(***************************************************************************)
(* Nothing is granted that was not paid for.                               *)
(***************************************************************************)

Transferred(i) == \E y \in transfers : Exactly(y, i)
PaidIsTransferred == \A i \in Refs : invoices[i].status = "paid" => Transferred(i)
UnlocksArePaid == \A x \in unlocks : PaidFor(x[1], x[2])

\* What a poller holds was transferred, and what it is about to settle.
SeenOk(rec) ==
  /\ \A o \in rec.obs : \E y \in transfers : o.amount = scaleDecimal(y.raw, RawPerUnit(y.chain))
  /\ rec.pc = "settle" => Transferred(rec.match)
HeldOk(rec) == (rec.pc = "settle" => RowOk(rec)) /\ SeenOk(rec)
HoldsOk == \A p \in Pollers : HeldOk(pollers[p])

Granted ==
  /\ Types /\ HoldsOk /\ PaidIsTransferred /\ UnlocksArePaid /\ comp \subseteq comped
  /\ PassIsExact /\ PlayIsPaidFor

LEMMA TransferredKept ==
  ASSUME Ages, NEW i \in Refs, invoices[i] # NoInvoice, Transferred(i)
  PROVE  Transferred(i)'
<1>1. PICK y \in transfers : Exactly(y, i)
  BY DEF Transferred
<1>2. PICK z \in transfers' : z.raw = y.raw /\ z.chain = y.chain
  BY DEF Ages, TransfersAge
<1>3. invoices'[i].amount = invoices[i].amount
  BY DEF Ages, InvoicesAge
<1>4. Exactly(z, i)'
  BY <1>1, <1>2, <1>3 DEF Exactly, RawPerUnit
<1> QED BY <1>4 DEF Transferred

LEMMA PaidForKept ==
  ASSUME Types, Ages, NEW u \in Users, NEW t, PaidFor(u, t)
  PROVE  PaidFor(u, t)'
<1>1. PICK i \in Refs :
        /\ invoices[i].status = "paid" /\ invoices[i].user = u
        /\ invoices[i].kind = "pass" \/ invoices[i].title = t \/ t \notin titles
        /\ Transferred(i)
  BY DEF PaidFor, Transferred
<1>2. invoices[i] # NoInvoice
  BY <1>1, NoInvoiceType
<1>3. /\ invoices'[i].status = "paid" /\ invoices'[i].user = u
      /\ invoices'[i].kind = "pass" \/ invoices'[i].title = t \/ t \notin titles'
  BY <1>1, <1>2 DEF Ages, InvoicesAge
<1>4. Transferred(i)'
  BY <1>1, <1>2, TransferredKept
<1> QED BY <1>3, <1>4 DEF PaidFor, Transferred

LEMMA HeldKept ==
  ASSUME Ages, NEW rec, HeldOk(rec)
  PROVE  HeldOk(rec)'
<1>1. rec.pc = "settle" => RowOk(rec)'
  BY RowKept DEF HeldOk
<1>2. rec.pc = "settle" => Transferred(rec.match)'
  BY TransferredKept DEF HeldOk, SeenOk, RowOk
<1>3. ASSUME NEW o \in rec.obs
      PROVE  \E y \in transfers' : o.amount = scaleDecimal(y.raw, RawPerUnit(y.chain))
  <2>1. PICK y \in transfers : o.amount = scaleDecimal(y.raw, RawPerUnit(y.chain))
    BY DEF HeldOk, SeenOk
  <2>2. PICK z \in transfers' : z.raw = y.raw /\ z.chain = y.chain
    BY DEF Ages, TransfersAge
  <2> QED BY <2>1, <2>2
<1>4. SeenOk(rec)'
  BY <1>2, <1>3 DEF SeenOk, RawPerUnit, scaleDecimal
<1> QED BY <1>1, <1>4 DEF HeldOk

\* All but what a poller does with its own record.
LEMMA OthersHeld ==
  ASSUME HoldsOk, Ages, NEW P \in SUBSET Pollers,
         \A q \in P : pollers'[q] = pollers[q]
  PROVE  \A q \in P : HeldOk(pollers[q])'
<1> SUFFICES ASSUME NEW q \in P PROVE HeldOk(pollers[q])'
  OBVIOUS
<1>1. PICK r : r = pollers[q]
  OBVIOUS
<1>2. HeldOk(r)'
  BY <1>1, HeldKept DEF HoldsOk
<1> QED BY <1>1, <1>2

LEMMA StartsHeld ==
  ASSUME NEW p \in Pollers, Starts(pollers'[p])
  PROVE  HeldOk(pollers[p])'
  BY DEF Starts, HeldOk, SeenOk

LEMMA ScanHeld ==
  ASSUME Types, HoldsOk, NEW p \in Pollers,
         CountPendingInvoices(p) \/ Scan(p)
  PROVE  HeldOk(pollers[p])'
<1>1. CASE CountPendingInvoices(p)
  <2>1. /\ pollers'[p].pc = "scan" /\ pollers'[p].obs = pollers[p].obs
        /\ transfers' = transfers
    BY <1>1, CountTypes DEF outside
  <2> QED BY <2>1 DEF HoldsOk, HeldOk, SeenOk
<1>2. CASE Scan(p)
  <2>1. \/ Starts(pollers'[p])
        \/ pollers'[p].pc = "match" /\ pollers'[p].obs \subseteq {observed(y) : y \in transfers}
    <3>1. \A S \in SUBSET transfers, b \in BOOLEAN :
            (IF b THEN {observed(y) : y \in S} ELSE {}) \subseteq {observed(y) : y \in transfers}
      OBVIOUS
    <3>2. \A c : {y \in transfers : y.chain = c /\ cursors[c] < y.block /\ y.block <= ScanTo(c)}
                   \in SUBSET transfers
      OBVIOUS
    <3> QED BY <1>2, <3>1, <3>2, ScanTypes
  <2>2. transfers' = transfers
    BY <1>2, ScanTypes DEF outside
  <2>3. ASSUME pollers'[p].obs \subseteq {observed(y) : y \in transfers},
               NEW o \in pollers'[p].obs
        PROVE  \E y \in transfers' : o.amount = scaleDecimal(y.raw, RawPerUnit(y.chain))
    BY <2>2, <2>3, ObservedType
  <2> QED BY <2>1, <2>3, StartsHeld DEF HeldOk, SeenOk
<1> QED BY <1>1, <1>2

\* An invoice whose amount a transfer matches was transferred exactly: no
\* amount was rounded on the way.
LEMMA MatchHeld ==
  ASSUME Types, HoldsOk, NEW p \in Pollers, MatchPendingInvoice(p)
  PROVE  HeldOk(pollers[p])'
<1>1. /\ transfers' = transfers /\ invoices' = invoices /\ titles' = titles
      /\ pollers[p].obs # {}
  BY MatchTypes DEF outside, ledger, MatchPendingInvoice
<1>2. FirstObs(p) \in pollers[p].obs
  BY <1>1, FirstExists
<1>3. ASSUME NEW i \in Refs, Matches(i, FirstObs(p).amount),
             pollers'[p].pc = "settle", pollers'[p].match = i,
             pollers'[p].row = invoices[i], pollers'[p].obs = pollers[p].obs
      PROVE  HeldOk(pollers[p])'
  <2>1. PICK y \in transfers : FirstObs(p).amount = scaleDecimal(y.raw, RawPerUnit(y.chain))
    BY <1>2 DEF HoldsOk, HeldOk, SeenOk
  <2>2. /\ invoices[i].amount = scaleDecimal(y.raw, RawPerUnit(y.chain))
        /\ invoices[i].status = "pending"
    BY <1>3, <2>1 DEF Matches, Payable
  <2>3. Created(i) /\ invoices[i] # NoInvoice
    BY <2>2, BlConstants DEF Types, NoInvoice
  <2>4. PICK n \in Nat : invoices[i].amount.units = n /\ invoices[i].amount = [units |-> n, rest |-> 0]
    BY <2>3 DEF Created, Amounts
  <2>5. y \in Transfers
    BY DEF Types, TypeOK, Transfers
  <2>6. y.raw = n * RawPerUnit(y.chain)
    <3>1. y.raw \in Nat /\ RawPerUnit(y.chain) \in Nat \ {0}
      BY <2>5, PerUnit DEF Transfers
    <3>2. scaleDecimal(y.raw, RawPerUnit(y.chain)) = [units |-> n, rest |-> 0]
      BY <2>2, <2>4
    <3> QED BY <3>1, <3>2, ScalingIsExact
  <2>7. Transferred(i)
    BY <2>4, <2>6 DEF Transferred, Exactly
  <2>8. Transferred(i)'
    BY <1>1, <2>7 DEF Transferred, Exactly
  <2>9. RowOk(pollers[p])'
    BY <1>1, <1>3, <2>3 DEF RowOk
  <2> QED BY <1>1, <1>3, <2>8, <2>9 DEF HoldsOk, HeldOk, SeenOk
<1>4. ASSUME pollers'[p].pc = "match", pollers'[p].obs = pollers[p].obs \ {FirstObs(p)}
      PROVE  HeldOk(pollers[p])'
  BY <1>1, <1>4 DEF HoldsOk, HeldOk, SeenOk
<1> QED BY <1>3, <1>4, MatchTypes

LEMMA SettleHeld ==
  ASSUME Types, HoldsOk, RowsOk, NEW p \in Pollers, SettleInvoice(p)
  PROVE  HeldOk(pollers[p])'
<1>1. transfers' = transfers
  BY SettleTypes DEF outside
<1>2. \/ Starts(pollers'[p])
      \/ pollers'[p].pc = "match" /\ pollers'[p].obs \subseteq pollers[p].obs
  BY SettleTypes
<1> QED BY <1>1, <1>2, StartsHeld DEF HoldsOk, HeldOk, SeenOk

-----------------------------------------------------------------------------
(***************************************************************************)
(* Passes.                                                                 *)
(***************************************************************************)

LEMMA PassesFinite ==
  ASSUME NEW u
  PROVE  IsFiniteSet(PaidPasses(u)) /\ Cardinality(PaidPasses(u)) \in Nat
<1>1. IsFiniteSet(Refs)
  BY BlConstants, FS_Interval DEF Refs
<1>2. PaidPasses(u) \subseteq Refs
  BY DEF PaidPasses
<1> QED BY <1>1, <1>2, FS_Subset, FS_CardinalityType

LEMMA PassKept ==
  ASSUME Types, Ages, NoneSettled, now' \in Nat, PassIsExact
  PROVE  PassIsExact'
<1> SUFFICES ASSUME NEW u \in Users
    PROVE  (BoughtDays(u) <= passUntil[u] /\ passUntil[u] <= now + BoughtDays(u))'
  BY DEF PassIsExact
<1>1. \A i \in Refs : invoices[i].status = "paid" \/ invoices'[i].status = "paid" =>
        /\ invoices[i].status = "paid" /\ invoices'[i].status = "paid"
        /\ invoices'[i].user = invoices[i].user /\ invoices'[i].kind = invoices[i].kind
  BY BlConstants DEF Ages, InvoicesAge, NoneSettled, NoInvoice
<1>2. PaidPasses(u)' = PaidPasses(u)
  BY <1>1 DEF PaidPasses
<1>3. BoughtDays(u)' = BoughtDays(u) /\ BoughtDays(u) \in Nat
  BY <1>2, PassesFinite, BlConstants DEF BoughtDays
<1>4. passUntil' = passUntil /\ passUntil[u] \in Nat /\ now \in Nat /\ now <= now'
  BY DEF NoneSettled, Types, TypeOK, Ages
<1> QED BY <1>3, <1>4 DEF PassIsExact

\* A pass that is paid for is one more, counted from the end of the last.
LEMMA PassBought ==
  ASSUME Types, HoldsOk, PassIsExact, NEW p \in Pollers, pollers[p].pc = "settle",
         Paying(p), now' = now
  PROVE  PassIsExact'
<1> SUFFICES ASSUME NEW u \in Users
    PROVE  (BoughtDays(u) <= passUntil[u] /\ passUntil[u] <= now + BoughtDays(u))'
  BY DEF PassIsExact
<1>1. PICK k \in Refs : /\ k = pollers[p].match /\ invoices[k].status = "pending"
                        /\ pollers[p].row.user = invoices[k].user
                        /\ pollers[p].row.kind = invoices[k].kind
  BY DEF HoldsOk, HeldOk, RowOk, Paying
<1>2. invoices[k].user \in Users
  BY <1>1, BlConstants DEF Types, Created, NoInvoice
<1>3. /\ \A j \in Refs \ {k} : invoices'[j] = invoices[j]
      /\ invoices'[k] = [invoices[k] EXCEPT !.status = "paid", !.locked = FALSE]
      /\ invoices[k] \in Rows
  BY <1>1 DEF Paying, Types, TypeOK
<1>4. /\ invoices'[k].user = invoices[k].user /\ invoices'[k].kind = invoices[k].kind
      /\ invoices'[k].status = "paid"
  BY <1>3 DEF Rows
<1>5. /\ PassDays \in Nat /\ now \in Nat /\ passUntil[u] \in Nat
      /\ Cardinality(PaidPasses(u)) \in Nat /\ BoughtDays(u) \in Nat
      /\ BoughtDays(u) <= passUntil[u] /\ passUntil[u] <= now + BoughtDays(u)
  BY PassesFinite, BlConstants DEF Types, TypeOK, PassIsExact, BoughtDays
<1>6. CASE invoices[k].kind = "pass" /\ invoices[k].user = u
  <2>1. PaidPasses(u)' = PaidPasses(u) \cup {k} /\ k \notin PaidPasses(u)
    <3>1. k \notin PaidPasses(u) /\ k \in PaidPasses(u)'
      BY <1>1, <1>4, <1>6 DEF PaidPasses
    <3>2. \A j \in Refs \ {k} : j \in PaidPasses(u)' <=> j \in PaidPasses(u)
      BY <1>3 DEF PaidPasses
    <3>3. PaidPasses(u) \subseteq Refs /\ PaidPasses(u)' \subseteq Refs
      BY DEF PaidPasses
    <3> QED BY <3>1, <3>2, <3>3
  <2>2. Cardinality(PaidPasses(u))' = Cardinality(PaidPasses(u)) + 1
    BY <2>1, PassesFinite, FS_AddElement
  <2>3. \A n \in Nat : PassDays * (n + 1) = PassDays * n + PassDays
    BY <1>5
  <2>4. BoughtDays(u)' = BoughtDays(u) + PassDays
    BY <1>5, <2>2, <2>3 DEF BoughtDays
  <2>5. passUntil'[u] = Later(passUntil[u], now) + PassDays
    BY <1>1, <1>6 DEF Paying, PassAfter, Types, TypeOK
  <2> QED BY <1>5, <2>4, <2>5 DEF Later
<1>7. CASE ~(invoices[k].kind = "pass" /\ invoices[k].user = u)
  <2>1. PaidPasses(u)' = PaidPasses(u)
    <3>1. \A j \in Refs : j \in PaidPasses(u)' <=> j \in PaidPasses(u)
      <4>1. k \notin PaidPasses(u) /\ k \notin PaidPasses(u)'
        BY <1>1, <1>4, <1>7 DEF PaidPasses
      <4>2. \A j \in Refs \ {k} : j \in PaidPasses(u)' <=> j \in PaidPasses(u)
        BY <1>3 DEF PaidPasses
      <4> QED BY <4>1, <4>2
    <3> QED BY <3>1 DEF PaidPasses
  <2>2. passUntil'[u] = passUntil[u]
    BY <1>1, <1>7 DEF Paying, PassAfter, Types, TypeOK
  <2> QED BY <1>5, <2>1, <2>2 DEF BoughtDays
<1> QED BY <1>6, <1>7

\* Who has a pass that has not run out has paid for one.
LEMMA PassHolderPaid ==
  ASSUME Granted, NEW u \in Users, HasPass(u), NEW t
  PROVE  PaidFor(u, t)
<1>1. BoughtDays(u) # 0
  BY PassesFinite, BlConstants DEF Granted, Types, TypeOK, PassIsExact, HasPass, BoughtDays
<1>2. PaidPasses(u) # {}
  <2>1. PassDays * 0 = 0
    BY BlConstants
  <2>2. Cardinality({}) = 0
    BY FS_EmptySet
  <2> QED BY <1>1, <2>1, <2>2 DEF BoughtDays
<1> QED BY <1>2 DEF PaidPasses, PaidFor, Granted, PaidIsTransferred, Transferred

-----------------------------------------------------------------------------
(***************************************************************************)
(* Every step keeps what was granted paid for.                             *)
(***************************************************************************)

LEMMA PaidForStays ==
  ASSUME Granted, Types', Ages
  PROVE  /\ \A x \in unlocks : PaidFor(x[1], x[2])'
         /\ \A x \in played : x[1] \in comped' \/ PaidFor(x[1], x[2])'
         /\ \A i \in Refs : invoices[i].status = "paid" => Transferred(i)'
<1>1. ASSUME NEW x \in unlocks PROVE PaidFor(x[1], x[2])'
  BY PaidForKept DEF Granted, UnlocksArePaid, Types, TypeOK
<1>2. ASSUME NEW x \in played PROVE x[1] \in comped' \/ PaidFor(x[1], x[2])'
  BY PaidForKept DEF Granted, PlayIsPaidFor, Types, TypeOK, Ages
<1>3. ASSUME NEW i \in Refs, invoices[i].status = "paid" PROVE Transferred(i)'
  BY <1>3, TransferredKept, BlConstants DEF Granted, PaidIsTransferred, NoInvoice
<1> QED BY <1>1, <1>2, <1>3

\* A step that settles nothing and lets nobody play.
LEMMA QuietGranted ==
  ASSUME Granted, Types', Ages, NoneSettled, HoldsOk', comp' \subseteq comped',
         UNCHANGED played
  PROVE  Granted'
<1>1. PaidIsTransferred'
  BY PaidForStays DEF PaidIsTransferred, NoneSettled
<1>2. UnlocksArePaid'
  BY PaidForStays DEF UnlocksArePaid, NoneSettled
<1>3. PlayIsPaidFor'
  BY PaidForStays DEF PlayIsPaidFor
<1>4. PassIsExact'
  BY PassKept DEF Granted, Types, TypeOK
<1> QED BY <1>1, <1>2, <1>3, <1>4 DEF Granted

LEMMA PaidGranted ==
  ASSUME Granted, Types', Ages, HoldsOk', NEW p \in Pollers, pollers[p].pc = "settle",
         Paying(p), UNCHANGED outside
  PROVE  Granted'
<1>1. PICK k \in Refs : /\ k = pollers[p].match /\ invoices[k] # NoInvoice
                        /\ pollers[p].row.user = invoices[k].user
                        /\ pollers[p].row.kind = invoices[k].kind
                        /\ \/ pollers[p].row.title = invoices[k].title
                           \/ pollers[p].row.title \notin titles
                        /\ Transferred(k)
  BY DEF Granted, HoldsOk, HeldOk, RowOk, SeenOk
<1>2. /\ \A j \in Refs \ {k} : invoices'[j] = invoices[j]
      /\ invoices'[k].status = "paid"
      /\ invoices'[k].user = invoices[k].user /\ invoices'[k].title = invoices[k].title
  BY <1>1 DEF Paying, Granted, Types, TypeOK, Rows
<1>3. Transferred(k)'
  BY <1>1, TransferredKept
<1>4. PaidIsTransferred'
  BY <1>2, <1>3, PaidForStays DEF PaidIsTransferred
<1>5. UnlocksArePaid'
  <2>1. ASSUME NEW x \in unlocks' \ unlocks PROVE PaidFor(x[1], x[2])'
    <3>1. x[1] = invoices[k].user /\ x[2] = invoices[k].title
      BY <1>1, <2>1 DEF Paying, UnlocksAfter
    <3> QED BY <1>2, <1>3, <3>1 DEF PaidFor, Transferred
  <2> QED BY <2>1, PaidForStays DEF UnlocksArePaid
<1>6. PlayIsPaidFor'
  BY PaidForStays DEF PlayIsPaidFor, outside
<1>7. PassIsExact'
  BY PassBought DEF Granted, outside
<1>8. comp' \subseteq comped'
  BY DEF Granted, outside
<1> QED BY <1>4, <1>5, <1>6, <1>7, <1>8 DEF Granted

LEMMA PlayGranted ==
  ASSUME Granted, NEW u \in Users, NEW t \in Titles, PrepareSource(u, t),
         Types', Ages, HoldsOk'
  PROVE  Granted'
<1>1. /\ UNCHANGED <<comp, comped, ledger>> /\ played' = played \cup {<<u, t>>}
      /\ now' = now
  BY DEF PrepareSource
<1>2. u \in comped \/ PaidFor(u, t)
  <2>1. HasPass(u) \/ u \in comp \/ <<u, t>> \in unlocks
    BY DEF PrepareSource, resolutionLock, accessForTitle
  <2>2. <<u, t>> \in unlocks => PaidFor(u, t)
    BY DEF Granted, UnlocksArePaid
  <2> QED BY <2>1, <2>2, PassHolderPaid DEF Granted
<1>3. PlayIsPaidFor'
  <2>1. PaidFor(u, t) => PaidFor(u, t)'
    BY PaidForKept DEF Granted
  <2> QED BY <1>1, <1>2, <2>1, PaidForStays DEF PlayIsPaidFor
<1>4. NoneSettled
  BY <1>1, SameLedger
<1>5. PaidIsTransferred'
  BY <1>4, PaidForStays DEF PaidIsTransferred, NoneSettled
<1>6. UnlocksArePaid'
  BY <1>4, PaidForStays DEF UnlocksArePaid, NoneSettled
<1>7. PassIsExact'
  BY <1>4, PassKept DEF Granted, Types, TypeOK
<1> QED BY <1>1, <1>3, <1>5, <1>6, <1>7 DEF Granted

LEMMA OutsideHolds ==
  ASSUME HoldsOk, Ages, UNCHANGED pollers
  PROVE  HoldsOk'
  BY OthersHeld DEF HoldsOk

LEMMA PollerHolds ==
  ASSUME HoldsOk, Ages, NEW p \in Pollers, HeldOk(pollers[p])',
         \A q \in Pollers \ {p} : pollers'[q] = pollers[q]
  PROVE  HoldsOk'
<1>1. \A q \in Pollers \ {p} : HeldOk(pollers[q])'
  BY OthersHeld
<1> QED BY <1>1 DEF HoldsOk

LEMMA GrantedStep ==
  ASSUME Granted, [Next]_vars
  PROVE  Granted'
<1>0. Types /\ HoldsOk /\ RowsOk /\ comp \subseteq comped
  BY DEF Granted, HoldsOk, HeldOk, RowsOk
<1>1. ASSUME NEW u \in Users, NEW i \in Refs, NEW kind \in {"pass", "title"},
             NEW t \in Titles \cup {None}, NEW dust \in 0..(MaxDust - 1),
             CreateInvoice(u, i, kind, t, dust)
      PROVE  Granted'
  <2>1. Types' /\ Ages /\ NoneSettled /\ UNCHANGED <<outside, pollers>>
    BY <1>0, <1>1, CreateTypes
  <2>2. comp' \subseteq comped' /\ played' = played
    BY <1>0, <2>1 DEF outside
  <2> QED BY <1>0, <2>1, <2>2, OutsideHolds, QuietGranted
<1>2. ASSUME NEW t \in Titles, DeleteTitle(t) PROVE Granted'
  <2>1. Types' /\ Ages /\ NoneSettled /\ UNCHANGED <<comp, comped, played, pollers>>
    BY <1>0, <1>2, DeleteTypes
  <2> QED BY <1>0, <2>1, OutsideHolds, QuietGranted
<1>3. CASE \/ \E x \in Txs, i \in Refs, c \in Chains, slip \in {0, 1} : Pay(x, i, c, slip)
           \/ \E c \in Chains : Mine(c)
           \/ \E y \in transfers : Reorg(y)
  <2>1. Types' /\ Ages /\ UNCHANGED <<comp, comped, played, ledger, pollers>>
    BY <1>0, <1>3, ChainTypes
  <2> QED BY <1>0, <2>1, SameLedger, OutsideHolds, QuietGranted
<1>4. ASSUME NEW u \in Users, NEW t \in Titles, PrepareSource(u, t) PROVE Granted'
  <2>1. Types' /\ Ages /\ UNCHANGED pollers
    BY <1>0, <1>4, OtherTypes
  <2> QED BY <1>0, <1>4, <2>1, OutsideHolds, PlayGranted
<1>5. CASE (\E u \in Users : SetUserComp(u)) \/ Tick \/ UNCHANGED vars
  <2>1. Types' /\ Ages /\ UNCHANGED <<ledger, pollers>>
    BY <1>0, <1>5, OtherTypes
  <2>2. played' = played /\ comp' \subseteq comped'
    BY <1>0, <1>5 DEF SetUserComp, Toggled, Tick, vars
  <2> QED BY <1>0, <2>1, <2>2, SameLedger, OutsideHolds, QuietGranted
<1>6. ASSUME NEW p \in Pollers, ExpireInvoices(p) PROVE Granted'
  <2>1. /\ Types' /\ Ages /\ NoneSettled /\ UNCHANGED outside
        /\ Starts(pollers'[p]) /\ \A q \in Pollers \ {p} : pollers'[q] = pollers[q]
    BY <1>0, <1>6, ExpireTypes
  <2>2. HoldsOk'
    BY <1>0, <2>1, StartsHeld, PollerHolds
  <2>3. comp' \subseteq comped' /\ played' = played
    BY <1>0, <2>1 DEF outside
  <2> QED BY <2>1, <2>2, <2>3, QuietGranted
<1>7. ASSUME NEW p \in Pollers,
             \/ CountPendingInvoices(p) \/ Scan(p) \/ MatchPendingInvoice(p)
             \/ SetChainCursor(p) \/ ScanFails(p) \/ Crash(p)
      PROVE  Granted'
  <2>1. /\ Types' /\ Ages /\ UNCHANGED <<outside, ledger>>
        /\ \A q \in Pollers \ {p} : pollers'[q] = pollers[q]
    BY <1>0, <1>7, CountTypes, ScanTypes, MatchTypes, CursorTypes, FaultTypes
  <2>2. HeldOk(pollers[p])'
    BY <1>0, <1>7, ScanHeld, MatchHeld, StartsHeld, CursorTypes, FaultTypes
  <2>3. HoldsOk'
    BY <1>0, <2>1, <2>2, PollerHolds
  <2>4. comp' \subseteq comped' /\ played' = played
    BY <1>0, <2>1 DEF outside
  <2> QED BY <2>1, <2>3, <2>4, SameLedger, QuietGranted
<1>8. ASSUME NEW p \in Pollers, SettleInvoice(p) PROVE Granted'
  <2>1. /\ Types' /\ Ages /\ UNCHANGED outside /\ pollers[p].pc = "settle"
        /\ Paying(p) \/ UNCHANGED ledger
        /\ \A q \in Pollers \ {p} : pollers'[q] = pollers[q]
    BY <1>0, <1>8, SettleTypes
  <2>2. HoldsOk'
    BY <1>0, <1>8, <2>1, SettleHeld, PollerHolds
  <2>3. comp' \subseteq comped' /\ played' = played
    BY <1>0, <2>1 DEF outside
  <2> QED BY <2>1, <2>2, <2>3, SameLedger, QuietGranted, PaidGranted
<1> QED BY <1>1, <1>2, <1>3, <1>4, <1>5, <1>6, <1>7, <1>8 DEF Next, Step

LEMMA GrantedInit == Init => Granted
<1> SUFFICES ASSUME Init PROVE Granted
  OBVIOUS
<1>1. \A p \in Pollers : pollers[p] = Idle
  BY DEF Init
<1>2. \A i \in Refs : invoices[i] = NoInvoice
  BY DEF Init
<1>3. pollers \in [Pollers -> PollerRecs] /\ invoices \in [Refs -> Rows]
  BY IdleType, NoInvoiceType DEF Init
<1>4. height \in [Chains -> Nat] /\ cursors \in [Chains -> Nat \cup {None}]
  BY BlConstants DEF Init
<1>5. TypeOK
  BY <1>3, <1>4 DEF Init, TypeOK, PollerRecs
<1>6. Types
  BY <1>1, <1>2, <1>5 DEF Types, Init, Idle
<1>7. HoldsOk
  BY <1>1 DEF HoldsOk, HeldOk, SeenOk, Idle
<1>8. PaidIsTransferred /\ \A u \in Users : PaidPasses(u) = {}
  BY <1>2, BlConstants DEF PaidIsTransferred, PaidPasses, NoInvoice
<1>9. PassIsExact
  <2>1. PassDays * 0 = 0 /\ Cardinality({}) = 0
    BY BlConstants, FS_EmptySet
  <2> QED BY <1>8, <2>1 DEF PassIsExact, BoughtDays, Init
<1> QED BY <1>6, <1>7, <1>8, <1>9 DEF Granted, Init, UnlocksArePaid, PlayIsPaidFor

LEMMA GrantedAlways == Spec => []Granted
  BY GrantedInit, GrantedStep, PTL DEF Spec

\* The values the variables of billing range over, for any buyers, titles,
\* chains and pollers.
THEOREM BillingTypes == Spec => []TypeOK
<1>1. Granted => TypeOK
  BY DEF Granted, Types
<1> QED BY <1>1, GrantedAlways, PTL

\* Renewals stack and nothing is granted twice, whatever crashes, failures,
\* reorganisations, second pollers and repeated observations do (store.go
\* SettleInvoice).
THEOREM PassesAreExact == Spec => []PassIsExact
<1>1. Granted => PassIsExact
  BY DEF Granted
<1> QED BY <1>1, GrantedAlways, PTL

\* No 4K title is played but by who holds a comp, or has a paid invoice for
\* which exactly its amount was transferred (billing.go tick, server.go).
THEOREM PlayIsPaid == Spec => []PlayIsPaidFor
<1>1. Granted => PlayIsPaidFor
  BY DEF Granted
<1> QED BY <1>1, GrantedAlways, PTL

-----------------------------------------------------------------------------
(***************************************************************************)
(* No payment is skipped, when no chain grows by more than MinConf blocks  *)
(* between a count and its scan and every chain has been scanned before.   *)
(***************************************************************************)

\* Two invoices never wait for one amount.
LockedApart == \A i, j \in Refs :
  invoices[i].locked /\ invoices[j].locked /\ invoices[i].amount = invoices[j].amount => i = j

\* A transfer that would still settle the invoice it was made for.
Owed(y) == Exactly(y, y.for) /\ Payable(y.for)

CursorOk == \A c \in Chains : cursors[c] \in Nat /\ cursors[c] + MinConf <= height[c]

First(S) == CHOOSE o \in S : \A q \in S : o.block <= q.block

\* If nothing was pending when invoices were counted, all that was mined until
\* then owes nothing, and the scan goes no further.
ScanOk(rec) ==
  /\ rec.seen <= height[rec.chain] /\ height[rec.chain] <= rec.seen + ScanLag
  /\ ~rec.wanted =>
       \A y \in transfers : y.chain = rec.chain /\ y.block <= rec.seen => ~Owed(y)

\* What the next cursor will have passed and is owed is still to be handled.
Covers(rec, y) == y.chain = rec.chain /\ y.block <= rec.next
MatchOk(rec) ==
  /\ rec.next + MinConf <= height[rec.chain]
  /\ \A y \in transfers : Covers(rec, y) /\ Owed(y) => observed(y) \in rec.obs
SettleOk(rec) ==
  \A y \in transfers : Covers(rec, y) /\ Owed(y) /\ observed(y) = First(rec.obs) =>
    y.for = rec.match
ReadOk(rec) ==
  /\ rec.pc = "scan" => ScanOk(rec)
  /\ rec.pc \in {"match", "settle"} => MatchOk(rec)
  /\ rec.pc = "settle" => SettleOk(rec)

Unskipped ==
  /\ LockedApart /\ CursorOk /\ NoPaymentIsSkipped
  /\ \A p \in Pollers : ReadOk(pollers[p])

LEMMA FirstIs == \A p : FirstObs(p) = First(pollers[p].obs) /\ FirstObs(p)' = First(pollers'[p].obs)
  BY DEF FirstObs, First

\* New blocks go on top, and nothing else gets a transfer.
Deepens ==
  /\ \A c \in Chains : height[c] <= height'[c]
  /\ \A y \in transfers' : y \in transfers \/ y.block > height[y.chain]

LEMMA OwedBefore ==
  ASSUME Types, Types', Ages, NEW y \in transfers, Owed(y)'
  PROVE  Owed(y)
<1>1. y.for \in Refs /\ invoices[y.for] # NoInvoice
  BY DEF Types, TypeOK
<1>2. /\ invoices'[y.for].amount = invoices[y.for].amount
      /\ invoices'[y.for].expires = invoices[y.for].expires
      /\ invoices'[y.for].status = "pending" => invoices[y.for].status = "pending"
      /\ now \in Nat /\ now' \in Nat /\ now <= now' /\ invoices[y.for].expires \in Nat
  BY <1>1 DEF Ages, InvoicesAge, Types, TypeOK, Rows
<1> QED BY <1>2 DEF Owed, Exactly, Payable, RawPerUnit

\* What a poller has read stays good while others move.
LEMMA ReadKept ==
  ASSUME Types, Types', Ages, Deepens, NEW rec \in PollerRecs, ReadOk(rec),
         rec.pc \in {"scan", "match", "settle"} => rec.chain \in Chains,
         rec.pc \in {"match", "settle"} => rec.next \in Nat,
         rec.pc = "scan" => height'[rec.chain] <= rec.seen + ScanLag
  PROVE  ReadOk(rec)'
<1>1. rec.pc \in {"scan", "match", "settle"} =>
        /\ height[rec.chain] \in Nat /\ height'[rec.chain] \in Nat
        /\ height[rec.chain] <= height'[rec.chain]
  BY DEF Deepens, Types, TypeOK
<1>2. rec.seen \in Nat /\ MinConf \in Nat /\ \A y \in transfers' : y.block \in Nat
  BY BlConstants DEF PollerRecs, Types, TypeOK
<1>3. CASE rec.pc = "scan"
  <2>1. rec.seen <= height'[rec.chain] /\ height'[rec.chain] <= rec.seen + ScanLag
    BY <1>1, <1>2, <1>3, BlConstants DEF ReadOk, ScanOk
  <2>2. ASSUME ~rec.wanted, NEW y \in transfers', y.chain = rec.chain, y.block <= rec.seen
        PROVE  ~Owed(y)'
    <3>1. y \in transfers
      BY <1>1, <1>2, <1>3, <2>2 DEF Deepens, ReadOk, ScanOk
    <3> QED BY <1>3, <2>2, <3>1, OwedBefore DEF ReadOk, ScanOk
  <2> QED BY <1>3, <2>1, <2>2 DEF ReadOk, ScanOk
<1>4. CASE rec.pc \in {"match", "settle"}
  <2>1. rec.next + MinConf <= height'[rec.chain]
    BY <1>1, <1>2, <1>4 DEF ReadOk, MatchOk
  <2>2. ASSUME NEW y \in transfers', Covers(rec, y), Owed(y)'
        PROVE  y \in transfers /\ Owed(y)
    <3>1. y \in transfers
      BY <1>1, <1>2, <1>4, <2>2 DEF Deepens, ReadOk, MatchOk, Covers
    <3> QED BY <2>2, <3>1, OwedBefore
  <2>3. MatchOk(rec)'
    BY <1>4, <2>1, <2>2 DEF ReadOk, MatchOk, Covers, observed, RawPerUnit, scaleDecimal
  <2>4. rec.pc = "settle" => SettleOk(rec)'
    BY <2>2 DEF ReadOk, SettleOk, Covers, observed, RawPerUnit, scaleDecimal, First
  <2> QED BY <1>4, <2>3, <2>4 DEF ReadOk
<1> QED BY <1>3, <1>4 DEF ReadOk

LEMMA OthersRead ==
  ASSUME Types, Types', Unskipped, Ages, Deepens, NEW P \in SUBSET Pollers,
         \A q \in P : /\ pollers'[q] = pollers[q]
                      /\ pollers[q].pc = "scan" =>
                           height'[pollers[q].chain] <= pollers[q].seen + ScanLag
  PROVE  \A q \in P : ReadOk(pollers[q])'
<1> SUFFICES ASSUME NEW q \in P PROVE ReadOk(pollers[q])'
  OBVIOUS
<1>1. PICK r : r = pollers[q]
  OBVIOUS
<1>2. r \in PollerRecs /\ ReadOk(r)
  BY <1>1 DEF Unskipped, Types, TypeOK, PollerRecs
<1>3. /\ r.pc \in {"scan", "match", "settle"} => r.chain \in Chains
      /\ r.pc \in {"match", "settle"} => r.next \in Nat
      /\ r.pc = "scan" => height'[r.chain] <= r.seen + ScanLag
  BY <1>1 DEF Types
<1>4. ReadOk(r)'
  BY <1>2, <1>3, ReadKept
<1> QED BY <1>1, <1>4

LEMMA NotSkippedKept ==
  ASSUME Types, Types', Unskipped, Ages, Deepens, UNCHANGED cursors
  PROVE  NoPaymentIsSkipped' /\ CursorOk'
<1>1. \A c \in Chains : /\ cursors[c] \in Nat /\ cursors[c] + MinConf <= height[c]
                        /\ height[c] \in Nat /\ height'[c] \in Nat /\ height[c] <= height'[c]
  BY DEF Unskipped, CursorOk, Deepens, Types, TypeOK
<1>2. MinConf \in Nat
  BY BlConstants
<1>3. CursorOk'
  BY <1>1, <1>2 DEF CursorOk
<1>4. ASSUME NEW y \in transfers', Behind(y)', Owed(y)' PROVE FALSE
  <2>1. y.chain \in Chains /\ y.block \in Nat
    BY DEF Types, TypeOK
  <2>2. y.block <= cursors[y.chain]
    BY <1>4 DEF Behind
  <2>3. y \in transfers
    BY <1>1, <1>2, <2>1, <2>2 DEF Deepens
  <2>4. Owed(y) /\ Behind(y)
    BY <1>4, <2>3, OwedBefore DEF Behind
  <2> QED BY <2>3, <2>4 DEF Unskipped, NoPaymentIsSkipped, Owed
<1> QED BY <1>3, <1>4 DEF NoPaymentIsSkipped, Owed

LEMMA ApartKept ==
  ASSUME LockedApart, NoneReserved
  PROVE  LockedApart'
  BY DEF LockedApart, NoneReserved

LEMMA ApartCreated ==
  ASSUME Types, LockedApart, NEW i \in Refs, ~Reserved(invoices'[i].amount),
         \A j \in Refs \ {i} : invoices'[j] = invoices[j]
  PROVE  LockedApart'
<1>1. \A j \in Refs \ {i} : ~(invoices'[j].locked /\ invoices'[j].amount = invoices'[i].amount)
  BY DEF Reserved
<1> QED BY <1>1 DEF LockedApart

LEMMA StartsRead ==
  ASSUME NEW p \in Pollers, Starts(pollers'[p])
  PROVE  ReadOk(pollers[p])'
  BY DEF Starts, ReadOk

LEMMA CountRead ==
  ASSUME Types, NEW p \in Pollers, CountPendingInvoices(p)
  PROVE  ReadOk(pollers[p])'
<1>1. PICK c \in Chains : /\ pollers'[p].pc = "scan" /\ pollers'[p].chain = c
                          /\ pollers'[p].seen = height[c]
                          /\ pollers'[p].wanted = \E i \in Refs : Payable(i)
  BY CountTypes
<1>2. UNCHANGED <<outside, ledger>> /\ height[c] \in Nat /\ ScanLag \in Nat
  BY CountTypes, BlConstants DEF Types, TypeOK
<1>3. \A y \in transfers : y.for \in Refs
  BY DEF Types, TypeOK
<1>4. ~pollers'[p].wanted => \A y \in transfers : ~Owed(y)'
  BY <1>1, <1>2, <1>3 DEF Owed, Payable, outside, ledger
<1> QED BY <1>1, <1>2, <1>4 DEF ReadOk, ScanOk, outside

\* The scan passes no transfer that is owed: it returns it, or the cursor had
\* passed it before, or it was mined before the count that found nothing.
LEMMA ScanRead ==
  ASSUME ScanLag <= MinConf, Types, Unskipped, NEW p \in Pollers, Scan(p)
  PROVE  ReadOk(pollers[p])'
<1> DEFINE c == pollers[p].chain
<1>1. /\ UNCHANGED <<outside, ledger>> /\ pollers[p].pc = "scan" /\ c \in Chains
      /\ ReadOk(pollers[p])
  BY ScanTypes DEF Scan, At, Types, Unskipped
<1>2. CASE Starts(pollers'[p])
  BY <1>2, StartsRead
<1>3. CASE /\ pollers'[p].pc = "match" /\ pollers'[p].chain = c
           /\ height[c] >= MinConf
           /\ pollers'[p].next = ScanTo(c)
           /\ pollers'[p].obs =
                IF cursors[c] # None /\ pollers[p].wanted
                THEN {observed(y) : y \in {y \in transfers : y.chain = c /\ cursors[c] < y.block
                                                             /\ y.block <= ScanTo(c)}}
                ELSE {}
  <2>1. /\ height[c] \in Nat /\ cursors[c] \in Nat /\ cursors[c] # None
        /\ pollers[p].seen \in Nat /\ MinConf \in Nat /\ ScanLag \in Nat /\ ScanChunk \in Nat
        /\ height[c] <= pollers[p].seen + ScanLag
    BY <1>1, BlConstants, VwConstants DEF Types, TypeOK, Unskipped, CursorOk, ReadOk, ScanOk
  <2>2. /\ ScanTo(c) \in Nat /\ ScanTo(c) + MinConf <= height[c]
        /\ ScanTo(c) <= pollers[p].seen
    BY <1>3, <2>1 DEF ScanTo
  <2>3. ASSUME NEW y \in transfers, y.chain = c, y.block <= ScanTo(c), Owed(y)
        PROVE  observed(y) \in pollers'[p].obs
    <3>1. y.block \in Nat
      BY DEF Types, TypeOK
    <3>2. pollers[p].wanted
      BY <1>1, <2>1, <2>2, <2>3, <3>1 DEF ReadOk, ScanOk
    <3>3. ~(y.block <= cursors[c])
      BY <2>1, <2>3 DEF Unskipped, NoPaymentIsSkipped, Behind, Owed
    <3>4. cursors[c] < y.block
      BY <2>1, <3>1, <3>3
    <3> QED BY <1>3, <2>1, <2>3, <3>2, <3>4
  <2>4. \A y \in transfers : Owed(y)' <=> Owed(y)
    BY <1>1 DEF Owed, Exactly, Payable, RawPerUnit, outside, ledger
  <2>5. MatchOk(pollers[p])'
    BY <1>1, <1>3, <2>2, <2>3, <2>4
       DEF MatchOk, Covers, outside, observed, RawPerUnit, scaleDecimal
  <2> QED BY <1>3, <2>5 DEF ReadOk
<1> QED BY <1>2, <1>3, ScanTypes

\* What is not matched is not owed, and what is matched is the one invoice that
\* waits for the amount.
LEMMA MatchRead ==
  ASSUME Types, Unskipped, NEW p \in Pollers, MatchPendingInvoice(p)
  PROVE  ReadOk(pollers[p])'
<1>1. /\ UNCHANGED <<outside, ledger>> /\ pollers[p].pc = "match"
      /\ pollers'[p].chain = pollers[p].chain /\ pollers'[p].next = pollers[p].next
      /\ MatchOk(pollers[p])
  BY MatchTypes DEF MatchPendingInvoice, At, Unskipped, ReadOk
<1>2. \A y \in transfers : Owed(y)' <=> Owed(y)
  BY <1>1 DEF Owed, Exactly, Payable, RawPerUnit, outside, ledger
<1>3. ASSUME NEW y \in transfers, Owed(y), observed(y) = FirstObs(p)
      PROVE  Matches(y.for, FirstObs(p).amount)
  <2>1. y.for \in Refs /\ Created(y.for) /\ y \in Transfers
    BY <1>3 DEF Types, TypeOK, Transfers
  <2>2. PICK n \in Nat : /\ invoices[y.for].amount.units = n
                         /\ invoices[y.for].amount = [units |-> n, rest |-> 0]
    BY <2>1 DEF Created, Amounts
  <2>3. y.raw = n * RawPerUnit(y.chain)
    BY <1>3, <2>2 DEF Owed, Exactly
  <2>4. scaleDecimal(y.raw, RawPerUnit(y.chain)) = [units |-> n, rest |-> 0]
    <3>1. y.raw \in Nat /\ RawPerUnit(y.chain) \in Nat \ {0}
      BY <2>1, PerUnit DEF Transfers
    <3> QED BY <2>3, <3>1, ScalingIsExact
  <2>5. FirstObs(p).amount = invoices[y.for].amount
    BY <1>3, <2>2, <2>4, ObservedType
  <2> QED BY <1>3, <2>1, <2>5 DEF Matches, Owed, Payable, Created
<1>4. ASSUME NEW i \in Refs, Matches(i, FirstObs(p).amount),
             pollers'[p].pc = "settle", pollers'[p].match = i, pollers'[p].obs = pollers[p].obs
      PROVE  ReadOk(pollers[p])'
  <2>1. ASSUME NEW y \in transfers, Owed(y), observed(y) = First(pollers[p].obs)
        PROVE  y.for = i
    <3>1. Matches(y.for, FirstObs(p).amount) /\ y.for \in Refs
      BY <1>3, <2>1, FirstIs DEF Types, TypeOK
    <3> QED BY <1>4, <3>1 DEF Matches, Unskipped, LockedApart
  <2>2. MatchOk(pollers[p])'
    BY <1>1, <1>2, <1>4
       DEF MatchOk, Covers, outside, observed, RawPerUnit, scaleDecimal
  <2>3. SettleOk(pollers[p])'
    BY <1>1, <1>2, <1>4, <2>1
       DEF SettleOk, Covers, outside, observed, RawPerUnit, scaleDecimal, First
  <2> QED BY <1>4, <2>2, <2>3 DEF ReadOk
<1>5. ASSUME \A i \in Refs : ~Matches(i, FirstObs(p).amount),
             pollers'[p].pc = "match", pollers'[p].obs = pollers[p].obs \ {FirstObs(p)}
      PROVE  ReadOk(pollers[p])'
  <2>1. \A y \in transfers : Owed(y) => observed(y) # FirstObs(p)
    BY <1>3, <1>5 DEF Types, TypeOK
  <2>2. MatchOk(pollers[p])'
    BY <1>1, <1>2, <1>5, <2>1
       DEF MatchOk, Covers, outside, observed, RawPerUnit, scaleDecimal
  <2> QED BY <1>5, <2>2 DEF ReadOk
<1> QED BY <1>4, <1>5, MatchTypes

\* After the settlement its transfer is no longer owed.
LEMMA SettleRead ==
  ASSUME Types, Types', Unskipped, HoldsOk, RowsOk, NEW p \in Pollers, SettleInvoice(p)
  PROVE  ReadOk(pollers[p])'
<1>1. /\ UNCHANGED outside /\ pollers[p].pc = "settle" /\ Ages
      /\ MatchOk(pollers[p]) /\ SettleOk(pollers[p])
  BY SettleTypes DEF Unskipped, ReadOk
<1>2. CASE Starts(pollers'[p])
  BY <1>2, StartsRead
<1>3. CASE /\ Paying(p) \/ invoices[pollers[p].match].status # "pending"
           /\ pollers'[p].pc = "match" /\ pollers'[p].chain = pollers[p].chain
           /\ pollers'[p].next = pollers[p].next
           /\ pollers'[p].obs = pollers[p].obs \ {FirstObs(p)}
  <2>1. PICK k \in Refs : k = pollers[p].match /\ invoices[k] # NoInvoice
    BY <1>1 DEF RowsOk, RowOk
  <2>2. invoices'[k].status # "pending"
    <3>1. CASE Paying(p)
      BY <2>1, <3>1 DEF Paying, Types, TypeOK, Rows
    <3>2. CASE invoices[k].status # "pending"
      BY <1>1, <2>1, <3>2 DEF Ages, InvoicesAge
    <3> QED BY <1>3, <2>1, <3>1, <3>2
  <2>3. ASSUME NEW y \in transfers, Covers(pollers[p], y), Owed(y)'
        PROVE  observed(y) \in pollers'[p].obs
    <3>1. Owed(y)
      BY <1>1, <2>3, OwedBefore
    <3>2. y.for # k
      BY <2>2, <2>3 DEF Owed, Payable
    <3>3. observed(y) # FirstObs(p)
      BY <1>1, <2>1, <2>3, <3>1, <3>2, FirstIs DEF SettleOk
    <3> QED BY <1>1, <1>3, <2>3, <3>1, <3>3 DEF MatchOk
  <2>4. MatchOk(pollers[p])'
    BY <1>1, <1>3, <2>3
       DEF MatchOk, Covers, outside, observed, RawPerUnit, scaleDecimal
  <2> QED BY <1>3, <2>4 DEF ReadOk
<1> QED BY <1>2, <1>3, SettleTypes

LEMMA Deepening ==
  ASSUME Types, UNCHANGED <<height, transfers>>
  PROVE  Deepens
<1>1. \A c \in Chains : height[c] \in Nat
  BY DEF Types, TypeOK
<1> QED BY <1>1 DEF Deepens

\* A step outside the pollers.
LEMMA OutsideUnskipped ==
  ASSUME Types, Types', Unskipped, Ages, Deepens, LockedApart', UNCHANGED <<pollers, cursors>>,
         \A q \in Pollers : pollers[q].pc = "scan" =>
           height'[pollers[q].chain] <= pollers[q].seen + ScanLag
  PROVE  Unskipped'
<1>1. \A q \in Pollers : ReadOk(pollers[q])'
  BY OthersRead
<1>2. NoPaymentIsSkipped' /\ CursorOk'
  BY NotSkippedKept
<1> QED BY <1>1, <1>2 DEF Unskipped

LEMMA LagKept ==
  ASSUME Unskipped, UNCHANGED height
  PROVE  \A q \in Pollers : pollers[q].pc = "scan" =>
           height'[pollers[q].chain] <= pollers[q].seen + ScanLag
  BY DEF Unskipped, ReadOk, ScanOk

\* A step of one poller that leaves the cursors alone.
LEMMA PollerUnskipped ==
  ASSUME Types, Types', Unskipped, Ages, LockedApart', UNCHANGED <<outside, cursors>>,
         NEW p \in Pollers, ReadOk(pollers[p])',
         \A q \in Pollers \ {p} : pollers'[q] = pollers[q]
  PROVE  Unskipped'
<1>1. Deepens /\ height' = height
  BY Deepening DEF outside
<1>2. \A q \in Pollers \ {p} : ReadOk(pollers[q])'
  BY <1>1, LagKept, OthersRead
<1>3. NoPaymentIsSkipped' /\ CursorOk'
  BY <1>1, NotSkippedKept
<1> QED BY <1>2, <1>3 DEF Unskipped

LEMMA ChainUnskipped ==
  ASSUME Types, Unskipped, LockedApart,
         \/ \E x \in Txs, i \in Refs, c \in Chains, slip \in {0, 1} : Pay(x, i, c, slip)
         \/ \E c \in Chains : Mine(c)
         \/ \E y \in transfers : Reorg(y)
  PROVE  Unskipped'
<1>1. Types' /\ Ages /\ UNCHANGED <<ledger, cursors, pollers>>
  BY ChainTypes
<1>2. LockedApart'
  BY <1>1, SameLedger, ApartKept
<1>3. ASSUME NEW x \in Txs, NEW i \in Refs, NEW c \in Chains, NEW slip \in {0, 1},
             Pay(x, i, c, slip)
      PROVE  Unskipped'
  <2>1. height' = height
    BY <1>3 DEF Pay
  <2>2. Deepens
    <3>1. \A y \in transfers' \ transfers : y.chain = c /\ y.block = height[c] + 1
      BY <1>3 DEF Pay
    <3> QED BY <2>1, <3>1 DEF Deepens, Types, TypeOK
  <2> QED BY <1>1, <1>2, <2>1, <2>2, LagKept, OutsideUnskipped
<1>4. ASSUME NEW c \in Chains, Mine(c) PROVE Unskipped'
  <2>1. /\ height' = [height EXCEPT ![c] = @ + 1] /\ transfers' = transfers
        /\ height \in [Chains -> Nat]
    BY <1>4 DEF Mine, Types, TypeOK
  <2>2. Deepens
    BY <2>1 DEF Deepens
  <2>3. ASSUME NEW q \in Pollers, pollers[q].pc = "scan"
        PROVE  height'[pollers[q].chain] <= pollers[q].seen + ScanLag
    <3>1. /\ pollers[q].chain \in Chains /\ pollers[q].seen \in Nat /\ ScanLag \in Nat
          /\ height[pollers[q].chain] <= pollers[q].seen + ScanLag
      BY <2>3, BlConstants DEF Types, TypeOK, Unskipped, ReadOk, ScanOk
    <3>2. CASE pollers[q].chain = c
      BY <1>4, <2>1, <2>3, <3>1, <3>2 DEF Mine, Counting
    <3>3. CASE pollers[q].chain # c
      BY <2>1, <3>1, <3>3
    <3> QED BY <3>2, <3>3
  <2> QED BY <1>1, <1>2, <2>2, <2>3, OutsideUnskipped
<1>5. ASSUME NEW y \in transfers, Reorg(y) PROVE Unskipped'
  <2>1. height' = height
    BY <1>5 DEF Reorg
  <2>2. Deepens
    <3>1. y.chain \in Chains /\ height[y.chain] \in Nat /\ y \in Transfers
      BY DEF Types, TypeOK, Transfers
    <3>2. \A z \in transfers' \ transfers : z.chain = y.chain /\ z.block = height[y.chain] + 1
      BY <1>5, <3>1 DEF Reorg, Transfers
    <3> QED BY <2>1, <3>1, <3>2 DEF Deepens, Types, TypeOK
  <2> QED BY <1>1, <1>2, <2>1, <2>2, LagKept, OutsideUnskipped
<1> QED BY <1>3, <1>4, <1>5

\* When nothing that was read is left to handle, the cursor passes nothing owed.
LEMMA CursorUnskipped ==
  ASSUME Types, Unskipped, NEW p \in Pollers, SetChainCursor(p)
  PROVE  Unskipped'
<1>1. /\ Types' /\ Ages /\ Starts(pollers'[p])
      /\ \A q \in Pollers \ {p} : pollers'[q] = pollers[q]
      /\ UNCHANGED <<outside, ledger>>
      /\ pollers[p].pc = "match" /\ pollers[p].obs = {}
      /\ cursors' = [cursors EXCEPT ![pollers[p].chain] = pollers[p].next]
  BY CursorTypes
<1>2. Deepens /\ height' = height /\ transfers' = transfers
  BY <1>1, Deepening DEF outside
<1>3. \A q \in Pollers : ReadOk(pollers[q])'
  BY <1>1, <1>2, StartsRead, LagKept, OthersRead
<1>4. LockedApart'
  BY <1>1, SameLedger, ApartKept DEF Unskipped
<1>5. /\ pollers[p].chain \in Chains /\ pollers[p].next \in Nat
      /\ pollers[p].next + MinConf <= height[pollers[p].chain]
      /\ \A y \in transfers : ~(Covers(pollers[p], y) /\ Owed(y))
  BY <1>1 DEF Types, Unskipped, ReadOk, MatchOk
<1>6. CursorOk'
  BY <1>1, <1>2, <1>5 DEF Unskipped, CursorOk, Types, TypeOK
<1>7. ASSUME NEW y \in transfers', Behind(y)', Owed(y)' PROVE FALSE
  <2>1. y \in transfers /\ Owed(y) /\ y.chain \in Chains
    BY <1>1, <1>2, <1>7, OwedBefore DEF Types, TypeOK
  <2>2. CASE y.chain = pollers[p].chain
    BY <1>1, <1>5, <1>7, <2>1, <2>2 DEF Behind, Covers, Types, TypeOK
  <2>3. CASE y.chain # pollers[p].chain
    <3>1. cursors'[y.chain] = cursors[y.chain]
      BY <1>1, <2>1, <2>3 DEF Types, TypeOK
    <3>2. Behind(y)
      BY <1>7, <3>1 DEF Behind
    <3> QED BY <2>1, <3>2 DEF Unskipped, NoPaymentIsSkipped, Owed
  <2> QED BY <2>2, <2>3
<1>8. NoPaymentIsSkipped'
  BY <1>7 DEF NoPaymentIsSkipped, Owed
<1> QED BY <1>3, <1>4, <1>6, <1>8 DEF Unskipped

LEMMA UnskippedStep ==
  ASSUME ScanLag <= MinConf, Granted, Unskipped, [Next]_vars
  PROVE  Unskipped'
<1>0. Types /\ HoldsOk /\ RowsOk /\ LockedApart
  BY DEF Granted, HoldsOk, HeldOk, RowsOk, Unskipped
<1>1. ASSUME NEW u \in Users, NEW i \in Refs, NEW kind \in {"pass", "title"},
             NEW t \in Titles \cup {None}, NEW dust \in 0..(MaxDust - 1),
             CreateInvoice(u, i, kind, t, dust)
      PROVE  Unskipped'
  <2>1. /\ Types' /\ Ages /\ UNCHANGED <<outside, cursors, pollers>>
        /\ ~Reserved(invoices'[i].amount) /\ \A j \in Refs \ {i} : invoices'[j] = invoices[j]
    BY <1>0, <1>1, CreateTypes
  <2>2. Deepens /\ height' = height
    BY <1>0, <2>1, Deepening DEF outside
  <2>3. LockedApart'
    BY <1>0, <2>1, ApartCreated
  <2> QED BY <1>0, <2>1, <2>2, <2>3, LagKept, OutsideUnskipped
<1>2. ASSUME NEW t \in Titles, DeleteTitle(t) PROVE Unskipped'
  <2>1. Types' /\ Ages /\ NoneReserved /\ UNCHANGED <<height, transfers, cursors, pollers>>
    BY <1>0, <1>2, DeleteTypes
  <2> QED BY <1>0, <2>1, Deepening, ApartKept, LagKept, OutsideUnskipped
<1>3. CASE \/ \E x \in Txs, i \in Refs, c \in Chains, slip \in {0, 1} : Pay(x, i, c, slip)
           \/ \E c \in Chains : Mine(c)
           \/ \E y \in transfers : Reorg(y)
  BY <1>0, <1>3, ChainUnskipped
<1>4. CASE \/ \E u \in Users, t \in Titles : PrepareSource(u, t)
           \/ \E u \in Users : SetUserComp(u)
           \/ Tick \/ UNCHANGED vars
  <2>1. Types' /\ Ages /\ UNCHANGED <<height, transfers, ledger, cursors, pollers>>
    BY <1>0, <1>4, OtherTypes
  <2> QED BY <1>0, <2>1, Deepening, SameLedger, ApartKept, LagKept, OutsideUnskipped
<1>5. ASSUME NEW p \in Pollers, ExpireInvoices(p) PROVE Unskipped'
  <2>1. /\ Types' /\ Ages /\ NoneReserved /\ UNCHANGED <<outside, cursors>>
        /\ Starts(pollers'[p]) /\ \A q \in Pollers \ {p} : pollers'[q] = pollers[q]
    BY <1>0, <1>5, ExpireTypes
  <2> QED BY <1>0, <2>1, ApartKept, StartsRead, PollerUnskipped
<1>6. ASSUME NEW p \in Pollers,
             \/ CountPendingInvoices(p) \/ Scan(p) \/ MatchPendingInvoice(p)
             \/ ScanFails(p) \/ Crash(p)
      PROVE  Unskipped'
  <2>1. /\ Types' /\ Ages /\ UNCHANGED <<outside, ledger, cursors>>
        /\ \A q \in Pollers \ {p} : pollers'[q] = pollers[q]
    BY <1>0, <1>6, CountTypes, ScanTypes, MatchTypes, FaultTypes
  <2>2. ReadOk(pollers[p])'
    BY <1>0, <1>6, CountRead, ScanRead, MatchRead, StartsRead, FaultTypes
  <2> QED BY <1>0, <2>1, <2>2, SameLedger, ApartKept, PollerUnskipped
<1>7. ASSUME NEW p \in Pollers, SettleInvoice(p) PROVE Unskipped'
  <2>1. /\ Types' /\ Ages /\ NoneReserved /\ UNCHANGED <<outside, cursors>>
        /\ \A q \in Pollers \ {p} : pollers'[q] = pollers[q]
    BY <1>0, <1>7, SettleTypes
  <2>2. ReadOk(pollers[p])'
    BY <1>0, <1>7, <2>1, SettleRead
  <2> QED BY <1>0, <2>1, <2>2, ApartKept, PollerUnskipped
<1>8. ASSUME NEW p \in Pollers, SetChainCursor(p) PROVE Unskipped'
  BY <1>0, <1>8, CursorUnskipped
<1> QED BY <1>1, <1>2, <1>3, <1>4, <1>5, <1>6, <1>7, <1>8 DEF Next, Step

\* While no chain grows by more than MinConf blocks between a count and its
\* scan, and every chain was scanned before the first invoice, the cursor passes
\* no transfer that would still settle its invoice (billing.go tick and
\* scanChain, chains.go:48-51, chain_evm.go).
THEOREM PaymentsAreNotSkipped ==
  ASSUME ScanLag <= MinConf, NewChains = {}
  PROVE  Spec => []NoPaymentIsSkipped
<1>1. Init => Unskipped
  <2> SUFFICES ASSUME Init PROVE Unskipped
    OBVIOUS
  <2>1. LockedApart
    BY DEF Init, LockedApart, NoInvoice
  <2>2. CursorOk
    BY BlConstants DEF Init, CursorOk
  <2>3. NoPaymentIsSkipped
    BY DEF Init, NoPaymentIsSkipped
  <2>4. \A p \in Pollers : ReadOk(pollers[p])
    BY DEF Init, ReadOk, Idle
  <2> QED BY <2>1, <2>2, <2>3, <2>4 DEF Unskipped
<1>2. Granted /\ Unskipped /\ [Next]_vars => Unskipped'
  BY UnskippedStep
<1>3. Unskipped => NoPaymentIsSkipped
  BY DEF Unskipped
<1> QED BY <1>1, <1>2, <1>3, GrantedAlways, PTL DEF Spec

-----------------------------------------------------------------------------
(***************************************************************************)
(* The featured list, one call at a time.  The inductive invariant: the    *)
(* snapshot of an open transaction is the table as it is.                  *)
(***************************************************************************)
CONSTANT Operators
VARIABLES position, tx
F == INSTANCE Featured

SeenIsCurrent == \A o \in F!Open : tx[o].seen = position
FeaturedInv == F!TypeOK /\ F!PositionsDistinct /\ SeenIsCurrent

LEMMA NextIsLast ==
  ASSUME NEW p \in [Titles -> Nat], NEW n \in F!NextPositions(p)
  PROVE  n \in Nat /\ n # 0 /\ \A t \in Titles : p[t] < n
<1>1. CASE F!Rows(p) = {}
  BY <1>1 DEF F!NextPositions, F!Rows
<1>2. CASE F!Rows(p) # {}
  <2>1. PICK u \in F!Rows(p) : n = p[u] + 1 /\ \A v \in F!Rows(p) : p[v] <= p[u]
    BY <1>2 DEF F!NextPositions
  <2>2. \A t \in Titles : p[t] <= p[u]
    BY <2>1 DEF F!Rows
  <2> QED BY <2>1, <2>2 DEF F!Rows
<1> QED BY <1>1, <1>2

\* What a move does to distinct positions it has just read.
LEMMA SwapFacts ==
  ASSUME NEW p \in [Titles -> Nat], NEW t \in F!Rows(p), NEW up \in BOOLEAN,
         NEW u \in F!Neighbours(p, t, up)
  PROVE  /\ u \in F!Rows(p) /\ u # t
         /\ F!Swapped(p, p, t, u) \in [Titles -> Nat]
         /\ F!Rows(F!Swapped(p, p, t, u)) = F!Rows(p)
         /\ F!Swapped(p, p, t, u)[t] = p[u] /\ F!Swapped(p, p, t, u)[u] = p[t]
         /\ \A v \in Titles \ {t, u} : F!Swapped(p, p, t, u)[v] = p[v]
<1>1. u \in F!Rows(p) /\ u # t /\ t \in Titles /\ u \in Titles
  BY DEF F!Neighbours, F!Beyond, F!Rows
<1> QED BY <1>1 DEF F!Swapped, F!Rows

LEMMA NothingBetween ==
  ASSUME NEW p \in [Titles -> Nat], NEW t \in F!Rows(p), NEW up \in BOOLEAN,
         NEW u \in F!Neighbours(p, t, up)
  PROVE  \A v \in F!Rows(p) : ~(p[t] < p[v] /\ p[v] < p[u]) /\ ~(p[u] < p[v] /\ p[v] < p[t])
<1>1. /\ u \in F!Beyond(p, t, up) /\ u \in Titles /\ t \in Titles
      /\ \A v \in F!Rows(p) : v \in Titles /\ p[v] \in Nat
      /\ p[u] \in Nat /\ p[t] \in Nat
  BY DEF F!Neighbours, F!Beyond, F!Rows
<1>2. CASE up
  <2>1. p[u] < p[t] /\ \A v \in F!Rows(p) : p[v] < p[t] => p[v] <= p[u]
    BY <1>2 DEF F!Neighbours, F!Beyond
  <2> QED BY <1>1, <2>1
<1>3. CASE ~up
  <2>1. p[t] < p[u] /\ \A v \in F!Rows(p) : p[v] > p[t] => p[u] <= p[v]
    BY <1>1, <1>3 DEF F!Neighbours, F!Beyond
  <2> QED BY <1>1, <2>1
<1> QED BY <1>2, <1>3

LEMMA FeaturedInit == F!Init => FeaturedInv
BY DEF F!Init, FeaturedInv, F!TypeOK, F!PositionsDistinct, SeenIsCurrent, F!Open, F!NoTx,
     F!Listed, F!Rows

\* What a step does to the positions; every property follows from this.
Appends(t) == /\ t \in titles /\ position[t] = 0
              /\ \E n \in F!NextPositions(position) : position' = [position EXCEPT ![t] = n]
Moves(t) == /\ t \in F!Listed
            /\ \E up \in BOOLEAN : \E u \in F!Neighbours(position, t, up) :
                 position' = F!Swapped(position, position, t, u)
Removes(t) == position' = [position EXCEPT ![t] = 0]

LEMMA FeaturedCases ==
  ASSUME FeaturedInv, F!SerialNext
  PROVE  UNCHANGED position \/ \E t \in Titles : Appends(t) \/ Moves(t) \/ Removes(t)
<1>0. F!TypeOK /\ SeenIsCurrent
  BY DEF FeaturedInv
<1>1. ASSUME NEW o \in Operators, F!AddFeatured(o)
      PROVE  UNCHANGED position \/ \E t \in Titles : Appends(t)
  <2>1. tx[o].seen = position
    BY <1>0, <1>1 DEF F!AddFeatured, SeenIsCurrent, F!Open
  <2> QED BY <1>0, <1>1, <2>1 DEF F!AddFeatured, Appends, F!TypeOK
<1>2. ASSUME NEW o \in Operators, F!MoveFeatured(o)
      PROVE  UNCHANGED position \/ \E t \in Titles : Moves(t)
  <2>1. tx[o].seen = position /\ tx[o].up \in BOOLEAN
    BY <1>0, <1>2 DEF F!MoveFeatured, SeenIsCurrent, F!Open, F!TypeOK
  <2>2. CASE position[tx[o].title] # 0 /\ F!Neighbours(position, tx[o].title, tx[o].up) # {}
    <3> DEFINE t == tx[o].title
    <3>1. PICK u \in F!Neighbours(position, t, tx[o].up) :
            position' = F!Swapped(position, position, t, u)
      BY <1>2, <2>1, <2>2 DEF F!MoveFeatured
    <3>2. t \in F!Listed
      <4>1. u \in Titles /\ position[u] # 0
        BY DEF F!Neighbours, F!Beyond, F!Rows
      <4>2. t \in Titles
        BY <1>0, <1>2 DEF F!TypeOK, F!MoveFeatured, F!Open
      <4> QED BY <2>2, <4>2 DEF F!Listed, F!Rows
    <3>3. t \in Titles
      BY <3>2 DEF F!Listed, F!Rows
    <3> QED BY <2>1, <3>1, <3>2, <3>3 DEF Moves
  <2>3. CASE ~(position[tx[o].title] # 0 /\ F!Neighbours(position, tx[o].title, tx[o].up) # {})
    BY <1>2, <2>1, <2>3 DEF F!MoveFeatured
  <2> QED BY <2>2, <2>3
<1>3. ASSUME NEW o \in Operators, NEW op, NEW t \in Titles, NEW up, F!Begin(o, op, t, up)
      PROVE  UNCHANGED position
  BY <1>3 DEF F!Begin
<1>4. ASSUME NEW o \in Operators, F!Abort(o) PROVE UNCHANGED position
  BY <1>4 DEF F!Abort
<1>5. ASSUME NEW t \in Titles, F!RemoveFeatured(t) \/ F!DeleteTitle(t) PROVE Removes(t)
  BY <1>5 DEF F!RemoveFeatured, F!DeleteTitle, Removes
<1> QED BY <1>1, <1>2, <1>3, <1>4, <1>5 DEF F!SerialNext, F!Next

LEMMA PositionsStayNat ==
  ASSUME FeaturedInv, F!SerialNext PROVE position' \in [Titles -> Nat]
<1>0. position \in [Titles -> Nat]
  BY DEF FeaturedInv, F!TypeOK
<1>1. ASSUME NEW t \in Titles, Appends(t) PROVE position' \in [Titles -> Nat]
  BY <1>0, <1>1, NextIsLast DEF Appends
<1>2. ASSUME NEW t \in Titles, Moves(t) PROVE position' \in [Titles -> Nat]
  BY <1>0, <1>2, SwapFacts DEF Moves, F!Listed
<1>3. ASSUME NEW t \in Titles, Removes(t) PROVE position' \in [Titles -> Nat]
  BY <1>0, <1>3 DEF Removes
<1> QED BY <1>0, <1>1, <1>2, <1>3, FeaturedCases

LEMMA FeaturedTypes == ASSUME FeaturedInv, F!SerialNext PROVE F!TypeOK'
<1> DEFINE TxRecs == [op: {"none", "add", "move"}, title: Titles \cup {None},
                   up: BOOLEAN, seen: [Titles -> Nat]]
           InTable == titles \subseteq Titles /\ F!Listed \subseteq titles
           TxOK == tx \in [Operators -> TxRecs] /\ \A o \in F!Open : tx[o].title \in Titles
<1>0. /\ F!TypeOK /\ TxOK /\ F!NoTx \in TxRecs /\ F!NoTx.op = "none"
      /\ position \in [Titles -> Nat] /\ position' \in [Titles -> Nat]
  BY PositionsStayNat DEF FeaturedInv, F!TypeOK, F!NoTx
<1>1. events' \in Nat
  BY <1>0 DEF F!SerialNext, F!Next, F!Begin, F!Click, F!AddFeatured, F!MoveFeatured, F!Abort,
              F!RemoveFeatured, F!DeleteTitle, F!TypeOK
<1>2. ASSUME NEW o \in Operators, NEW t \in Titles, NEW op \in {"add", "move"},
             NEW up \in BOOLEAN, F!Begin(o, op, t, up)
      PROVE  TxOK' /\ UNCHANGED <<titles, position>>
  <2>1. [op |-> op, title |-> t, up |-> up, seen |-> position] \in TxRecs
    BY <1>0
  <2> QED BY <1>0, <1>2, <2>1 DEF F!Begin, F!Open
<1>3. ASSUME NEW o \in Operators, tx' = [tx EXCEPT ![o] = F!NoTx] PROVE TxOK'
  BY <1>0, <1>3 DEF F!Open
<1>4. ASSUME UNCHANGED tx PROVE TxOK'
  BY <1>0, <1>4 DEF F!Open
<1>5. TxOK'
  BY <1>2, <1>3, <1>4 DEF F!SerialNext, F!Next, F!AddFeatured, F!MoveFeatured, F!Abort,
                          F!RemoveFeatured, F!DeleteTitle
<1>6. InTable'
  <2>1. ASSUME NEW o \in Operators, F!AddFeatured(o) PROVE InTable'
    BY <1>0, <2>1 DEF F!AddFeatured, F!TypeOK, F!Listed, F!Rows
  <2>2. ASSUME NEW o \in Operators, F!MoveFeatured(o) PROVE InTable'
    BY <1>0, <2>2 DEF F!MoveFeatured, F!Swapped, F!TypeOK, F!Listed, F!Rows
  <2>3. ASSUME NEW t \in Titles, F!RemoveFeatured(t) \/ F!DeleteTitle(t) PROVE InTable'
    BY <1>0, <2>3 DEF F!RemoveFeatured, F!DeleteTitle, F!TypeOK, F!Listed, F!Rows
  <2>4. ASSUME UNCHANGED <<titles, position>> PROVE InTable'
    BY <1>0, <2>4 DEF F!TypeOK, F!Listed, F!Rows
  <2> QED BY <1>2, <2>1, <2>2, <2>3, <2>4 DEF F!SerialNext, F!Next, F!Abort
<1> QED BY <1>0, <1>1, <1>5, <1>6 DEF F!TypeOK

LEMMA SnapshotsCurrent == ASSUME FeaturedInv, F!SerialNext PROVE SeenIsCurrent'
<1>0. F!TypeOK /\ SeenIsCurrent
  BY DEF FeaturedInv
<1>1. CASE F!Open' = {}
  BY <1>1 DEF SeenIsCurrent
<1>2. CASE F!Open = {} /\ F!Open' # {}
  <2>0. /\ \A o \in Operators : ~F!AddFeatured(o) /\ ~F!MoveFeatured(o) /\ ~F!Abort(o)
        /\ \A t \in Titles : ~F!RemoveFeatured(t) /\ ~F!DeleteTitle(t)
    <3>1. \A o \in Operators : tx[o].op = "none"
      BY <1>2 DEF F!Open
    <3>2. PICK o \in Operators : tx'[o].op # "none"
      BY <1>2 DEF F!Open
    <3>3. \A p \in Operators : ~F!Abort(p)
      BY <1>0, <3>1, <3>2 DEF F!Abort, F!NoTx, F!TypeOK
    <3>4. tx' # tx
      BY <3>1, <3>2
    <3> QED
      BY <3>1, <3>3, <3>4 DEF F!AddFeatured, F!MoveFeatured, F!RemoveFeatured, F!DeleteTitle
  <2>1. PICK o \in Operators, t \in Titles, op \in {"add", "move"}, up \in BOOLEAN :
          F!Begin(o, op, t, up)
    BY <2>0 DEF F!SerialNext, F!Next
  <2>2. \A x \in F!Open' : x = o
    BY <1>0, <1>2, <2>1 DEF F!Begin, F!Open, F!TypeOK
  <2> QED BY <1>0, <2>1, <2>2 DEF F!Begin, SeenIsCurrent, F!TypeOK
<1> QED BY <1>1, <1>2 DEF F!SerialNext

LEMMA PositionsStayDistinct == ASSUME FeaturedInv, F!SerialNext PROVE F!PositionsDistinct'
<1>0. position \in [Titles -> Nat] /\ F!PositionsDistinct
  BY DEF FeaturedInv, F!TypeOK
<1>1. ASSUME NEW t \in Titles, Appends(t) PROVE F!PositionsDistinct'
  <2>1. PICK n \in F!NextPositions(position) : position' = [position EXCEPT ![t] = n]
    BY <1>1 DEF Appends
  <2>2. n \in Nat /\ \A v \in Titles : position[v] < n
    BY <1>0, NextIsLast
  <2> QED BY <1>0, <2>1, <2>2 DEF F!PositionsDistinct, F!Listed, F!Rows
<1>2. ASSUME NEW t \in Titles, Moves(t) PROVE F!PositionsDistinct'
  <2> PICK up \in BOOLEAN : \E u \in F!Neighbours(position, t, up) :
        position' = F!Swapped(position, position, t, u)
    BY <1>2 DEF Moves
  <2>1. PICK u \in F!Neighbours(position, t, up) :
          position' = F!Swapped(position, position, t, u)
    OBVIOUS
  <2>2. /\ u \in F!Listed /\ u # t /\ t \in F!Listed
        /\ F!Rows(position') = F!Listed
        /\ position'[t] = position[u] /\ position'[u] = position[t]
        /\ \A v \in Titles \ {t, u} : position'[v] = position[v]
    BY <1>0, <1>2, <2>1, SwapFacts DEF F!Listed, Moves
  <2>3. F!Listed \subseteq Titles
    BY DEF F!Listed, F!Rows
  <2> QED BY <1>0, <2>2, <2>3 DEF F!PositionsDistinct, F!Listed
<1>3. ASSUME NEW t \in Titles, Removes(t) PROVE F!PositionsDistinct'
  BY <1>0, <1>3 DEF Removes, F!PositionsDistinct, F!Listed, F!Rows
<1>4. CASE UNCHANGED position
  BY <1>0, <1>4 DEF F!PositionsDistinct, F!Listed, F!Rows
<1> QED BY <1>1, <1>2, <1>3, <1>4, FeaturedCases

LEMMA FeaturedAlways == F!SerialSpec => []FeaturedInv
<1>1. FeaturedInv /\ UNCHANGED F!vars => FeaturedInv'
  BY DEF FeaturedInv, F!vars, F!TypeOK, F!PositionsDistinct, SeenIsCurrent, F!Open, F!Listed,
       F!Rows
<1>2. FeaturedInv /\ [F!SerialNext]_F!vars => FeaturedInv'
  BY <1>1, FeaturedTypes, SnapshotsCurrent, PositionsStayDistinct DEF FeaturedInv
<1> QED BY <1>2, FeaturedInit, PTL DEF F!SerialSpec

\* One call at a time no two titles share a position, for any titles and any
\* number of operators.
THEOREM SerialPositionsDistinct == F!SerialSpec => []F!PositionsDistinct
<1>1. FeaturedInv => F!PositionsDistinct
  BY DEF FeaturedInv
<1> QED BY <1>1, FeaturedAlways, PTL

\* One call at a time AddFeatured appends (store.go:635-637).
THEOREM SerialAddAppends == F!SerialSpec => F!AddAppends
<1> DEFINE A == \A t \in F!Rows(position') : position[t] = 0 =>
                  \A u \in F!Rows(position') \ {t} : position'[u] < position'[t]
<1>1. ASSUME FeaturedInv, F!SerialNext PROVE A
  <2>0. position \in [Titles -> Nat]
    BY <1>1 DEF FeaturedInv, F!TypeOK
  <2>1. ASSUME NEW t \in Titles, Appends(t) PROVE A
    <3>1. PICK n \in F!NextPositions(position) : position' = [position EXCEPT ![t] = n]
      BY <2>1 DEF Appends
    <3>2. n \in Nat /\ \A v \in Titles : position[v] < n
      BY <2>0, NextIsLast
    <3> QED BY <2>0, <3>1, <3>2 DEF F!Rows
  <2>2. ASSUME NEW t \in Titles, Moves(t) PROVE A
    <3>1. F!Rows(position') = F!Rows(position)
      BY <2>0, <2>2, SwapFacts DEF Moves, F!Listed
    <3> QED BY <3>1 DEF F!Rows
  <2>3. ASSUME NEW t \in Titles, Removes(t) PROVE A
    BY <2>0, <2>3 DEF Removes, F!Rows
  <2>4. CASE UNCHANGED position
    BY <2>4 DEF F!Rows
  <2> QED BY <1>1, <2>1, <2>2, <2>3, <2>4, FeaturedCases
<1>2. ASSUME UNCHANGED F!vars PROVE A
  BY <1>2 DEF F!vars, F!Rows
<1>3. FeaturedInv /\ [F!SerialNext]_F!vars => [A]_F!vars
  BY <1>1, <1>2
<1> HIDE DEF A
<1>4. F!SerialSpec => [][A]_F!vars
  BY <1>3, FeaturedAlways, PTL DEF F!SerialSpec
<1> QED BY <1>4 DEF F!AddAppends, A

\* One call at a time a move exchanges two neighbours and no other order
\* (store.go:669-670).
THEOREM SerialMovesAreOneSlot == F!SerialSpec => F!MovesAreOneSlot
<1> DEFINE B == \A t \in F!Listed \cap F!Rows(position'), u \in F!Listed \cap F!Rows(position') :
                  position[t] < position[u] /\ position'[t] >= position'[u] =>
                    ~\E v \in Titles : \/ position[t] < position[v] /\ position[v] < position[u]
                                       \/ position'[u] < position'[v] /\ position'[v] < position'[t]
<1>1. ASSUME FeaturedInv, F!SerialNext PROVE B
  <2>0. position \in [Titles -> Nat]
    BY <1>1 DEF FeaturedInv, F!TypeOK
  <2>1. ASSUME NEW t \in Titles, Appends(t) PROVE B
    <3>1. PICK n \in F!NextPositions(position) : position' = [position EXCEPT ![t] = n]
      BY <2>1 DEF Appends
    <3> QED BY <2>0, <2>1, <3>1 DEF Appends, F!Listed, F!Rows
  <2>2. ASSUME NEW t \in Titles, Moves(t) PROVE B
    <3> PICK up \in BOOLEAN : \E u \in F!Neighbours(position, t, up) :
          position' = F!Swapped(position, position, t, u)
      BY <2>2 DEF Moves
    <3>1. PICK u \in F!Neighbours(position, t, up) :
            position' = F!Swapped(position, position, t, u)
      OBVIOUS
    <3>2. /\ u \in F!Rows(position) /\ u # t /\ t \in F!Rows(position)
          /\ F!Rows(position') = F!Rows(position)
          /\ position'[t] = position[u] /\ position'[u] = position[t]
          /\ \A v \in Titles \ {t, u} : position'[v] = position[v]
      BY <2>0, <2>2, <3>1, SwapFacts DEF Moves, F!Listed
    <3>3. \A v \in F!Rows(position) : /\ ~(position[t] < position[v] /\ position[v] < position[u])
                                    /\ ~(position[u] < position[v] /\ position[v] < position[t])
      BY <2>0, <3>1, <3>2, NothingBetween
    <3>4. ASSUME NEW a \in F!Listed, NEW b \in F!Listed,
                 position[a] < position[b], position'[a] >= position'[b]
          PROVE  {a, b} = {t, u}
      BY <1>1, <2>0, <3>2, <3>3, <3>4 DEF FeaturedInv, F!PositionsDistinct, F!Listed, F!Rows
    <3> QED BY <2>0, <3>2, <3>3, <3>4 DEF F!Listed, F!Rows
  <2>3. ASSUME NEW t \in Titles, Removes(t) PROVE B
    BY <2>0, <2>3 DEF Removes, F!Listed, F!Rows
  <2>4. CASE UNCHANGED position
    BY <2>0, <2>4 DEF F!Listed, F!Rows
  <2> QED BY <1>1, <2>1, <2>2, <2>3, <2>4, FeaturedCases
<1>2. FeaturedInv /\ [F!SerialNext]_F!vars => [B]_F!vars
  BY <1>1
<1> HIDE DEF B
<1>3. F!SerialSpec => [][B]_F!vars
  BY <1>2, FeaturedAlways, PTL DEF F!SerialSpec
<1> QED BY <1>3 DEF F!MovesAreOneSlot, B

-----------------------------------------------------------------------------
(***************************************************************************)
(* Pairing.  A token stands for its user only while its row is approved:   *)
(* rows are never used twice, what was approved stays on record, and what  *)
(* makes a token dead never goes away.                                     *)
(***************************************************************************)

DeviceRecs == [status : {None, "pending", "approved", "revoked"},
               code : Codes \cup {None}, user : Users \cup {None}, expires : Nat]
Screens == [pc : {"out", "asking", "showing", "in"}, row : PairingIds \cup {0},
            left : Nat, deadline : Nat, polled : BOOLEAN, token : Tokens]
Polls == [pc : {"none", "read", "mint", "answer"}, token : Tokens,
          answer : Users \cup {None, "expired_token", "authorization_pending", "granted"}]
Reqs == [pc : {"none", "device", "user", "in"}, token : Tokens,
         kind : {None, "me", "logout", "other"}, dead : BOOLEAN, barred : BOOLEAN]

RowsFollow == \A r \in PairingIds :
  /\ devices[r].status = "approved" => devices[r].user \in linked[r]
  /\ r \in ended => devices[r].status = "revoked"
  /\ r > created => devices[r].status = None /\ devices[r].user = None

\* A token its user was given, and one that will never be good again.
Rightful(token) == token.row \in PairingIds /\ token.user \in linked[token.row]
Spent(token) == ~readBearer(token) \/ token.row \in ended

ScreenOk(t) ==
  /\ tv[t].pc = "asking" => tv[t].left # 0
  /\ tv[t].pc = "showing" => tv[t].row \in PairingIds
  /\ tv[t].pc = "in" => Rightful(tv[t].token)
PollOk(t) ==
  /\ poll[t].pc # "none" => tv[t].pc = "showing"
  /\ poll[t].pc = "mint" => poll[t].answer \in linked[tv[t].row]
  /\ poll[t].pc = "answer" /\ poll[t].answer = "granted" => Rightful(poll[t].token)
ReqOk(t) ==
  /\ req[t].pc # "none" => /\ tv[t].pc = "in" /\ Rightful(req[t].token)
                           /\ req[t].dead => Spent(req[t].token)
                           /\ req[t].barred => req[t].token.user \in blocked
  /\ req[t].pc \in {"user", "in"} => ~req[t].dead
  /\ req[t].pc = "in" => ~req[t].barred
TvOk(t) == ScreenOk(t) /\ PollOk(t) /\ ReqOk(t)

\* Each call is known by its number among those of its time.
Numbered(calls) == \A c \in calls : c[2] <= Cardinality({d \in calls : d[1] = c[1]})
QuotaOk(u) ==
  /\ IsFiniteSet(hits[u]) /\ accepted[u] \subseteq Live(hits[u], now)
  /\ Cardinality(accepted[u]) <= Limit
  /\ Numbered(hits[u])

PairingInv ==
  /\ PaTypeOK /\ RowsFollow
  /\ \A t \in Tvs : TvOk(t)
  /\ \A u \in Users : QuotaOk(u)

\* What no step takes back.
OnRecord ==
  /\ \A r \in PairingIds : linked[r] \subseteq linked'[r]
  /\ ended \subseteq ended' /\ now <= now' /\ now' \in Nat

LEMMA PairingBlanks ==
  /\ NoRow \in DeviceRecs /\ NoToken \in Tokens /\ NoPoll \in Polls /\ NoReq \in Reqs
  /\ SignedOut \in Screens
  /\ SignedOut.pc = "out" /\ NoPoll.pc = "none" /\ NoReq.pc = "none" /\ NoRow.status = None
  /\ NoRow.user = None
  BY DEF NoRow, DeviceRecs, NoToken, Tokens, NoPoll, Polls, NoReq, Reqs, SignedOut, Screens

LEMMA RevokeRows ==
  ASSUME PairingInv, NEW r \in PairingIds, NEW u \in Users, RevokeDevice(r, u),
         UNCHANGED <<created, linked>>
  PROVE  /\ devices' \in [PairingIds -> DeviceRecs] /\ ended' \subseteq PairingIds
         /\ ended \subseteq ended' /\ RowsFollow'
<1>1. /\ devices \in [PairingIds -> DeviceRecs] /\ ended \subseteq PairingIds /\ RowsFollow
      /\ linked \in [PairingIds -> SUBSET Users]
  BY DEF PairingInv, PaTypeOK, DeviceRecs
<1>2. CASE UNCHANGED <<devices, ended>>
  BY <1>1, <1>2 DEF RowsFollow
<1>3. CASE /\ r # 0 /\ devices[r].user = u
           /\ devices' = [devices EXCEPT ![r].status = "revoked", ![r].code = None]
           /\ ended' = ended \cup {r}
  <2>1. devices[r] \in DeviceRecs /\ ~(r > created)
    BY <1>1, <1>3, VwConstants DEF RowsFollow
  <2>2. /\ devices'[r] = [devices[r] EXCEPT !.status = "revoked", !.code = None]
        /\ \A s \in PairingIds \ {r} : devices'[s] = devices[s]
        /\ DOMAIN devices' = PairingIds
    BY <1>1, <1>3
  <2>3. devices'[r] \in DeviceRecs /\ devices'[r].status = "revoked"
    BY <2>1, <2>2 DEF DeviceRecs
  <2>4. devices' \in [PairingIds -> DeviceRecs]
    <3>1. \A s \in PairingIds : devices'[s] \in DeviceRecs
      BY <1>1, <2>2, <2>3
    <3>2. devices' = [s \in PairingIds |-> devices'[s]]
      BY <1>1, <1>3
    <3> QED BY <3>1, <3>2
  <2>5. ASSUME NEW s \in PairingIds
        PROVE  /\ devices'[s].status = "approved" => devices'[s].user \in linked'[s]
               /\ s \in ended' => devices'[s].status = "revoked"
               /\ s > created' => devices'[s].status = None /\ devices'[s].user = None
    <3>1. created' = created /\ linked' = linked /\ ended' = ended \cup {r}
      BY <1>3
    <3>2. CASE s = r
      BY <2>1, <2>3, <3>1, <3>2
    <3>3. CASE s # r
      BY <1>1, <2>2, <3>1, <3>3 DEF RowsFollow
    <3> QED BY <3>2, <3>3
  <2> QED BY <1>1, <1>3, <2>4, <2>5 DEF RowsFollow
<1> QED BY <1>2, <1>3 DEF RevokeDevice

\* The steps there are.
LEMMA PairingCases ==
  ASSUME [PaNext]_paVars
  PROVE  \/ \E t \in Tvs :
              \/ SignIn(t) \/ PollStart(t) \/ DevicePairing(t)
              \/ CodeTimeout(t) \/ LeaveScreen(t) \/ RequestLost(t) \/ Handle(t)
              \/ \E kind \in {"me", "logout", "other"} : Request(t, kind)
              \/ \E f \in BOOLEAN : \/ DeviceCode(t, f) \/ MintToken(t, f) \/ PollAnswer(t, f)
                                    \/ deviceUser(t, f) \/ currentUser(t, f)
         \/ \E u \in Users : \/ ApproveDevicePairing(u) \/ SetUserBlocked(u)
                             \/ \E code \in Codes : TypeCode(u, code)
                             \/ \E r \in PairingIds : DeviceRevoke(u, r)
         \/ ReapDevicePairings \/ Restart \/ PaTick \/ UNCHANGED paVars
<1>1. TRUE \in BOOLEAN /\ FALSE \in BOOLEAN
  OBVIOUS
<1> QED BY <1>1 DEF PaNext, TvStep

\* The rows, through every step.
LEMMA RowsStep ==
  ASSUME PairingInv, [PaNext]_paVars
  PROVE  /\ devices' \in [PairingIds -> DeviceRecs] /\ created' \in 0..MaxRows
         /\ linked' \in [PairingIds -> SUBSET Users] /\ ended' \subseteq PairingIds
         /\ RowsFollow' /\ OnRecord /\ events' \in Nat
<1> DEFINE Goal == /\ devices' \in [PairingIds -> DeviceRecs] /\ created' \in 0..MaxRows
                   /\ linked' \in [PairingIds -> SUBSET Users] /\ ended' \subseteq PairingIds
                   /\ RowsFollow' /\ ended \subseteq ended'
                   /\ \A r \in PairingIds : linked[r] \subseteq linked'[r]
<1>0. /\ devices \in [PairingIds -> DeviceRecs] /\ created \in 0..MaxRows
      /\ linked \in [PairingIds -> SUBSET Users] /\ ended \subseteq PairingIds
      /\ RowsFollow /\ now \in Nat /\ events \in Nat
  BY DEF PairingInv, PaTypeOK, DeviceRecs
<1>1. ASSUME UNCHANGED <<devices, created, linked, ended>> PROVE Goal
  BY <1>0, <1>1 DEF RowsFollow
<1>2. ASSUME ReapDevicePairings PROVE Goal
  <2>1. /\ UNCHANGED <<created, linked, ended>>
        /\ \A r \in PairingIds : \/ devices'[r] = devices[r]
                                 \/ devices'[r] = NoRow /\ devices[r].status = "pending"
        /\ devices' \in [PairingIds -> DeviceRecs]
    BY <1>0, <1>2, PairingBlanks DEF ReapDevicePairings, history
  <2>2. NoRow.status # "approved"
    BY PairingBlanks, PaConstants
  <2> QED BY <1>0, <2>1, <2>2, PairingBlanks, PaConstants DEF RowsFollow
<1>3. ASSUME NEW t \in Tvs, NEW lost \in BOOLEAN, DeviceCode(t, lost) PROVE Goal
  <2>1. UNCHANGED <<linked, ended>> /\ created < MaxRows
    BY <1>3 DEF DeviceCode, history
  <2>2. CASE UNCHANGED <<devices, created>>
    BY <1>0, <2>1, <2>2 DEF RowsFollow
  <2>3. ASSUME NEW code \in Codes,
               created' = created + 1,
               devices' = [devices EXCEPT ![created + 1] = [status |-> "pending",
                             code |-> code, user |-> None, expires |-> now + CodeTtl]]
        PROVE  Goal
    <3>1. [status |-> "pending", code |-> code, user |-> None, expires |-> now + CodeTtl]
            \in DeviceRecs
      BY <1>0, PaConstants DEF DeviceRecs
    <3>2. created + 1 \in PairingIds /\ created + 1 > created
      BY <1>0, <2>1, PaConstants DEF PairingIds
    <3>3. created + 1 \notin ended
      BY <1>0, <3>2, PairingBlanks, PaConstants DEF RowsFollow
    <3>4. /\ devices'[created + 1].status = "pending"
          /\ \A r \in PairingIds \ {created + 1} : devices'[r] = devices[r]
          /\ devices' \in [PairingIds -> DeviceRecs]
      BY <1>0, <2>3, <3>1, <3>2
    <3>5. created' \in 0..MaxRows /\ \A r \in PairingIds : r > created' => r > created
      BY <1>0, <2>1, <2>3, PaConstants DEF PairingIds
    <3>6. ~(created + 1 > created')
      BY <1>0, <2>3
    <3> QED BY <1>0, <2>1, <3>3, <3>4, <3>5, <3>6 DEF RowsFollow
  <2> QED BY <1>3, <2>2, <2>3 DEF DeviceCode, rows
<1>4. ASSUME NEW u \in Users, ApproveDevicePairing(u) PROVE Goal
  <2> DEFINE bound == {r \in PairingIds : Approvable(r, phone[u])}
  <2>1. /\ UNCHANGED <<created, ended>>
        /\ \A r \in PairingIds : devices'[r] = IF r \in bound
             THEN [devices[r] EXCEPT !.user = u, !.status = "approved", !.code = None]
             ELSE devices[r]
        /\ \A r \in PairingIds : linked'[r] = IF r \in bound /\ Open(r) THEN linked[r] \cup {u}
                                              ELSE linked[r]
        /\ DOMAIN devices' = PairingIds /\ DOMAIN linked' = PairingIds
    BY <1>4 DEF ApproveDevicePairing
  <2>2. \A r \in bound : Open(r) /\ devices[r].status = "pending"
    BY DEF Approvable, Open
  <2> HIDE DEF bound
  <2>3. \A r \in PairingIds :
          /\ devices'[r] \in DeviceRecs /\ linked'[r] \in SUBSET Users
          /\ linked[r] \subseteq linked'[r]
          /\ r \in bound => /\ devices'[r].status = "approved" /\ devices'[r].user = u
                            /\ u \in linked'[r]
          /\ r \notin bound => devices'[r] = devices[r] /\ linked'[r] = linked[r]
    <3> SUFFICES ASSUME NEW r \in PairingIds
        PROVE /\ devices'[r] \in DeviceRecs /\ linked'[r] \in SUBSET Users
              /\ linked[r] \subseteq linked'[r]
              /\ r \in bound => /\ devices'[r].status = "approved" /\ devices'[r].user = u
                                /\ u \in linked'[r]
              /\ r \notin bound => devices'[r] = devices[r] /\ linked'[r] = linked[r]
      OBVIOUS
    <3>1. devices[r] \in DeviceRecs /\ linked[r] \in SUBSET Users
      BY <1>0
    <3>2. CASE r \in bound
      <4>1. devices'[r] = [devices[r] EXCEPT !.user = u, !.status = "approved", !.code = None]
        BY <2>1, <3>2
      <4>2. linked'[r] = linked[r] \cup {u}
        BY <2>1, <2>2, <3>2
      <4> QED BY <3>1, <3>2, <4>1, <4>2 DEF DeviceRecs
    <3>3. CASE r \notin bound
      BY <2>1, <3>1, <3>3
    <3> QED BY <3>2, <3>3
  <2>4. \A r \in PairingIds : devices[r].status = "pending" =>
          r \notin ended /\ ~(r > created)
    BY <1>0, PairingBlanks, PaConstants DEF RowsFollow
  <2>5. devices' \in [PairingIds -> DeviceRecs] /\ linked' \in [PairingIds -> SUBSET Users]
    <3>1. /\ devices' = [r \in PairingIds |-> devices'[r]]
          /\ linked' = [r \in PairingIds |-> linked'[r]]
      BY <1>4 DEF ApproveDevicePairing
    <3> QED BY <2>3, <3>1
  <2>6. RowsFollow'
    BY <1>0, <2>1, <2>2, <2>3, <2>4 DEF RowsFollow
  <2> QED BY <1>0, <2>1, <2>3, <2>5, <2>6
<1>5. ASSUME NEW r \in PairingIds, NEW u \in Users, RevokeDevice(r, u),
             UNCHANGED <<created, linked>>
      PROVE  Goal
  BY <1>0, <1>5, RevokeRows
<1>6. ASSUME NEW t \in Tvs, Handle(t) PROVE Goal
  <2>1. req[t].pc = "in" /\ UNCHANGED <<created, linked>>
    BY <1>6 DEF Handle
  <2>2. Rightful(req[t].token)
    BY <2>1 DEF PairingInv, TvOk, ReqOk
  <2>3. req[t].token.row \in PairingIds /\ req[t].token.user \in Users
    BY <1>0, <2>2 DEF Rightful
  <2> QED BY <1>1, <1>5, <1>6, <2>1, <2>3 DEF Handle
<1>7. ASSUME NEW u \in Users, NEW r \in PairingIds, DeviceRevoke(u, r) PROVE Goal
  BY <1>5, <1>7 DEF DeviceRevoke
<1>8. now <= now' /\ now' \in Nat /\ events' \in Nat
  <2>1. CASE \E t \in Tvs :
               \/ SignIn(t) \/ PollStart(t) \/ DevicePairing(t) \/ CodeTimeout(t) \/ Handle(t)
               \/ \E kind \in {"me", "logout", "other"} : Request(t, kind)
    BY <1>0, <2>1 DEF SignIn, PollStart, DevicePairing, CodeTimeout, Handle, Request
  <2>2. CASE \E t \in Tvs, f \in BOOLEAN :
               \/ DeviceCode(t, f) \/ MintToken(t, f) \/ PollAnswer(t, f)
               \/ deviceUser(t, f) \/ currentUser(t, f)
    <3>1. now' = now /\ (UNCHANGED events \/ Event)
      BY <2>2 DEF DeviceCode, MintToken, PollAnswer, deviceUser, currentUser, Fails
    <3> QED BY <1>0, <3>1 DEF Event
  <2>3. CASE \/ \E t \in Tvs : LeaveScreen(t) \/ RequestLost(t)
             \/ \E u \in Users : SetUserBlocked(u) \/ \E r \in PairingIds : DeviceRevoke(u, r)
             \/ Restart
    BY <1>0, <2>3 DEF LeaveScreen, RequestLost, SetUserBlocked, DeviceRevoke, Restart, Event
  <2>4. CASE \/ \E u \in Users : ApproveDevicePairing(u) \/ \E code \in Codes : TypeCode(u, code)
             \/ ReapDevicePairings \/ PaTick \/ UNCHANGED paVars
    <3>1. CASE \E u \in Users : ApproveDevicePairing(u) \/ \E code \in Codes : TypeCode(u, code)
      <4>1. UNCHANGED <<now, events>>
        BY <3>1 DEF ApproveDevicePairing, TypeCode
      <4> QED BY <1>0, <4>1
    <3>2. CASE ReapDevicePairings \/ PaTick \/ UNCHANGED paVars
      <4>1. (now' = now \/ now' = now + 1) /\ events' = events
        BY <3>2 DEF ReapDevicePairings, PaTick, paVars
      <4> QED BY <1>0, <4>1
    <3> QED BY <2>4, <3>1, <3>2
  <2> DEFINE Sane == now <= now' /\ now' \in Nat /\ events' \in Nat
  <2>5. ASSUME NEW t \in Tvs, NEW f \in BOOLEAN,
               \/ DeviceCode(t, f) \/ MintToken(t, f) \/ PollAnswer(t, f)
               \/ deviceUser(t, f) \/ currentUser(t, f)
        PROVE  Sane
    BY <2>2, <2>5
  <2> HIDE DEF Sane
  <2>6. Sane
    BY <2>1, <2>3, <2>4, <2>5, PairingCases DEF Sane
  <2> QED BY <2>6 DEF Sane
<1>9. Goal
  <2>1. CASE \E t \in Tvs : \/ SignIn(t) \/ PollStart(t) \/ DevicePairing(t)
                            \/ CodeTimeout(t) \/ LeaveScreen(t) \/ RequestLost(t)
                            \/ \E kind \in {"me", "logout", "other"} : Request(t, kind)
                            \/ \E f \in BOOLEAN : \/ MintToken(t, f) \/ PollAnswer(t, f)
                                                  \/ deviceUser(t, f) \/ currentUser(t, f)
    BY <1>1, <2>1 DEF SignIn, PollStart, DevicePairing, CodeTimeout, LeaveScreen, RequestLost,
         Request, MintToken, PollAnswer, deviceUser, currentUser, rows, history
  <2>2. CASE \/ Restart \/ PaTick \/ UNCHANGED paVars
             \/ \E u \in Users : SetUserBlocked(u) \/ \E code \in Codes : TypeCode(u, code)
    BY <1>1, <2>2 DEF Restart, PaTick, paVars, SetUserBlocked, TypeCode, rows, history
  <2> HIDE DEF Goal
  <2> QED BY <1>2, <1>3, <1>4, <1>6, <1>7, <2>1, <2>2, PairingCases
<1> QED BY <1>8, <1>9 DEF OnRecord

-----------------------------------------------------------------------------
(***************************************************************************)
(* The televisions.                                                        *)
(***************************************************************************)
TvTypes == tv \in [Tvs -> Screens] /\ poll \in [Tvs -> Polls] /\ req \in [Tvs -> Reqs]

LEMMA TvFacts ==
  ASSUME PairingInv
  PROVE  /\ TvTypes /\ now \in Nat /\ blocked \subseteq Users /\ ended \subseteq PairingIds
         /\ devices \in [PairingIds -> DeviceRecs] /\ linked \in [PairingIds -> SUBSET Users]
         /\ RowsFollow
         /\ \A t \in Tvs : /\ tv[t] \in Screens /\ poll[t] \in Polls /\ req[t] \in Reqs
                           /\ ScreenOk(t) /\ PollOk(t) /\ ReqOk(t)
  BY DEF PairingInv, PaTypeOK, TvOk, TvTypes, Screens, Polls, Reqs, DeviceRecs

\* A television that a step leaves alone, but for its poll interval.
LEMMA TvKept ==
  ASSUME PairingInv, OnRecord, NEW t \in Tvs,
         tv'[t] = tv[t] \/ tv'[t] = [tv[t] EXCEPT !.polled = FALSE],
         poll'[t] = poll[t], req'[t] = req[t], blocked \subseteq blocked'
  PROVE  TvOk(t)'
<1>1. /\ tv[t] \in Screens /\ poll[t] \in Polls /\ req[t] \in Reqs /\ now \in Nat
      /\ ScreenOk(t) /\ PollOk(t) /\ ReqOk(t)
  BY TvFacts
<1>2. /\ tv'[t].pc = tv[t].pc /\ tv'[t].row = tv[t].row /\ tv'[t].left = tv[t].left
      /\ tv'[t].token = tv[t].token
  BY <1>1 DEF Screens
<1>3. /\ tv[t].token \in Tokens /\ poll[t].token \in Tokens /\ req[t].token \in Tokens
  BY <1>1 DEF Screens, Polls, Reqs
<1>4. \A token \in Tokens : /\ Rightful(token) => Rightful(token)'
                            /\ Spent(token) => Spent(token)'
  BY <1>1 DEF OnRecord, Rightful, Spent, readBearer, Tokens
<1>5. ScreenOk(t)'
  BY <1>1, <1>2, <1>3, <1>4 DEF ScreenOk, Rightful
<1>6. PollOk(t)'
  BY <1>1, <1>2, <1>3, <1>4 DEF PollOk, Rightful, ScreenOk, OnRecord
<1>7. ReqOk(t)'
  BY <1>1, <1>2, <1>3, <1>4 DEF ReqOk, Rightful, Spent, readBearer
<1> QED BY <1>5, <1>6, <1>7 DEF TvOk

\* What a step of a television's screen does: nothing to the others, nor to requests.
ScreenMoved(t) ==
  /\ tv' \in [Tvs -> Screens] /\ poll' \in [Tvs -> Polls]
  /\ \A s \in Tvs \ {t} : tv'[s] = tv[s] /\ poll'[s] = poll[s]
  /\ UNCHANGED <<req, blocked>> /\ tv[t].pc # "in"

LEMMA NextScreen ==
  ASSUME NEW s \in Screens
  PROVE  /\ NextCode(s) \in Screens /\ NextCode(s).pc \in {"out", "asking"}
         /\ NextCode(s).pc = "asking" => NextCode(s).left # 0
<1>1. CASE s.left = 0
  BY <1>1, PairingBlanks DEF NextCode
<1>2. CASE s.left # 0
  <2> DEFINE x == [SignedOut EXCEPT !.pc = "asking", !.left = s.left]
  <2>1. NextCode(s) = x
    BY <1>2 DEF NextCode
  <2>2. s.left \in Nat
    BY DEF Screens
  <2>3. x \in Screens /\ x.pc = "asking" /\ x.left = s.left
    BY <2>2 DEF SignedOut, Screens, Tokens, NoToken
  <2> HIDE DEF x
  <2> QED BY <1>2, <2>1, <2>3
<1> QED BY <1>1, <1>2

\* A screen without a poll.
LEMMA NoPolls ==
  ASSUME NEW t \in Tvs, poll'[t] = NoPoll
  PROVE  PollOk(t)'
  BY PairingBlanks DEF PollOk

\* The screens that end or begin, with no poll in flight.
LEMMA ScreenTurns ==
  ASSUME PairingInv, OnRecord, NEW t \in Tvs,
         SignIn(t) \/ CodeTimeout(t) \/ LeaveScreen(t) \/ (\E f \in BOOLEAN : DeviceCode(t, f))
  PROVE  ScreenMoved(t) /\ ScreenOk(t)' /\ PollOk(t)'
<1>0. /\ TvTypes /\ now \in Nat /\ tv[t] \in Screens /\ poll[t] \in Polls
      /\ ScreenOk(t) /\ PollOk(t)
  BY TvFacts
<1>a. ASSUME NEW x \in Screens, tv' = [tv EXCEPT ![t] = x]
      PROVE  /\ tv' \in [Tvs -> Screens] /\ tv'[t] = x
             /\ \A s \in Tvs \ {t} : tv'[s] = tv[s]
  BY <1>0, <1>a DEF TvTypes
<1>b. ASSUME UNCHANGED poll \/ poll' = [poll EXCEPT ![t] = NoPoll]
      PROVE  /\ poll' \in [Tvs -> Polls]
             /\ \A s \in Tvs \ {t} : poll'[s] = poll[s]
             /\ poll[t].pc = "none" \/ ~UNCHANGED poll => PollOk(t)'
  BY <1>0, <1>b, PairingBlanks DEF TvTypes, PollOk
<1>1. CASE SignIn(t)
  <2> DEFINE x == [SignedOut EXCEPT !.pc = "asking", !.left = TvCodes]
  <2>1. /\ tv' = [tv EXCEPT ![t] = x] /\ UNCHANGED <<poll, req, blocked>>
        /\ tv[t].pc = "out" /\ poll[t].pc = "none"
    BY <1>0, <1>1 DEF SignIn, web, PollOk
  <2>2. x \in Screens /\ x.pc = "asking" /\ x.left # 0
    BY PaConstants DEF SignedOut, Screens, Tokens, NoToken
  <2> HIDE DEF x
  <2>3. /\ tv' \in [Tvs -> Screens] /\ tv'[t] = x /\ \A s \in Tvs \ {t} : tv'[s] = tv[s]
    BY <1>a, <2>1, <2>2
  <2> QED BY <1>b, <2>1, <2>2, <2>3 DEF ScreenMoved, ScreenOk
<1>2. CASE CodeTimeout(t)
  <2>1. /\ tv' = [tv EXCEPT ![t] = NextCode(tv[t])] /\ poll' = [poll EXCEPT ![t] = NoPoll]
        /\ UNCHANGED <<req, blocked>> /\ tv[t].pc = "showing" /\ poll'[t] = NoPoll
    BY <1>0, <1>2 DEF CodeTimeout, web, TvTypes
  <2>2. /\ tv' \in [Tvs -> Screens] /\ tv'[t] = NextCode(tv[t])
        /\ \A s \in Tvs \ {t} : tv'[s] = tv[s]
    BY <1>0, <1>a, <2>1, NextScreen
  <2>3. ScreenOk(t)'
    BY <1>0, <2>2, NextScreen DEF ScreenOk
  <2> QED BY <1>b, <2>1, <2>2, <2>3, NoPolls DEF ScreenMoved
<1>3. CASE LeaveScreen(t)
  <2>1. /\ tv' = [tv EXCEPT ![t] = SignedOut] /\ poll' = [poll EXCEPT ![t] = NoPoll]
        /\ UNCHANGED <<req, blocked>> /\ tv[t].pc \in {"asking", "showing"} /\ poll'[t] = NoPoll
    BY <1>0, <1>3 DEF LeaveScreen, web, TvTypes
  <2>2. /\ tv' \in [Tvs -> Screens] /\ tv'[t] = SignedOut
        /\ \A s \in Tvs \ {t} : tv'[s] = tv[s]
    BY <1>a, <2>1, PairingBlanks
  <2> QED BY <1>b, <2>1, <2>2, NoPolls, PairingBlanks DEF ScreenMoved, ScreenOk
<1>4. ASSUME NEW lost \in BOOLEAN, DeviceCode(t, lost)
      PROVE  ScreenMoved(t) /\ ScreenOk(t)' /\ PollOk(t)'
  <2> DEFINE shown == [SignedOut EXCEPT !.pc = "showing", !.row = created + 1,
                         !.left = tv[t].left - 1, !.deadline = now + CodeTtl]
  <2>1. /\ UNCHANGED <<poll, req, blocked>> /\ tv[t].pc = "asking" /\ poll[t].pc = "none"
        /\ \/ tv' = [tv EXCEPT ![t] = SignedOut]
           \/ tv' = [tv EXCEPT ![t] = shown]
        /\ created < MaxRows /\ created \in Nat
    <3>1. UNCHANGED <<poll, req, blocked>> /\ tv[t].pc = "asking" /\ created < MaxRows
      BY <1>4 DEF DeviceCode, web
    <3>2. poll[t].pc = "none" /\ created \in Nat
      BY <1>0, <3>1 DEF PollOk, PairingInv, PaTypeOK
    <3>3. tv' = [tv EXCEPT ![t] = SignedOut] \/ tv' = [tv EXCEPT ![t] = shown]
      <4>1. tv' = [tv EXCEPT ![t] = SignedOut] \/ tv' = [tv EXCEPT ![t] =
              IF lost THEN SignedOut ELSE shown]
        BY <1>4 DEF DeviceCode
      <4> HIDE DEF shown
      <4> QED BY <4>1
    <3> QED BY <3>1, <3>2, <3>3
  <2>2. shown \in Screens /\ shown.pc = "showing" /\ shown.row \in PairingIds
    <3>1. created + 1 \in PairingIds /\ now + CodeTtl \in Nat
      BY <1>0, <2>1, PaConstants DEF PairingIds
    <3>2. tv[t].left - 1 \in Nat
      BY <1>0, <2>1 DEF ScreenOk, Screens
    <3> QED BY <3>1, <3>2 DEF SignedOut, Screens, Tokens, NoToken
  <2> HIDE DEF shown
  <2>3. /\ tv' \in [Tvs -> Screens] /\ tv'[t] \in {SignedOut, shown}
        /\ \A s \in Tvs \ {t} : tv'[s] = tv[s]
    BY <1>a, <2>1, <2>2, PairingBlanks
  <2>4. ScreenOk(t)'
    BY <2>2, <2>3, PairingBlanks DEF ScreenOk
  <2> QED BY <1>b, <2>1, <2>3, <2>4 DEF ScreenMoved
<1> QED BY <1>1, <1>2, <1>3, <1>4

\* The poll of a shown code, from its start to its answer.
LEMMA PollSteps ==
  ASSUME PairingInv, OnRecord, NEW t \in Tvs,
         PollStart(t) \/ DevicePairing(t) \/ (\E f \in BOOLEAN : MintToken(t, f) \/ PollAnswer(t, f))
  PROVE  ScreenMoved(t) /\ ScreenOk(t)' /\ PollOk(t)'
<1>0. /\ TvTypes /\ now \in Nat /\ tv[t] \in Screens /\ poll[t] \in Polls
      /\ ScreenOk(t) /\ PollOk(t) /\ blocked \subseteq Users
      /\ devices \in [PairingIds -> DeviceRecs] /\ linked \in [PairingIds -> SUBSET Users]
      /\ RowsFollow
  BY TvFacts
<1>1. CASE PollStart(t)
  <2>1. /\ tv' = [tv EXCEPT ![t].polled = TRUE] /\ poll' = [poll EXCEPT ![t].pc = "read"]
        /\ UNCHANGED <<req, blocked>> /\ tv[t].pc = "showing"
    BY <1>1 DEF PollStart, web
  <2>2. /\ tv'[t] \in Screens /\ tv'[t].pc = "showing" /\ tv'[t].row = tv[t].row
        /\ poll'[t] \in Polls /\ poll'[t].pc = "read"
    BY <1>0, <2>1 DEF TvTypes, Screens, Polls
  <2>3. \A s \in Tvs \ {t} : tv'[s] = tv[s] /\ poll'[s] = poll[s]
    BY <1>0, <2>1 DEF TvTypes
  <2>4. tv' \in [Tvs -> Screens] /\ poll' \in [Tvs -> Polls]
    <3>1. /\ tv' = [s \in Tvs |-> tv'[s]] /\ poll' = [s \in Tvs |-> poll'[s]]
      BY <1>0, <2>1 DEF TvTypes
    <3>2. \A s \in Tvs : tv'[s] \in Screens /\ poll'[s] \in Polls
      BY <2>2, <2>3, TvFacts
    <3> QED BY <3>1, <3>2
  <2> QED BY <1>0, <2>1, <2>2, <2>3, <2>4 DEF ScreenMoved, ScreenOk, PollOk
\* The other steps, from what they leave in poll.
<1>2. ASSUME NEW x \in Polls, poll' = [poll EXCEPT ![t] = x], UNCHANGED <<tv, req, blocked>>,
             tv[t].pc = "showing",
             x.pc = "mint" => x.answer \in linked[tv[t].row],
             x.pc = "answer" /\ x.answer = "granted" => Rightful(x.token)
      PROVE  ScreenMoved(t) /\ ScreenOk(t)' /\ PollOk(t)'
  <2>1. /\ poll' \in [Tvs -> Polls] /\ poll'[t] = x /\ tv' = tv
        /\ \A s \in Tvs \ {t} : poll'[s] = poll[s]
    BY <1>0, <1>2 DEF TvTypes
  <2>2. tv[t].row \in PairingIds
    BY <1>0, <1>2 DEF ScreenOk
  <2>3. ScreenOk(t)'
    BY <1>2, <2>1, <2>2 DEF ScreenOk
  <2>4. PollOk(t)'
    BY <1>2, <2>1, <2>2 DEF PollOk, OnRecord, Rightful
  <2> QED BY <1>0, <1>2, <2>1, <2>3, <2>4 DEF ScreenMoved, TvTypes
<1>3. CASE DevicePairing(t)
  <2> DEFINE r == tv[t].row
  <2>1. UNCHANGED <<tv, req, blocked>> /\ tv[t].pc = "showing" /\ r \in PairingIds
    BY <1>0, <1>3 DEF DevicePairing, web, PollOk, ScreenOk
  <2>2. CASE Answered(t, "expired_token", NoToken)
    <3> DEFINE x == [pc |-> "answer", answer |-> "expired_token", token |-> NoToken]
    <3>1. x \in Polls /\ x.pc = "answer" /\ x.answer = "expired_token"
      BY PairingBlanks DEF Polls
    <3>2. poll' = [poll EXCEPT ![t] = x]
      BY <2>2 DEF Answered
    <3> HIDE DEF x
    <3> QED BY <1>2, <2>1, <3>1, <3>2
  <2>3. CASE Answered(t, "authorization_pending", NoToken)
    <3> DEFINE x == [pc |-> "answer", answer |-> "authorization_pending", token |-> NoToken]
    <3>1. x \in Polls /\ x.pc = "answer" /\ x.answer = "authorization_pending"
      BY PairingBlanks DEF Polls
    <3>2. poll' = [poll EXCEPT ![t] = x]
      BY <2>3 DEF Answered
    <3> HIDE DEF x
    <3> QED BY <1>2, <2>1, <3>1, <3>2
  <2>4. CASE /\ devices[r].status = "approved"
             /\ poll' = [poll EXCEPT ![t] = [pc |-> "mint", answer |-> devices[r].user,
                                             token |-> NoToken]]
    <3> DEFINE x == [pc |-> "mint", answer |-> devices[r].user, token |-> NoToken]
    <3>1. devices[r].user \in linked[r] /\ devices[r].user \in Users
      BY <1>0, <2>1, <2>4 DEF RowsFollow
    <3>2. x \in Polls /\ x.pc = "mint" /\ x.answer \in linked[r]
      BY <3>1, PairingBlanks DEF Polls
    <3>3. poll' = [poll EXCEPT ![t] = x]
      BY <2>4
    <3> HIDE DEF x
    <3> QED BY <1>2, <2>1, <3>2, <3>3
  <2> QED BY <1>3, <2>2, <2>3, <2>4 DEF DevicePairing
<1>4. ASSUME NEW f \in BOOLEAN, MintToken(t, f)
      PROVE  ScreenMoved(t) /\ ScreenOk(t)' /\ PollOk(t)'
  <2>1. /\ UNCHANGED <<tv, req, blocked>> /\ tv[t].pc = "showing"
        /\ tv[t].row \in PairingIds /\ poll[t].answer \in linked[tv[t].row]
    BY <1>0, <1>4 DEF MintToken, web, PollOk, ScreenOk
  <2>2. CASE Answered(t, "expired_token", NoToken)
    <3> DEFINE x == [pc |-> "answer", answer |-> "expired_token", token |-> NoToken]
    <3>1. x \in Polls /\ x.pc = "answer" /\ x.answer = "expired_token"
      BY PairingBlanks DEF Polls
    <3>2. poll' = [poll EXCEPT ![t] = x]
      BY <2>2 DEF Answered
    <3> HIDE DEF x
    <3> QED BY <1>2, <2>1, <3>1, <3>2
  <2>3. CASE Answered(t, "granted", [user |-> poll[t].answer, row |-> tv[t].row,
                                     expires |-> now + TokenTtl])
    <3> DEFINE token == [user |-> poll[t].answer, row |-> tv[t].row, expires |-> now + TokenTtl]
               x == [pc |-> "answer", answer |-> "granted", token |-> token]
    <3>1. poll[t].answer \in Users /\ now + TokenTtl \in Nat
      BY <1>0, <2>1, PaConstants
    <3>2. token \in Tokens /\ Rightful(token)
      BY <2>1, <3>1 DEF Tokens, Rightful
    <3> HIDE DEF token
    <3>3. x \in Polls /\ x.pc = "answer" /\ x.token = token
      BY <3>2 DEF Polls
    <3>4. poll' = [poll EXCEPT ![t] = x]
      BY <2>3 DEF Answered, token
    <3> HIDE DEF x
    <3> QED BY <1>2, <2>1, <3>2, <3>3, <3>4
  <2> QED BY <1>4, <2>2, <2>3 DEF MintToken
<1>5. ASSUME NEW f \in BOOLEAN, PollAnswer(t, f)
      PROVE  ScreenMoved(t) /\ ScreenOk(t)' /\ PollOk(t)'
  <2> DEFINE paired == [SignedOut EXCEPT !.pc = "in", !.token = poll[t].token]
  <2>1. /\ poll' = [poll EXCEPT ![t] = NoPoll] /\ UNCHANGED <<req, blocked>>
        /\ tv[t].pc = "showing" /\ poll[t].pc = "answer" /\ tv[t].row \in PairingIds
    BY <1>0, <1>5 DEF PollAnswer, web, PollOk, ScreenOk
  <2>2. paired \in Screens /\ paired.pc = "in" /\ paired.token = poll[t].token
    <3>1. poll[t].token \in Tokens
      BY <1>0 DEF Polls
    <3> QED BY <3>1 DEF SignedOut, Screens, NoToken
  <2>3. \/ tv' = [tv EXCEPT ![t] = tv[t]]
        \/ tv' = [tv EXCEPT ![t] = paired] /\ poll[t].answer = "granted"
        \/ tv' = [tv EXCEPT ![t] = NextCode(tv[t])]
    <3> HIDE DEF paired
    <3>1. tv' = [tv EXCEPT ![t] = IF StaysOn(poll[t].answer, f) THEN tv[t]
                   ELSE IF poll[t].answer = "granted" THEN paired ELSE NextCode(tv[t])]
      BY <1>5 DEF PollAnswer, paired
    <3> QED BY <3>1
  <2> HIDE DEF paired
  <2>4. /\ poll' \in [Tvs -> Polls] /\ poll'[t] = NoPoll
        /\ \A s \in Tvs \ {t} : poll'[s] = poll[s]
    BY <1>0, <2>1, PairingBlanks DEF TvTypes
  <2>5. \A s \in Tvs \ {t} : tv'[s] = tv[s]
    BY <1>0, <2>3 DEF TvTypes
  <2>6. tv' \in [Tvs -> Screens]
    BY <1>0, <2>2, <2>3, NextScreen DEF TvTypes
  <2>7. ScreenOk(t)'
    <3>1. CASE tv' = [tv EXCEPT ![t] = tv[t]]
      <4>1. tv'[t] = tv[t]
        BY <1>0, <3>1 DEF TvTypes
      <4> QED BY <2>1, <4>1 DEF ScreenOk
    <3>2. CASE tv' = [tv EXCEPT ![t] = paired] /\ poll[t].answer = "granted"
      <4>1. tv'[t] = paired
        BY <1>0, <3>2 DEF TvTypes
      <4>2. Rightful(poll[t].token)
        BY <1>0, <2>1, <3>2 DEF PollOk
      <4> QED BY <2>2, <4>1, <4>2 DEF ScreenOk, Rightful, OnRecord
    <3>3. CASE tv' = [tv EXCEPT ![t] = NextCode(tv[t])]
      <4>1. tv'[t] = NextCode(tv[t])
        BY <1>0, <3>3 DEF TvTypes
      <4> QED BY <1>0, <4>1, NextScreen DEF ScreenOk
    <3> QED BY <2>3, <3>1, <3>2, <3>3
  <2> QED BY <2>1, <2>4, <2>5, <2>6, <2>7, NoPolls DEF ScreenMoved
<1> QED BY <1>1, <1>3, <1>4, <1>5

\* What a step of a request does: to its own television, whose screen stays or ends.
RequestMoved(t) ==
  /\ req' \in [Tvs -> Reqs]
  /\ \A s \in Tvs \ {t} : req'[s] = req[s]
  /\ UNCHANGED tv \/ tv' = [tv EXCEPT ![t] = SignedOut]
  /\ UNCHANGED <<poll, blocked>> /\ tv[t].pc = "in"
  /\ req'[t].pc # "none" => UNCHANGED tv

LEMMA RequestSteps ==
  ASSUME PairingInv, OnRecord, NEW t \in Tvs,
         \/ \E kind \in {"me", "logout", "other"} : Request(t, kind)
         \/ \E f \in BOOLEAN : deviceUser(t, f) \/ currentUser(t, f)
         \/ Handle(t) \/ RequestLost(t)
  PROVE  RequestMoved(t) /\ ReqOk(t)'
<1>0. /\ TvTypes /\ now \in Nat /\ tv[t] \in Screens /\ req[t] \in Reqs
      /\ ScreenOk(t) /\ ReqOk(t) /\ RowsFollow
  BY TvFacts
\* A request that ends.
<1>1. ASSUME UNCHANGED <<poll, blocked>>, req[t].pc # "none",
             UNCHANGED tv \/ tv' = [tv EXCEPT ![t] = SignedOut],
             req' = [req EXCEPT ![t] = NoReq]
      PROVE  RequestMoved(t) /\ ReqOk(t)'
  <2>1. /\ req' \in [Tvs -> Reqs] /\ req'[t] = NoReq /\ tv[t].pc = "in"
        /\ \A s \in Tvs \ {t} : req'[s] = req[s]
    BY <1>0, <1>1, PairingBlanks DEF TvTypes, ReqOk
  <2> QED BY <1>1, <2>1, PairingBlanks DEF RequestMoved, ReqOk
\* One that goes on.
<1>2. ASSUME UNCHANGED <<poll, blocked, tv>>, req[t].pc # "none", NEW pc \in {"user", "in"},
             req' = [req EXCEPT ![t].pc = pc], ~req[t].dead, pc = "in" => ~req[t].barred
      PROVE  RequestMoved(t) /\ ReqOk(t)'
  <2>1. /\ req'[t] \in Reqs /\ req'[t].pc = pc /\ req'[t].token = req[t].token
        /\ req'[t].dead = req[t].dead /\ req'[t].barred = req[t].barred
    BY <1>0, <1>2 DEF TvTypes, Reqs
  <2>2. \A s \in Tvs \ {t} : req'[s] = req[s]
    BY <1>0, <1>2 DEF TvTypes
  <2>3. req' \in [Tvs -> Reqs]
    <3>1. req' = [s \in Tvs |-> req'[s]]
      BY <1>0, <1>2 DEF TvTypes
    <3>2. \A s \in Tvs : req'[s] \in Reqs
      BY <2>1, <2>2, TvFacts
    <3> QED BY <3>1, <3>2
  <2>4. tv[t].pc = "in" /\ Rightful(req[t].token) /\ (req[t].barred => req[t].token.user \in blocked)
    BY <1>0, <1>2 DEF ReqOk
  <2>5. ReqOk(t)'
    BY <1>2, <2>1, <2>4 DEF ReqOk, Rightful, OnRecord
  <2> QED BY <1>2, <2>2, <2>3, <2>4, <2>5 DEF RequestMoved
<1>3. ASSUME NEW kind \in {"me", "logout", "other"}, Request(t, kind)
      PROVE  RequestMoved(t) /\ ReqOk(t)'
  <2> DEFINE x == [pc |-> "device", kind |-> kind, token |-> tv[t].token,
                   dead |-> Dead(tv[t].token), barred |-> tv[t].token.user \in blocked]
  <2>1. /\ req' = [req EXCEPT ![t] = x] /\ tv[t].pc = "in"
        /\ UNCHANGED <<tv, poll, blocked>>
    BY <1>3 DEF Request, web
  <2>2. Rightful(tv[t].token) /\ tv[t].token \in Tokens
    BY <1>0, <2>1 DEF ScreenOk, Screens
  <2>3. Dead(tv[t].token) => Spent(tv[t].token)
    BY <2>2 DEF Dead, Spent, Rightful
  <2>4. Dead(tv[t].token) \in BOOLEAN /\ (tv[t].token.user \in blocked) \in BOOLEAN
    BY DEF Dead, readBearer
  <2>5. /\ x \in Reqs /\ x.pc = "device" /\ x.token = tv[t].token
        /\ x.dead = Dead(tv[t].token) /\ x.barred = (tv[t].token.user \in blocked)
    BY <2>2, <2>4 DEF Reqs
  <2> HIDE DEF x
  <2>6. /\ req' \in [Tvs -> Reqs] /\ req'[t] = x
        /\ \A s \in Tvs \ {t} : req'[s] = req[s]
    BY <1>0, <2>1, <2>5 DEF TvTypes
  <2>7. /\ req'[t].pc = "device" /\ req'[t].token = tv[t].token
        /\ req'[t].dead => Spent(tv[t].token)
        /\ req'[t].barred => tv[t].token.user \in blocked
    BY <2>3, <2>5, <2>6
  <2>8. Rightful(tv[t].token)' /\ (Spent(tv[t].token) => Spent(tv[t].token)')
    BY <1>0, <2>1, <2>2 DEF Rightful, Spent, readBearer, Tokens, OnRecord
  <2>9. ReqOk(t)'
    BY <2>1, <2>7, <2>8 DEF ReqOk, Rightful, Spent, readBearer
  <2> QED BY <2>1, <2>6, <2>9 DEF RequestMoved
<1>4. ASSUME NEW f \in BOOLEAN, deviceUser(t, f)
      PROVE  RequestMoved(t) /\ ReqOk(t)'
  <2>1. UNCHANGED <<poll, blocked>> /\ req[t].pc = "device"
    BY <1>4 DEF deviceUser, web
  <2>2. CASE Anonymous(t)
    <3>1. /\ req' = [req EXCEPT ![t] = NoReq]
          /\ tv' = [tv EXCEPT ![t] = tv[t]] \/ tv' = [tv EXCEPT ![t] = SignedOut]
      BY <2>2 DEF Anonymous
    <3>2. UNCHANGED tv \/ tv' = [tv EXCEPT ![t] = SignedOut]
      BY <1>0, <3>1 DEF TvTypes
    <3> QED BY <1>1, <2>1, <3>1, <3>2
  <2>3. CASE /\ readBearer(req[t].token) /\ DeviceActive(req[t].token.row, req[t].token.user)
             /\ req' = [req EXCEPT ![t].pc = "user"] /\ UNCHANGED tv
    <3>1. Rightful(req[t].token) /\ (req[t].dead => Spent(req[t].token))
      BY <1>0, <2>1 DEF ReqOk
    <3>2. req[t].token.row \notin ended
      BY <1>0, <2>3, <3>1 DEF Rightful, RowsFollow, DeviceActive
    <3>3. ~req[t].dead
      BY <2>3, <3>1, <3>2 DEF Spent
    <3> QED BY <1>2, <2>1, <2>3, <3>3
  <2> QED BY <1>4, <2>2, <2>3 DEF deviceUser
<1>5. ASSUME NEW f \in BOOLEAN, currentUser(t, f)
      PROVE  RequestMoved(t) /\ ReqOk(t)'
  <2>1. UNCHANGED <<poll, blocked>> /\ req[t].pc = "user"
    BY <1>5 DEF currentUser, web
  <2>2. CASE Anonymous(t)
    <3>1. /\ req' = [req EXCEPT ![t] = NoReq]
          /\ tv' = [tv EXCEPT ![t] = tv[t]] \/ tv' = [tv EXCEPT ![t] = SignedOut]
      BY <2>2 DEF Anonymous
    <3>2. UNCHANGED tv \/ tv' = [tv EXCEPT ![t] = SignedOut]
      BY <1>0, <3>1 DEF TvTypes
    <3> QED BY <1>1, <2>1, <3>1, <3>2
  <2>3. CASE req[t].token.user \notin blocked /\ req' = [req EXCEPT ![t].pc = "in"] /\ UNCHANGED tv
    <3>1. ~req[t].dead /\ ~req[t].barred
      BY <1>0, <2>1, <2>3 DEF ReqOk
    <3> QED BY <1>2, <2>1, <2>3, <3>1
  <2> QED BY <1>5, <2>2, <2>3 DEF currentUser
<1>6. CASE Handle(t)
  <2>1. /\ UNCHANGED <<poll, blocked>> /\ req[t].pc = "in" /\ req' = [req EXCEPT ![t] = NoReq]
        /\ UNCHANGED tv \/ tv' = [tv EXCEPT ![t] = SignedOut]
    BY <1>6 DEF Handle, web
  <2> QED BY <1>1, <2>1
<1>7. CASE RequestLost(t)
  <2>1. /\ UNCHANGED <<poll, blocked>> /\ req[t].pc # "none" /\ req' = [req EXCEPT ![t] = NoReq]
        /\ tv' = [tv EXCEPT ![t] = tv[t]] \/ tv' = [tv EXCEPT ![t] = SignedOut]
    BY <1>7 DEF RequestLost, web
  <2>2. UNCHANGED tv \/ tv' = [tv EXCEPT ![t] = SignedOut]
    BY <1>0, <2>1 DEF TvTypes
  <2> QED BY <1>1, <2>1, <2>2
<1> QED BY <1>3, <1>4, <1>5, <1>6, <1>7

\* Every television, through every step.
LEMMA TvsStep ==
  ASSUME PairingInv, [PaNext]_paVars
  PROVE  TvTypes' /\ blocked' \subseteq Users /\ \A t \in Tvs : TvOk(t)'
<1> DEFINE Goal == TvTypes' /\ blocked' \subseteq Users /\ \A t \in Tvs : TvOk(t)'
<1>0. /\ TvTypes /\ OnRecord /\ blocked \subseteq Users
  BY TvFacts, RowsStep
<1>1. ASSUME NEW t \in Tvs, ScreenMoved(t), ScreenOk(t)', PollOk(t)' PROVE Goal
  <2>1. req[t].pc = "none" /\ UNCHANGED req
    BY <1>1, TvFacts DEF ScreenMoved, ReqOk
  <2>2. ReqOk(t)'
    BY <2>1 DEF ReqOk
  <2>3. ASSUME NEW s \in Tvs, s # t PROVE TvOk(s)'
    <3>1. tv'[s] = tv[s] /\ poll'[s] = poll[s] /\ req'[s] = req[s] /\ blocked \subseteq blocked'
      BY <1>1, <2>3 DEF ScreenMoved
    <3> QED BY <1>0, <3>1, TvKept
  <2>4. TvOk(t)'
    BY <1>1, <2>2 DEF TvOk
  <2> QED BY <1>0, <1>1, <2>3, <2>4 DEF ScreenMoved, TvTypes
<1>2. ASSUME NEW t \in Tvs, RequestMoved(t), ReqOk(t)' PROVE Goal
  <2>1. ASSUME NEW s \in Tvs, s # t PROVE TvOk(s)'
    <3>1. tv'[s] = tv[s] /\ poll'[s] = poll[s] /\ req'[s] = req[s] /\ blocked \subseteq blocked'
      BY <1>0, <1>2, <2>1 DEF RequestMoved, TvTypes
    <3> QED BY <1>0, <3>1, TvKept
  <2>2. tv' \in [Tvs -> Screens]
    BY <1>0, <1>2, PairingBlanks DEF RequestMoved, TvTypes
  <2>3. poll[t].pc = "none" /\ poll'[t] = poll[t]
    BY <1>2, TvFacts DEF RequestMoved, PollOk
  <2>4. tv'[t] = tv[t] \/ tv'[t] = SignedOut
    BY <1>0, <1>2 DEF RequestMoved, TvTypes
  <2>5. ScreenOk(t)'
    <3>1. CASE tv'[t] = tv[t]
      <4>1. ScreenOk(t)
        BY TvFacts
      <4> QED BY <1>0, <3>1, <4>1 DEF ScreenOk, Rightful, OnRecord
    <3>2. CASE tv'[t] = SignedOut
      BY <3>2, PairingBlanks DEF ScreenOk
    <3> QED BY <2>4, <3>1, <3>2
  <2>6. PollOk(t)'
    BY <2>3 DEF PollOk
  <2>7. TvOk(t)'
    BY <1>2, <2>5, <2>6 DEF TvOk
  <2> QED BY <1>0, <1>2, <2>1, <2>2, <2>7 DEF RequestMoved, TvTypes
<1>3. ASSUME NEW u \in Users, SetUserBlocked(u) PROVE Goal
  <2>1. /\ UNCHANGED <<tv, poll>> /\ blocked' \subseteq Users /\ blocked \ {u} \subseteq blocked'
        /\ req' = [t \in Tvs |-> [req[t] EXCEPT !.barred = @ /\ req[t].token.user # u]]
    BY <1>0, <1>3 DEF SetUserBlocked
  <2>2. ASSUME NEW t \in Tvs PROVE req'[t] \in Reqs /\ TvOk(t)'
    <3>1. /\ tv[t] \in Screens /\ req[t] \in Reqs /\ ScreenOk(t) /\ PollOk(t) /\ ReqOk(t)
          /\ now \in Nat
      BY TvFacts
    <3>2. req'[t] = [req[t] EXCEPT !.barred = req[t].barred /\ req[t].token.user # u]
      BY <2>1
    <3>3. /\ req'[t].pc = req[t].pc /\ req'[t].token = req[t].token /\ req'[t].dead = req[t].dead
          /\ req'[t].barred = (req[t].barred /\ req[t].token.user # u)
      BY <3>1, <3>2 DEF Reqs
    <3>4. req'[t] \in Reqs
      BY <3>1, <3>2 DEF Reqs
    <3>5. ScreenOk(t)' /\ PollOk(t)'
      BY <1>0, <2>1, <3>1 DEF ScreenOk, PollOk, Rightful, OnRecord
    <3>6. req[t].token \in Tokens
      BY <3>1 DEF Reqs
    <3>7. ReqOk(t)'
      <4>1. Rightful(req[t].token) => Rightful(req[t].token)'
        BY <1>0, <3>3 DEF Rightful, OnRecord
      <4>2. Spent(req[t].token) => Spent(req[t].token)'
        BY <1>0, <3>1, <3>3, <3>6 DEF Spent, readBearer, OnRecord, Tokens
      <4>3. req'[t].barred => req[t].barred /\ (req[t].token.user \in blocked =>
                                                   req'[t].token.user \in blocked')
        BY <2>1, <3>3
      <4> QED BY <2>1, <3>1, <3>3, <4>1, <4>2, <4>3 DEF ReqOk
    <3> QED BY <3>4, <3>5, <3>7 DEF TvOk
  <2> QED BY <1>0, <2>1, <2>2 DEF TvTypes
<1>4. CASE Restart
  <2>1. /\ UNCHANGED blocked /\ poll' = [t \in Tvs |-> NoPoll] /\ req' = [t \in Tvs |-> NoReq]
        /\ tv' = [t \in Tvs |-> IF req[t].kind = "logout" THEN SignedOut ELSE tv[t]]
    BY <1>4 DEF Restart
  <2>2. ASSUME NEW t \in Tvs PROVE TvOk(t)' /\ tv'[t] \in Screens
    <3>1. poll'[t] = NoPoll /\ req'[t] = NoReq /\ (tv'[t] = SignedOut \/ tv'[t] = tv[t])
      BY <2>1
    <3>2. tv[t] \in Screens /\ ScreenOk(t)
      BY TvFacts
    <3>3. ScreenOk(t)'
      BY <1>0, <3>1, <3>2, PairingBlanks DEF ScreenOk, Rightful, OnRecord
    <3>4. PollOk(t)' /\ ReqOk(t)'
      BY <3>1, PairingBlanks DEF PollOk, ReqOk
    <3> QED BY <3>1, <3>2, <3>3, <3>4, PairingBlanks DEF TvOk
  <2> QED BY <1>0, <2>1, <2>2, PairingBlanks DEF TvTypes
<1>5. CASE PaTick
  <2>1. /\ UNCHANGED <<blocked, poll, req>>
        /\ tv' = [t \in Tvs |-> [tv[t] EXCEPT !.polled = FALSE]]
    BY <1>5 DEF PaTick, web
  <2>2. ASSUME NEW t \in Tvs PROVE TvOk(t)' /\ tv'[t] \in Screens
    <3>1. tv'[t] = [tv[t] EXCEPT !.polled = FALSE] /\ poll'[t] = poll[t] /\ req'[t] = req[t]
      BY <2>1
    <3>2. tv'[t] \in Screens
      BY <3>1, TvFacts DEF Screens
    <3> QED BY <1>0, <2>1, <3>1, <3>2, TvKept
  <2> QED BY <1>0, <2>1, <2>2 DEF TvTypes
<1>6. CASE UNCHANGED <<blocked, tv, poll, req>>
  <2>1. ASSUME NEW t \in Tvs PROVE TvOk(t)'
    BY <1>0, <1>6, TvKept
  <2> QED BY <1>0, <1>6, <2>1 DEF TvTypes
<1>7. CASE \/ ReapDevicePairings \/ UNCHANGED paVars
           \/ \E u \in Users : \/ ApproveDevicePairing(u) \/ \E code \in Codes : TypeCode(u, code)
                               \/ \E r \in PairingIds : DeviceRevoke(u, r)
  BY <1>6, <1>7 DEF ReapDevicePairings, ApproveDevicePairing, TypeCode, DeviceRevoke, paVars,
       web
<1> HIDE DEF Goal
<1>8. ASSUME NEW t \in Tvs,
             \/ SignIn(t) \/ CodeTimeout(t) \/ LeaveScreen(t) \/ (\E f \in BOOLEAN : DeviceCode(t, f))
             \/ PollStart(t) \/ DevicePairing(t)
             \/ (\E f \in BOOLEAN : MintToken(t, f) \/ PollAnswer(t, f))
      PROVE  Goal
  BY <1>0, <1>1, <1>8, ScreenTurns, PollSteps
<1>9. ASSUME NEW t \in Tvs,
             \/ \E kind \in {"me", "logout", "other"} : Request(t, kind)
             \/ \E f \in BOOLEAN : deviceUser(t, f) \/ currentUser(t, f)
             \/ Handle(t) \/ RequestLost(t)
      PROVE  Goal
  BY <1>0, <1>2, <1>9, RequestSteps
<1>10. Goal
  BY <1>3, <1>4, <1>5, <1>7, <1>8, <1>9, PairingCases DEF Goal
<1> QED BY <1>10 DEF Goal
-----------------------------------------------------------------------------
(***************************************************************************)
(* The limiter.                                                            *)
(***************************************************************************)
LEMMA LiveCalls ==
  ASSUME NEW h \in Calls, IsFiniteSet(h), Numbered(h), NEW n \in Nat
  PROVE  /\ Live(h, n) \in Calls /\ IsFiniteSet(Live(h, n)) /\ Numbered(Live(h, n))
         /\ Live(Live(h, n), n) = Live(h, n) /\ Live(h, n) \subseteq h
<1>1. Live(h, n) \subseteq h /\ Live(Live(h, n), n) = Live(h, n)
  BY DEF Live
<1>2. Live(h, n) \in Calls /\ IsFiniteSet(Live(h, n))
  BY <1>1, FS_Subset DEF Calls
<1>3. Numbered(Live(h, n))
  <2> SUFFICES ASSUME NEW c \in Live(h, n)
      PROVE c[2] <= Cardinality({d \in Live(h, n) : d[1] = c[1]})
    BY DEF Numbered
  <2>1. {d \in Live(h, n) : d[1] = c[1]} = {d \in h : d[1] = c[1]}
    BY DEF Live
  <2> QED BY <1>1, <2>1 DEF Numbered
<1> QED BY <1>1, <1>2, <1>3

LEMMA OneMoreCall ==
  ASSUME NEW h \in Calls, IsFiniteSet(h), Numbered(h), NEW n \in Nat, NEW c,
         c = <<n, Cardinality({d \in h : d[1] = n}) + 1>>
  PROVE  /\ c \notin h /\ h \cup {c} \in Calls /\ IsFiniteSet(h \cup {c})
         /\ Numbered(h \cup {c}) /\ Cardinality(h \cup {c}) = Cardinality(h) + 1
         /\ Cardinality(h) \in Nat
<1> DEFINE at(t) == {d \in h : d[1] = t}
           more(t) == {d \in h \cup {c} : d[1] = t}
<1>1. \A t : IsFiniteSet(at(t)) /\ Cardinality(at(t)) \in Nat
  <2> SUFFICES ASSUME NEW t PROVE IsFiniteSet(at(t)) /\ Cardinality(at(t)) \in Nat
    OBVIOUS
  <2>1. at(t) \subseteq h
    OBVIOUS
  <2> QED BY <2>1, FS_Subset, FS_CardinalityType
<1>2. c[1] = n /\ c[2] = Cardinality(at(n)) + 1 /\ c \in Nat \X Nat
  BY <1>1
<1>3. c \notin h
  <2> SUFFICES ASSUME c \in h PROVE FALSE
    OBVIOUS
  <2>1. c[2] <= Cardinality(at(n))
    BY <1>2 DEF Numbered
  <2> QED BY <1>1, <1>2, <2>1
<1>4. IsFiniteSet(h \cup {c}) /\ Cardinality(h \cup {c}) = Cardinality(h) + 1 /\ Cardinality(h) \in Nat
  BY <1>3, FS_AddElement, FS_CardinalityType
<1>5. Cardinality(more(n)) = Cardinality(at(n)) + 1
  <2>1. more(n) = at(n) \cup {c} /\ c \notin at(n)
    BY <1>2, <1>3
  <2> HIDE DEF at, more
  <2>2. Cardinality(at(n) \cup {c}) = Cardinality(at(n)) + 1
    BY <1>1, <2>1, FS_AddElement
  <2> QED BY <2>1, <2>2
<1>6. Numbered(h \cup {c})
  <2> SUFFICES ASSUME NEW d \in h \cup {c} PROVE d[2] <= Cardinality(more(d[1]))
    BY DEF Numbered
  <2>1. CASE d = c
    BY <1>1, <1>2, <1>5, <2>1
  <2>2. CASE d \in h /\ d[1] = n
    <3>1. d[2] <= Cardinality(at(n)) /\ d[2] \in Nat
      BY <2>2 DEF Numbered, Calls
    <3> QED BY <1>1, <1>5, <2>2, <3>1
  <2>3. CASE d \in h /\ d[1] # n
    <3>1. more(d[1]) = at(d[1])
      BY <1>2, <2>3
    <3>2. d[2] <= Cardinality(at(d[1]))
      BY <2>3 DEF Numbered
    <3> QED BY <3>1, <3>2
  <2> QED BY <2>1, <2>2, <2>3
<1> QED BY <1>2, <1>3, <1>4, <1>6 DEF Calls

\* What a call of user u does to the map of calls.
LEMMA CallHits ==
  ASSUME PairingInv, NEW u \in Users, hits' = Hit(hits, u, now, Limit)
  PROVE  /\ hits' \in [Users -> Calls]
         /\ \A k \in Users \ {u} : hits'[k] \in {hits[k], Live(hits[k], now)}
         /\ hits'[u] = IF Allows(hits, u, now, Limit)
                       THEN Live(hits[u], now) \cup {ThisCall(hits, u, now)}
                       ELSE Live(hits[u], now)
         /\ Kept(hits, u, now) = Live(hits[u], now)
         /\ ThisCall(hits, u, now) =
              <<now, Cardinality({d \in Live(hits[u], now) : d[1] = now}) + 1>>
         /\ Allows(hits, u, now, Limit) <=> Cardinality(Live(hits[u], now)) < Limit
<1>0. /\ hits \in [Users -> Calls] /\ now \in Nat
      /\ \A k \in Users : hits[k] \in Calls /\ IsFiniteSet(hits[k]) /\ Numbered(hits[k])
  BY DEF PairingInv, PaTypeOK, QuotaOk
<1>1. \A k \in Users : /\ Live(hits[k], now) \in Calls /\ IsFiniteSet(Live(hits[k], now))
                       /\ Numbered(Live(hits[k], now))
                       /\ Live(Live(hits[k], now), now) = Live(hits[k], now)
  BY <1>0, LiveCalls
<1>2. /\ Swept(hits, now) \in [Users -> Calls]
      /\ \A k \in Users : Swept(hits, now)[k] \in {hits[k], Live(hits[k], now)}
  <2>1. DOMAIN hits = Users
    BY <1>0
  <2>2. Swept(hits, now) = hits \/ Swept(hits, now) = [k \in Users |-> Live(hits[k], now)]
    BY <2>1 DEF Swept
  <2> QED BY <1>0, <1>1, <2>2
<1>3. Kept(hits, u, now) = Live(hits[u], now)
  BY <1>1, <1>2 DEF Kept
<1>4. /\ ThisCall(hits, u, now) =
           <<now, Cardinality({d \in Live(hits[u], now) : d[1] = now}) + 1>>
      /\ Allows(hits, u, now, Limit) <=> Cardinality(Live(hits[u], now)) < Limit
  BY <1>3 DEF ThisCall, Allows
<1> DEFINE mine == IF Allows(hits, u, now, Limit)
                   THEN Live(hits[u], now) \cup {ThisCall(hits, u, now)}
                   ELSE Live(hits[u], now)
<1>5. mine \in Calls
  <2>1. Live(hits[u], now) \cup {ThisCall(hits, u, now)} \in Calls
    BY <1>0, <1>1, <1>4, OneMoreCall
  <2> QED BY <1>1, <2>1
<1>6. hits' = [Swept(hits, now) EXCEPT ![u] = mine]
  BY <1>3 DEF Hit
<1> HIDE DEF mine
<1>7. /\ hits' \in [Users -> Calls] /\ hits'[u] = mine
      /\ \A k \in Users \ {u} : hits'[k] = Swept(hits, now)[k]
  BY <1>2, <1>5, <1>6
<1> QED BY <1>2, <1>3, <1>4, <1>7 DEF mine

LEMMA QuotaStep ==
  ASSUME PairingInv, [PaNext]_paVars
  PROVE  /\ hits' \in [Users -> Calls] /\ accepted' \in [Users -> Calls]
         /\ phone' \in [Users -> Codes \cup {None}]
         /\ \A u \in Users : QuotaOk(u)'
<1> DEFINE Goal == /\ hits' \in [Users -> Calls] /\ accepted' \in [Users -> Calls]
                   /\ phone' \in [Users -> Codes \cup {None}]
                   /\ \A u \in Users : QuotaOk(u)'
<1>0. /\ hits \in [Users -> Calls] /\ accepted \in [Users -> Calls] /\ now \in Nat
      /\ phone \in [Users -> Codes \cup {None}] /\ Limit \in Nat \ {0} /\ Window \in Nat
      /\ \A k \in Users : /\ hits[k] \in Calls /\ accepted[k] \in Calls /\ QuotaOk(k)
                          /\ IsFiniteSet(hits[k]) /\ Numbered(hits[k])
                          /\ accepted[k] \subseteq Live(hits[k], now)
                          /\ Cardinality(accepted[k]) <= Limit
  BY PaConstants, RlConstants DEF PairingInv, PaTypeOK, QuotaOk
<1>1. ASSUME UNCHANGED <<now, hits, accepted, phone>> PROVE Goal
  BY <1>0, <1>1 DEF QuotaOk
<1>2. ASSUME NEW u \in Users, NEW code \in Codes, TypeCode(u, code) PROVE Goal
  <2> DEFINE c == ThisCall(hits, u, now)
             live == Live(hits[u], now)
  <2>1. /\ hits' = Hit(hits, u, now, Limit) /\ now' = now
        /\ IF Allows(hits, u, now, Limit)
           THEN /\ phone' = [phone EXCEPT ![u] = code]
                /\ accepted' = [accepted EXCEPT ![u] = accepted[u] \cup {c}]
           ELSE UNCHANGED <<phone, accepted>>
    BY <1>2 DEF TypeCode
  <2>2. /\ hits' \in [Users -> Calls]
        /\ \A k \in Users \ {u} : hits'[k] \in {hits[k], Live(hits[k], now)}
        /\ hits'[u] = IF Allows(hits, u, now, Limit) THEN live \cup {c} ELSE live
        /\ c = <<now, Cardinality({d \in live : d[1] = now}) + 1>>
        /\ Allows(hits, u, now, Limit) <=> Cardinality(live) < Limit
    BY <2>1, CallHits
  <2>3. /\ live \in Calls /\ IsFiniteSet(live) /\ Numbered(live) /\ Live(live, now) = live
    BY <1>0, LiveCalls
  <2> HIDE DEF c, live
  <2>4. /\ c \notin live /\ live \cup {c} \in Calls /\ IsFiniteSet(live \cup {c})
        /\ Numbered(live \cup {c}) /\ Cardinality(live \cup {c}) = Cardinality(live) + 1
        /\ Cardinality(live) \in Nat
    <3>1. now \in Nat /\ c = <<now, Cardinality({d \in live : d[1] = now}) + 1>>
      BY <1>0, <2>2
    <3> QED BY ONLY <2>3, <3>1, OneMoreCall
  <2>5. /\ Live(live \cup {c}, now) = live \cup {c}
    <3>1. c[1] = now /\ now > now - Window
      BY <1>0, <2>2, RlConstants
    <3> QED BY <2>3, <3>1 DEF Live
  <2>6. accepted[u] \subseteq live
    BY <1>0 DEF live
  <2>7. /\ accepted' \in [Users -> Calls] /\ phone' \in [Users -> Codes \cup {None}]
        /\ \A k \in Users \ {u} : accepted'[k] = accepted[k]
        /\ accepted'[u] = IF Allows(hits, u, now, Limit) THEN accepted[u] \cup {c} ELSE accepted[u]
    <3>1. accepted[u] \cup {c} \in Calls
      BY <2>4, <2>6 DEF Calls
    <3> QED BY <1>0, <2>1, <3>1
  <2>8. ASSUME NEW k \in Users, k # u PROVE QuotaOk(k)'
    <3>1. accepted'[k] = accepted[k] /\ hits'[k] \in {hits[k], Live(hits[k], now)}
      BY <2>2, <2>7, <2>8
    <3>2. /\ IsFiniteSet(Live(hits[k], now)) /\ Numbered(Live(hits[k], now))
          /\ Live(Live(hits[k], now), now) = Live(hits[k], now)
      BY <1>0, LiveCalls
    <3>3. IsFiniteSet(hits'[k]) /\ Numbered(hits'[k]) /\ Live(hits'[k], now) = Live(hits[k], now)
      BY <1>0, <3>1, <3>2
    <3> QED BY <1>0, <2>1, <3>1, <3>3 DEF QuotaOk, Numbered
  <2>9. QuotaOk(u)'
    <3>1. CASE Allows(hits, u, now, Limit)
      <4>1. hits'[u] = live \cup {c} /\ accepted'[u] = accepted[u] \cup {c}
        BY <2>2, <2>7, <3>1
      <4>2. accepted[u] \cup {c} \subseteq live \cup {c}
        BY <2>6
      <4>3. Cardinality(accepted[u] \cup {c}) <= Limit
        <5>1. Cardinality(accepted[u] \cup {c}) <= Cardinality(live \cup {c})
          BY <2>4, <4>2, FS_Subset
        <5>2. Cardinality(accepted[u] \cup {c}) \in Nat
          BY <2>4, <4>2, FS_Subset, FS_CardinalityType
        <5> QED BY <1>0, <2>2, <2>4, <3>1, <5>1, <5>2
      <4> QED BY <2>1, <2>4, <2>5, <4>1, <4>2, <4>3 DEF QuotaOk, Numbered
    <3>2. CASE ~Allows(hits, u, now, Limit)
      <4>1. hits'[u] = live /\ accepted'[u] = accepted[u]
        BY <2>2, <2>7, <3>2
      <4> QED BY <1>0, <2>1, <2>3, <2>6, <4>1 DEF QuotaOk, Numbered
    <3> QED BY <3>1, <3>2
  <2> QED BY <2>2, <2>7, <2>8, <2>9
<1>3. ASSUME NEW u \in Users, ApproveDevicePairing(u) PROVE Goal
  <2>1. UNCHANGED <<now, hits, accepted>> /\ phone' = [phone EXCEPT ![u] = None]
    BY <1>3 DEF ApproveDevicePairing
  <2> QED BY <1>0, <2>1 DEF QuotaOk
<1>4. ASSUME Restart PROVE Goal
  <2>1. /\ hits' = [u \in Users |-> {}] /\ accepted' = [u \in Users |-> {}]
        /\ phone' = [u \in Users |-> None]
    BY <1>4 DEF Restart
  <2>2. {} \in Calls /\ IsFiniteSet({}) /\ Cardinality({}) = 0 /\ Numbered({})
    BY FS_EmptySet DEF Calls, Numbered
  <2>3. ASSUME NEW u \in Users PROVE QuotaOk(u)'
    <3>1. hits'[u] = {} /\ accepted'[u] = {}
      BY <2>1
    <3> QED BY <1>0, <2>2, <3>1 DEF QuotaOk, Numbered
  <2> QED BY <2>1, <2>2, <2>3
<1>5. ASSUME PaTick PROVE Goal
  <2>1. /\ UNCHANGED <<hits, phone>> /\ now' = now + 1
        /\ accepted' = [u \in Users |-> {c \in accepted[u] : c[1] > now' - Window}]
    BY <1>5 DEF PaTick, web
  <2>2. ASSUME NEW u \in Users PROVE QuotaOk(u)' /\ accepted'[u] \in Calls
    <3>1. accepted'[u] = {c \in accepted[u] : c[1] > now' - Window}
      BY <2>1
    <3>2. accepted'[u] \subseteq accepted[u] /\ IsFiniteSet(accepted[u])
      <4>1. accepted[u] \subseteq hits[u]
        BY <1>0 DEF Live
      <4> QED BY <1>0, <3>1, <4>1, FS_Subset
    <3>3. Cardinality(accepted'[u]) <= Limit
      <4>1. /\ Cardinality(accepted'[u]) <= Cardinality(accepted[u]) /\ IsFiniteSet(accepted'[u])
        BY <3>2, FS_Subset
      <4>2. Cardinality(accepted'[u]) \in Nat /\ Cardinality(accepted[u]) \in Nat
        BY <3>2, <4>1, FS_CardinalityType
      <4> QED BY <1>0, <4>1, <4>2
    <3>4. accepted'[u] \subseteq Live(hits[u], now')
      BY <1>0, <3>1 DEF Live
    <3> QED BY <1>0, <2>1, <3>2, <3>3, <3>4 DEF QuotaOk, Numbered, Calls
  <2>3. accepted' = [u \in Users |-> accepted'[u]]
    BY <2>1
  <2>4. accepted' \in [Users -> Calls]
    BY <2>2, <2>3
  <2> QED BY <1>0, <2>1, <2>2, <2>4
<1>6. ASSUME NEW t \in Tvs,
             \/ SignIn(t) \/ PollStart(t) \/ DevicePairing(t)
             \/ CodeTimeout(t) \/ LeaveScreen(t) \/ RequestLost(t) \/ Handle(t)
             \/ \E kind \in {"me", "logout", "other"} : Request(t, kind)
      PROVE  Goal
  <2>1. UNCHANGED <<now, hits, accepted, phone>>
    BY <1>6 DEF SignIn, PollStart, DevicePairing, CodeTimeout, LeaveScreen, RequestLost, Handle,
         Request, web, history
  <2> QED BY <1>1, <2>1
<1>7. ASSUME NEW t \in Tvs, NEW f \in BOOLEAN,
             \/ DeviceCode(t, f) \/ MintToken(t, f) \/ PollAnswer(t, f)
             \/ deviceUser(t, f) \/ currentUser(t, f)
      PROVE  Goal
  <2>1. UNCHANGED <<now, hits, accepted, phone>>
    BY <1>7 DEF DeviceCode, MintToken, PollAnswer, deviceUser, currentUser, web, history
  <2> QED BY <1>1, <2>1
<1>8. ASSUME \/ \E u \in Users : SetUserBlocked(u) \/ \E r \in PairingIds : DeviceRevoke(u, r)
             \/ ReapDevicePairings \/ UNCHANGED paVars
      PROVE  Goal
  <2>1. UNCHANGED <<now, hits, accepted, phone>>
    BY <1>8 DEF SetUserBlocked, DeviceRevoke, ReapDevicePairings, web, history, paVars
  <2> QED BY <1>1, <2>1
<1> HIDE DEF Goal
<1>9. Goal
  BY <1>2, <1>3, <1>4, <1>5, <1>6, <1>7, <1>8, PairingCases
<1> QED BY <1>9 DEF Goal
-----------------------------------------------------------------------------
LEMMA PairingInvInit == PaInit => PairingInv
<1> SUFFICES ASSUME PaInit PROVE PairingInv
  OBVIOUS
<1>1. /\ NoRow \in DeviceRecs /\ SignedOut \in Screens /\ NoPoll \in Polls /\ NoReq \in Reqs
      /\ SignedOut.pc = "out" /\ NoPoll.pc = "none" /\ NoReq.pc = "none" /\ NoRow.status = None
      /\ NoRow.user = None
  BY PairingBlanks
<1>2. {} \in Calls /\ IsFiniteSet({}) /\ Cardinality({}) = 0 /\ Numbered({})
  BY FS_EmptySet DEF Calls, Numbered
<1>3. PaTypeOK
  <2>1. /\ devices \in [PairingIds -> DeviceRecs] /\ tv \in [Tvs -> Screens]
        /\ poll \in [Tvs -> Polls] /\ req \in [Tvs -> Reqs]
    BY <1>1 DEF PaInit
  <2>2. hits \in [Users -> Calls] /\ accepted \in [Users -> Calls]
    BY <1>2 DEF PaInit
  <2> QED BY <2>1, <2>2, PaConstants DEF PaInit, PaTypeOK, DeviceRecs, Screens, Polls, Reqs
<1>4. RowsFollow
  BY <1>1, PaConstants DEF PaInit, RowsFollow
<1>5. ASSUME NEW t \in Tvs PROVE TvOk(t)
  BY <1>1 DEF PaInit, TvOk, ScreenOk, PollOk, ReqOk
<1>6. ASSUME NEW u \in Users PROVE QuotaOk(u)
  BY <1>2, PaConstants DEF PaInit, QuotaOk
<1> QED BY <1>3, <1>4, <1>5, <1>6 DEF PairingInv

LEMMA PairingInvStep == PairingInv /\ [PaNext]_paVars => PairingInv'
<1> SUFFICES ASSUME PairingInv, [PaNext]_paVars PROVE PairingInv'
  OBVIOUS
<1>1. cut' \subseteq Tvs /\ blips' \subseteq Tvs
  <2>0. cut \subseteq Tvs /\ blips \subseteq Tvs
    BY DEF PairingInv, PaTypeOK
  <2>1. ASSUME NEW t \in Tvs,
               \/ SignIn(t) \/ PollStart(t) \/ DevicePairing(t)
               \/ CodeTimeout(t) \/ LeaveScreen(t) \/ RequestLost(t) \/ Handle(t)
               \/ \E kind \in {"me", "logout", "other"} : Request(t, kind)
        PROVE  cut' \subseteq Tvs /\ blips' \subseteq Tvs
    BY <2>0, <2>1 DEF SignIn, PollStart, DevicePairing, CodeTimeout, LeaveScreen, RequestLost,
         Handle, Request, history
  <2>2. ASSUME NEW t \in Tvs, NEW f \in BOOLEAN,
               \/ DeviceCode(t, f) \/ MintToken(t, f) \/ PollAnswer(t, f)
               \/ deviceUser(t, f) \/ currentUser(t, f)
        PROVE  cut' \subseteq Tvs /\ blips' \subseteq Tvs
    BY <2>0, <2>2 DEF DeviceCode, MintToken, PollAnswer, deviceUser, currentUser, history
  <2>3. ASSUME NEW u \in Users, \/ ApproveDevicePairing(u) \/ SetUserBlocked(u)
                                \/ \E code \in Codes : TypeCode(u, code)
                                \/ \E r \in PairingIds : DeviceRevoke(u, r)
        PROVE  UNCHANGED <<cut, blips>>
    BY <2>3 DEF ApproveDevicePairing, SetUserBlocked, TypeCode, DeviceRevoke, history
  <2>4. ASSUME ReapDevicePairings \/ Restart \/ PaTick \/ UNCHANGED paVars
        PROVE  UNCHANGED <<cut, blips>>
    BY <2>4 DEF ReapDevicePairings, Restart, PaTick, paVars, history
  <2> QED BY <2>0, <2>1, <2>2, <2>3, <2>4, PairingCases
<1>2. /\ devices' \in [PairingIds -> DeviceRecs] /\ created' \in 0..MaxRows
      /\ linked' \in [PairingIds -> SUBSET Users] /\ ended' \subseteq PairingIds
      /\ RowsFollow' /\ now' \in Nat /\ events' \in Nat
  BY RowsStep DEF OnRecord
<1>3. TvTypes' /\ blocked' \subseteq Users /\ \A t \in Tvs : TvOk(t)'
  BY TvsStep
<1>4. /\ hits' \in [Users -> Calls] /\ accepted' \in [Users -> Calls]
      /\ phone' \in [Users -> Codes \cup {None}]
      /\ \A u \in Users : QuotaOk(u)'
  BY QuotaStep
<1>5. PaTypeOK'
  BY <1>1, <1>2, <1>3, <1>4 DEF PaTypeOK, TvTypes, DeviceRecs, Screens, Polls, Reqs
<1> QED BY <1>2, <1>3, <1>4, <1>5 DEF PairingInv

LEMMA PairingIsSafe == PaSpec => []PairingInv
<1>1. PaInit => PairingInv
  BY PairingInvInit
<1>2. PairingInv /\ [PaNext]_paVars => PairingInv'
  BY PairingInvStep
<1> QED BY <1>1, <1>2, PTL DEF PaSpec

\* Every variable of the pairing model keeps its type.
THEOREM PairingTypes == PaSpec => []PaTypeOK
<1>1. PairingInv => PaTypeOK
  BY DEF PairingInv
<1> QED BY <1>1, PairingIsSafe, PTL

\* A request of a television is served only if its token was live when the
\* request came in, and its user not blocked all the time (deviceUser,
\* currentUser): for any number of televisions, users, codes and rows, any
\* lifetimes, and whatever is lost, fails or restarts.
THEOREM AccessIsLive == PaSpec => []AccessIsGranted
<1>1. PairingInv => AccessIsGranted
  BY DEF PairingInv, TvOk, ReqOk, AccessIsGranted
<1> QED BY <1>1, PairingIsSafe, PTL

\* Whatever the limit, the window and the size the map is swept at, no user
\* tries more than Limit codes in a window (rateLimiter.allow, sweepLocked).
THEOREM TriesAreLimited == PaSpec => []QuotaHolds
<1>1. PairingInv => QuotaHolds
  BY DEF PairingInv, QuotaOk, QuotaHolds
<1> QED BY <1>1, PairingIsSafe, PTL

\* The limit counts what it should: each try that is let through is one more
\* on record, also when two of them fall on the same moment.
EveryTryCounts == [][\A u \in Users, code \in Codes :
  TypeCode(u, code) /\ Allows(hits, u, now, Limit)
    => Cardinality(accepted'[u]) = Cardinality(accepted[u]) + 1]_paVars

\* No two tries of a user are taken for one (rateLimiter.allow).
THEOREM TriesAreCounted == PaSpec => EveryTryCounts
<1>1. ASSUME PairingInv, NEW u \in Users, NEW code \in Codes,
             TypeCode(u, code), Allows(hits, u, now, Limit)
      PROVE  Cardinality(accepted'[u]) = Cardinality(accepted[u]) + 1
  <2> DEFINE c == ThisCall(hits, u, now)
             live == Live(hits[u], now)
  <2>1. /\ hits[u] \in Calls /\ IsFiniteSet(hits[u]) /\ Numbered(hits[u]) /\ now \in Nat
        /\ accepted[u] \subseteq live /\ accepted \in [Users -> Calls]
    BY <1>1 DEF PairingInv, PaTypeOK, QuotaOk
  <2>2. live \in Calls /\ IsFiniteSet(live) /\ Numbered(live)
    BY <2>1, LiveCalls
  <2>3. c = <<now, Cardinality({d \in live : d[1] = now}) + 1>>
    <3>1. hits' = Hit(hits, u, now, Limit)
      BY <1>1 DEF TypeCode
    <3> QED BY <1>1, <3>1, CallHits
  <2>4. accepted'[u] = accepted[u] \cup {c}
    BY <1>1, <2>1 DEF TypeCode
  <2> HIDE DEF c, live
  <2>5. c \notin live
    BY ONLY <2>1, <2>2, <2>3, OneMoreCall
  <2>6. IsFiniteSet(accepted[u]) /\ c \notin accepted[u]
    BY <2>1, <2>2, <2>5, FS_Subset
  <2> QED BY <2>4, <2>6, FS_AddElement
<1>2. PairingInv /\ [PaNext]_paVars => [\A u \in Users, code \in Codes :
        TypeCode(u, code) /\ Allows(hits, u, now, Limit)
          => Cardinality(accepted'[u]) = Cardinality(accepted[u]) + 1]_paVars
  BY <1>1
<1> QED BY <1>2, PairingIsSafe, PTL DEF PaSpec, EveryTryCounts
=============================================================================
