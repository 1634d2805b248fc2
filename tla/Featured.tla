------------------------------ MODULE Featured ------------------------------
(***************************************************************************)
(* The hand-picked list of the hero billboard (admin/store.go 572-709,     *)
(* admin/server.go 892-937): a table of titles with a position, which is   *)
(* not unique, changed by operators in several tabs.                       *)
(*                                                                         *)
(* AddFeatured and MoveFeatured are transactions that read and then write. *)
(* Their reads are of the snapshot their first SELECT takes and lock       *)
(* nothing; their writes see what is committed and hold row locks until    *)
(* the commit, so they are one step.  Of two that wait for each other's    *)
(* rows the database aborts one.                                           *)
(***************************************************************************)
EXTENDS Naturals

CONSTANTS
  Titles,    \* ids of titles, never given twice
  Operators, \* requests of the admin's pages
  None,      \* no title
  MaxEvents  \* bound on the calls made

VARIABLES
  titles,   \* the titles there are
  position, \* featured_titles.position, 0 without a row
  tx,       \* the transaction each operator's request is in, and its snapshot
  events

vars == <<titles, position, tx, events>>

NoTx == [op |-> "none", title |-> None, up |-> FALSE, seen |-> [t \in Titles |-> 0]]
Open == {o \in Operators : tx[o].op # "none"}
Click == events < MaxEvents /\ events' = events + 1

Init ==
  /\ titles = Titles
  /\ position = [t \in Titles |-> 0]
  /\ tx = [o \in Operators |-> NoTx]
  /\ events = 0

-----------------------------------------------------------------------------

Rows(p) == {t \in Titles : p[t] # 0}

\* SELECT COALESCE(MAX(position), 0) + 1
NextPositions(p) ==
  IF Rows(p) = {} THEN {1}
  ELSE {p[t] + 1 : t \in {u \in Rows(p) : \A v \in Rows(p) : p[v] <= p[u]}}

\* The adjacent row in the direction of the move; among equals, any.
Beyond(p, t, up) == {u \in Rows(p) : IF up THEN p[u] < p[t] ELSE p[u] > p[t]}
Neighbours(p, t, up) ==
  {u \in Beyond(p, t, up) : \A v \in Beyond(p, t, up) :
     IF up THEN p[v] <= p[u] ELSE p[v] >= p[u]}

\* handleAddFeatured and handleMoveFeatured up to the transaction's reads.
Begin(o, op, t, up) ==
  /\ tx[o] = NoTx /\ Click
  /\ tx' = [tx EXCEPT ![o] = [op |-> op, title |-> t, up |-> up, seen |-> position]]
  /\ UNCHANGED <<titles, position>>

\* A title that is gone is refused, a featured one keeps its position.
AddFeatured(o) ==
  /\ tx[o].op = "add"
  /\ LET t == tx[o].title
     IN IF t \in titles /\ position[t] = 0
        THEN \E next \in NextPositions(tx[o].seen) :
               position' = [position EXCEPT ![t] = next]
        ELSE UNCHANGED position
  /\ tx' = [tx EXCEPT ![o] = NoTx]
  /\ UNCHANGED <<titles, events>>

\* The two updates, each of a row that may be gone.
Swapped(p, seen, t, u) ==
  [v \in Titles |-> IF p[v] = 0 THEN 0
                    ELSE IF v = t THEN seen[u] ELSE IF v = u THEN seen[t] ELSE p[v]]

MoveFeatured(o) ==
  /\ tx[o].op = "move"
  /\ LET t == tx[o].title
         seen == tx[o].seen
         near == Neighbours(seen, t, tx[o].up)
     IN IF seen[t] # 0 /\ near # {}
        THEN \E u \in near : position' = Swapped(position, seen, t, u)
        ELSE UNCHANGED position
  /\ tx' = [tx EXCEPT ![o] = NoTx]
  /\ UNCHANGED <<titles, events>>

\* A deadlock, a lost connection: the transaction is rolled back.
Abort(o) ==
  /\ tx[o] # NoTx
  /\ tx' = [tx EXCEPT ![o] = NoTx]
  /\ UNCHANGED <<titles, position, events>>

RemoveFeatured(t) ==
  /\ Click
  /\ position' = [position EXCEPT ![t] = 0]
  /\ UNCHANGED <<titles, tx>>

\* The row of a deleted title goes with it.
DeleteTitle(t) ==
  /\ Click
  /\ titles' = titles \ {t}
  /\ position' = [position EXCEPT ![t] = 0]
  /\ UNCHANGED tx

Next ==
  \/ \E o \in Operators, t \in Titles, up \in BOOLEAN :
       Begin(o, "add", t, FALSE) \/ Begin(o, "move", t, up)
  \/ \E o \in Operators : AddFeatured(o) \/ MoveFeatured(o) \/ Abort(o)
  \/ \E t \in Titles : RemoveFeatured(t) \/ DeleteTitle(t)

Spec == Init /\ [][Next]_vars

\* What a lock held across each call would leave: nothing else happens while a
\* transaction is open.
SerialNext == Next /\ (Open # {} => Open' = {})
SerialSpec == Init /\ [][SerialNext]_vars

-----------------------------------------------------------------------------

Listed == Rows(position)

\* The values the variables range over; a row is of a title there is.
TypeOK ==
  /\ titles \subseteq Titles
  /\ position \in [Titles -> Nat]
  /\ tx \in [Operators -> [op: {"none", "add", "move"}, title: Titles \cup {None},
                           up: BOOLEAN, seen: [Titles -> Nat]]]
  /\ events \in Nat
  /\ Listed \subseteq titles
  /\ \A o \in Open : tx[o].title \in Titles

\* The positions give the list one order (store.go:572, "in display order"): no
\* two titles share one, which the viewer's ORDER BY could return either way.
PositionsDistinct ==
  \A t \in Listed, u \in Listed : position[t] = position[u] => t = u

\* AddFeatured "appends a title to the featured list": a title that enters the
\* list is after all the others (store.go:635-637).
AddAppends ==
  [][\A t \in Rows(position') : position[t] = 0 =>
       \A u \in Rows(position') \ {t} : position'[u] < position'[t]]_vars

\* MoveFeatured "shifts a featured title one slot earlier (up) or later (down) by
\* swapping positions with its neighbor" (store.go:669-670): two titles that
\* exchange their order have nothing between them before or after.
MovesAreOneSlot ==
  [][\A t \in Listed \cap Rows(position'), u \in Listed \cap Rows(position') :
       position[t] < position[u] /\ position'[t] >= position'[u] =>
         ~\E v \in Titles : \/ position[t] < position[v] /\ position[v] < position[u]
                            \/ position'[u] < position'[v] /\ position'[v] < position'[t]]_vars
=============================================================================
