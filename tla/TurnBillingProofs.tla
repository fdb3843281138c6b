-------------------------- MODULE TurnBillingProofs --------------------------
(***************************************************************************)
(* Proofs about TurnBilling, for any number of requests, turns,            *)
(* entitlements and rows, and any ladder and limits.                       *)
(*                                                                         *)
(* Structural collects what the type invariant needs to be inductive: who  *)
(* holds the lock, which row a request owns, and the first row an open     *)
(* settlement has found.  Everything else is proved on top of it.          *)
(***************************************************************************)
EXTENDS TurnBilling, TLAPS, FiniteSetTheorems, WellFoundedInduction

\* The advisory lock is held by the one request inside reserve.
LockHeld == \A r \in Requests : pc[r] \in Reserving <=> lock = r

\* Past find_entitlement_tx, or on the free path, an entitlement is chosen.
EntitlementChosen ==
    \A r \in Requests : pc[r] \in {"deciding", "charging", "free"} => head[r].ent \in Entitlements

\* A request that relays or settles owns a reserved row, and no other does.
OwnsRow ==
    /\ \A r \in Requests :
          pc[r] \in {"relaying", "settling"} =>
             event[r] \in DOMAIN rows /\ rows[event[r]].status = "reserved"
    /\ \A q, r \in Requests :
          /\ pc[q] \in {"relaying", "settling"} /\ pc[r] \in {"relaying", "settling"}
          /\ event[q] = event[r]
          => q = r

\* An open settlement knows the first row of its turn.
FirstKnown ==
    \A r \in Requests : pc[r] = "settling" =>
        settling[r].first \in TurnOf(rows, event[r]) /\ IsFirst(rows, settling[r].first)

Structural == TypeOK /\ LockHeld /\ EntitlementChosen /\ OwnsRow /\ FirstKnown

\* While a request is on the free path nobody inserts, so what it saw still holds.
FreeStillHolds == \A r \in Requests : pc[r] = "free" => FreeRound(r)

\* What an open settlement is about to write relies on a charge that can only
\* have grown since it was read; a settlement that saw others in flight writes
\* only to raise a zero to one.
BaseKnown ==
    \A r \in Requests : pc[r] = "settling" /\ Writes(r) =>
        /\ rows[settling[r].first].billed >= settling[r].base
        /\ settling[r].inFlight => settling[r].base = 0 /\ settling[r].desired = 1

\* A settlement that writes on top of a final one found no charge to take back.
RaisesOverZero ==
    \A q, r \in Requests :
        /\ pc[q] = "settling" /\ pc[r] = "settling" /\ q # r
        /\ SameTurn(rows, event[q], event[r])
        /\ Writes(q) /\ settling[q].inFlight
        /\ Writes(r) /\ ~settling[r].inFlight
        => settling[r].base = 0

------------------------------------------------------------------------------
(* Operators *)

\* What Append does to the rows of a table.
LEMMA AppendRow ==
    ASSUME NEW S, NEW s \in Seq(S), NEW x \in S
    PROVE  /\ Append(s, x) \in Seq(S)
           /\ Len(Append(s, x)) = Len(s) + 1
           /\ DOMAIN Append(s, x) = 1..Len(s) + 1
           /\ DOMAIN s = 1..Len(s)
           /\ \A i \in DOMAIN s : Append(s, x)[i] = s[i]
           /\ Append(s, x)[Len(s) + 1] = x
  OBVIOUS

\* A statement that rewrites the rows of a table in place keeps it a table.
LEMMA RowwiseUpdate ==
    ASSUME NEW S, NEW s \in Seq(S), NEW t,
           t = [i \in DOMAIN s |-> t[i]],
           \A i \in DOMAIN s : t[i] \in S
    PROVE  /\ t \in Seq(S)
           /\ Len(t) = Len(s)
           /\ DOMAIN t = DOMAIN s
  OBVIOUS

\* The ladder yields at least one use, whatever the total.
LEMMA LadderUsesType ==
    ASSUME NEW n PROVE LadderUses(n) \in Nat /\ LadderUses(n) >= 1
  <1>1. IsFiniteSet({t \in Ladder : n > t})
    BY LadderAssumption, FS_Subset
  <1>2. Cardinality({t \in Ladder : n > t}) \in Nat
    BY <1>1, FS_CardinalityType
  <1>3. QED BY <1>2 DEF LadderUses

\* Two tables whose rows agree on the turn have the same turns and first rows.
LEMMA SameTurns ==
    ASSUME NEW R, NEW Q, DOMAIN R = DOMAIN Q,
           \A i \in DOMAIN R : R[i].turn = Q[i].turn
    PROVE  /\ \A i, j \in DOMAIN R : SameTurn(R, i, j) <=> SameTurn(Q, i, j)
           /\ \A i \in DOMAIN R : TurnOf(R, i) = TurnOf(Q, i)
           /\ \A i \in DOMAIN R : IsFirst(R, i) <=> IsFirst(Q, i)
  BY DEF SameTurn, TurnOf, IsFirst

\* Being of one turn is an equivalence, so a turn has one first row at most.
LEMMA OneFirst ==
    ASSUME NEW R, DOMAIN R \subseteq Nat,
           NEW i \in DOMAIN R, NEW f \in TurnOf(R, i), NEW g \in TurnOf(R, i),
           IsFirst(R, f), IsFirst(R, g)
    PROVE  f = g
  <1>1. f \in TurnOf(R, g) /\ g \in TurnOf(R, f)
    BY DEF TurnOf, SameTurn
  <1>2. QED BY <1>1 DEF IsFirst, TurnOf

\* A set of row ids that is not empty has a least element.
LEMMA LeastId ==
    ASSUME NEW T, T \subseteq Nat, T # {}
    PROVE  \E x \in T : \A y \in T : x <= y
  <1> DEFINE Less == {p \in Nat \X Nat : p[1] < p[2]}
  <1>1. IsWellFoundedOn(Less, Nat)
    BY NatLessThanWellFounded DEF OpToRel
  <1> HIDE DEF Less
  <1>2. PICK x \in T : \A y \in T : <<y, x>> \notin Less
    BY <1>1, WFMin
  <1>3. ASSUME NEW y \in T, y < x PROVE FALSE
    <2>1. <<y, x>> \in Nat \X Nat
      OBVIOUS
    <2>2. <<y, x>> \in Less
      BY <1>3, <2>1 DEF Less
    <2>3. QED BY <1>2, <2>2
  <1>4. QED BY <1>3

\* Every turn has a first row, and FirstOf is it.
LEMMA FirstOfFound ==
    ASSUME NEW R, DOMAIN R \subseteq Nat, NEW i \in DOMAIN R
    PROVE  FirstOf(R, i) \in TurnOf(R, i) /\ IsFirst(R, FirstOf(R, i))
  <1>1. i \in TurnOf(R, i) /\ TurnOf(R, i) \subseteq Nat
    BY DEF TurnOf, SameTurn
  <1>2. PICK f \in TurnOf(R, i) : \A j \in TurnOf(R, i) : f <= j
    BY <1>1, LeastId
  <1>3. TurnOf(R, f) \subseteq TurnOf(R, i)
    BY DEF TurnOf, SameTurn
  <1>4. IsFirst(R, f)
    BY <1>2, <1>3 DEF IsFirst
  <1>5. QED BY <1>4 DEF FirstOf

------------------------------------------------------------------------------
(* Types and structure *)

\* An INSERT of reserve appends one reserved row and touches no other.
LEMMA InsertRow ==
    ASSUME TypeOK, NEW r \in Requests, NEW b \in Nat,
           head[r].ent \in Entitlements, Insert(r, b)
    PROVE  /\ rows' \in Seq(Row)
           /\ Len(rows) \in Nat
           /\ Len(rows') = Len(rows) + 1
           /\ DOMAIN rows' = 1..Len(rows) + 1
           /\ DOMAIN rows = 1..Len(rows)
           /\ \A i \in DOMAIN rows : rows'[i] = rows[i]
           /\ rows'[Len(rows) + 1] = NewRow(r, b)
           /\ event' \in [Requests -> Nat]
           /\ event'[r] = Len(rows) + 1
           /\ \A q \in Requests \ {r} : event'[q] = event[q]
  <1>1. NewRow(r, b) \in Row
    BY DEF TypeOK, NewRow, Row, Reservation, Statuses
  <1>2. rows \in Seq(Row) /\ rows' = Append(rows, NewRow(r, b))
    BY DEF TypeOK, Insert
  <1>3. event' = [event EXCEPT ![r] = Len(rows) + 1] /\ event \in [Requests -> Nat]
    BY DEF TypeOK, Insert
  <1>4. Len(rows) \in Nat
    BY <1>2
  <1>5. QED BY <1>1, <1>2, <1>3, <1>4, AppendRow

\* Old rows keep their turn, its rows and its first row; the new one may join.
LEMMA InsertTurns ==
    ASSUME TypeOK, NEW r \in Requests, NEW b \in Nat,
           head[r].ent \in Entitlements, Insert(r, b)
    PROVE  /\ \A i, j \in DOMAIN rows : SameTurn(rows', i, j) <=> SameTurn(rows, i, j)
           /\ \A i \in DOMAIN rows : TurnOf(rows, i) \subseteq TurnOf(rows', i)
           /\ \A i \in DOMAIN rows : IsFirst(rows, i) => IsFirst(rows', i)
  <1>0. /\ rows' \in Seq(Row) /\ Len(rows) \in Nat
        /\ DOMAIN rows' = 1..Len(rows) + 1 /\ DOMAIN rows = 1..Len(rows)
        /\ \A i \in DOMAIN rows : rows'[i] = rows[i]
        /\ rows'[Len(rows) + 1] = NewRow(r, b)
        /\ event' \in [Requests -> Nat] /\ event'[r] = Len(rows) + 1
        /\ \A q \in Requests \ {r} : event'[q] = event[q]
    BY InsertRow
  <1>1. \A i, j \in DOMAIN rows : SameTurn(rows', i, j) <=> SameTurn(rows, i, j)
    BY <1>0 DEF SameTurn
  <1>2. DOMAIN rows \subseteq DOMAIN rows' /\ DOMAIN rows' = DOMAIN rows \cup {Len(rows) + 1}
    BY <1>0
  <1>3. \A i \in DOMAIN rows : TurnOf(rows, i) \subseteq TurnOf(rows', i)
    BY <1>1, <1>2 DEF TurnOf
  <1>4. \A i \in DOMAIN rows : IsFirst(rows, i) => IsFirst(rows', i)
    <2> SUFFICES ASSUME NEW i \in DOMAIN rows, IsFirst(rows, i), NEW j \in TurnOf(rows', i)
                 PROVE  i <= j
      BY DEF IsFirst
    <2>1. CASE j \in DOMAIN rows
      <3>1. j \in TurnOf(rows, i)
        BY <1>1, <2>1 DEF TurnOf
      <3>2. QED BY <3>1 DEF IsFirst
    <2>2. CASE j = Len(rows) + 1
      BY <1>0, <2>2
    <2>3. QED BY <1>2, <2>1, <2>2 DEF TurnOf
  <1>5. QED BY <1>1, <1>3, <1>4

LEMMA InsertStep ==
    ASSUME Structural, NEW r \in Requests, NEW b \in Nat,
           pc[r] \in {"free", "charging"}, Insert(r, b), Unlock, Goto(r, "relaying"),
           used' \in [Entitlements -> Nat], UNCHANGED <<now, head, settling>>
    PROVE  Structural'
  <1> USE DEF Structural
  <1>1. head[r].ent \in Entitlements
    BY DEF EntitlementChosen
  <1>0. /\ rows' \in Seq(Row) /\ Len(rows) \in Nat
        /\ DOMAIN rows' = 1..Len(rows) + 1 /\ DOMAIN rows = 1..Len(rows)
        /\ \A i \in DOMAIN rows : rows'[i] = rows[i]
        /\ rows'[Len(rows) + 1] = NewRow(r, b)
        /\ event' \in [Requests -> Nat] /\ event'[r] = Len(rows) + 1
        /\ \A q \in Requests \ {r} : event'[q] = event[q]
    BY <1>1, InsertRow
  <1>2. TypeOK'
    <2>1. pc' \in [Requests -> Places] /\ lock' \in Requests \cup {NoRequest}
      BY DEF TypeOK, Goto, Unlock, Places
    <2>2. now' \in Nat /\ head' \in [Requests -> Reservation] /\ settling' \in [Requests -> Settling]
      BY DEF TypeOK
    <2>3. QED BY <1>0, <2>1, <2>2 DEF TypeOK
  <1>3. LockHeld'
    BY RequestAssumption DEF LockHeld, Goto, Unlock, Reserving, TypeOK
  <1>4. EntitlementChosen'
    BY DEF EntitlementChosen, Goto, TypeOK
  <1>5. OwnsRow'
    <2>0. NewRow(r, b).status = "reserved"
      BY DEF NewRow
    <2>1. rows'[Len(rows) + 1].status = "reserved"
      BY <1>0, <2>0
    <2>2. \A q \in Requests \ {r} : pc'[q] = pc[q]
      BY DEF Goto, TypeOK
    <2>3. \A q \in Requests \ {r} : pc'[q] \in {"relaying", "settling"} =>
             event'[q] \in DOMAIN rows /\ rows'[event'[q]].status = "reserved"
      <3>. TAKE q \in Requests \ {r}
      <3>1. pc[q] \in {"relaying", "settling"} => event[q] \in DOMAIN rows /\ rows[event[q]].status = "reserved"
        BY DEF OwnsRow
      <3>. QED  BY <1>0, <2>2, <3>1
    <2>4. event'[r] \in DOMAIN rows' /\ event'[r] \notin DOMAIN rows
      BY <1>0
    <2>5. DOMAIN rows \subseteq DOMAIN rows'
      BY <1>0
    <2>6. \A p, q \in Requests \ {r} :
             /\ pc'[p] \in {"relaying", "settling"} /\ pc'[q] \in {"relaying", "settling"}
             /\ event'[p] = event'[q]
             => p = q
      <3>. TAKE p, q \in Requests \ {r}
      <3>1. pc'[p] = pc[p] /\ pc'[q] = pc[q] /\ event'[p] = event[p] /\ event'[q] = event[q]
        BY <1>0, <2>2
      <3>2. pc[p] \in {"relaying", "settling"} /\ pc[q] \in {"relaying", "settling"} /\ event[p] = event[q] => p = q
        BY DEF OwnsRow
      <3>. QED  BY <3>1, <3>2
    <2>7. event'[r] = Len(rows) + 1
      BY <1>0
    <2>8. rows'[event'[r]].status = "reserved"
      BY <2>1, <2>7
    <2>9. QED BY <2>3, <2>4, <2>5, <2>6, <2>8 DEF OwnsRow
  <1>6. FirstKnown'
    <2> SUFFICES ASSUME NEW q \in Requests, pc'[q] = "settling"
                 PROVE  /\ settling'[q].first \in TurnOf(rows', event'[q])
                        /\ IsFirst(rows', settling'[q].first)
      BY DEF FirstKnown
    <2>1. q # r /\ pc[q] = "settling"
      BY DEF Goto, TypeOK
    <2>2. /\ settling[q].first \in TurnOf(rows, event[q]) /\ IsFirst(rows, settling[q].first)
          /\ event[q] \in DOMAIN rows /\ event'[q] = event[q]
      BY <1>1, <2>1, <1>0 DEF FirstKnown, OwnsRow
    <2>3. settling[q].first \in DOMAIN rows
      BY <2>2 DEF TurnOf
    <2>4. QED BY <1>1, <2>2, <2>3, InsertTurns
  <1>7. QED BY <1>2, <1>3, <1>4, <1>5, <1>6

\* Steps that leave rows alone and bring nobody to relaying or settling.
LEMMA QuietStep ==
    ASSUME Structural, TypeOK', LockHeld', EntitlementChosen',
           UNCHANGED <<rows, event, settling>>,
           \A r \in Requests : pc'[r] \in {"relaying", "settling"} => pc'[r] = pc[r]
    PROVE  Structural'
  <1>1. OwnsRow' /\ FirstKnown'
    BY DEF Structural, OwnsRow, FirstKnown, TurnOf, IsFirst, SameTurn
  <1>2. QED BY <1>1 DEF Structural

\* The rows a settlement reads are the committed ones but for its own row.
LEMMA ViewRows ==
    ASSUME Structural, NEW r \in Requests, pc[r] = "relaying", NEW s
    PROVE  /\ event[r] \in DOMAIN rows
           /\ DOMAIN View(r, s) = DOMAIN rows
           /\ \A i \in DOMAIN rows : /\ View(r, s)[i].turn = rows[i].turn
                                     /\ View(r, s)[i].billed = rows[i].billed
           /\ \A i \in DOMAIN rows \ {event[r]} : View(r, s)[i].status = rows[i].status
           /\ FirstOf(View(r, s), event[r]) \in TurnOf(rows, event[r])
           /\ IsFirst(rows, FirstOf(View(r, s), event[r]))
  <1> DEFINE V == View(r, s)
  <1>1. event[r] \in DOMAIN rows
    BY DEF Structural, OwnsRow
  <1>2. \A i \in DOMAIN rows : rows[i] \in Row
    BY DEF Structural, TypeOK
  <1>3. DOMAIN V = DOMAIN rows
    BY DEF View
  <1>4. \A i \in DOMAIN rows : V[i].turn = rows[i].turn /\ V[i].billed = rows[i].billed
    BY <1>1, <1>2 DEF View, Row
  <1>5. \A i \in DOMAIN rows \ {event[r]} : V[i].status = rows[i].status
    BY <1>1, <1>2 DEF View, Row
  <1> HIDE DEF V
  <1>6. DOMAIN rows \subseteq Nat
    BY DEF Structural, TypeOK
  <1>7. /\ TurnOf(V, event[r]) = TurnOf(rows, event[r])
        /\ \A i \in DOMAIN rows : IsFirst(V, i) <=> IsFirst(rows, i)
    BY <1>1, <1>3, <1>4, SameTurns
  <1>8. TurnOf(rows, event[r]) \subseteq DOMAIN rows
    BY DEF TurnOf
  <1>9. /\ FirstOf(V, event[r]) \in TurnOf(V, event[r])
        /\ IsFirst(V, FirstOf(V, event[r]))
    BY <1>1, <1>3, <1>6, FirstOfFound
  <1>10. QED BY <1>1, <1>3, <1>4, <1>5, <1>7, <1>8, <1>9 DEF V

LEMMA SettlementType ==
    ASSUME NEW p \in Probes, NEW k \in Tokens
    PROVE  SettlementFor(p, k) \in [status : Statuses \ {"reserved"}, tokens : Nat, quote : Nat]
  <1>1. k \in Nat /\ LadderUses(k) \in Nat
    BY LadderAssumption, LadderUsesType
  <1>2. QED BY <1>1 DEF SettlementFor, Probes, Statuses

LEMMA SettleBeginStep ==
    ASSUME Structural, NEW r \in Requests, NEW p \in Probes, NEW k \in Tokens,
           SettleBegin(r, p, k)
    PROVE  Structural'
  <1> DEFINE s == SettlementFor(p, k)
             V == View(r, s)
             f == FirstOf(V, event[r])
  <1>1. /\ pc[r] = "relaying" /\ pc' = [pc EXCEPT ![r] = "settling"]
        /\ settling' = [settling EXCEPT ![r] =
              [status |-> s.status, tokens |-> s.tokens, quote |-> s.quote,
               first |-> f, inFlight |-> InFlight(V, event[r]),
               base |-> V[f].billed, desired |-> Desired(V, event[r])]]
        /\ UNCHANGED <<now, used, rows, lock, head, event>>
    BY DEF SettleBegin, Goto
  <1>2. s \in [status : Statuses \ {"reserved"}, tokens : Nat, quote : Nat]
    BY SettlementType
  <1> HIDE DEF s
  <1>3. /\ event[r] \in DOMAIN rows /\ DOMAIN V = DOMAIN rows
        /\ \A i \in DOMAIN rows : V[i].billed = rows[i].billed
        /\ f \in TurnOf(rows, event[r]) /\ IsFirst(rows, f)
    BY <1>1, ViewRows
  <1>4. f \in DOMAIN rows
    BY <1>3 DEF TurnOf
  <1>5. f \in Nat /\ V[f].billed \in Nat
    <2>1. rows \in Seq(Row)
      BY DEF Structural, TypeOK
    <2>2. f \in Nat /\ rows[f] \in Row
      BY <1>4, <2>1
    <2>3. V[f].billed = rows[f].billed
      BY <1>3, <1>4
    <2>4. QED BY <2>2, <2>3 DEF Row
  <1>6. InFlight(V, event[r]) \in BOOLEAN
    BY DEF InFlight
  <1>7. Desired(V, event[r]) \in Nat
    BY <1>5, LadderUsesType DEF Desired, FinalCharge
  <1> HIDE DEF V, f
  <1>8. settling' \in [Requests -> Settling]
    BY <1>1, <1>2, <1>5, <1>6, <1>7 DEF Structural, TypeOK, Settling
  <1>9. TypeOK'
    BY <1>1, <1>8 DEF Structural, TypeOK, Places
  <1>10. LockHeld' /\ EntitlementChosen'
    BY <1>1 DEF Structural, TypeOK, LockHeld, EntitlementChosen, Reserving
  <1>11. OwnsRow'
    BY <1>1 DEF Structural, TypeOK, OwnsRow
  <1>12. FirstKnown'
    <2> SUFFICES ASSUME NEW q \in Requests, pc'[q] = "settling"
                 PROVE  /\ settling'[q].first \in TurnOf(rows, event[q])
                        /\ IsFirst(rows, settling'[q].first)
      BY <1>1 DEF FirstKnown, TurnOf, IsFirst, SameTurn
    <2>1. CASE q = r
      <3>1. settling'[r].first = f
        BY <1>1 DEF Structural, TypeOK
      <3>2. QED BY <1>3, <2>1, <3>1
    <2>2. CASE q # r
      BY <1>1, <2>2 DEF Structural, TypeOK, FirstKnown
    <2>3. QED BY <2>1, <2>2
  <1>13. QED BY <1>9, <1>10, <1>11, <1>12 DEF Structural

\* A commit rewrites the settled row, the charge of the first row of the turn
\* and the charges of the others; it moves no row to another turn.
LEMMA CommitRows ==
    ASSUME Structural, NEW r \in Requests, SettleCommit(r)
    PROVE  /\ rows' \in Seq(Row)
           /\ DOMAIN rows' = DOMAIN rows
           /\ \A i \in DOMAIN rows :
                 /\ rows'[i].turn = rows[i].turn /\ rows'[i].ent = rows[i].ent
                 /\ rows'[i].at = rows[i].at
                 /\ i # event[r] => rows'[i].status = rows[i].status
                 /\ i # settling[r].first => rows'[i].billed = ClearedBilled(r, i)
                 /\ i = settling[r].first =>
                       rows'[i].billed = IF Writes(r) THEN settling[r].desired ELSE rows[i].billed
           /\ event[r] \in DOMAIN rows
           /\ settling[r].first \in TurnOf(rows, event[r]) /\ IsFirst(rows, settling[r].first)
  <1>1. /\ event[r] \in DOMAIN rows
        /\ settling[r].first \in TurnOf(rows, event[r]) /\ IsFirst(rows, settling[r].first)
    BY DEF SettleCommit, Structural, OwnsRow, FirstKnown
  <1>2. rows' = [i \in DOMAIN rows |-> SettledRow(r, i)]
    BY DEF SettleCommit
  <1>3. settling[r] \in Settling /\ \A i \in DOMAIN rows : rows[i] \in Row
    BY DEF Structural, TypeOK
  <1>4. ASSUME NEW i \in DOMAIN rows PROVE SettledRow(r, i) \in Row
    <2>1. ClearedBilled(r, i) \in Nat
      BY <1>3 DEF ClearedBilled, Row
    <2>2. QED BY <1>3, <2>1 DEF SettledRow, Row, Settling
  <1>5. \A i \in DOMAIN rows : rows'[i] = SettledRow(r, i)
    BY <1>2
  <1>6. rows' \in Seq(Row) /\ DOMAIN rows' = DOMAIN rows
    <2>1. rows \in Seq(Row)
      BY DEF Structural, TypeOK
    <2>2. rows' = [i \in DOMAIN rows |-> rows'[i]]
      BY <1>2, <1>5
    <2>3. \A i \in DOMAIN rows : rows'[i] \in Row
      BY <1>4, <1>5
    <2>4. QED BY <2>1, <2>2, <2>3, RowwiseUpdate
  <1>7. ASSUME NEW i \in DOMAIN rows
        PROVE  /\ rows'[i].turn = rows[i].turn /\ rows'[i].ent = rows[i].ent
               /\ rows'[i].at = rows[i].at
               /\ i # event[r] => rows'[i].status = rows[i].status
               /\ i # settling[r].first => rows'[i].billed = ClearedBilled(r, i)
               /\ i = settling[r].first =>
                     rows'[i].billed = IF Writes(r) THEN settling[r].desired ELSE rows[i].billed
    <2>1. i = settling[r].first => ClearedBilled(r, i) = rows[i].billed
      BY DEF ClearedBilled, Cleared
    <2>2. rows[i] \in Row /\ rows'[i] = SettledRow(r, i)
      BY <1>3, <1>5
    <2>3. rows'[i].turn = rows[i].turn /\ rows'[i].ent = rows[i].ent /\ rows'[i].at = rows[i].at
      BY <2>2 DEF SettledRow, Row
    <2>4. i # event[r] => rows'[i].status = rows[i].status
      BY <2>2 DEF SettledRow, Row
    <2>5. rows'[i].billed = IF i = settling[r].first /\ Writes(r)
                            THEN settling[r].desired ELSE ClearedBilled(r, i)
      BY <2>2 DEF SettledRow, Row
    <2>6. QED BY <2>1, <2>3, <2>4, <2>5
  <1>8. QED BY <1>1, <1>6, <1>7

LEMMA SettleCommitStep ==
    ASSUME Structural, NEW r \in Requests, SettleCommit(r)
    PROVE  Structural'
  <1>1. /\ pc[r] = "settling" /\ pc' = [pc EXCEPT ![r] = "done"]
        /\ UNCHANGED <<now, lock, head, event, settling>>
    BY DEF SettleCommit, Goto
  <1>2. /\ rows' \in Seq(Row) /\ DOMAIN rows' = DOMAIN rows
        /\ \A i \in DOMAIN rows : /\ rows'[i].turn = rows[i].turn
                                  /\ i # event[r] => rows'[i].status = rows[i].status
        /\ event[r] \in DOMAIN rows
    BY CommitRows
  <1>3. used' \in [Entitlements -> Nat]
    <2>1. used' = IF Writes(r)
                  THEN [used EXCEPT ![Payer(r)] =
                           Adjusted(@, settling[r].desired - settling[r].base)]
                  ELSE used
      BY DEF SettleCommit
    <2>2. settling[r].desired \in Nat /\ settling[r].base \in Nat
      BY DEF Structural, TypeOK, Settling
    <2>3. \A u \in Nat : Adjusted(u, settling[r].desired - settling[r].base) \in Nat
      BY <2>2 DEF Adjusted
    <2>4. QED BY <2>1, <2>3 DEF Structural, TypeOK
  <1>4. TypeOK'
    BY <1>1, <1>2, <1>3 DEF Structural, TypeOK, Places
  <1>5. LockHeld' /\ EntitlementChosen'
    BY <1>1 DEF Structural, TypeOK, LockHeld, EntitlementChosen, Reserving
  <1>6. OwnsRow'
    BY <1>1, <1>2 DEF Structural, TypeOK, OwnsRow
  <1>7. FirstKnown'
    <2> SUFFICES ASSUME NEW q \in Requests, pc'[q] = "settling"
                 PROVE  /\ settling[q].first \in TurnOf(rows', event[q])
                        /\ IsFirst(rows', settling[q].first)
      BY <1>1 DEF FirstKnown
    <2>1. pc[q] = "settling" /\ event[q] \in DOMAIN rows
      BY <1>1 DEF Structural, TypeOK, OwnsRow
    <2>2. /\ settling[q].first \in TurnOf(rows, event[q])
          /\ IsFirst(rows, settling[q].first)
      BY <2>1 DEF Structural, FirstKnown
    <2>3. settling[q].first \in DOMAIN rows
      BY <2>2 DEF TurnOf
    <2>4. QED BY <1>2, <2>1, <2>2, <2>3, SameTurns
  <1>8. QED BY <1>4, <1>5, <1>6, <1>7 DEF Structural

\* The entitlement a free round is booked on is that of a row of its turn.
LEMMA LockStep ==
    ASSUME Structural, NEW r \in Requests, Lock(r)
    PROVE  Structural'
  <1>1. /\ pc[r] = "waiting" /\ lock = NoRequest /\ lock' = r
        /\ UNCHANGED <<now, used, rows, event, settling>>
    BY DEF Lock, LockFree
  <1>2. CASE FreeRound(r)
    <2> DEFINE i == CHOOSE i \in Seen(r) : \A j \in Seen(r) : i <= j
    <2>1. head' = [head EXCEPT ![r].ent = rows[i].ent] /\ pc' = [pc EXCEPT ![r] = "free"]
      BY <1>2 DEF Lock, Goto
    <2>2. Seen(r) # {} /\ Seen(r) \subseteq Nat /\ Seen(r) \subseteq DOMAIN rows
      <3>1. DOMAIN rows \subseteq Nat
        BY DEF Structural, TypeOK
      <3>2. QED BY <1>2, <3>1 DEF FreeRound, Seen
    <2>3. i \in Seen(r)
      <3>1. \E x \in Seen(r) : \A y \in Seen(r) : x <= y
        BY <2>2, LeastId
      <3>2. QED BY <3>1
    <2> HIDE DEF i
    <2>4. rows[i] \in Row
      BY <2>2, <2>3 DEF Structural, TypeOK
    <2>5. rows[i].ent \in Entitlements
      BY <2>4 DEF Row
    <2>6. head' \in [Requests -> Reservation] /\ head'[r].ent \in Entitlements
      BY <2>1, <2>5 DEF Structural, TypeOK, Reservation
    <2>7. \A q \in Requests \ {r} : head'[q] = head[q]
      BY <2>1 DEF Structural, TypeOK
    <2>8. TypeOK'
      BY <1>1, <2>1, <2>6 DEF Structural, TypeOK, Places, Reserving
    <2>9. LockHeld'
      BY <1>1, <2>1, RequestAssumption DEF Structural, TypeOK, LockHeld, Reserving
    <2>10. EntitlementChosen'
      BY <2>1, <2>6, <2>7 DEF Structural, TypeOK, EntitlementChosen
    <2>11. QED BY <1>1, <2>1, <2>8, <2>9, <2>10, QuietStep DEF Structural, TypeOK
  <1>3. CASE ~FreeRound(r)
    <2>1. head' = head /\ pc' = [pc EXCEPT ![r] = "finding"]
      BY <1>3 DEF Lock, Goto
    <2>2. TypeOK' /\ EntitlementChosen'
      BY <1>1, <2>1 DEF Structural, TypeOK, EntitlementChosen, Places, Reserving
    <2>3. LockHeld'
      BY <1>1, <2>1, RequestAssumption DEF Structural, TypeOK, LockHeld, Reserving
    <2>4. QED BY <1>1, <2>1, <2>2, <2>3, QuietStep DEF Structural, TypeOK
  <1>4. QED BY <1>2, <1>3

LEMMA BeginStep ==
    ASSUME Structural, NEW r \in Requests, Begin(r)
    PROVE  Structural'
  <1>1. PICK t \in Turns \cup {NoTurn} :
           head' = [head EXCEPT ![r] = [turn |-> t, at |-> now, ent |-> NoEntitlement]]
    BY DEF Begin
  <1>2. /\ pc[r] = "new" /\ pc' = [pc EXCEPT ![r] = "waiting"]
        /\ UNCHANGED <<now, used, rows, lock, event, settling>>
    BY DEF Begin, Goto
  <1>3. TypeOK'
    BY <1>1, <1>2 DEF Structural, TypeOK, Reservation, Places
  <1>4. LockHeld'
    BY <1>2 DEF Structural, TypeOK, LockHeld, Reserving
  <1>5. EntitlementChosen'
    BY <1>1, <1>2 DEF Structural, TypeOK, EntitlementChosen
  <1>6. QED BY <1>2, <1>3, <1>4, <1>5, QuietStep DEF Structural, TypeOK

LEMMA FindEntitlementStep ==
    ASSUME Structural, NEW r \in Requests, FindEntitlement(r)
    PROVE  Structural'
  <1>1. pc[r] = "finding" /\ UNCHANGED <<now, used, rows, event, settling>>
    BY DEF FindEntitlement
  <1>2. CASE Deny(r) /\ UNCHANGED head
    <2>1. TypeOK' /\ EntitlementChosen'
      BY <1>1, <1>2 DEF Structural, TypeOK, EntitlementChosen, Deny, Goto, Unlock, Places
    <2>2. LockHeld'
      BY <1>1, <1>2, RequestAssumption
         DEF Structural, TypeOK, LockHeld, Reserving, Deny, Goto, Unlock
    <2>3. QED BY <1>1, <1>2, <2>1, <2>2, QuietStep DEF Structural, TypeOK, Deny, Goto
  <1>3. CASE /\ \E e \in Candidates(head[r].at) : head' = [head EXCEPT ![r].ent = e]
             /\ Goto(r, "deciding") /\ UNCHANGED lock
    <2>1. PICK e \in Entitlements : head' = [head EXCEPT ![r].ent = e]
      BY <1>3 DEF Candidates, Effective
    <2>2. TypeOK'
      <3>1. head' \in [Requests -> Reservation]
        BY <2>1 DEF Structural, TypeOK, Reservation
      <3>2. pc' \in [Requests -> Places] /\ lock' \in Requests \cup {NoRequest}
        <4>1. pc \in [Requests -> Places] /\ lock \in Requests \cup {NoRequest}
          BY DEF Structural, TypeOK
        <4>2. pc' = [pc EXCEPT ![r] = "deciding"] /\ lock' = lock
          BY <1>3 DEF Goto
        <4>3. "deciding" \in Places
          BY DEF Places, Reserving
        <4>. QED  BY <4>1, <4>2, <4>3
      <3>. QED  BY <1>1, <3>1, <3>2 DEF Structural, TypeOK
    <2>3. EntitlementChosen'
      BY <1>1, <1>3, <2>1 DEF Structural, TypeOK, EntitlementChosen, Goto, Reservation
    <2>4. LockHeld'
      BY <1>1, <1>3 DEF Structural, TypeOK, LockHeld, Goto, Reserving
    <2>5. QED BY <1>1, <1>3, <2>2, <2>3, <2>4, QuietStep DEF Structural, TypeOK, Goto
  <1>4. QED BY <1>2, <1>3 DEF FindEntitlement

LEMMA DecideStep ==
    ASSUME Structural, NEW r \in Requests, Decide(r)
    PROVE  Structural'
  <1>1. pc[r] = "deciding" /\ UNCHANGED <<now, used, rows, head, event, settling>>
    BY DEF Decide
  <1>2. \/ Deny(r)
        \/ Goto(r, "charging") /\ UNCHANGED lock
    BY DEF Decide
  <1>3. TypeOK' /\ EntitlementChosen'
    BY <1>1, <1>2
       DEF Structural, TypeOK, EntitlementChosen, Deny, Goto, Unlock, Places, Reserving
  <1>4. LockHeld'
    BY <1>1, <1>2, RequestAssumption
       DEF Structural, TypeOK, LockHeld, Reserving, Deny, Goto, Unlock
  <1>5. QED BY <1>1, <1>2, <1>3, <1>4, QuietStep DEF Structural, TypeOK, Deny, Goto

LEMMA DropStep ==
    ASSUME Structural, NEW r \in Requests, Drop(r)
    PROVE  Structural'
  <1>1. /\ pc[r] \in Reserving \cup {"waiting"}
        /\ pc' = [pc EXCEPT ![r] = "dropped"]
        /\ lock' = IF lock = r THEN NoRequest ELSE lock
        /\ UNCHANGED <<now, used, rows, head, event, settling>>
    BY DEF Drop, Goto
  <1>2. TypeOK' /\ EntitlementChosen'
    BY <1>1 DEF Structural, TypeOK, EntitlementChosen, Places
  <1>3. LockHeld'
    BY <1>1, RequestAssumption DEF Structural, TypeOK, LockHeld, Reserving
  <1>4. QED BY <1>1, <1>2, <1>3, QuietStep DEF Structural, TypeOK

LEMMA UnsettledStep ==
    ASSUME Structural, NEW r \in Requests, Unsettled(r)
    PROVE  Structural'
  <1>1. /\ pc[r] \in {"relaying", "settling"} /\ pc' = [pc EXCEPT ![r] = "unsettled"]
        /\ UNCHANGED <<now, used, rows, lock, head, event, settling>>
    BY DEF Unsettled, Goto
  <1>2. TypeOK' /\ EntitlementChosen' /\ LockHeld'
    BY <1>1 DEF Structural, TypeOK, EntitlementChosen, LockHeld, Places, Reserving
  <1>3. QED BY <1>1, <1>2, QuietStep DEF Structural, TypeOK

\* Every action of the module keeps the structure.
LEMMA StructuralStep == Structural /\ [Next]_vars => Structural'
  <1> SUFFICES ASSUME Structural, [Next]_vars PROVE Structural'
    OBVIOUS
  <1>1. ASSUME NEW r \in Requests, InsertFree(r) PROVE Structural'
    <2>1. used' \in [Entitlements -> Nat]
      BY <1>1 DEF InsertFree, Structural, TypeOK
    <2>2. QED BY <1>1, <2>1, InsertStep DEF InsertFree
  <1>2. ASSUME NEW r \in Requests, InsertCharged(r) PROVE Structural'
    <2>1. used' \in [Entitlements -> Nat]
      <3>1. head[r].ent \in Entitlements
        BY <1>2 DEF InsertCharged, Structural, EntitlementChosen
      <3>2. used' = [used EXCEPT ![head[r].ent] = @ + 1] /\ used \in [Entitlements -> Nat]
        BY <1>2 DEF InsertCharged, Structural, TypeOK
      <3>3. QED BY <3>1, <3>2
    <2>2. QED BY <1>2, <2>1, InsertStep DEF InsertCharged
  <1>3. ASSUME NEW r \in Requests, Settle(r) PROVE Structural'
    BY <1>3, SettleBeginStep DEF Settle
  <1>4. ASSUME NEW r \in Requests, Begin(r) \/ Drop(r) \/ Unsettled(r) PROVE Structural'
    BY <1>4, BeginStep, DropStep, UnsettledStep
  <1>5. ASSUME NEW r \in Requests, Lock(r) \/ FindEntitlement(r) \/ Decide(r) \/ SettleCommit(r)
        PROVE  Structural'
    BY <1>5, LockStep, FindEntitlementStep, DecideStep, SettleCommitStep
  <1>6. CASE Tick
    <2>1. TypeOK' /\ LockHeld' /\ EntitlementChosen'
      BY <1>6 DEF Tick, Structural, TypeOK, LockHeld, EntitlementChosen
    <2>2. QED BY <1>6, <2>1, QuietStep DEF Tick
  <1>7. CASE UNCHANGED vars
    <2>1. TypeOK' /\ LockHeld' /\ EntitlementChosen'
      BY <1>7 DEF vars, Structural, TypeOK, LockHeld, EntitlementChosen
    <2>2. QED BY <1>7, <2>1, QuietStep DEF vars
  <1>8. QED BY <1>1, <1>2, <1>3, <1>4, <1>5, <1>6, <1>7 DEF Next, Advance

LEMMA StructuralInit == Init => Structural
  <1> SUFFICES ASSUME Init PROVE Structural
    OBVIOUS
  <1>1. NoReservation \in Reservation /\ NotSettling \in Settling
    BY DEF NoReservation, Reservation, NotSettling, Settling, Statuses
  <1>2. TypeOK
    BY <1>1 DEF Init, TypeOK, Places
  <1>3. LockHeld /\ EntitlementChosen /\ OwnsRow /\ FirstKnown
    BY RequestAssumption
       DEF Init, LockHeld, EntitlementChosen, OwnsRow, FirstKnown, Reserving
  <1>4. QED BY <1>2, <1>3 DEF Structural

\* Every variable keeps its type, for any number of concurrent requests: no
\* interleaving of reserve and settle makes a charge or used_uses negative.
THEOREM TypeCorrect == Spec => []TypeOK
  <1>1. Structural => TypeOK
    BY DEF Structural
  <1>2. QED BY <1>1, StructuralInit, StructuralStep, PTL DEF Spec

LEMMA StructuralAlways == Spec => []Structural
  BY StructuralInit, StructuralStep, PTL DEF Spec

------------------------------------------------------------------------------
(* One charge per turn *)

\* Rows change in two ways only: reserve appends one, a settlement commits.
LEMMA RowsChange ==
    ASSUME Structural, [Next]_vars
    PROVE  \/ UNCHANGED <<rows, used>>
           \/ \E r \in Requests : InsertFree(r) \/ InsertCharged(r)
           \/ \E r \in Requests : SettleCommit(r)
  BY DEF Next, Advance, Settle, vars, Tick, Begin, Drop, Unsettled, Lock,
         FindEntitlement, Decide, SettleBegin

\* What the two insertions have in common.
LEMMA Inserted ==
    ASSUME Structural, NEW r \in Requests, InsertFree(r) \/ InsertCharged(r)
    PROVE  /\ lock = r /\ lock' = NoRequest /\ UNCHANGED head
           /\ pc[r] \in {"free", "charging"} /\ pc' = [pc EXCEPT ![r] = "relaying"]
           /\ \E b \in {0, 1} : Insert(r, b)
  BY DEF Structural, LockHeld, Reserving, InsertFree, InsertCharged, Unlock, Goto

LEMMA OnlyFirstStep ==
    Structural /\ OnlyFirstRowCharged /\ [Next]_vars => OnlyFirstRowCharged'
  <1> SUFFICES ASSUME Structural, OnlyFirstRowCharged, [Next]_vars,
                      NEW i \in DOMAIN rows', rows'[i].status # "reserved",
                      rows'[i].billed # 0
               PROVE  IsFirst(rows', i)
    BY DEF OnlyFirstRowCharged
  <1>1. CASE rows' = rows
    BY <1>1 DEF OnlyFirstRowCharged, IsFirst, TurnOf, SameTurn
  <1>2. ASSUME NEW r \in Requests, NEW b \in {0, 1},
               pc[r] \in {"free", "charging"}, Insert(r, b)
        PROVE  IsFirst(rows', i)
    <2>1. head[r].ent \in Entitlements /\ b \in Nat /\ TypeOK
      BY <1>2 DEF Structural, EntitlementChosen
    <2>2. /\ DOMAIN rows' = 1..Len(rows) + 1 /\ DOMAIN rows = 1..Len(rows)
          /\ Len(rows) \in Nat
          /\ \A j \in DOMAIN rows : rows'[j] = rows[j]
          /\ rows'[Len(rows) + 1] = NewRow(r, b)
      BY <1>2, <2>1, InsertRow
    <2>3. i \in DOMAIN rows
      BY <2>2 DEF NewRow
    <2>4. IsFirst(rows, i)
      BY <2>2, <2>3 DEF OnlyFirstRowCharged
    <2>5. QED BY <1>2, <2>1, <2>3, <2>4, InsertTurns
  <1>3. ASSUME NEW r \in Requests, SettleCommit(r)
        PROVE  IsFirst(rows', i)
    <2>1. /\ DOMAIN rows' = DOMAIN rows
          /\ \A j \in DOMAIN rows : rows'[j].turn = rows[j].turn
          /\ i # event[r] => rows'[i].status = rows[i].status
          /\ i # settling[r].first => rows'[i].billed = ClearedBilled(r, i)
          /\ event[r] \in DOMAIN rows
          /\ IsFirst(rows, settling[r].first)
      BY <1>3, CommitRows
    <2>2. IsFirst(rows, i)
      <3>1. CASE i = settling[r].first
        BY <2>1, <3>1
      <3>2. CASE i # settling[r].first
        <4>1. i \notin Cleared(r) /\ rows[i].billed # 0
          BY <2>1, <3>2 DEF ClearedBilled
        <4>2. i \notin TurnOf(rows, event[r])
          BY <3>2, <4>1 DEF Cleared
        <4>3. i # event[r]
          BY <2>1, <4>2 DEF TurnOf, SameTurn
        <4>4. QED BY <2>1, <4>1, <4>3 DEF OnlyFirstRowCharged
      <3>3. QED BY <3>1, <3>2
    <2>3. QED BY <2>1, <2>2, SameTurns
  <1>4. QED BY <1>1, <1>2, <1>3, RowsChange, Inserted

\* A settled row carries a charge only if it is the first of its turn, for any
\* number of requests that reserve and settle at once, any cap and any window:
\* recompute_turn_charge clears what reserve charged a second time.
THEOREM TurnChargedOnce == Spec => []OnlyFirstRowCharged
  <1>1. Init => OnlyFirstRowCharged
    BY DEF Init, OnlyFirstRowCharged
  <1>2. QED BY <1>1, OnlyFirstStep, StructuralAlways, PTL DEF Spec

------------------------------------------------------------------------------
(* Free rounds *)

\* A request is on the free path because it was, or because it took the lock.
LEMMA FreeArrives ==
    ASSUME Structural, [Next]_vars, NEW r \in Requests, pc'[r] = "free"
    PROVE  \/ pc[r] = "free" /\ head'[r] = head[r]
           \/ Lock(r) /\ FreeRound(r)
  <1> USE DEF Structural, TypeOK
  <1>1. ASSUME NEW q \in Requests, Lock(q)
        PROVE  \/ pc[r] = "free" /\ head'[r] = head[r]
               \/ Lock(r) /\ FreeRound(r)
    <2>1. CASE q = r
      BY <1>1, <2>1 DEF Lock, Goto
    <2>2. CASE q # r
      <3>1. pc'[r] = pc[r]
        BY <1>1, <2>2 DEF Lock, Goto
      <3>2. \/ head' = head
            \/ \E e : head' = [head EXCEPT ![q].ent = e]
        BY <1>1 DEF Lock
      <3>3. head'[r] = head[r]
        BY <2>2, <3>2
      <3>4. QED BY <3>1, <3>3
    <2>3. QED BY <2>1, <2>2
  <1>2. ASSUME NEW q \in Requests, Begin(q) \/ FindEntitlement(q)
        PROVE  pc[r] = "free" /\ head'[r] = head[r]
    BY <1>2 DEF Begin, FindEntitlement, Goto, Deny
  <1>3. ASSUME NEW q \in Requests,
               InsertFree(q) \/ InsertCharged(q) \/ Decide(q) \/ Drop(q) \/ Unsettled(q)
        PROVE  pc[r] = "free" /\ head'[r] = head[r]
    BY <1>3 DEF InsertFree, InsertCharged, Decide, Drop, Unsettled, Goto, Deny
  <1>4. ASSUME NEW q \in Requests, Settle(q) \/ SettleCommit(q)
        PROVE  pc[r] = "free" /\ head'[r] = head[r]
    BY <1>4 DEF Settle, SettleBegin, SettleCommit, Goto
  <1>5. CASE Tick \/ UNCHANGED vars
    BY <1>5 DEF Tick, vars
  <1>6. QED BY <1>1, <1>2, <1>3, <1>4, <1>5 DEF Next, Advance

\* What Lock saw of the turn stays true while the request holds the lock.
LEMMA FreeStillHoldsStep ==
    Structural /\ FreeStillHolds /\ [Next]_vars => FreeStillHolds'
  <1> SUFFICES ASSUME Structural, FreeStillHolds, [Next]_vars,
                      NEW r \in Requests, pc'[r] = "free"
               PROVE  FreeRound(r)'
    BY DEF FreeStillHolds
  <1> USE DEF Structural, TypeOK
  <1>1. /\ head'[r].turn = head[r].turn /\ head'[r].at = head[r].at
        /\ FreeRound(r)
    <2>1. CASE pc[r] = "free" /\ head'[r] = head[r]
      BY <2>1 DEF FreeStillHolds
    <2>2. CASE Lock(r) /\ FreeRound(r)
      <3>1. head \in [Requests -> Reservation]
        OBVIOUS
      <3>2. \E e : head' = [head EXCEPT ![r].ent = e]
        BY <2>2 DEF Lock
      <3>3. head'[r].turn = head[r].turn /\ head'[r].at = head[r].at
        BY <3>1, <3>2 DEF Reservation
      <3>4. QED BY <2>2, <3>3
    <2>3. QED BY <2>1, <2>2, FreeArrives
  <1>2. Seen(r)' = Seen(r)
    <2>1. CASE rows' = rows
      BY <1>1, <2>1 DEF Seen
    <2>2. ASSUME NEW q \in Requests, InsertFree(q) \/ InsertCharged(q)
          PROVE  FALSE
      <3>1. lock' = NoRequest
        BY <2>2, Inserted
      <3>2. LockHeld'
        BY StructuralStep
      <3>3. QED BY <3>1, <3>2, RequestAssumption DEF LockHeld, Reserving
    <2>3. ASSUME NEW q \in Requests, SettleCommit(q) PROVE Seen(r)' = Seen(r)
      <3>1. /\ DOMAIN rows' = DOMAIN rows
            /\ \A i \in DOMAIN rows : rows'[i].turn = rows[i].turn /\ rows'[i].at = rows[i].at
        BY <2>3, CommitRows
      <3>2. QED BY <1>1, <3>1 DEF Seen
    <2>4. QED BY <2>1, <2>2, <2>3, RowsChange
  <1>3. QED BY <1>1, <1>2 DEF FreeRound

\* The free rounds of a turn stay inside its window and below the cap, however
\* many of its requests reserve at once, for any window and any cap.
THEOREM FreeRoundsAreBounded == Spec => FreeRoundsBounded
  <1>1. Init => FreeStillHolds
    BY DEF Init, FreeStillHolds
  <1>2. Structural /\ FreeStillHolds /\ [Next]_vars => [FreeRowJoinsTurn]_vars
    <2> SUFFICES ASSUME Structural, FreeStillHolds, [Next]_vars,
                        Len(rows') > Len(rows), rows'[Len(rows')].billed = 0
                 PROVE  FreeRowJoinsTurn
      BY DEF FreeRowJoinsTurn
    <2>1. rows \in Seq(Row) /\ Len(rows) \in Nat
      BY DEF Structural, TypeOK
    <2>2. CASE UNCHANGED <<rows, used>>
      BY <2>1, <2>2
    <2>3. ASSUME NEW r \in Requests, SettleCommit(r) PROVE FALSE
      <3>1. rows' \in Seq(Row) /\ DOMAIN rows' = DOMAIN rows
        BY <2>3, CommitRows
      <3>2. QED BY <2>1, <3>1
    <2>4. ASSUME NEW r \in Requests, InsertFree(r) \/ InsertCharged(r) PROVE FreeRowJoinsTurn
      <3>1. PICK b \in {0, 1} : Insert(r, b)
        BY <2>4, Inserted
      <3>2. TypeOK /\ b \in Nat /\ head[r].ent \in Entitlements
        BY <2>4, <3>1, Inserted DEF Structural, EntitlementChosen
      <3>3. /\ Len(rows') = Len(rows) + 1
            /\ DOMAIN rows = 1..Len(rows)
            /\ \A i \in DOMAIN rows : rows'[i] = rows[i]
            /\ rows'[Len(rows')] = NewRow(r, b)
        BY <3>1, <3>2, InsertRow
      <3>4. rows'[Len(rows')].turn = head[r].turn /\ rows'[Len(rows')].at = head[r].at
        BY <3>3 DEF NewRow
      <3>5. FreeRound(r)
        BY <2>1, <2>4, <3>3 DEF FreeStillHolds, InsertFree, InsertCharged, Insert, NewRow
      <3>6. Seen(r) = {i \in 1..Len(rows') - 1 :
                         /\ rows'[i].turn = rows'[Len(rows')].turn
                         /\ rows'[i].at > rows'[Len(rows')].at - TurnWindow}
        BY <2>1, <3>3, <3>4 DEF Seen
      <3>7. QED BY <3>4, <3>5, <3>6 DEF FreeRowJoinsTurn, FreeRound
    <2>5. QED BY <2>2, <2>3, <2>4, RowsChange
  <1>3. QED BY <1>1, <1>2, FreeStillHoldsStep, StructuralAlways, PTL DEF Spec, FreeRoundsBounded

------------------------------------------------------------------------------
(* Concurrent settlements of one turn *)

\* A step moves no row to another turn.
LEMMA TurnsKept ==
    ASSUME Structural, [Next]_vars, NEW i \in DOMAIN rows, NEW j \in DOMAIN rows
    PROVE  SameTurn(rows', i, j) <=> SameTurn(rows, i, j)
  <1>1. ASSUME NEW r \in Requests, InsertFree(r) \/ InsertCharged(r)
        PROVE  SameTurn(rows', i, j) <=> SameTurn(rows, i, j)
    <2>1. PICK b \in {0, 1} : Insert(r, b)
      BY <1>1, Inserted
    <2>2. TypeOK /\ b \in Nat /\ head[r].ent \in Entitlements
      BY <1>1, Inserted DEF Structural, EntitlementChosen
    <2>3. QED BY <2>1, <2>2, InsertTurns
  <1>2. ASSUME NEW r \in Requests, SettleCommit(r)
        PROVE  SameTurn(rows', i, j) <=> SameTurn(rows, i, j)
    BY <1>2, CommitRows DEF SameTurn
  <1>3. QED BY <1>1, <1>2, RowsChange

\* A settlement is open because it was, or because it has just begun.
LEMMA SettlementsOpen ==
    ASSUME Structural, [Next]_vars, NEW r \in Requests, pc'[r] = "settling"
    PROVE  \/ pc[r] = "settling" /\ settling'[r] = settling[r] /\ event'[r] = event[r]
           \/ \E p \in Probes, k \in Tokens : SettleBegin(r, p, k)
  <1> DEFINE Stays == pc[r] = "settling" /\ settling'[r] = settling[r] /\ event'[r] = event[r]
  <1> USE DEF Structural, TypeOK
  <1>1. ASSUME NEW q \in Requests, NEW p \in Probes, NEW k \in Tokens, SettleBegin(q, p, k)
        PROVE  Stays \/ SettleBegin(r, p, k)
    BY <1>1 DEF SettleBegin, Goto
  <1>2. ASSUME NEW q \in Requests, InsertFree(q) \/ InsertCharged(q) PROVE Stays
    BY <1>2 DEF InsertFree, InsertCharged, Insert, Goto
  <1>3. ASSUME NEW q \in Requests, Begin(q) \/ FindEntitlement(q) \/ Lock(q) PROVE Stays
    BY <1>3 DEF Begin, FindEntitlement, Lock, Goto, Deny
  <1>4. ASSUME NEW q \in Requests, Decide(q) \/ Drop(q) \/ Unsettled(q) \/ SettleCommit(q)
        PROVE  Stays
    BY <1>4 DEF Decide, Drop, Unsettled, SettleCommit, Goto, Deny
  <1>5. CASE Tick \/ UNCHANGED vars
    BY <1>5 DEF Tick, vars
  <1>6. QED BY <1>1, <1>2, <1>3, <1>4, <1>5 DEF Next, Advance, Settle

\* What a settlement knows when it begins, and what it leaves to others.
LEMMA SettlementBegins ==
    ASSUME Structural, NEW r \in Requests, NEW p \in Probes, NEW k \in Tokens,
           SettleBegin(r, p, k)
    PROVE  /\ UNCHANGED <<rows, event>>
           /\ pc[r] = "relaying"
           /\ \A q \in Requests \ {r} : settling'[q] = settling[q] /\ pc'[q] = pc[q]
           /\ event[r] \in DOMAIN rows
           /\ settling'[r].first \in TurnOf(rows, event[r])
           /\ IsFirst(rows, settling'[r].first)
           /\ settling'[r].base = rows[settling'[r].first].billed
           /\ settling'[r].base \in Nat
           /\ settling'[r].inFlight /\ Writes(r)' =>
                 settling'[r].base = 0 /\ settling'[r].desired = 1
           /\ \A q \in Requests \ {r} :
                 pc[q] = "settling" /\ SameTurn(rows, event[q], event[r])
                    => settling'[r].inFlight
  <1> DEFINE s == SettlementFor(p, k)
             V == View(r, s)
             f == FirstOf(V, event[r])
  <1>1. /\ pc[r] = "relaying" /\ pc' = [pc EXCEPT ![r] = "settling"]
        /\ settling' = [settling EXCEPT ![r] =
              [status |-> s.status, tokens |-> s.tokens, quote |-> s.quote,
               first |-> f, inFlight |-> InFlight(V, event[r]),
               base |-> V[f].billed, desired |-> Desired(V, event[r])]]
        /\ UNCHANGED <<now, used, rows, lock, head, event>>
    BY DEF SettleBegin, Goto
  <1> HIDE DEF s
  <1>2. /\ event[r] \in DOMAIN rows /\ DOMAIN V = DOMAIN rows
        /\ \A i \in DOMAIN rows : V[i].turn = rows[i].turn /\ V[i].billed = rows[i].billed
        /\ \A i \in DOMAIN rows \ {event[r]} : V[i].status = rows[i].status
        /\ f \in TurnOf(rows, event[r]) /\ IsFirst(rows, f)
    BY <1>1, ViewRows
  <1>3. f \in DOMAIN rows /\ V[f].billed = rows[f].billed /\ rows[f].billed \in Nat
    <2>1. f \in DOMAIN rows
      BY <1>2 DEF TurnOf
    <2>2. rows[f] \in Row
      BY <2>1 DEF Structural, TypeOK
    <2>3. QED BY <1>2, <2>1, <2>2 DEF Row
  <1>4. InFlight(V, event[r]) /\ V[f].billed # Desired(V, event[r])
           => V[f].billed = 0 /\ Desired(V, event[r]) = 1
    BY <1>3 DEF Desired
  <1>5. TurnOf(V, event[r]) = TurnOf(rows, event[r])
    BY <1>2, SameTurns
  <1> HIDE DEF V, f
  <1>6. /\ settling'[r].first = f /\ settling'[r].base = V[f].billed
        /\ settling'[r].inFlight = InFlight(V, event[r])
        /\ settling'[r].desired = Desired(V, event[r])
        /\ \A q \in Requests \ {r} : settling'[q] = settling[q] /\ pc'[q] = pc[q]
    BY <1>1 DEF Structural, TypeOK
  <1>7. ASSUME NEW q \in Requests \ {r}, pc[q] = "settling",
               SameTurn(rows, event[q], event[r])
        PROVE  InFlight(V, event[r])
    <2>1. /\ event[q] \in DOMAIN rows /\ rows[event[q]].status = "reserved"
          /\ event[q] # event[r]
      BY <1>1, <1>7 DEF Structural, OwnsRow
    <2>2. event[q] \in TurnOf(rows, event[r])
      BY <1>7, <2>1 DEF TurnOf, SameTurn
    <2>3. QED BY <1>2, <1>5, <2>1, <2>2 DEF InFlight
  <1>8. QED BY <1>1, <1>2, <1>3, <1>4, <1>6, <1>7 DEF Writes

LEMMA OneFinalStep ==
    Structural /\ OneFinalSettle /\ [Next]_vars => OneFinalSettle'
  <1> SUFFICES ASSUME Structural, OneFinalSettle, [Next]_vars,
                      NEW q \in Requests, NEW r \in Requests, q # r,
                      pc'[q] = "settling", pc'[r] = "settling",
                      SameTurn(rows', event'[q], event'[r])
               PROVE  settling'[q].inFlight \/ settling'[r].inFlight
    BY DEF OneFinalSettle
  <1>1. ASSUME NEW p \in Probes, NEW k \in Tokens, SettleBegin(q, p, k)
        PROVE  settling'[q].inFlight
    <2>1. UNCHANGED <<rows, event>> /\ pc[r] = "settling"
      BY <1>1, SettlementBegins
    <2>2. SameTurn(rows, event[r], event[q])
      BY <2>1 DEF SameTurn
    <2>3. QED BY <1>1, <2>1, <2>2, SettlementBegins
  <1>2. ASSUME NEW p \in Probes, NEW k \in Tokens, SettleBegin(r, p, k)
        PROVE  settling'[r].inFlight
    <2>1. UNCHANGED <<rows, event>> /\ pc[q] = "settling"
      BY <1>2, SettlementBegins
    <2>2. QED BY <1>2, <2>1, SettlementBegins
  <1>3. CASE /\ pc[q] = "settling" /\ settling'[q] = settling[q] /\ event'[q] = event[q]
             /\ pc[r] = "settling" /\ settling'[r] = settling[r] /\ event'[r] = event[r]
    <2>1. event[q] \in DOMAIN rows /\ event[r] \in DOMAIN rows
      BY <1>3 DEF Structural, OwnsRow
    <2>2. SameTurn(rows, event[q], event[r])
      BY <1>3, <2>1, TurnsKept
    <2>3. QED BY <1>3, <2>2 DEF OneFinalSettle
  <1>4. QED BY <1>1, <1>2, <1>3, SettlementsOpen

\* Of the settlements of one turn that are open at once, however many, only one
\* may believe it closes the turn.
THEOREM OneClosesTheTurn == Spec => []OneFinalSettle
  <1>1. Init => OneFinalSettle
    BY DEF Init, OneFinalSettle
  <1>2. QED BY <1>1, OneFinalStep, StructuralAlways, PTL DEF Spec

\* A turn is charged in one place, its first row, and by one settlement, the
\* one that finds it finished.
THEOREM TurnsAreChargedOnce == Spec => []OneCharge
  <1>1. OnlyFirstRowCharged /\ OneFinalSettle => OneCharge
    BY DEF OneCharge
  <1>2. QED BY <1>1, TurnChargedOnce, OneClosesTheTurn, PTL

------------------------------------------------------------------------------
(* Charges and uses *)

\* Two settlements of one turn have found the same first row.
LEMMA SameFirst ==
    ASSUME Structural, NEW q \in Requests, NEW r \in Requests,
           pc[q] = "settling", pc[r] = "settling", SameTurn(rows, event[q], event[r])
    PROVE  /\ event[q] \in DOMAIN rows /\ event[r] \in DOMAIN rows
           /\ settling[q].first = settling[r].first
  <1>1. /\ DOMAIN rows \subseteq Nat
        /\ event[q] \in DOMAIN rows /\ event[r] \in DOMAIN rows
        /\ settling[q].first \in TurnOf(rows, event[q]) /\ IsFirst(rows, settling[q].first)
        /\ settling[r].first \in TurnOf(rows, event[r]) /\ IsFirst(rows, settling[r].first)
    BY DEF Structural, TypeOK, OwnsRow, FirstKnown
  <1>2. settling[r].first \in TurnOf(rows, event[q])
    BY <1>1 DEF TurnOf, SameTurn
  <1>3. QED BY <1>1, <1>2, OneFirst

\* Two settlements that have found the same first row are of one turn.
LEMMA SameFirstSameTurn ==
    ASSUME Structural, NEW q \in Requests, NEW r \in Requests,
           pc[q] = "settling", pc[r] = "settling",
           settling[r].first \in TurnOf(rows, event[q])
    PROVE  SameTurn(rows, event[q], event[r])
  BY DEF Structural, OwnsRow, FirstKnown, TurnOf, SameTurn

\* The first row an open settlement has found is a row with a charge.
LEMMA FirstRowKnown ==
    ASSUME Structural, NEW r \in Requests, pc[r] = "settling"
    PROVE  /\ settling[r] \in Settling
           /\ settling[r].first \in DOMAIN rows
           /\ rows[settling[r].first] \in Row
  <1>1. settling[r].first \in DOMAIN rows
    BY DEF Structural, FirstKnown, TurnOf
  <1>2. rows \in Seq(Row) /\ settling[r] \in Settling
    BY DEF Structural, TypeOK
  <1>3. QED BY <1>1, <1>2

ChargesKnown == BaseKnown /\ RaisesOverZero

LEMMA RaisesOverZeroStep ==
    Structural /\ ChargesKnown /\ [Next]_vars => RaisesOverZero'
  <1> SUFFICES ASSUME Structural, ChargesKnown, [Next]_vars,
                      NEW q \in Requests, NEW r \in Requests, q # r,
                      pc'[q] = "settling", pc'[r] = "settling",
                      SameTurn(rows', event'[q], event'[r]),
                      Writes(q)', settling'[q].inFlight,
                      Writes(r)', ~settling'[r].inFlight
               PROVE  settling'[r].base = 0
    BY DEF RaisesOverZero
  <1>1. ASSUME NEW p \in Probes, NEW k \in Tokens, SettleBegin(r, p, k)
        PROVE  FALSE
    <2>1. UNCHANGED <<rows, event>> /\ pc[q] = "settling"
      BY <1>1, SettlementBegins
    <2>2. QED BY <1>1, <2>1, SettlementBegins
  <1>2. ASSUME NEW p \in Probes, NEW k \in Tokens, SettleBegin(q, p, k),
               pc[r] = "settling", settling'[r] = settling[r]
        PROVE  settling'[r].base = 0
    <2>1. /\ UNCHANGED <<rows, event>>
          /\ settling'[q].base = 0
          /\ settling'[q].base = rows[settling'[q].first].billed
          /\ event[q] \in DOMAIN rows
          /\ settling'[q].first \in TurnOf(rows, event[q])
          /\ IsFirst(rows, settling'[q].first)
      BY <1>2, SettlementBegins
    <2>2. /\ DOMAIN rows \subseteq Nat
          /\ event[r] \in DOMAIN rows
          /\ settling[r].first \in TurnOf(rows, event[r])
          /\ IsFirst(rows, settling[r].first)
      BY <1>2 DEF Structural, TypeOK, OwnsRow, FirstKnown
    <2>3. settling'[q].first = settling[r].first
      <3>1. settling'[q].first \in TurnOf(rows, event[r])
        BY <2>1, <2>2 DEF TurnOf, SameTurn
      <3>2. QED BY <2>1, <2>2, <3>1, OneFirst
    <2>4. rows[settling[r].first].billed = 0
      BY <1>2, <2>1, <2>3
    <2>5. Writes(r) /\ settling[r].base \in Nat
      BY <1>2, FirstRowKnown DEF Writes, Settling
    <2>6. QED BY <1>2, <2>4, <2>5 DEF ChargesKnown, BaseKnown
  <1>3. CASE /\ pc[q] = "settling" /\ settling'[q] = settling[q] /\ event'[q] = event[q]
             /\ pc[r] = "settling" /\ settling'[r] = settling[r] /\ event'[r] = event[r]
    <2>1. event[q] \in DOMAIN rows /\ event[r] \in DOMAIN rows
      BY <1>3 DEF Structural, OwnsRow
    <2>2. SameTurn(rows, event[q], event[r])
      BY <1>3, <2>1, TurnsKept
    <2>3. Writes(q) /\ Writes(r)
      BY <1>3 DEF Writes
    <2>4. QED BY <1>3, <2>2, <2>3 DEF ChargesKnown, RaisesOverZero
  <1>4. QED BY <1>1, <1>2, <1>3, SettlementsOpen

LEMMA BaseKnownStep ==
    Structural /\ OneFinalSettle /\ ChargesKnown /\ [Next]_vars => BaseKnown'
  <1> SUFFICES ASSUME Structural, OneFinalSettle, ChargesKnown, [Next]_vars,
                      NEW r \in Requests, pc'[r] = "settling", Writes(r)'
               PROVE  /\ rows'[settling'[r].first].billed >= settling'[r].base
                      /\ settling'[r].inFlight =>
                            settling'[r].base = 0 /\ settling'[r].desired = 1
    BY DEF BaseKnown
  <1>1. ASSUME NEW p \in Probes, NEW k \in Tokens, SettleBegin(r, p, k)
        PROVE  /\ rows'[settling'[r].first].billed >= settling'[r].base
               /\ settling'[r].inFlight =>
                     settling'[r].base = 0 /\ settling'[r].desired = 1
    <2>1. /\ rows' = rows /\ settling'[r].base = rows[settling'[r].first].billed
          /\ settling'[r].base \in Nat
      BY <1>1, SettlementBegins
    <2>2. QED BY <1>1, <2>1, SettlementBegins
  <1>2. ASSUME pc[r] = "settling", settling'[r] = settling[r], event'[r] = event[r]
        PROVE  /\ rows'[settling'[r].first].billed >= settling'[r].base
               /\ settling'[r].inFlight =>
                     settling'[r].base = 0 /\ settling'[r].desired = 1
    <2> DEFINE f == settling[r].first
    <2>1. /\ rows[f].billed >= settling[r].base
          /\ settling[r].inFlight => settling[r].base = 0 /\ settling[r].desired = 1
      BY <1>2 DEF Writes, ChargesKnown, BaseKnown
    <2>2. f \in DOMAIN rows /\ rows[f].billed \in Nat /\ settling[r].base \in Nat
      BY <1>2, FirstRowKnown DEF Settling, Row
    <2> HIDE DEF f
    <2>3. rows'[f].billed >= settling[r].base
      <3>1. ASSUME NEW q \in Requests, InsertFree(q) \/ InsertCharged(q)
            PROVE  rows'[f] = rows[f]
        <4>1. PICK b \in {0, 1} : Insert(q, b)
          BY <3>1, Inserted
        <4>2. TypeOK /\ b \in Nat /\ head[q].ent \in Entitlements
          BY <3>1, Inserted DEF Structural, EntitlementChosen
        <4>3. QED BY <2>2, <4>1, <4>2, InsertRow
      <3>2. ASSUME NEW c \in Requests, SettleCommit(c)
            PROVE  rows'[f].billed >= settling[r].base
        <4>1. pc[c] = "settling" /\ pc'[c] = "done" /\ c # r
          BY <1>2, <3>2 DEF SettleCommit, Goto, Structural, TypeOK
        <4>2. CASE f # settling[c].first
          <5>1. f \notin TurnOf(rows, event[c])
            <6>1. ASSUME f \in TurnOf(rows, event[c]) PROVE FALSE
              <7>1. SameTurn(rows, event[c], event[r])
                BY <1>2, <4>1, <6>1, SameFirstSameTurn DEF f
              <7>2. QED BY <1>2, <4>1, <4>2, <7>1, SameFirst DEF f
            <6>2. QED BY <6>1
          <5>2. rows'[f].billed = rows[f].billed
            BY <2>2, <3>2, <4>2, <5>1, CommitRows DEF ClearedBilled, Cleared
          <5>3. QED BY <2>1, <5>2
        <4>3. CASE f = settling[c].first /\ Writes(c)
          <5>1. SameTurn(rows, event[c], event[r])
            <6>1. settling[r].first \in TurnOf(rows, event[c])
              BY <3>2, <4>3, CommitRows DEF f
            <6>2. QED BY <1>2, <4>1, <6>1, SameFirstSameTurn
          <5>2. Writes(r)
            BY <1>2 DEF Writes
          <5>3. settling[c].inFlight \/ settling[r].inFlight
            BY <1>2, <4>1, <5>1 DEF OneFinalSettle
          <5>4. settling[r].base = 0
            BY <1>2, <2>1, <4>1, <4>3, <5>1, <5>2, <5>3 DEF ChargesKnown, RaisesOverZero
          <5>5. rows'[f].billed \in Nat
            <6>1. rows'[f].billed = settling[c].desired
              BY <2>2, <3>2, <4>3, CommitRows
            <6>2. QED BY <4>1, <6>1, FirstRowKnown DEF Settling
          <5>6. QED BY <5>4, <5>5
        <4>4. CASE f = settling[c].first /\ ~Writes(c)
          <5>1. rows'[f].billed = rows[f].billed
            BY <2>2, <3>2, <4>4, CommitRows
          <5>2. QED BY <2>1, <5>1
        <4>5. QED BY <4>2, <4>3, <4>4
      <3>3. QED BY <2>1, <3>1, <3>2, RowsChange
    <2>4. QED BY <1>2, <2>1, <2>3 DEF f
  <1>3. QED BY <1>1, <1>2, SettlementsOpen

LEMMA ChargesKnownAlways == Spec => []ChargesKnown
  <1>1. Init => ChargesKnown
    BY DEF Init, ChargesKnown, BaseKnown, RaisesOverZero
  <1>2. Structural /\ OneFinalSettle /\ ChargesKnown /\ [Next]_vars => ChargesKnown'
    BY RaisesOverZeroStep, BaseKnownStep DEF ChargesKnown
  <1>3. QED BY <1>1, <1>2, StructuralAlways, OneClosesTheTurn, PTL DEF Spec

\* An insertion records one use for a charged row and none for a free one.
LEMMA InsertIsRecorded ==
    ASSUME Structural, NEW r \in Requests, InsertFree(r) \/ InsertCharged(r)
    PROVE  RaiseIsRecorded /\ RefundIsCovered
  <1>1. PICK b \in {0, 1} : Insert(r, b)
    BY Inserted
  <1>2. TypeOK /\ b \in Nat /\ head[r].ent \in Entitlements
    BY Inserted DEF Structural, EntitlementChosen
  <1>3. /\ Len(rows) \in Nat
        /\ DOMAIN rows' = 1..Len(rows) + 1 /\ DOMAIN rows = 1..Len(rows)
        /\ \A i \in DOMAIN rows : rows'[i] = rows[i]
        /\ rows'[Len(rows) + 1] = NewRow(r, b)
    BY <1>1, <1>2, InsertRow
  <1>4. used \in [Entitlements -> Nat]
    BY <1>2 DEF TypeOK
  <1>5. \A i \in DOMAIN rows : rows[i] \in Row
    BY <1>2 DEF TypeOK
  <1>6. /\ \A e \in Entitlements : ~(used'[e] < used[e])
        /\ b = 1 => used'[head[r].ent] = used[head[r].ent] + 1
    <2>1. CASE InsertFree(r)
      <3>1. b = 0
        BY <1>1, <1>3, <2>1 DEF InsertFree, Insert, NewRow
      <3>2. QED BY <1>4, <2>1, <3>1 DEF InsertFree
    <2>2. CASE InsertCharged(r)
      BY <1>2, <1>4, <2>2 DEF InsertCharged
    <2>3. QED BY <2>1, <2>2
  <1>7. RaiseIsRecorded
    <2> SUFFICES ASSUME NEW i \in DOMAIN rows',
                        NEW before,
                        before = IF i \in DOMAIN rows THEN rows[i].billed ELSE 0,
                        rows'[i].billed > before
                 PROVE  used'[rows'[i].ent] - used[rows'[i].ent] >= rows'[i].billed - before
      BY DEF RaiseIsRecorded
    <2>1. i \notin DOMAIN rows
      BY <1>3, <1>5 DEF Row
    <2>2. rows'[i].ent = head[r].ent /\ rows'[i].billed = b
      BY <1>3, <2>1 DEF NewRow
    <2>3. QED BY <1>2, <1>4, <1>6, <2>1, <2>2
  <1>8. RefundIsCovered
    BY <1>6 DEF RefundIsCovered
  <1>9. QED BY <1>7, <1>8

\* A commit moves the charge of the first row by no more than it records.
LEMMA CommitIsRecorded ==
    ASSUME Structural, ChargesKnown, NEW r \in Requests, SettleCommit(r)
    PROVE  RaiseIsRecorded /\ RefundIsCovered
  <1> DEFINE f == settling[r].first
             delta == settling[r].desired - settling[r].base
  <1>1. /\ pc[r] = "settling" /\ used \in [Entitlements -> Nat]
        /\ used' = IF Writes(r) THEN [used EXCEPT ![Payer(r)] = Adjusted(@, delta)] ELSE used
    BY DEF SettleCommit, Structural, TypeOK
  <1>2. /\ f \in DOMAIN rows /\ rows[f].billed \in Nat /\ rows[f].ent \in Entitlements
        /\ settling[r].desired \in Nat /\ settling[r].base \in Nat
    BY <1>1, FirstRowKnown DEF Settling, Row
  <1>3. /\ DOMAIN rows' = DOMAIN rows
        /\ \A i \in DOMAIN rows :
              /\ rows'[i].ent = rows[i].ent
              /\ i # f => rows'[i].billed = ClearedBilled(r, i)
        /\ rows'[f].billed = IF Writes(r) THEN settling[r].desired ELSE rows[f].billed
    BY <1>2, CommitRows
  <1>4. Writes(r) => rows[f].billed >= settling[r].base
    BY <1>1 DEF ChargesKnown, BaseKnown
  <1>5. Payer(r) = rows[f].ent
    BY DEF Payer
  <1>6. \A i \in DOMAIN rows : rows[i].billed \in Nat
    <2>1. \A i \in DOMAIN rows : rows[i] \in Row
      BY DEF Structural, TypeOK
    <2>2. QED BY <2>1 DEF Row
  <1> HIDE DEF f
  <1>7. ASSUME Writes(r)
        PROVE  /\ used'[rows[f].ent] \in Nat
               /\ used'[rows[f].ent] - used[rows[f].ent] >= delta
               /\ \A e \in Entitlements \ {rows[f].ent} : used'[e] = used[e]
    <2>1. used'[rows[f].ent] = Adjusted(used[rows[f].ent], delta)
      BY <1>1, <1>2, <1>5, <1>7
    <2>2. used[rows[f].ent] \in Nat /\ delta \in Int
      BY <1>1, <1>2
    <2>3. QED BY <1>1, <1>2, <1>5, <1>7, <2>1, <2>2 DEF Adjusted
  <1>8. RaiseIsRecorded
    <2> SUFFICES ASSUME NEW i \in DOMAIN rows, rows'[i].billed > rows[i].billed
                 PROVE  used'[rows'[i].ent] - used[rows'[i].ent]
                           >= rows'[i].billed - rows[i].billed
      BY <1>3 DEF RaiseIsRecorded
    <2>1. i = f /\ Writes(r)
      BY <1>3, <1>6 DEF ClearedBilled
    <2>2. rows'[i].ent = rows[f].ent /\ rows'[i].billed = settling[r].desired
      BY <1>3, <2>1
    <2>3. used[rows[f].ent] \in Nat
      BY <1>1, <1>2
    <2>4. QED BY <1>2, <1>4, <1>7, <2>1, <2>2, <2>3
  <1>9. RefundIsCovered
    <2> SUFFICES ASSUME NEW e \in Entitlements, used'[e] < used[e]
                 PROVE  rows[f].ent = e /\ rows[f].billed - rows'[f].billed >= used[e] - used'[e]
      BY <1>2 DEF RefundIsCovered
    <2>1. used[e] \in Nat
      BY <1>1
    <2>2. Writes(r)
      BY <1>1, <2>1
    <2>3. e = rows[f].ent
      BY <1>7, <2>1, <2>2
    <2>4. QED BY <1>2, <1>3, <1>4, <1>7, <2>1, <2>2, <2>3
  <1>10. QED BY <1>8, <1>9

\* No interleaving of reserve and settle raises a charge that the paying
\* entitlement does not record, or gives back a use without removing a charge
\* of at least that size from a row it pays for, whatever the ladder.
THEOREM ChargesAreAlwaysRecorded == Spec => ChargesAreRecorded
  <1>1. Structural /\ ChargesKnown /\ [Next]_vars => [RaiseIsRecorded /\ RefundIsCovered]_vars
    <2> SUFFICES ASSUME Structural, ChargesKnown, [Next]_vars
                 PROVE  RaiseIsRecorded /\ RefundIsCovered
      OBVIOUS
    <2>1. CASE UNCHANGED <<rows, used>>
      <3>1. /\ \A i \in DOMAIN rows : rows[i] \in Row
            /\ \A e \in Entitlements : used[e] \in Nat
        BY DEF Structural, TypeOK
      <3>2. \A i \in DOMAIN rows : rows[i].billed \in Nat
        BY <3>1 DEF Row
      <3>3. QED BY <2>1, <3>1, <3>2 DEF RaiseIsRecorded, RefundIsCovered
    <2>2. QED BY <2>1, InsertIsRecorded, CommitIsRecorded, RowsChange
  <1>2. QED BY <1>1, StructuralAlways, ChargesKnownAlways, PTL DEF Spec, ChargesAreRecorded
------------------------------------------------------------------------------
(* Settlements one after the other *)

\* What a turn costs, and whether it is in flight, depends on nothing but which
\* rows it has and how they ended.
LEMMA SameCharge ==
    ASSUME NEW R, NEW i, NEW Q, NEW k, TurnOf(R, i) = TurnOf(Q, k),
           \A j \in TurnOf(R, i) : R[j].status = Q[j].status /\ R[j].tokens = Q[j].tokens
    PROVE  /\ InFlight(R, i) <=> InFlight(Q, k)
           /\ FinalCharge(R, i) = FinalCharge(Q, k)
  <1>1. InFlight(R, i) <=> InFlight(Q, k)
    BY DEF InFlight
  <1>2. [j \in TurnOf(R, i) |-> R[j].tokens] = [j \in TurnOf(Q, k) |-> Q[j].tokens]
    OBVIOUS
  <1>3. TurnTokens(R, i) = TurnTokens(Q, k)
    BY <1>2, Zenon DEF TurnTokens
  <1>4. (\E j \in TurnOf(R, i) : R[j].status \in {"ok", "aborted"})
           <=> \E j \in TurnOf(Q, k) : Q[j].status \in {"ok", "aborted"}
    OBVIOUS
  <1>5. FinalCharge(R, i) = FinalCharge(Q, k)
    BY <1>3, <1>4, Zenon DEF FinalCharge
  <1>6. QED BY <1>1, <1>5

\* What a commit leaves is what its settlement saw when it opened.
LEMMA CommitSettles ==
    ASSUME Structural, NEW r \in Requests, SettleCommit(r)
    PROVE  LET V == View(r, settling[r])
           IN  /\ DOMAIN V = DOMAIN rows
               /\ \A i \in DOMAIN rows : /\ V[i].turn = rows[i].turn
                                         /\ rows'[i].status = V[i].status
                                         /\ rows'[i].tokens = V[i].tokens
               /\ \A i \in DOMAIN rows \ {event[r]} : V[i].status = rows[i].status
                                                      /\ V[i].tokens = rows[i].tokens
  <1> DEFINE V == View(r, settling[r])
  <1>1. rows' = [j \in DOMAIN rows |-> SettledRow(r, j)] /\ event[r] \in DOMAIN rows
    BY CommitRows DEF SettleCommit
  <1>2. \A i \in DOMAIN rows : rows[i] \in Row
    BY DEF Structural, TypeOK
  <1>3. DOMAIN V = DOMAIN rows
    BY DEF View
  <1>4. ASSUME NEW i \in DOMAIN rows
        PROVE  /\ V[i].turn = rows[i].turn
               /\ V[i].status = IF i = event[r] THEN settling[r].status ELSE rows[i].status
               /\ V[i].tokens = IF i = event[r] THEN settling[r].tokens ELSE rows[i].tokens
    BY <1>1, <1>2 DEF View, Row
  <1>5. ASSUME NEW i \in DOMAIN rows
        PROVE  /\ rows'[i].status = IF i = event[r] THEN settling[r].status ELSE rows[i].status
               /\ rows'[i].tokens = IF i = event[r] THEN settling[r].tokens ELSE rows[i].tokens
    <2>1. rows'[i] = SettledRow(r, i) /\ rows[i] \in Row
      BY <1>1, <1>2
    <2>2. QED BY <2>1 DEF SettledRow, Row
  <1> HIDE DEF V
  <1>6. QED BY <1>3, <1>4, <1>5 DEF V

\* Nothing happens while a settlement is open, so what it has read is what is there.
Fresh ==
    \A r \in Requests : pc[r] = "settling" =>
        /\ \A q \in Requests : pc[q] = "settling" => q = r
        /\ settling[r].base = rows[settling[r].first].billed
        /\ LET V == View(r, settling[r])
           IN ~InFlight(V, event[r]) => settling[r].desired = FinalCharge(V, event[r])

LEMMA FreshStep ==
    ASSUME Structural, Fresh, [SerialNext]_vars
    PROVE  Fresh'
  <1>1. CASE UNCHANGED vars
    BY <1>1 DEF vars, Fresh, View
  <1>2. ASSUME NEW r \in Requests, pc[r] = "settling", SettleCommit(r) \/ Unsettled(r)
        PROVE  Fresh'
    <2>1. pc' = [pc EXCEPT ![r] = "done"] \/ pc' = [pc EXCEPT ![r] = "unsettled"]
      BY <1>2 DEF SettleCommit, Unsettled, Goto
    <2>2. \A q \in Requests : pc'[q] # "settling"
      BY <1>2, <2>1 DEF Structural, TypeOK, Fresh
    <2>3. QED BY <2>2 DEF Fresh
  <1>3. CASE Next /\ \A r \in Requests : pc[r] # "settling"
    <2> SUFFICES ASSUME NEW r \in Requests, pc'[r] = "settling"
                 PROVE  /\ \A q \in Requests : pc'[q] = "settling" => q = r
                        /\ settling'[r].base = rows'[settling'[r].first].billed
                        /\ LET V == View(r, settling[r])'
                           IN ~InFlight(V, event'[r]) =>
                                 settling'[r].desired = FinalCharge(V, event'[r])
      BY DEF Fresh, View
    <2>1. PICK p \in Probes, k \in Tokens : SettleBegin(r, p, k)
      BY <1>3, SettlementsOpen
    <2>2. /\ UNCHANGED <<rows, event>>
          /\ \A q \in Requests \ {r} : pc'[q] = pc[q]
          /\ settling'[r].base = rows[settling'[r].first].billed
      BY <2>1, SettlementBegins
    <2> DEFINE s == SettlementFor(p, k)
               V == View(r, s)
    <2>3. settling' = [settling EXCEPT ![r] =
              [status |-> s.status, tokens |-> s.tokens, quote |-> s.quote,
               first |-> FirstOf(V, event[r]), inFlight |-> InFlight(V, event[r]),
               base |-> V[FirstOf(V, event[r])].billed, desired |-> Desired(V, event[r])]]
      BY <2>1 DEF SettleBegin
    <2> HIDE DEF s
    <2>4. /\ settling'[r].status = s.status /\ settling'[r].tokens = s.tokens
          /\ settling'[r].desired = Desired(V, event[r])
      <3> HIDE DEF V
      <3>1. QED BY <2>3 DEF Structural, TypeOK
    <2>5. View(r, settling[r])' = V
      BY <2>2, <2>4 DEF View
    <2>6. ~InFlight(V, event[r]) => settling'[r].desired = FinalCharge(V, event[r])
      BY <2>4, Zenon DEF Desired
    <2> HIDE DEF V
    <2>7. QED BY <1>3, <2>2, <2>5, <2>6
  <1>4. QED BY <1>1, <1>2, <1>3 DEF SerialNext, SettleCommit

LEMMA QuiescentStep ==
    ASSUME Structural, Fresh, QuiescentCharge, [Next]_vars
    PROVE  QuiescentCharge'
  <1> SUFFICES ASSUME NEW i \in DOMAIN rows', IsFirst(rows', i), ~InFlight(rows', i)
               PROVE  rows'[i].billed = FinalCharge(rows', i)
    BY DEF QuiescentCharge
  <1>1. CASE rows' = rows
    BY <1>1 DEF QuiescentCharge
  <1>2. ASSUME NEW r \in Requests, InsertFree(r) \/ InsertCharged(r)
        PROVE  rows'[i].billed = FinalCharge(rows', i)
    <2>1. PICK b \in {0, 1} : Insert(r, b)
      BY <1>2, Inserted
    <2>2. TypeOK /\ b \in Nat /\ head[r].ent \in Entitlements
      BY <1>2, Inserted DEF Structural, EntitlementChosen
    <2> DEFINE n == Len(rows) + 1
    <2>3. /\ DOMAIN rows' = DOMAIN rows \cup {n} /\ DOMAIN rows \subseteq Nat
          /\ n \notin DOMAIN rows
          /\ \A j \in DOMAIN rows : rows'[j] = rows[j]
          /\ rows'[n].status = "reserved"
      <3>1. /\ DOMAIN rows' = 1..n /\ DOMAIN rows = 1..Len(rows) /\ Len(rows) \in Nat
            /\ \A j \in DOMAIN rows : rows'[j] = rows[j]
            /\ rows'[n] = NewRow(r, b)
        BY <2>1, <2>2, InsertRow
      <3>2. QED BY <3>1 DEF NewRow
    <2> HIDE DEF n
    <2>4. n \notin TurnOf(rows', i)
      BY <2>3 DEF InFlight
    <2>5. i \in DOMAIN rows
      BY <2>3, <2>4 DEF TurnOf, SameTurn
    <2>6. TurnOf(rows, i) = TurnOf(rows', i) /\ TurnOf(rows, i) \subseteq DOMAIN rows
      BY <2>3, <2>4, <2>5 DEF TurnOf, SameTurn
    <2>7. /\ InFlight(rows, i) <=> InFlight(rows', i)
          /\ FinalCharge(rows, i) = FinalCharge(rows', i)
      BY <2>3, <2>6, SameCharge
    <2>8. IsFirst(rows, i)
      BY <2>6 DEF IsFirst
    <2>9. QED BY <2>3, <2>5, <2>7, <2>8 DEF QuiescentCharge
  <1>3. ASSUME NEW r \in Requests, SettleCommit(r)
        PROVE  rows'[i].billed = FinalCharge(rows', i)
    <2> DEFINE V == View(r, settling[r])
               f == settling[r].first
               e == event[r]
    <2>1. /\ DOMAIN rows' = DOMAIN rows
          /\ \A j \in DOMAIN rows : rows'[j].turn = rows[j].turn
          /\ i # f => rows'[i].billed = ClearedBilled(r, i)
          /\ i = f => rows'[i].billed = IF Writes(r) THEN settling[r].desired ELSE rows[i].billed
          /\ e \in DOMAIN rows /\ f \in TurnOf(rows, e) /\ IsFirst(rows, f)
      BY <1>3, CommitRows
    <2>2. /\ DOMAIN V = DOMAIN rows
          /\ \A j \in DOMAIN rows : /\ V[j].turn = rows[j].turn
                                    /\ rows'[j].status = V[j].status
                                    /\ rows'[j].tokens = V[j].tokens
          /\ \A j \in DOMAIN rows \ {e} : V[j].status = rows[j].status
                                          /\ V[j].tokens = rows[j].tokens
      BY <1>3, CommitSettles
    <2>3. /\ pc[r] = "settling" /\ settling[r].base = rows[f].billed
          /\ ~InFlight(V, e) => settling[r].desired = FinalCharge(V, e)
      BY <1>3 DEF Fresh, SettleCommit
    <2> HIDE DEF V, f, e
    <2>4. /\ i \in DOMAIN rows /\ DOMAIN rows \subseteq Nat
          /\ TurnOf(rows', i) = TurnOf(rows, i) /\ TurnOf(rows, i) \subseteq DOMAIN rows
          /\ TurnOf(V, e) = TurnOf(rows, e)
          /\ IsFirst(rows, i)
      <3>1. DOMAIN rows \subseteq Nat /\ TurnOf(rows, i) \subseteq DOMAIN rows
        BY DEF Structural, TypeOK, TurnOf
      <3>2. i \in DOMAIN rows
        BY <2>1
      <3>3. TurnOf(rows', i) = TurnOf(rows, i) /\ IsFirst(rows, i)
        BY <2>1, <3>2, SameTurns
      <3>4. TurnOf(V, e) = TurnOf(rows, e)
        BY <2>1, <2>2, SameTurns
      <3>5. QED BY <3>1, <3>2, <3>3, <3>4
    <2>5. CASE i \in TurnOf(rows, e)
      <3>1. i = f
        BY <2>1, <2>4, <2>5, OneFirst
      <3>2. TurnOf(rows', i) = TurnOf(V, e)
        <4>1. TurnOf(rows, i) = TurnOf(rows, e)
          BY <2>5 DEF TurnOf, SameTurn
        <4>2. QED BY <2>4, <4>1
      <3>3. /\ InFlight(rows', i) <=> InFlight(V, e)
            /\ FinalCharge(rows', i) = FinalCharge(V, e)
        BY <2>2, <2>4, <3>2, SameCharge
      <3>4. settling[r].desired = FinalCharge(rows', i)
        BY <2>3, <3>3
      <3>5. rows'[i].billed = settling[r].desired
        BY <2>1, <2>3, <3>1 DEF Writes, f
      <3>6. QED BY <3>4, <3>5
    <2>6. CASE i \notin TurnOf(rows, e)
      <3>1. e \notin TurnOf(rows, i) /\ i # f
        BY <2>1, <2>4, <2>6 DEF TurnOf, SameTurn
      <3>2. rows'[i].billed = rows[i].billed
        BY <2>1, <2>6, <3>1 DEF ClearedBilled, Cleared, e
      <3>3. \A j \in TurnOf(rows', i) : rows'[j].status = rows[j].status
                                        /\ rows'[j].tokens = rows[j].tokens
        BY <2>2, <2>4, <3>1
      <3>4. /\ InFlight(rows', i) <=> InFlight(rows, i)
            /\ FinalCharge(rows', i) = FinalCharge(rows, i)
        BY <2>4, <3>3, SameCharge
      <3>5. QED BY <2>4, <3>2, <3>4 DEF QuiescentCharge
    <2>7. QED BY <2>5, <2>6
  <1>4. QED BY <1>1, <1>2, <1>3, RowsChange

\* When nothing comes between the reads of a settlement and its commit, a turn
\* with nothing in flight costs exactly what recompute_turn_charge's rule says of
\* its rows, for any ladder, whatever they reported, however many there are and
\* in whatever order they are settled, dropped or left unsettled.
THEOREM TurnsCostTheRule == SerialSpec => []QuiescentCharge
  <1>1. Init => Fresh /\ QuiescentCharge
    BY DEF Init, Fresh, QuiescentCharge
  <1>2. [SerialNext]_vars => [Next]_vars
    BY DEF SerialNext, Next, Advance
  <1>3. Structural /\ Fresh /\ QuiescentCharge /\ [SerialNext]_vars
           => Structural' /\ Fresh' /\ QuiescentCharge'
    BY <1>2, StructuralStep, FreshStep, QuiescentStep
  <1>4. QED BY <1>1, <1>3, StructuralInit, PTL DEF SerialSpec
------------------------------------------------------------------------------
(* Sums *)

\* A set of subsets of a finite set has a member that loses its place with
\* every element it gives up.
LEMMA SmallestMember ==
    ASSUME NEW S, IsFiniteSet(S), NEW B, B \subseteq SUBSET S, B # {}
    PROVE  \E s \in B : \A x \in s : s \ {x} \notin B
  <1> DEFINE sizes == {Cardinality(s) : s \in B}
  <1>1. \A s \in B : IsFiniteSet(s) /\ Cardinality(s) \in Nat
    BY FS_Subset, FS_CardinalityType
  <1>2. sizes \subseteq Nat /\ sizes # {}
    BY <1>1
  <1>3. PICK n \in sizes : \A m \in sizes : n <= m
    <2> HIDE DEF sizes
    <2>1. QED BY <1>2, LeastId
  <1>4. PICK s \in B : Cardinality(s) = n
    BY <1>3
  <1>5. ASSUME NEW x \in s, s \ {x} \in B PROVE FALSE
    <2>1. IsFiniteSet(s) /\ Cardinality(s) \in Nat /\ Cardinality(s \ {x}) \in Nat
      BY <1>1, <1>5
    <2>2. Cardinality(s \ {x}) = Cardinality(s) - 1
      BY <2>1, <1>5, FS_RemoveElement
    <2>3. Cardinality(s) <= Cardinality(s \ {x})
      BY <1>3, <1>4, <1>5
    <2>4. QED BY <2>1, <2>2, <2>3
  <1>6. QED BY <1>5

\* SumFunction takes the members of the domain one by one; what it builds is a
\* function on the subsets.
Any(s) == CHOOSE x \in s : TRUE
Adding(f, S, it) == [s \in SUBSET S |-> IF s = {} THEN 0 ELSE f[Any(s)] + it[s \ {Any(s)}]]
Sums(f, S, it) == it = Adding(f, S, it)

LEMMA AnyMember == ASSUME NEW s, s # {} PROVE Any(s) \in s
  BY DEF Any

LEMMA SumsAt ==
    ASSUME NEW f, NEW S, NEW it, Sums(f, S, it), NEW s \in SUBSET S
    PROVE  it[s] = IF s = {} THEN 0 ELSE f[Any(s)] + it[s \ {Any(s)}]
  <1>1. it[s] = Adding(f, S, it)[s]
    BY Zenon DEF Sums
  <1>2. QED BY <1>1, Zenon DEF Adding

\* What is built does not depend on the set it is built for.
LEMMA SumsAgree ==
    ASSUME NEW f, NEW S, NEW it, Sums(f, S, it), IsFiniteSet(S),
           NEW T, NEW jt, Sums(f, T, jt)
    PROVE  \A s \in SUBSET (S \cap T) : it[s] = jt[s]
  <1> DEFINE B == {s \in SUBSET (S \cap T) : it[s] # jt[s]}
  <1>1. ASSUME B # {} PROVE FALSE
    <2>1. PICK s \in B : \A x \in s : s \ {x} \notin B
      <3>1. B \subseteq SUBSET S
        OBVIOUS
      <3> HIDE DEF B
      <3>2. QED BY <1>1, <3>1, SmallestMember
    <2>2. s \in SUBSET S /\ s \in SUBSET T /\ it[s] # jt[s]
      BY <2>1
    <2>3. s # {}
      BY <2>2, SumsAt
    <2>4. s \ {Any(s)} \notin B
      BY <2>1, <2>3, AnyMember
    <2>5. it[s \ {Any(s)}] = jt[s \ {Any(s)}]
      BY <2>2, <2>4
    <2>6. QED BY <2>2, <2>3, <2>5, SumsAt
  <1>2. QED BY <1>1

LEMMA SumsExist ==
    ASSUME NEW f, NEW S, IsFiniteSet(S)
    PROVE  \E it : Sums(f, S, it)
  <1> DEFINE None(T) == \A it : ~Sums(f, T, it)
             B == {T \in SUBSET S : \E U \in SUBSET T : None(U)}
  <1>1. ASSUME B # {} PROVE FALSE
    <2>1. PICK T \in B : \A x \in T : T \ {x} \notin B
      <3>1. B \subseteq SUBSET S
        OBVIOUS
      <3> HIDE DEF B
      <3>2. QED BY <1>1, <3>1, SmallestMember
    <2>2. \A x \in T : \A U \in SUBSET (T \ {x}) : ~None(U)
      <3> HIDE DEF None
      <3>1. QED BY <2>1
    <2>3. None(T)
      <3> HIDE DEF None
      <3>1. PICK U \in SUBSET T : None(U)
        BY <2>1
      <3>2. U = T
        BY <2>2, <3>1
      <3>3. QED BY <3>1, <3>2
    <2> DEFINE Of(s) == CHOOSE it : Sums(f, s, it)
               Rest(s) == s \ {Any(s)}
               Val(s) == IF s = {} THEN 0 ELSE f[Any(s)] + Of(Rest(s))[Rest(s)]
               top == [s \in SUBSET T |-> Val(s)]
    <2>4. ASSUME NEW s \in SUBSET T, s # {}
          PROVE  /\ Any(s) \in s /\ Rest(s) \in SUBSET T /\ IsFiniteSet(Rest(s))
                 /\ Sums(f, Rest(s), Of(Rest(s)))
      <3>1. Any(s) \in s
        BY <2>4, AnyMember
      <3>2. IsFiniteSet(Rest(s))
        BY <2>1, FS_Subset
      <3>3. \E it : Sums(f, Rest(s), it)
        BY <2>2, <3>1
      <3>4. Sums(f, Rest(s), Of(Rest(s)))
        <4> HIDE DEF Rest
        <4>1. QED BY <3>3, Zenon
      <3>5. QED BY <3>1, <3>2, <3>4
    <2> HIDE DEF Of
    <2>5. ASSUME NEW u \in SUBSET T, NEW g, Sums(f, u, g), IsFiniteSet(u)
          PROVE  Val(u) = g[u]
      <3>1. CASE u = {}
        BY <2>5, <3>1, SumsAt
      <3>2. CASE u # {}
        <4>1. g[u] = f[Any(u)] + g[Rest(u)]
          BY <2>5, <3>2, SumsAt
        <4>2. Any(u) \in u /\ Sums(f, Rest(u), Of(Rest(u)))
          BY <2>4, <3>2
        <4>3. Rest(u) \in SUBSET (u \cap Rest(u))
          OBVIOUS
        <4> HIDE DEF Rest
        <4>4. g[Rest(u)] = Of(Rest(u))[Rest(u)]
          BY <2>5, <4>2, <4>3, SumsAgree
        <4>5. QED BY <3>2, <4>1, <4>4
      <3>3. QED BY <3>1, <3>2
    <2>6. ASSUME NEW s \in SUBSET T, s # {}
          PROVE  top[Rest(s)] = Of(Rest(s))[Rest(s)]
      <3>1. Rest(s) \in SUBSET T /\ IsFiniteSet(Rest(s)) /\ Sums(f, Rest(s), Of(Rest(s)))
        BY <2>4, <2>6
      <3>2. top[Rest(s)] = Val(Rest(s))
        <4> HIDE DEF Val, Rest
        <4>1. QED BY <3>1
      <3> HIDE DEF Val, Rest, top
      <3>3. QED BY <2>5, <3>1, <3>2
    <2>7. top = Adding(f, T, top)
      <3>1. \A s \in SUBSET T : top[s] = IF s = {} THEN 0 ELSE f[Any(s)] + top[Rest(s)]
        <4>1. \A s \in SUBSET T : top[s] = Val(s)
          <5> HIDE DEF Val
          <5>1. QED OBVIOUS
        <4> HIDE DEF top, Rest
        <4>2. QED BY <2>6, <4>1
      <3>2. top = [s \in SUBSET T |-> top[s]]
        <4> HIDE DEF Val
        <4>1. QED OBVIOUS
      <3> HIDE DEF top
      <3>3. QED BY <3>1, <3>2, Zenon DEF Adding
    <2>8. Sums(f, T, top)
      <3> HIDE DEF top
      <3>1. QED BY <2>7 DEF Sums
    <2> HIDE DEF top
    <2>9. QED BY <2>3, <2>8
  <1>2. QED BY <1>1

\* A sum of numbers is a number, and at least how many of them are not zero.
LEMMA SumCounts ==
    ASSUME NEW f, IsFiniteSet(DOMAIN f), \A x \in DOMAIN f : f[x] \in Nat
    PROVE  SumFunction(f) \in Nat /\ SumFunction(f) >= Cardinality({x \in DOMAIN f : f[x] > 0})
  <1> DEFINE S == DOMAIN f
             it == CHOOSE g : g = Adding(f, S, g)
             Some(s) == {x \in s : f[x] > 0}
             Good(s) == it[s] \in Nat /\ it[s] >= Cardinality(Some(s))
             B == {s \in SUBSET S : ~Good(s)}
  <1>1. SumFunction(f) = it[S]
    BY Zenon DEF SumFunction, SumFunctionOnSet, FoldFunctionOnSet, MapThenFoldSet, Adding, Any
  <1>2. Sums(f, S, it)
    <2>1. \E g : g = Adding(f, S, g)
      BY SumsExist, Zenon DEF Sums
    <2>2. QED BY <2>1, Zenon DEF Sums
  <1> HIDE DEF it
  <1>3. ASSUME B # {} PROVE FALSE
    <2>1. PICK s \in B : \A x \in s : s \ {x} \notin B
      <3>1. B \subseteq SUBSET S
        OBVIOUS
      <3> HIDE DEF B
      <3>2. QED BY <1>3, <3>1, SmallestMember
    <2>2. s \in SUBSET S /\ ~Good(s) /\ IsFiniteSet(s)
      BY <2>1, FS_Subset
    <2>3. s # {}
      <3>1. s = {} => it[s] = 0 /\ Some(s) = {}
        BY <1>2, SumsAt
      <3>2. QED BY <2>2, <3>1, FS_EmptySet
    <2> DEFINE x == Any(s)
               rest == s \ {x}
    <2>4. x \in s
      BY <2>3, AnyMember
    <2>5. Good(rest)
      <3>1. rest \in SUBSET S /\ rest \notin B
        BY <2>1, <2>2, <2>4
      <3> HIDE DEF Good, rest
      <3>2. QED BY <3>1
    <2>6. it[s] = f[x] + it[rest] /\ f[x] \in Nat
      BY <1>2, <2>2, <2>3, <2>4, SumsAt
    <2> HIDE DEF x
    <2>7. IsFiniteSet(Some(rest)) /\ Cardinality(Some(rest)) \in Nat
      <3>1. Some(rest) \subseteq s
        OBVIOUS
      <3>2. QED BY <2>2, <3>1, FS_Subset, FS_CardinalityType
    <2>8. Cardinality(Some(s)) \in Nat /\ Cardinality(Some(s)) <= Cardinality(Some(rest)) + f[x]
      <3>1. CASE f[x] > 0
        <4>1. Some(s) = Some(rest) \cup {x} /\ x \notin Some(rest)
          BY <2>4, <3>1
        <4> HIDE DEF Some, rest
        <4>2. Cardinality(Some(s)) = Cardinality(Some(rest)) + 1
          BY <2>7, <4>1, FS_AddElement
        <4>3. QED BY <2>6, <2>7, <3>1, <4>2
      <3>2. CASE ~(f[x] > 0)
        <4>1. Some(s) = Some(rest)
          BY <2>4, <3>2
        <4> HIDE DEF Some, rest
        <4>2. QED BY <2>6, <2>7, <3>2, <4>1
      <3>3. QED BY <3>1, <3>2
    <2> HIDE DEF Some, rest
    <2>9. Good(s)
      BY <2>5, <2>6, <2>7, <2>8
    <2>10. QED BY <2>2, <2>9
  <1>4. Good(S)
    <2>1. S \in SUBSET S /\ S \notin B
      <3> HIDE DEF B
      <3>1. QED BY <1>3
    <2> HIDE DEF Good
    <2>2. QED BY <2>1
  <1>5. QED BY <1>1, <1>4

------------------------------------------------------------------------------
(* Windows *)

\* The charged rows without a turn id, and those of them a window still counts.
LoneRow(i) == rows[i].turn = NoTurn /\ rows[i].billed > 0
InWindow(w, at) == {j \in DOMAIN rows : LoneRow(j) /\ rows[j].at > at - Span[w]}
UpTo(i, w) == {j \in DOMAIN rows : LoneRow(j) /\ j <= i /\ rows[j].at > rows[i].at - Span[w]}

\* A reserved row without a turn id carries its charge, and a settlement leaves
\* no row reserved: what such a row loses at its settlement it never gets back.
LoneCharged ==
    /\ \A i \in DOMAIN rows :
          rows[i].turn = NoTurn /\ rows[i].status = "reserved" => rows[i].billed > 0
    /\ \A r \in Requests : pc[r] = "settling" => settling[r].status # "reserved"

\* A request that decide has admitted still finds its windows below the limit.
Admitted ==
    \A r \in Requests, w \in Windows :
        pc[r] = "charging" /\ Limit[head[r].ent][w] # Unlimited
            => Cardinality(InWindow(w, head[r].at)) < Limit[head[r].ent][w]

\* LoneRequestsHoldWindows, in the terms of this section.
WindowsHold == \A i \in DOMAIN rows, w \in Windows :
    LoneRow(i) /\ Limit[rows[i].ent][w] # Unlimited
        => Cardinality(UpTo(i, w)) <= Limit[rows[i].ent][w]

LEMMA WindowsRestated == WindowsHold <=> LoneRequestsHoldWindows
  <1> DEFINE Lone == {i \in DOMAIN rows : rows[i].turn = NoTurn /\ rows[i].billed > 0}
             Counted(i, w) == {j \in Lone : j <= i /\ rows[j].at > rows[i].at - Span[w]}
  <1>1. \A i, w : Counted(i, w) = UpTo(i, w)
    BY DEF UpTo, LoneRow
  <1>2. \A i \in DOMAIN rows : i \in Lone <=> LoneRow(i)
    BY DEF LoneRow
  <1>3. LoneRequestsHoldWindows <=>
           \A i \in Lone, w \in Windows :
              Limit[rows[i].ent][w] # Unlimited =>
                 Cardinality(Counted(i, w)) <= Limit[rows[i].ent][w]
    BY Zenon DEF LoneRequestsHoldWindows
  <1>4. Lone \subseteq DOMAIN rows
    OBVIOUS
  <1> HIDE DEF Lone, Counted
  <1>5. QED BY <1>1, <1>2, <1>3, <1>4 DEF WindowsHold

\* Sets of row ids are finite, and a set in another has no more members.
LEMMA IdsCounted ==
    ASSUME Structural
    PROVE  /\ IsFiniteSet(DOMAIN rows)
           /\ \A T \in SUBSET (DOMAIN rows) :
                 /\ IsFiniteSet(T) /\ Cardinality(T) \in Nat
                 /\ \A U \in SUBSET T : Cardinality(U) \in Nat /\ Cardinality(U) <= Cardinality(T)
  <1>1. rows \in Seq(Row) /\ Len(rows) \in Nat /\ DOMAIN rows = 1..Len(rows)
    BY DEF Structural, TypeOK
  <1>2. IsFiniteSet(DOMAIN rows)
    BY <1>1, FS_Interval
  <1>3. QED BY <1>2, FS_Subset, FS_CardinalityType

\* A settlement charges no row without a turn id that carried no charge.
LEMMA LoneOnlyShrinks ==
    ASSUME Structural, LoneCharged, NEW r \in Requests, SettleCommit(r),
           NEW i \in DOMAIN rows, rows'[i].turn = NoTurn
    PROVE  /\ rows'[i].billed > 0 => rows[i].billed > 0
           /\ rows'[i].status = "reserved" => rows'[i].billed = rows[i].billed
                                              /\ rows[i].status = "reserved"
  <1> DEFINE f == settling[r].first
             e == event[r]
  <1>1. /\ rows[i].turn = NoTurn
        /\ i # e => rows'[i].status = rows[i].status
        /\ i # f => rows'[i].billed = ClearedBilled(r, i)
        /\ e \in DOMAIN rows /\ f \in TurnOf(rows, e)
    BY CommitRows
  <1>2. pc[r] = "settling" /\ rows[e].status = "reserved"
    BY DEF SettleCommit, Structural, OwnsRow
  <1>3. i \in TurnOf(rows, e) => i = e
    BY <1>1 DEF TurnOf, SameTurn
  <1>4. rows[i].billed \in Nat
    <2>1. rows[i] \in Row
      BY DEF Structural, TypeOK
    <2>2. QED BY <2>1 DEF Row
  <1>5. rows'[i].status = "reserved" => i # e
    <2>1. rows'[e].status = settling[r].status
      <3>1. View(r, settling[r])[e].status = settling[r].status
        <4>1. rows[e] \in Row
          BY <1>1 DEF Structural, TypeOK
        <4>2. QED BY <1>1, <4>1 DEF View, Row
      <3>2. QED BY <1>1, <3>1, CommitSettles
    <2>2. QED BY <1>2, <2>1 DEF LoneCharged
  <1>6. i = e => rows[i].billed > 0
    BY <1>1, <1>2 DEF LoneCharged
  <1>7. i # e => rows'[i].billed = rows[i].billed
    BY <1>1, <1>3 DEF ClearedBilled, Cleared
  <1>8. QED BY <1>1, <1>4, <1>5, <1>6, <1>7

LEMMA LoneChargedStep ==
    ASSUME Structural, FreeStillHolds, LoneCharged, [Next]_vars
    PROVE  LoneCharged'
  <1>1. ASSUME NEW i \in DOMAIN rows', rows'[i].turn = NoTurn, rows'[i].status = "reserved"
        PROVE  rows'[i].billed > 0
    <2>1. CASE rows' = rows
      BY <1>1, <2>1 DEF LoneCharged
    <2>2. ASSUME NEW r \in Requests, InsertFree(r) \/ InsertCharged(r)
          PROVE  rows'[i].billed > 0
      <3>1. PICK b \in {0, 1} : Insert(r, b)
        BY <2>2, Inserted
      <3>2. TypeOK /\ b \in Nat /\ head[r].ent \in Entitlements
        BY <2>2, Inserted DEF Structural, EntitlementChosen
      <3>3. /\ DOMAIN rows' = 1..Len(rows) + 1 /\ DOMAIN rows = 1..Len(rows) /\ Len(rows) \in Nat
            /\ \A j \in DOMAIN rows : rows'[j] = rows[j]
            /\ rows'[Len(rows) + 1] = NewRow(r, b)
        BY <3>1, <3>2, InsertRow
      <3>4. CASE i \in DOMAIN rows
        BY <1>1, <3>3, <3>4 DEF LoneCharged
      <3>5. CASE i = Len(rows) + 1
        <4>1. head[r].turn = NoTurn /\ rows'[i].billed = b
          BY <1>1, <3>3, <3>5 DEF NewRow
        <4>2. ~InsertFree(r)
          BY <4>1 DEF InsertFree, FreeStillHolds, FreeRound
        <4>3. rows'[i].billed = 1
          <5>1. rows' = Append(rows, NewRow(r, 1))
            BY <2>2, <4>2 DEF InsertCharged, Insert
          <5>2. rows'[i] = NewRow(r, 1)
            BY <3>5, <5>1 DEF Structural, TypeOK
          <5>3. QED BY <5>2 DEF NewRow
        <4>4. QED BY <4>3
      <3>6. QED BY <3>3, <3>4, <3>5
    <2>3. ASSUME NEW r \in Requests, SettleCommit(r)
          PROVE  rows'[i].billed > 0
      <3>1. i \in DOMAIN rows /\ rows[i].turn = NoTurn
        BY <1>1, <2>3, CommitRows
      <3>2. rows'[i].billed = rows[i].billed /\ rows[i].status = "reserved"
        BY <1>1, <2>3, <3>1, LoneOnlyShrinks
      <3>3. QED BY <3>1, <3>2 DEF LoneCharged
    <2>4. QED BY <2>1, <2>2, <2>3, RowsChange
  <1>2. ASSUME NEW r \in Requests, pc'[r] = "settling"
        PROVE  settling'[r].status # "reserved"
    <2>1. CASE pc[r] = "settling" /\ settling'[r] = settling[r]
      BY <2>1 DEF LoneCharged
    <2>2. ASSUME NEW p \in Probes, NEW k \in Tokens, SettleBegin(r, p, k)
          PROVE  settling'[r].status # "reserved"
      <3> DEFINE s == SettlementFor(p, k)
      <3>1. \E f, x, y, z, q : settling' = [settling EXCEPT ![r] =
               [status |-> s.status, tokens |-> s.tokens, quote |-> q,
                first |-> f, inFlight |-> x, base |-> y, desired |-> z]]
        BY <2>2 DEF SettleBegin
      <3>2. s.status # "reserved"
        <4>1. s \in [status : Statuses \ {"reserved"}, tokens : Nat, quote : Nat]
          BY SettlementType
        <4>2. QED BY <4>1
      <3> HIDE DEF s
      <3>3. settling'[r].status = s.status
        BY <3>1 DEF Structural, TypeOK
      <3>4. QED BY <3>2, <3>3
    <2>3. QED BY <1>2, <2>1, <2>2, SettlementsOpen
  <1>3. QED BY <1>1, <1>2 DEF LoneCharged

\* decide counts every use in the window, so at least the rows that carry one.
LEMMA UsageCounts ==
    ASSUME Structural, NEW w \in Windows, NEW at \in Nat
    PROVE  WindowUsage(w, at) \in Nat /\ WindowUsage(w, at) >= Cardinality(InWindow(w, at))
  <1> DEFINE D == {j \in DOMAIN rows : rows[j].at > at - Span[w]}
             g == [i \in D |-> rows[i].billed]
             Some == {x \in DOMAIN g : g[x] > 0}
  <1>1. IsFiniteSet(D)
    BY IdsCounted
  <1>2. \A i \in DOMAIN rows : rows[i] \in Row
    BY DEF Structural, TypeOK
  <1>3. \A x \in DOMAIN g : g[x] \in Nat
    BY <1>2 DEF Row
  <1>4. WindowUsage(w, at) = SumFunction(g)
    BY Zenon DEF WindowUsage
  <1>5. DOMAIN g = D
    OBVIOUS
  <1>6. InWindow(w, at) \subseteq Some /\ Some \subseteq DOMAIN rows
    BY DEF InWindow, LoneRow
  <1>7. SumFunction(g) \in Nat /\ SumFunction(g) >= Cardinality(Some)
    <2> HIDE DEF g
    <2>1. QED BY <1>1, <1>3, <1>5, SumCounts
  <1> HIDE DEF g, Some
  <1>8. /\ Cardinality(Some) \in Nat /\ Cardinality(InWindow(w, at)) \in Nat
        /\ Cardinality(InWindow(w, at)) <= Cardinality(Some)
    BY <1>6, IdsCounted
  <1>9. QED BY <1>4, <1>7, <1>8

\* A request is about to be charged because it was, or because decide let it.
LEMMA ChargingArrives ==
    ASSUME Structural, [Next]_vars, NEW r \in Requests, pc'[r] = "charging"
    PROVE  /\ head'[r] = head[r]
           /\ \/ pc[r] = "charging"
              \/ Decide(r) /\ ~Exceeded(head[r].ent, head[r].at)
  <1> DEFINE Stays == pc[r] = "charging" /\ head'[r] = head[r]
             Arrives == Decide(r) /\ ~Exceeded(head[r].ent, head[r].at) /\ head'[r] = head[r]
  <1> USE DEF Structural, TypeOK
  <1>1. ASSUME NEW q \in Requests, Decide(q) PROVE Stays \/ Arrives
    <2>1. CASE q = r
      BY <1>1, <2>1 DEF Decide, Goto, Deny
    <2>2. CASE q # r
      BY <1>1, <2>2 DEF Decide, Goto, Deny
    <2>3. QED BY <2>1, <2>2
  <1>2. ASSUME NEW q \in Requests, Begin(q) \/ FindEntitlement(q) \/ Lock(q) PROVE Stays
    BY <1>2 DEF Begin, FindEntitlement, Lock, Goto, Deny
  <1>3. ASSUME NEW q \in Requests, InsertFree(q) \/ InsertCharged(q) \/ Drop(q) \/ Unsettled(q)
        PROVE  Stays
    BY <1>3 DEF InsertFree, InsertCharged, Drop, Unsettled, Goto
  <1>4. ASSUME NEW q \in Requests, Settle(q) \/ SettleCommit(q) PROVE Stays
    BY <1>4 DEF Settle, SettleBegin, SettleCommit, Goto
  <1>5. CASE Tick \/ UNCHANGED vars
    BY <1>5 DEF Tick, vars
  <1>6. QED BY <1>1, <1>2, <1>3, <1>4, <1>5 DEF Next, Advance

LEMMA AdmittedStep ==
    ASSUME Structural, LoneCharged, Admitted, [Next]_vars
    PROVE  Admitted'
  <1> SUFFICES ASSUME NEW r \in Requests, NEW w \in Windows, pc'[r] = "charging",
                      Limit[head'[r].ent][w] # Unlimited
               PROVE  Cardinality(InWindow(w, head[r].at)') < Limit[head'[r].ent][w]
    BY DEF Admitted, InWindow, LoneRow
  <1>1. /\ head'[r] = head[r]
        /\ \/ pc[r] = "charging"
           \/ Decide(r) /\ ~Exceeded(head[r].ent, head[r].at)
    BY ChargingArrives
  <1> DEFINE at == head[r].at
             n == Limit[head[r].ent][w]
  <1>2. at \in Nat /\ n \in Nat
    <2>1. head[r] \in Reservation
      BY DEF Structural, TypeOK
    <2>2. head[r].ent \in Entitlements
      BY <1>1 DEF Structural, EntitlementChosen, Decide
    <2>3. QED BY <1>1, <2>1, <2>2, EntitlementAssumption DEF Reservation
  <1>3. Cardinality(InWindow(w, at)) < n
    <2>1. CASE pc[r] = "charging"
      BY <1>1, <2>1 DEF Admitted
    <2>2. CASE Decide(r) /\ ~Exceeded(head[r].ent, head[r].at)
      <3>1. ~(WindowUsage(w, at) >= n)
        BY <1>1, <2>2 DEF Exceeded
      <3>2. /\ WindowUsage(w, at) \in Nat /\ WindowUsage(w, at) >= Cardinality(InWindow(w, at))
            /\ Cardinality(InWindow(w, at)) \in Nat
        <4>1. InWindow(w, at) \in SUBSET (DOMAIN rows)
          BY DEF InWindow
        <4> HIDE DEF at
        <4>2. QED BY <1>2, <4>1, UsageCounts, IdsCounted
      <3> HIDE DEF at, n
      <3>3. QED BY <1>2, <3>1, <3>2
    <2>3. QED BY <1>1, <2>1, <2>2
  <1>4. InWindow(w, head[r].at)' \subseteq InWindow(w, at)
    <2>1. CASE rows' = rows
      BY <1>1, <2>1 DEF InWindow, LoneRow
    <2>2. ASSUME NEW q \in Requests, InsertFree(q) \/ InsertCharged(q) PROVE FALSE
      <3>1. lock' = NoRequest
        BY <2>2, Inserted
      <3>2. LockHeld'
        BY StructuralStep DEF Structural
      <3>3. QED BY <3>1, <3>2, RequestAssumption DEF LockHeld, Reserving
    <2>3. ASSUME NEW q \in Requests, SettleCommit(q)
          PROVE  InWindow(w, head[r].at)' \subseteq InWindow(w, at)
      <3>1. /\ DOMAIN rows' = DOMAIN rows
            /\ \A i \in DOMAIN rows : rows'[i].turn = rows[i].turn /\ rows'[i].at = rows[i].at
        BY <2>3, CommitRows
      <3>2. \A i \in DOMAIN rows : rows'[i].turn = NoTurn /\ rows'[i].billed > 0 => rows[i].billed > 0
        BY <2>3, LoneOnlyShrinks
      <3>3. QED BY <1>1, <3>1, <3>2 DEF InWindow, LoneRow
    <2>4. QED BY <2>1, <2>2, <2>3, RowsChange
  <1>5. InWindow(w, at) \in SUBSET (DOMAIN rows)
    BY DEF InWindow
  <1>6. /\ Cardinality(InWindow(w, at)) \in Nat
        /\ Cardinality(InWindow(w, head[r].at)') \in Nat
        /\ Cardinality(InWindow(w, head[r].at)') <= Cardinality(InWindow(w, at))
    <2> DEFINE T == InWindow(w, at)
               U == InWindow(w, head[r].at)'
    <2>1. T \in SUBSET (DOMAIN rows) /\ U \in SUBSET T
      BY <1>4, <1>5
    <2> HIDE DEF T, U
    <2>2. Cardinality(T) \in Nat /\ Cardinality(U) \in Nat /\ Cardinality(U) <= Cardinality(T)
      BY <2>1, IdsCounted
    <2>3. QED BY <2>2 DEF T, U
  <1> HIDE DEF at
  <1>7. QED BY <1>1, <1>2, <1>3, <1>6

LEMMA LoneStep ==
    ASSUME Structural, FreeStillHolds, LoneCharged, Admitted, WindowsHold, [Next]_vars
    PROVE  WindowsHold'
  <1> SUFFICES ASSUME NEW i \in DOMAIN rows', NEW w \in Windows, LoneRow(i)',
                      Limit[rows'[i].ent][w] # Unlimited
               PROVE  Cardinality(UpTo(i, w)') <= Limit[rows'[i].ent][w]
    BY DEF WindowsHold, UpTo, LoneRow
  <1>0. Structural'
    BY StructuralStep
  <1>1. ASSUME i \in DOMAIN rows, rows'[i].ent = rows[i].ent, LoneRow(i), UpTo(i, w)' \subseteq UpTo(i, w)
        PROVE  Cardinality(UpTo(i, w)') <= Limit[rows'[i].ent][w]
    <2> DEFINE T == UpTo(i, w)
               U == UpTo(i, w)'
               n == Limit[rows[i].ent][w]
    <2>1. T \in SUBSET (DOMAIN rows) /\ U \in SUBSET T
      BY <1>1 DEF UpTo
    <2>2. n \in Nat
      <3>1. rows[i].ent \in Entitlements
        <4>1. rows[i] \in Row
          BY <1>1 DEF Structural, TypeOK
        <4>2. QED BY <4>1 DEF Row
      <3>2. QED BY <1>1, <3>1, EntitlementAssumption
    <2>3. Cardinality(T) <= n
      BY <1>1 DEF WindowsHold
    <2> HIDE DEF T, U, n
    <2>4. Cardinality(T) \in Nat /\ Cardinality(U) \in Nat /\ Cardinality(U) <= Cardinality(T)
      BY <2>1, IdsCounted
    <2>5. Cardinality(U) <= n
      BY <2>2, <2>3, <2>4
    <2>6. QED BY <1>1, <2>5 DEF U, n
  <1>2. CASE rows' = rows
    BY <1>1, <1>2 DEF UpTo, LoneRow
  <1>3. ASSUME NEW r \in Requests, SettleCommit(r)
        PROVE  Cardinality(UpTo(i, w)') <= Limit[rows'[i].ent][w]
    <2>1. /\ DOMAIN rows' = DOMAIN rows
          /\ \A j \in DOMAIN rows : /\ rows'[j].turn = rows[j].turn /\ rows'[j].at = rows[j].at
                                    /\ rows'[j].ent = rows[j].ent
      BY <1>3, CommitRows
    <2>2. \A j \in DOMAIN rows : rows'[j].turn = NoTurn /\ rows'[j].billed > 0 => rows[j].billed > 0
      BY <1>3, LoneOnlyShrinks
    <2>3. \A j \in DOMAIN rows : LoneRow(j)' => LoneRow(j)
      BY <2>1, <2>2 DEF LoneRow
    <2>4. UpTo(i, w)' \subseteq UpTo(i, w)
      BY <2>1, <2>3 DEF UpTo
    <2>5. QED BY <1>1, <2>1, <2>3, <2>4
  <1>4. ASSUME NEW r \in Requests, InsertFree(r) \/ InsertCharged(r)
        PROVE  Cardinality(UpTo(i, w)') <= Limit[rows'[i].ent][w]
    <2>1. PICK b \in {0, 1} : Insert(r, b)
      BY <1>4, Inserted
    <2>2. TypeOK /\ b \in Nat /\ head[r].ent \in Entitlements
      BY <1>4, Inserted DEF Structural, EntitlementChosen
    <2> DEFINE n == Len(rows) + 1
    <2>3. /\ DOMAIN rows' = 1..n /\ DOMAIN rows = 1..Len(rows) /\ Len(rows) \in Nat
          /\ \A j \in DOMAIN rows : rows'[j] = rows[j]
          /\ rows'[n] = NewRow(r, b)
      BY <2>1, <2>2, InsertRow
    <2>4. CASE i \in DOMAIN rows
      <3>1. LoneRow(i) /\ rows'[i] = rows[i]
        BY <2>3, <2>4 DEF LoneRow
      <3>2. UpTo(i, w)' \subseteq UpTo(i, w)
        <4> SUFFICES ASSUME NEW j \in DOMAIN rows', LoneRow(j)', j <= i,
                            rows'[j].at > rows'[i].at - Span[w]
                     PROVE  j \in UpTo(i, w)
          BY DEF UpTo, LoneRow
        <4>1. j \in DOMAIN rows /\ rows'[j] = rows[j]
          BY <2>3, <2>4
        <4>2. QED BY <3>1, <4>1 DEF UpTo, LoneRow
      <3>3. QED BY <1>1, <2>4, <3>1, <3>2
    <2>5. CASE i = n
      <3>1. rows'[i].ent = head[r].ent /\ rows'[i].at = head[r].at /\ head[r].turn = NoTurn
        BY <2>3, <2>5 DEF NewRow, LoneRow
      <3>2. pc[r] = "charging"
        BY <1>4, <3>1 DEF InsertFree, InsertCharged, FreeStillHolds, FreeRound
      <3> DEFINE T == InWindow(w, head[r].at)
                 m == Limit[head[r].ent][w]
      <3>3. UpTo(i, w)' \subseteq T \cup {i} /\ T \in SUBSET (DOMAIN rows) /\ i \notin T
        <4>1. T \in SUBSET (DOMAIN rows) /\ i \notin DOMAIN rows
          BY <2>3, <2>5 DEF InWindow
        <4>2. ASSUME NEW j \in DOMAIN rows', LoneRow(j)', rows'[j].at > rows'[i].at - Span[w], j # i
              PROVE  j \in T
          <5>1. j \in DOMAIN rows /\ rows'[j] = rows[j]
            BY <2>3, <2>5, <4>2
          <5>2. QED BY <3>1, <4>2, <5>1 DEF InWindow, LoneRow
        <4>3. UpTo(i, w)' \subseteq {j \in DOMAIN rows' : LoneRow(j)' /\ rows'[j].at > rows'[i].at - Span[w]}
          BY DEF UpTo, LoneRow
        <4> HIDE DEF T
        <4>4. QED BY <4>1, <4>2, <4>3
      <3>4. Cardinality(T) < m
        BY <3>1, <3>2 DEF Admitted
      <3>5. m \in Nat
        BY <2>2, <3>1, EntitlementAssumption
      <3> DEFINE U == UpTo(i, w)'
      <3>6. U \subseteq T \cup {i}
        BY <3>3
      <3> HIDE DEF T, m, U
      <3>7. IsFiniteSet(T) /\ Cardinality(T) \in Nat
        BY <3>3, IdsCounted
      <3>8. IsFiniteSet(T \cup {i}) /\ Cardinality(T \cup {i}) = Cardinality(T) + 1
        BY <3>3, <3>7, FS_AddElement
      <3>9. Cardinality(U) <= Cardinality(T) + 1 /\ Cardinality(U) \in Nat
        BY <3>6, <3>8, FS_Subset, FS_CardinalityType
      <3>10. Cardinality(U) <= m
        BY <3>4, <3>5, <3>7, <3>9
      <3>11. QED BY <3>1, <3>10 DEF U, m
    <2>6. QED BY <2>3, <2>4, <2>5
  <1>5. QED BY <1>2, <1>3, <1>4, RowsChange

\* Requests without a turn id never get past a window together, for any limits,
\* any windows and any number of requests at once: what decide has counted under
\* the user's lock can only have become less when the row is inserted.
THEOREM LoneRequestsAlwaysHoldWindows == Spec => []LoneRequestsHoldWindows
  <1>1. Init => FreeStillHolds /\ LoneCharged /\ Admitted /\ WindowsHold
    BY DEF Init, FreeStillHolds, LoneCharged, Admitted, WindowsHold
  <1>2. Structural /\ FreeStillHolds /\ LoneCharged /\ Admitted /\ WindowsHold /\ [Next]_vars
           => FreeStillHolds' /\ LoneCharged' /\ Admitted' /\ WindowsHold'
    BY FreeStillHoldsStep, LoneChargedStep, AdmittedStep, LoneStep
  <1>3. Spec => []WindowsHold
    BY <1>1, <1>2, StructuralAlways, PTL DEF Spec
  <1>4. QED BY <1>3, WindowsRestated, PTL
==============================================================================
