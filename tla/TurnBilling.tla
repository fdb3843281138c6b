----------------------------- MODULE TurnBilling -----------------------------
(***************************************************************************)
(* The relay server's billing store (server/src/billing/store.rs): every   *)
(* relayed model request reserves one use of the user's entitlement before *)
(* it goes upstream and settles its row of usage_events after the stream   *)
(* has ended.  Requests that carry the same turn id share one charge, kept *)
(* on the first row of the turn and recomputed at every settlement.        *)
(*                                                                         *)
(* The module models ONE user: every query of store.rs filters on user_id  *)
(* and the advisory lock is per user.  The concurrency is that of          *)
(* PostgreSQL at READ COMMITTED: reserve runs its statements under the     *)
(* user's advisory lock, settle runs without it, reads what is committed   *)
(* and makes its own writes visible only at commit.                        *)
(***************************************************************************)
EXTENDS Integers, Sequences, FiniteSets, FiniteSetsExt

CONSTANTS
    Requests,       \* the HTTP requests the relay handles
    NoRequest,      \* "nobody holds the advisory lock"
    Turns,          \* values of the x-ma-turn-id header
    NoTurn,         \* the header is absent or illegal
    Entitlements,   \* the rows of entitlements the user owns
    NoEntitlement,
    Unlimited,      \* SQL NULL in total_uses, limit_5h, limit_week, limit_month
    TotalUses,      \* [Entitlements -> Nat or Unlimited], total_uses
    ExpiresAt,      \* [Entitlements -> Nat], expires_at
    Windows,        \* the sliding windows (5 hours, 7 days, 30 days)
    Span,           \* [Windows -> Nat], the length of each
    Limit,          \* [Entitlements -> [Windows -> Nat or Unlimited]]
    TurnWindow,     \* TURN_WINDOW_MINUTES
    TurnMax,        \* TURN_MAX_REQUESTS
    Ladder,         \* the thresholds of the charge ladder
    Tokens,         \* token totals an upstream answer may report
    MaxTime         \* bound: the clock stops here

ASSUME RequestAssumption == NoRequest \notin Requests
ASSUME TurnAssumption == NoTurn \notin Turns
ASSUME EntitlementAssumption ==
    /\ NoEntitlement \notin Entitlements
    /\ Unlimited \notin Nat
    /\ TotalUses \in [Entitlements -> Nat \cup {Unlimited}]
    /\ ExpiresAt \in [Entitlements -> Nat]
    /\ Limit \in [Entitlements -> [Windows -> Nat \cup {Unlimited}]]
    /\ Span \in [Windows -> Nat]
ASSUME LadderAssumption ==
    /\ Ladder \subseteq Nat /\ IsFiniteSet(Ladder)
    /\ Tokens \subseteq Nat
    /\ TurnWindow \in Nat /\ TurnMax \in Nat /\ MaxTime \in Nat

VARIABLES
    now,     \* the database clock
    used,    \* entitlements.used_uses, committed
    rows,    \* the user's rows of usage_events, committed; the index is the id
    lock,    \* who holds pg_advisory_xact_lock of the user
    pc,      \* where each request is
    head,    \* the transaction of reserve: [turn, at, ent]
    event,   \* the id of the row the request reserved, 0 before
    settling \* the locals of settle and recompute_turn_charge

vars == <<now, used, rows, lock, pc, head, event, settling>>

Statuses == {"reserved", "ok", "upstream_error", "aborted"}
Row == [turn : Turns \cup {NoTurn}, ent : Entitlements, at : Nat,
        status : Statuses, tokens : Nat, billed : Nat]

Reservation == [turn : Turns \cup {NoTurn}, at : Nat,
                ent : Entitlements \cup {NoEntitlement}]
NoReservation == [turn |-> NoTurn, at |-> 0, ent |-> NoEntitlement]

Settling == [status : Statuses, tokens : Nat, quote : Nat, first : Nat,
             inFlight : BOOLEAN, base : Nat, desired : Nat]
NotSettling == [status |-> "reserved", tokens |-> 0, quote |-> 0, first |-> 0,
                inFlight |-> FALSE, base |-> 0, desired |-> 0]

\* The transaction of reserve is open in these places.
Reserving == {"finding", "deciding", "charging", "free"}
Places == {"new", "waiting", "relaying", "settling",
           "done", "denied", "dropped", "unsettled"} \cup Reserving

------------------------------------------------------------------------------
(* Pure rules *)

\* ladder.rs billed_uses: one use, and one more per threshold crossed.
LadderUses(total) == 1 + Cardinality({t \in Ladder : total > t})

\* What relay/handlers.rs settlement_for makes of a probe.  quote is
\* Settlement.billed_uses.  A request the upstream refused settles like
\* "failed" with no tokens.
Probes == {"failed", "usage", "started", "silent"}
SettlementFor(probe, tokens) ==
    CASE probe = "failed"  -> [status |-> "upstream_error", tokens |-> tokens, quote |-> 0]
      [] probe = "usage"   -> [status |-> "ok", tokens |-> tokens,
                               quote |-> LadderUses(tokens)]
      [] probe = "started" -> [status |-> "aborted", tokens |-> 0, quote |-> 1]
      [] probe = "silent"  -> [status |-> "aborted", tokens |-> 0, quote |-> 0]

\* Two rows are of one turn; a row without a turn id is a turn of its own.
SameTurn(R, i, j) == i = j \/ (R[i].turn # NoTurn /\ R[i].turn = R[j].turn)
TurnOf(R, i) == {j \in DOMAIN R : SameTurn(R, i, j)}
IsFirst(R, i) == \A j \in TurnOf(R, i) : i <= j
FirstOf(R, i) == CHOOSE f \in TurnOf(R, i) : IsFirst(R, f)

\* Mutant: only the rows from this one on are looked at.
LaterInFlight(R, i) == \E j \in TurnOf(R, i) : j >= i /\ R[j].status = "reserved"
InFlight(R, i) == \E j \in TurnOf(R, i) : R[j].status = "reserved"
TurnTokens(R, i) == SumFunction([j \in TurnOf(R, i) |-> R[j].tokens])

\* recompute_turn_charge: what a turn with nothing in flight costs.
FinalCharge(R, i) ==
    IF \E j \in TurnOf(R, i) : R[j].status \in {"ok", "aborted"}
    THEN LadderUses(TurnTokens(R, i))
    ELSE 0

\* Mutant: a turn that failed as a whole keeps the use it reserved.
NeverRefunded(R, i) ==
    IF InFlight(R, i) \/ FinalCharge(R, i) = 0
    THEN R[FirstOf(R, i)].billed ELSE FinalCharge(R, i)

\* recompute_turn_charge: a turn still in flight keeps what it has, at least one.
Desired(R, i) ==
    IF InFlight(R, i) THEN IF R[FirstOf(R, i)].billed > 1
                           THEN R[FirstOf(R, i)].billed ELSE 1
    ELSE FinalCharge(R, i)

\* The turn's rows inside the turn window, as the transaction r sees them.
Seen(r) == {i \in DOMAIN rows : /\ rows[i].turn = head[r].turn
                                /\ rows[i].at > head[r].at - TurnWindow}

\* window_usage_tx: reserved rows count.
WindowUsage(w, at) ==
    SumFunction([i \in {j \in DOMAIN rows : rows[j].at > at - Span[w]} |-> rows[i].billed])

\* quota.rs decide; its test of total_uses repeats the filter of
\* find_entitlement_tx on the same value and never fires from reserve.
Exceeded(e, at) ==
    \E w \in Windows : /\ Limit[e][w] # Unlimited
                       /\ WindowUsage(w, at) >= Limit[e][w]

\* find_entitlement_tx: unexpired, not used up, the earliest to expire.
Effective(at) == {e \in Entitlements : /\ ExpiresAt[e] > at
                                       /\ TotalUses[e] = Unlimited \/ used[e] < TotalUses[e]}
Candidates(at) == {e \in Effective(at) : \A f \in Effective(at) : ExpiresAt[e] <= ExpiresAt[f]}

------------------------------------------------------------------------------
(* reserve *)

Goto(r, place) == pc' = [pc EXCEPT ![r] = place]
Unlock == lock' = NoRequest

\* Mutant: a denial returns without ending the transaction.
DenyInTransaction(r) == UNCHANGED lock /\ Goto(r, "denied")

\* The transaction is dropped, and the lock with it.
Deny(r) == Unlock /\ Goto(r, "denied")

NewRow(r, billed) == [turn |-> head[r].turn, ent |-> head[r].ent, at |-> head[r].at,
                      status |-> "reserved", tokens |-> 0, billed |-> billed]
Insert(r, billed) == /\ rows' = Append(rows, NewRow(r, billed))
                     /\ event' = [event EXCEPT ![r] = Len(rows) + 1]

\* BEGIN: now() of the whole transaction is taken here, before the lock.
Begin(r) ==
    /\ pc[r] = "new"
    /\ \E t \in Turns \cup {NoTurn} :
          head' = [head EXCEPT ![r] = [turn |-> t, at |-> now, ent |-> NoEntitlement]]
    /\ Goto(r, "waiting")
    /\ UNCHANGED <<now, used, rows, lock, event, settling>>

\* Mutant: reserve does not take the advisory lock.
NoLock == TRUE
LockFree == lock = NoRequest

\* Mutant: one free round too many.
OneRoundMore(r) == /\ head[r].turn # NoTurn
                   /\ Seen(r) # {}
                   /\ Cardinality(Seen(r)) <= TurnMax

\* Continuations of a turn are free, inside the window and below the cap.
FreeRound(r) == /\ head[r].turn # NoTurn
                /\ Seen(r) # {}
                /\ Cardinality(Seen(r)) < TurnMax

\* The advisory lock is granted and the head of the turn is read.
Lock(r) ==
    /\ pc[r] = "waiting" /\ LockFree
    /\ lock' = r
    /\ IF FreeRound(r)
       THEN /\ head' = [head EXCEPT ![r].ent = rows[CHOOSE i \in Seen(r) :
                                                       \A j \in Seen(r) : i <= j].ent]
            /\ Goto(r, "free")
       ELSE /\ head' = head
            /\ Goto(r, "finding")
    /\ UNCHANGED <<now, used, rows, event, settling>>

InsertFree(r) ==
    /\ pc[r] = "free"
    /\ Insert(r, 0)
    /\ Unlock /\ Goto(r, "relaying")
    /\ UNCHANGED <<now, used, head, settling>>

FindEntitlement(r) ==
    /\ pc[r] = "finding"
    /\ \/ /\ Candidates(head[r].at) = {}
          /\ Deny(r)
          /\ UNCHANGED head
       \/ /\ \E e \in Candidates(head[r].at) : head' = [head EXCEPT ![r].ent = e]
          /\ Goto(r, "deciding")
          /\ UNCHANGED lock
    /\ UNCHANGED <<now, used, rows, event, settling>>

Decide(r) ==
    /\ pc[r] = "deciding"
    /\ IF Exceeded(head[r].ent, head[r].at)
       THEN Deny(r)
       ELSE UNCHANGED lock /\ Goto(r, "charging")
    /\ UNCHANGED <<now, used, rows, head, event, settling>>

InsertCharged(r) ==
    /\ pc[r] = "charging"
    /\ used' = [used EXCEPT ![head[r].ent] = @ + 1]
    /\ Insert(r, 1)
    /\ Unlock /\ Goto(r, "relaying")
    /\ UNCHANGED <<now, head, settling>>

\* The handler is dropped or the database fails before reserve commits: the
\* transaction rolls back and the lock goes with it.
Drop(r) ==
    /\ pc[r] \in Reserving \cup {"waiting"}
    /\ lock' = IF lock = r THEN NoRequest ELSE lock
    /\ Goto(r, "dropped")
    /\ UNCHANGED <<now, used, rows, head, event, settling>>

------------------------------------------------------------------------------
(* settle *)

\* The user's own uncommitted update of the row, and everything committed.
View(r, s) == [rows EXCEPT ![event[r]].status = s.status, ![event[r]].tokens = s.tokens]

\* The row is claimed (status = 'reserved' AND id = $1) and the turn is read.
SettleBegin(r, probe, tokens) ==
    LET s == SettlementFor(probe, tokens)
        V == View(r, s)
        i == event[r]
    IN /\ pc[r] = "relaying"
       /\ rows[i].status = "reserved"
       /\ settling' = [settling EXCEPT ![r] =
              [status |-> s.status, tokens |-> s.tokens, quote |-> s.quote,
               first |-> FirstOf(V, i), inFlight |-> InFlight(V, i),
               base |-> V[FirstOf(V, i)].billed, desired |-> Desired(V, i)]]
       /\ Goto(r, "settling")
       /\ UNCHANGED <<now, used, rows, lock, head, event>>

Writes(r) == settling[r].base # settling[r].desired

\* Rows of the turn other than the first whose charge the commit clears.
Cleared(r) == {j \in TurnOf(rows, event[r]) \ {settling[r].first} : rows[j].billed # 0}

\* The update of a row another open settlement has claimed waits for it.
RowLocked(r, j) == \E q \in Requests \ {r} : pc[q] = "settling" /\ event[q] = j

ClearedBilled(r, j) == IF j \in Cleared(r) THEN 0 ELSE rows[j].billed
SettledRow(r, j) ==
    LET own == j = event[r]
    IN [rows[j] EXCEPT
          !.status = IF own THEN settling[r].status ELSE @,
          !.tokens = IF own THEN settling[r].tokens ELSE @,
          !.billed = IF j = settling[r].first /\ Writes(r)
                     THEN settling[r].desired ELSE ClearedBilled(r, j)]

\* used_uses = GREATEST(used_uses + delta, 0)
Adjusted(uses, delta) == IF uses + delta > 0 THEN uses + delta ELSE 0

\* Mutant: settle bills the entitlement_id it is called with.
OwnPayer(r) == rows[event[r]].ent

\* The entitlement of the turn's first row, whatever row is settled.
Payer(r) == rows[settling[r].first].ent

SettleCommit(r) ==
    /\ pc[r] = "settling"
    /\ Writes(r) => ~RowLocked(r, settling[r].first)
    /\ \A j \in Cleared(r) : ~RowLocked(r, j)
    /\ rows' = [j \in DOMAIN rows |-> SettledRow(r, j)]
    /\ used' = IF Writes(r)
               THEN [used EXCEPT ![Payer(r)] =
                        Adjusted(@, settling[r].desired - settling[r].base)]
               ELSE used
    /\ Goto(r, "done")
    /\ UNCHANGED <<now, lock, head, event, settling>>

\* The handler is dropped before it spawns the relaying task, the server dies,
\* or settle fails (an error, or chosen as the victim of a deadlock): the
\* transaction rolls back, the error is logged, and nobody settles the row.
Unsettled(r) ==
    /\ pc[r] \in {"relaying", "settling"}
    /\ Goto(r, "unsettled")
    /\ UNCHANGED <<now, used, rows, lock, head, event, settling>>

------------------------------------------------------------------------------
Tick == /\ now < MaxTime
        /\ now' = now + 1
        /\ UNCHANGED <<used, rows, lock, pc, head, event, settling>>

Init ==
    /\ now = 0
    /\ used = [e \in Entitlements |-> 0]
    /\ rows = <<>>
    /\ lock = NoRequest
    /\ pc = [r \in Requests |-> "new"]
    /\ head = [r \in Requests |-> NoReservation]
    /\ event = [r \in Requests |-> 0]
    /\ settling = [r \in Requests |-> NotSettling]

Settle(r) == \E p \in Probes, k \in Tokens : SettleBegin(r, p, k)

\* The steps a live server takes by itself; Begin, Drop and Unsettled are not.
Advance(r) ==
    \/ Lock(r) \/ InsertFree(r) \/ FindEntitlement(r) \/ Decide(r)
    \/ InsertCharged(r) \/ Settle(r) \/ SettleCommit(r)

Next == \/ Tick
        \/ \E r \in Requests : Begin(r) \/ Drop(r) \/ Unsettled(r) \/ Advance(r)

Spec == Init /\ [][Next]_vars

\* The settlement runs as if it held a lock: nothing comes between its reads
\* and its commit.
SerialNext ==
    \/ \E r \in Requests : SettleCommit(r) \/ (pc[r] = "settling" /\ Unsettled(r))
    \/ /\ \A r \in Requests : pc[r] # "settling"
       /\ Next
\* Each request keeps taking its steps.
SerialSpec ==
    Init /\ [][SerialNext]_vars /\ \A r \in Requests : WF_vars(Advance(r))
------------------------------------------------------------------------------
(* Properties *)

\* Every variable has its type; no charge and no used_uses is ever negative.
TypeOK ==
    /\ now \in Nat
    /\ used \in [Entitlements -> Nat]
    /\ rows \in Seq(Row)
    /\ lock \in Requests \cup {NoRequest}
    /\ pc \in [Requests -> Places]
    /\ head \in [Requests -> Reservation]
    /\ event \in [Requests -> Nat]
    /\ settling \in [Requests -> Settling]

\* A row that is settled carries a charge only if it is the first of its turn:
\* however the settlements of a turn interleave, its charge is never counted
\* twice by the windows (recompute_turn_charge, last statement).
OnlyFirstRowCharged ==
    \A i \in DOMAIN rows :
        rows[i].status # "reserved" => rows[i].billed = 0 \/ IsFirst(rows, i)

\* Of two open settlements of one turn at most one has seen the turn as
\* finished, so at most one applies the ladder or gives the use back.
OneFinalSettle ==
    \A q, r \in Requests :
        /\ q # r /\ pc[q] = "settling" /\ pc[r] = "settling"
        /\ SameTurn(rows, event[q], event[r])
        => settling[q].inFlight \/ settling[r].inFlight

\* A turn is charged in one place and by one settlement, however the
\* settlements of its rows interleave (they take no lock).
OneCharge == OnlyFirstRowCharged /\ OneFinalSettle

\* A free row joins a turn only while that turn has rows, fewer than
\* TURN_MAX_REQUESTS, inside the turn window: also when several requests of the
\* turn read its head before one of them has inserted (store.rs: the free
\* rounds are bounded by window and count).
FreeRowJoinsTurn ==
    LET n == Len(rows')
        mine == rows'[n]
        recent == {i \in 1..n - 1 : /\ rows'[i].turn = mine.turn
                                    /\ rows'[i].at > mine.at - TurnWindow}
    IN n > Len(rows) /\ mine.billed = 0
       => /\ mine.turn # NoTurn
          /\ recent # {}
          /\ Cardinality(recent) < TurnMax
FreeRoundsBounded == [][FreeRowJoinsTurn]_vars

\* Requests without a turn id never get past a window together: counting back
\* from any charged one, the charged ones in its window are within the limit of
\* the plan that admitted it (store.rs: two concurrent requests must not both
\* read "one left" and both be let through).
LoneRequestsHoldWindows ==
    LET Lone == {i \in DOMAIN rows : rows[i].turn = NoTurn /\ rows[i].billed > 0}
    IN \A i \in Lone, w \in Windows :
          Limit[rows[i].ent][w] # Unlimited =>
             Cardinality({j \in Lone : j <= i /\ rows[j].at > rows[i].at - Span[w]})
                 <= Limit[rows[i].ent][w]

\* A turn with nothing in flight costs what the rule says of its rows, in
\* whatever order they were settled (store.rs, recompute_turn_charge; ADR-0047
\* R14.4).
QuiescentCharge ==
    \A i \in DOMAIN rows :
        IsFirst(rows, i) /\ ~InFlight(rows, i) => rows[i].billed = FinalCharge(rows, i)

\* No step raises the charge of a row without recording at least as many uses
\* on the entitlement that pays, and no step takes more uses back than the
\* charge it removes from a row of that entitlement.
RaiseIsRecorded ==
    \A i \in DOMAIN rows' :
        LET before == IF i \in DOMAIN rows THEN rows[i].billed ELSE 0
            e == rows'[i].ent
        IN rows'[i].billed > before => used'[e] - used[e] >= rows'[i].billed - before
RefundIsCovered ==
    \A e \in Entitlements :
        used'[e] < used[e] =>
           \E i \in DOMAIN rows : /\ rows[i].ent = e
                                  /\ rows[i].billed - rows'[i].billed >= used[e] - used'[e]
ChargesAreRecorded == [][RaiseIsRecorded /\ RefundIsCovered]_vars

\* A request that waits for the user's advisory lock gets past it: every path
\* out of reserve, the denials included, lets the lock go.
WaitersServed == \A r \in Requests : pc[r] = "waiting" ~> pc[r] # "waiting"

=============================================================================
