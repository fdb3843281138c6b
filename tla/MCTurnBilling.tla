---------------------------- MODULE MCTurnBilling ----------------------------
(***************************************************************************)
(* Instances of TurnBilling for TLC.  The clock ticks in units of the turn *)
(* window; tokens are chosen so that one answer stays on the first rung of *)
(* the ladder, another crosses it and their sums reach the second.         *)
(***************************************************************************)
EXTENDS TurnBilling, TLC

CONSTANTS r1, r2, r3, e1, e2

Sym == Permutations(Requests)

MCWindows == {"five_hours", "week"}
MCSpan == [w \in MCWindows |-> IF w = "week" THEN 3 ELSE 2]

\* An experience pack with one use left, then a monthly card behind it.
MCTotalUses == (e1 :> 1) @@ (e2 :> Unlimited)
MCExpiresAt == (e1 :> 2) @@ (e2 :> 9)
MCLimit == (e1 :> [w \in MCWindows |-> Unlimited])
        @@ (e2 :> [w \in MCWindows |-> IF w = "week" THEN 4 ELSE 2])
\* A monthly card alone.
OneTotalUses == [e \in {e1} |-> Unlimited]
OneExpiresAt == [e \in {e1} |-> 9]
OneLimit == [e \in {e1} |-> [w \in MCWindows |-> IF w = "week" THEN 2 ELSE 1]]
==============================================================================
