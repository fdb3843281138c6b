---------------------------- MODULE MCStudyTools -----------------------------
(***************************************************************************)
(* Two points, one with a template and one with an item in the pool.  Two  *)
(* instances in one run: from nothing; and from where one thread has saved *)
(* an answer and the other, which had read an empty history before, is     *)
(* about to save over it.                                                  *)
(***************************************************************************)
EXTENDS StudyTools, TLC
CONSTANTS turn, user, p1, p2, t1, x1, x2, llm
MCPointOf == (t1 :> p1 @@ x1 :> p2)
MCTemplate == (p1 :> t1 @@ p2 :> NoItem)

SavesOver ==
    /\ book = << >> /\ changes = 0 /\ disk = [book |-> << >>, no |-> 0]
    /\ history = <<[item |-> x1, right |-> TRUE, day |-> 0, no |-> 1]>> /\ made = 1
    /\ call = (user :> Nothing @@ turn :> [op |-> "recording", item |-> t1, right |-> TRUE, loaded |-> << >>])
    /\ day = 0 /\ raced = FALSE /\ ops = 0
MCSpec == (Init \/ SavesOver) /\ [][Next]_vars
Symmetry == Permutations(Threads)
==============================================================================
