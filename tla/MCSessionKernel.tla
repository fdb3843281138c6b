---------------------------- MODULE MCSessionKernel ----------------------------
(***************************************************************************)
(* Instances of SessionKernel for TLC.  Two in one run: one begins with    *)
(* nothing and has two sessions, failing writes and few messages; the      *)
(* other has one session, in which a first turn has failed and which the   *)
(* user has named, and enough messages for a branch that is read before a  *)
(* compaction and answered after it.                                       *)
(***************************************************************************)
EXTENDS SessionKernel, TLC

CONSTANTS k1, k2, FewIds

VARIABLE start

Asked ==
    /\ meta = (k1 :> [status |-> "active", title |-> "user", path |-> 1]
               @@ k2 :> [status |-> "unborn", title |-> "none", path |-> None])
    /\ msgs = (k1 :> <<[id |-> 1, parent |-> None, kind |-> "user"]>> @@ k2 :> <<>>)
    /\ nextId = 2 /\ turn = NoTurn /\ edit = NoEdit
    /\ titling = [k \in Keys |-> [check |-> 0, ask |-> 0, write |-> 0]]
    /\ faults = 0

MCInit == (start = "nothing" /\ Init) \/ (start = "asked" /\ Asked)
MCNext ==
    /\ Next /\ UNCHANGED start
    /\ start = "nothing" => nextId' <= FewIds + 1
    /\ start = "asked" => /\ meta'[k2] = meta[k2] /\ faults' = 0
                          /\ UNCHANGED <<msgs, turn>> => UNCHANGED meta
MCSpec == MCInit /\ [][MCNext]_<<vars, start>> /\ TurnFairness /\ TitleFairness

==============================================================================
