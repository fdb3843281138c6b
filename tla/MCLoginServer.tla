---------------------------- MODULE MCLoginServer ----------------------------
(***************************************************************************)
(* Two instances in one run, of two handlers each.  One begins at the      *)
(* start and takes FewTicks.  The other begins where a third handler is    *)
(* gone: of four logins that had passed the check, a third and a fourth    *)
(* failed at 1 and blocked the e-mail, the first failed at 2, which        *)
(* blocked its address, and the second is still being verified.            *)
(***************************************************************************)
EXTENDS LoginServer, TLC

CONSTANT FewTicks

VARIABLE blockedOnce  \* the instance

Blocked(at) == [count |-> 0, first |-> at, until |-> at + Block]
Failed(n, until) == [count |-> n, first |-> 1, until |-> until]
AfterABlock(h, i, j, email) ==
    /\ now = 2 /\ accounts = {}
    /\ buckets = [x \in {i, j} |-> [tokens |-> 0, at |-> 1]]
    /\ states = (i :> Blocked(2) @@ j :> Failed(1, 0) @@ email :> Failed(1, 1 + Block))
    /\ request = [r \in Handlers |-> IF r = h THEN [st |-> "verify", ip |-> j, email |-> email] ELSE NoRequest]
    /\ admitted = [x \in Ips |-> <<0, 1>>]
    /\ failed = (i :> <<>> @@ j :> <<1>> @@ email :> <<2>>)
    /\ blocked = (i :> 2 + Block @@ j :> 0 @@ email :> 1 + Block)

MCInit ==
    \/ LoginInit /\ blockedOnce = FALSE
    \/ /\ blockedOnce = TRUE
       /\ \E h \in Handlers, i, j \in Ips, email \in Emails : i # j /\ AfterABlock(h, i, j, email)
MCNext ==
    /\ LoginNext
    /\ admitted' # admitted => request' # request \/ accounts' # accounts  \* nobody registers in vain
    /\ ~blockedOnce => now' <= FewTicks
    /\ UNCHANGED blockedOnce
MCSpec == MCInit /\ [][MCNext]_<<loginVars, blockedOnce>>

Symmetry == Permutations(Ips) \cup Permutations(Handlers)
==============================================================================
