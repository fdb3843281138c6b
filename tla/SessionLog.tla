------------------------------- MODULE SessionLog -------------------------------
(***************************************************************************)
(* What the file storage promises of each of its files, a session's or the *)
(* book of mistakes (kernel/plugin/storage/file): while no two operations  *)
(* on a file overlap and no write fails, the disk holds the last finished  *)
(* operation or already the one in progress, a restart finds it so, and    *)
(* one whole write that nothing overlaps makes up for all that went wrong  *)
(* before.                                                                 *)
(***************************************************************************)
EXTENDS Naturals

CONSTANT Names

VARIABLES
    live,    \* what the program holds in memory
    durable, \* what a restart would load
    busy,    \* an operation on the file is in progress
    doubt,   \* operations overlapped or failed: the disk may be behind, or wrong
    fails    \* writes that failed

logVars == <<live, durable, busy, doubt, fails>>

Others(f, n) == \A m \in Names \ {n} : f'[m] = f[m]

Init ==
    /\ live = durable
    /\ busy = [n \in Names |-> FALSE]
    /\ doubt = [n \in Names |-> FALSE]
    /\ fails = 0

\* An operation changes the memory.  It is in doubt if another is in progress.
Begin(n) ==
    /\ Others(live, n)
    /\ busy' = [busy EXCEPT ![n] = TRUE]
    /\ doubt' = [doubt EXCEPT ![n] = doubt[n] \/ busy[n]]
    /\ UNCHANGED <<durable, fails>>

\* The disk follows, all at once.  The last operation to end leaves it so.
Advance(n) ==
    /\ busy[n] /\ Others(durable, n) /\ Others(busy, n) /\ Others(doubt, n)
    /\ doubt'[n] => doubt[n]
    /\ \/ doubt'[n]
       \/ durable'[n] = live[n]
       \/ busy'[n] /\ durable'[n] = durable[n]
    /\ UNCHANGED <<live, fails>>

\* A write fails: the memory is ahead of the disk.
Fail(n) ==
    /\ busy[n] /\ Others(durable, n) /\ Others(busy, n)
    /\ doubt' = [doubt EXCEPT ![n] = TRUE]
    /\ fails' = fails + 1
    /\ UNCHANGED live

\* The program dies and starts again with what it finds.
Restart ==
    /\ \A n \in Names : doubt[n] \/ durable'[n] = durable[n]
    /\ live' = durable'
    /\ busy' = [n \in Names |-> FALSE]
    /\ doubt' = [n \in Names |-> FALSE]
    /\ UNCHANGED fails

Next == (\E n \in Names : Begin(n) \/ Advance(n) \/ Fail(n)) \/ Restart

Spec == Init /\ [][Next]_logVars

=============================================================================
