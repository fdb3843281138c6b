--------------------------- MODULE MCSessionMigration ---------------------------
EXTENDS SessionMigration, TLC

CONSTANTS f1, f2, f3, f4

FileSymmetry == Permutations(Files)

\* Every tree of n messages, each behind its parent, with the path at its end.
OldTrees(n) ==
    {[i \in 1..n |-> [id |-> i, parent |-> p[i], kind |-> k[i]]] :
        p \in {q \in [1..n -> 0..(n - 1)] : \A i \in 1..n : q[i] < i},
        k \in [1..n -> {"user", "boundary"}]}
OldFiles(n) == {[st |-> "active", path |-> n, msgs |-> s] : s \in OldTrees(n)}
Legacy3 == OldFiles(3)

=============================================================================
