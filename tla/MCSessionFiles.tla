----------------------------- MODULE MCSessionFiles -----------------------------
EXTENDS SessionFiles, TLC

CONSTANTS k1, k2

KeySymmetry == Permutations(Keys)

\* Turns that fail, answer, save a mistake, and compact.
Turns == {<<>>, <<"save", "say", "touch">>, <<"say", "branch", "touch">>}

=============================================================================
