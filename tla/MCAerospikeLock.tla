--------------------------- MODULE MCAerospikeLock ---------------------------
EXTENDS AerospikeLock, TLC

CONSTANTS c1, c2, c3

MCClients == {c1, c2, c3}

\* The clients are interchangeable.
MCSymmetry == Permutations(MCClients)

=============================================================================
