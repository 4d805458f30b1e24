------------------------------ MODULE MCSnapshot ------------------------------
EXTENDS Snapshot, TLC

CONSTANTS p1, p2, i1

MCPayloads == {p1, p2}
MCIndexes == {i1}
\* Restarts with --import-snapshot, refusing an existing database.
MCBootStrict == {[ignoreDb |-> FALSE, ignoreMissing |-> b] : b \in BOOLEAN}
\* ... and with --ignore-snapshot-if-db-exists as well.
MCBootAny == [ignoreDb : BOOLEAN, ignoreMissing : BOOLEAN]
\* A crash after a snapshot, then one during its extraction.
MCMaxCrashes == 2
PayloadSymmetry == Permutations(MCPayloads)
=============================================================================
