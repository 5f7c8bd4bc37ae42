------------------------------- MODULE MCMemory -------------------------------
(* MemoryStorage for TLC.                                                    *)
EXTENDS MemoryStorage, TLC

CONSTANT MaxEntries   \* bound on the rows of the ledger array

LedgerBound == Len(entries) <= MaxEntries

Symmetry == Permutations(Outputs)
=============================================================================
