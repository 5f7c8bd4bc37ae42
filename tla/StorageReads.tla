----------------------------- MODULE StorageReads -----------------------------
(***************************************************************************)
(* What SqliteStorage (packages/storage-sqlite) answers from its tables:   *)
(* the queries behind GET /v1/balance, GET /v1/ledger and reconciliation.  *)
(* The statement of an identity is cut by the number of lines the reader   *)
(* has: a cursor is the id of the last of them, and ids ascend.            *)
(***************************************************************************)
EXTENDS Storage, FiniteSetsExt

\* getIdentity: no row, no balance.
AvailableSats(i) == IF i \in known THEN balance[i] ELSE 0

SumReservedSats(i) ==
  MapThenSumSet(LAMBDA r : spent[r].amount,
                {r \in RequestIds : HasStatus(r, "reserved") /\ spent[r].identity = i})

\* Uncredited deposits that have not been reorged away.
Pending(o) == deposits[o] # NoRow /\ ~deposits[o].credited /\ ~deposits[o].reorged

SumPendingDepositSats(i) ==
  MapThenSumSet(LAMBDA o : deposits[o].amount, {o \in Outputs : Pending(o) /\ deposits[o].identity = i})

SumCreditedDeposits ==
  MapThenSumSet(LAMBDA o : deposits[o].amount,
    {o \in Outputs : deposits[o] # NoRow /\ deposits[o].credited /\ ~deposits[o].reorged})

ListLedgerEntries(i, seen, limit) ==
  SubSeq(ledger[i], seen + 1, IF Len(ledger[i]) < seen + limit THEN Len(ledger[i]) ELSE seen + limit)

LedgerSum(i) == SumOfLines(ledger[i], DOMAIN ledger[i])
=============================================================================
