------------------------------- MODULE Storage -------------------------------
(***************************************************************************)
(* The persistence boundary of the facilitator: packages/storage           *)
(* (IStorage, InMemoryStorage) and packages/storage-sqlite                 *)
(* (SqliteStorage).  One action per balance-relevant operation of          *)
(* IStorage; each is one BEGIN IMMEDIATE transaction in SQLite and one     *)
(* synchronous body in memory, hence atomic.  The reaper's transaction is  *)
(* a loop: it is modelled row by row under the write lock it holds (the    *)
(* variable `expired' is the rest of its work list), so that nothing else  *)
(* runs until it commits.                                                  *)
(*                                                                         *)
(* Abstracted: sats are integers (bigint in the code, no overflow),        *)
(* (txid, vout) is one Output, (blockHeight, blockHash) one Block, and the *)
(* columns no decision reads (currency, method, path, responseBytes,       *)
(* confirmations, timestamps other than issuedAt and receivedAt) are left  *)
(* out.  The ledger's `kind' is a function of its `reason'.                *)
(***************************************************************************)
EXTENDS Integers, Sequences, FiniteSets, Functions

CONSTANTS Identities,   \* normalized identity keys
          RequestIds,   \* ULIDs
          Outputs,      \* transaction outputs (txid, vout) paying the operator
          Blocks,       \* block positions
          Amounts,      \* prices and deposit values in sats
          Times,        \* unix seconds passed as issuedAt, receivedAt, cutoffs
          NoRow         \* the absent row

ASSUME StorageAssumption ==
         /\ Amounts \subseteq Nat
         /\ Times \subseteq Int
         /\ RequestIds \cap Outputs = {}

VARIABLES known,      \* identities with a row in `identities'
          balance,    \* identities.balance (0 while there is no row)
          spent,      \* spent_requests, by requestId
          deposits,   \* deposits, by output
          ledger,     \* ledger_entries of each identity, in id order
          expired     \* rows the running reaper transaction has still to refund

storageVars == <<known, balance, spent, deposits, ledger, expired>>

Statuses == {"reserved", "committed", "error", "insufficient"}

Reasons == {"reserve", "rollback", "reaper_expired", "late_commit",
            "deposit_credited", "reorg"}

SpentRow == [identity: Identities, issuedAt: Int, receivedAt: Int,
             amount: Nat, status: Statuses]

DepositRow == [identity: Identities, amount: Nat, block: Blocks,
               credited: BOOLEAN, reorged: BOOLEAN]

LedgerEntry == [reason: Reasons, amount: Int, ref: RequestIds \cup Outputs,
                balanceAfter: Int]

ASSUME NoRowAssumption == NoRow \notin SpentRow /\ NoRow \notin DepositRow

StorageInit ==
  /\ known = {}
  /\ balance = [i \in Identities |-> 0]
  /\ spent = [r \in RequestIds |-> NoRow]
  /\ deposits = [o \in Outputs |-> NoRow]
  /\ ledger = [i \in Identities |-> << >>]
  /\ expired = {}

-----------------------------------------------------------------------------
(* Reads.                                                                  *)

HasStatus(r, s) == spent[r] # NoRow /\ spent[r].status = s

LatestBalanceAfter(i) == ledger[i][Len(ledger[i])].balanceAfter

\* SUM(amount_sats) over some of the lines of a statement.
SumOfLines(entries, lines) ==
  SumFunctionOnSet([n \in DOMAIN entries |-> entries[n].amount], lines)

\* assertBalanceInvariant: checked when a balance transaction starts and again
\* before it commits; it throws, and the transaction rolls back, when false.
BalanceAgrees(i) ==
  i \in known /\ ledger[i] # << >> => balance[i] = LatestBalanceAfter(i)

-----------------------------------------------------------------------------
(* Writes.  A write transaction waits for the write lock.                  *)

WriteTx == expired = {}

AppendLedger(i, reason, amount, ref, after) ==
  ledger' = [ledger EXCEPT ![i] =
               Append(@, [reason |-> reason, amount |-> amount, ref |-> ref,
                          balanceAfter |-> after])]

InsertSpent(r, i, issuedAt, receivedAt, amount, status) ==
  spent' = [spent EXCEPT ![r] =
              [identity |-> i, issuedAt |-> issuedAt, receivedAt |-> receivedAt,
               amount |-> amount, status |-> status]]

SetStatus(r, s) == spent' = [spent EXCEPT ![r].status = s]

\* The requestId is burned already: answer with the row's status.
ReserveReplay(r) ==
  /\ WriteTx
  /\ spent[r] # NoRow
  /\ UNCHANGED storageVars

\* No identity row, or too little on it: the requestId is burned anyway.
ReserveRefused(r, i, issuedAt, receivedAt, amount) ==
  /\ WriteTx
  /\ spent[r] = NoRow
  /\ i \notin known \/ balance[i] < amount
  /\ InsertSpent(r, i, issuedAt, receivedAt, amount, "insufficient")
  /\ UNCHANGED <<known, balance, deposits, ledger, expired>>

\* Mutant: the balance is not checked again when the row is inserted.
ReserveUnchecked(r, i, issuedAt, receivedAt, amount) ==
  /\ WriteTx
  /\ spent[r] = NoRow
  /\ i \in known
  /\ InsertSpent(r, i, issuedAt, receivedAt, amount, "reserved")
  /\ balance' = [balance EXCEPT ![i] = @ - amount]
  /\ AppendLedger(i, "reserve", -amount, r, balance[i] - amount)
  /\ UNCHANGED <<known, deposits, expired>>

ReserveGranted(r, i, issuedAt, receivedAt, amount) ==
  /\ WriteTx
  /\ spent[r] = NoRow
  /\ i \in known
  /\ balance[i] >= amount
  /\ InsertSpent(r, i, issuedAt, receivedAt, amount, "reserved")
  /\ balance' = [balance EXCEPT ![i] = @ - amount]
  /\ AppendLedger(i, "reserve", -amount, r, balance[i] - amount)
  /\ UNCHANGED <<known, deposits, expired>>

\* Phase 2 on success: the balance has moved in phase 1.
CommitPayment(r) ==
  /\ WriteTx
  /\ HasStatus(r, "reserved")
  /\ SetStatus(r, "committed")
  /\ UNCHANGED <<known, balance, deposits, ledger, expired>>

\* Mutants: a status outside the schema; a refund without its ledger row.
RefundUnknownStatus(r, reason) ==
  LET i == spent[r].identity
      amount == spent[r].amount
  IN /\ SetStatus(r, "refunded")
     /\ balance' = [balance EXCEPT ![i] = @ + amount]
     /\ AppendLedger(i, reason, amount, r, balance[i] + amount)

RefundWithoutLedger(r, reason) ==
  LET i == spent[r].identity
      amount == spent[r].amount
  IN /\ SetStatus(r, "error")
     /\ balance' = [balance EXCEPT ![i] = @ + amount]
     /\ UNCHANGED ledger

\* The reserved amount goes back to the identity; the requestId stays burned.
Refund(r, reason) ==
  LET i == spent[r].identity
      amount == spent[r].amount
  IN /\ SetStatus(r, "error")
     /\ balance' = [balance EXCEPT ![i] = @ + amount]
     /\ AppendLedger(i, reason, amount, r, balance[i] + amount)

\* Mutant: the transition is not conditional on status = 'reserved'.
RollbackAnyStatus(r) ==
  /\ WriteTx
  /\ spent[r] # NoRow
  /\ spent[r].identity \in known
  /\ Refund(r, "rollback")
  /\ UNCHANGED <<known, deposits, expired>>

RollbackPayment(r) ==
  /\ WriteTx
  /\ HasStatus(r, "reserved")
  /\ spent[r].identity \in known
  /\ Refund(r, "rollback")
  /\ UNCHANGED <<known, deposits, expired>>

\* Mutant: the second debit is not conditional on status = 'error'.
LateCommitAnyStatus(r) ==
  /\ WriteTx
  /\ spent[r] # NoRow
  /\ spent[r].identity \in known
  /\ LET i == spent[r].identity
         amount == spent[r].amount
     IN /\ SetStatus(r, "committed")
        /\ balance' = [balance EXCEPT ![i] = @ - amount]
        /\ AppendLedger(i, "late_commit", -amount, r, balance[i] - amount)
  /\ UNCHANGED <<known, deposits, expired>>

\* The reaper refunded first: debit again, below zero if need be.
LateCommitPayment(r) ==
  /\ WriteTx
  /\ HasStatus(r, "error")
  /\ spent[r].identity \in known
  /\ LET i == spent[r].identity
         amount == spent[r].amount
     IN /\ SetStatus(r, "committed")
        /\ balance' = [balance EXCEPT ![i] = @ - amount]
        /\ AppendLedger(i, "late_commit", -amount, r, balance[i] - amount)
  /\ UNCHANGED <<known, deposits, expired>>

\* Mutant: the comparison with the cutoff is the wrong way round.
ReapFreshReservations(cutoff) ==
  /\ WriteTx
  /\ expired' = {r \in RequestIds : /\ HasStatus(r, "reserved")
                                    /\ spent[r].receivedAt > cutoff
                                    /\ spent[r].identity \in known}
  /\ UNCHANGED <<known, balance, spent, deposits, ledger>>

\* The reaper selects every reservation received before the cutoff ...
ReapExpiredReservations(cutoff) ==
  /\ WriteTx
  /\ expired' = {r \in RequestIds : /\ HasStatus(r, "reserved")
                                    /\ spent[r].receivedAt < cutoff
                                    /\ spent[r].identity \in known}
  /\ UNCHANGED <<known, balance, spent, deposits, ledger>>

\* ... and refunds them one by one inside the same transaction.
ReapRow(r) ==
  /\ r \in expired
  /\ Refund(r, "reaper_expired")
  /\ expired' = expired \ {r}
  /\ UNCHANGED <<known, deposits>>

\* Retention: every row issued before the cutoff goes, whatever its status.
CleanupSpentRequests(cutoff) ==
  /\ WriteTx
  /\ spent' = [r \in RequestIds |->
                 IF spent[r] # NoRow /\ spent[r].issuedAt < cutoff
                 THEN NoRow ELSE spent[r]]
  /\ UNCHANGED <<known, balance, deposits, ledger, expired>>

\* A signed balance or statement query burns its requestId at amount 0.
RecordBalanceQuery(r, i, issuedAt, receivedAt) ==
  /\ WriteTx
  /\ spent[r] = NoRow
  /\ InsertSpent(r, i, issuedAt, receivedAt, 0, "committed")
  /\ UNCHANGED <<known, balance, deposits, ledger, expired>>

-----------------------------------------------------------------------------
(* Deposits.                                                               *)

\* An existing (txid, vout) throws duplicate-deposit: no state change.
InsertDeposit(o, i, amount, block) ==
  /\ WriteTx
  /\ deposits[o] = NoRow
  /\ deposits' = [deposits EXCEPT ![o] =
                    [identity |-> i, amount |-> amount, block |-> block,
                     credited |-> FALSE, reorged |-> FALSE]]
  /\ UNCHANGED <<known, balance, spent, ledger, expired>>

\* Mutant: reorged_at is not cleared.
RemineStillReorged(o, block) ==
  /\ WriteTx
  /\ deposits[o] # NoRow
  /\ deposits' = [deposits EXCEPT ![o].block = block, ![o].credited = FALSE]
  /\ UNCHANGED <<known, balance, spent, ledger, expired>>

\* Re-mine upsert: new position, back onto the normal confirmation path.
RemineDeposit(o, block) ==
  /\ WriteTx
  /\ deposits[o] # NoRow
  /\ deposits' = [deposits EXCEPT ![o].block = block, ![o].reorged = FALSE,
                                  ![o].credited = FALSE]
  /\ UNCHANGED <<known, balance, spent, ledger, expired>>

\* Mutant: the ledger row carries the balance read before the credit.
CreditStaleBalance(o, i, amount) ==
  /\ known' = known \cup {i}
  /\ balance' = [balance EXCEPT ![i] = @ + amount]
  /\ AppendLedger(i, "deposit_credited", amount, o, balance[i])

\* creditDepositInTx, after its guards: provision the identity, move the money.
Credit(o, i, amount) ==
  /\ known' = known \cup {i}
  /\ balance' = [balance EXCEPT ![i] = @ + amount]
  /\ AppendLedger(i, "deposit_credited", amount, o, balance[i] + amount)

CreditDeposit(o) ==
  /\ WriteTx
  /\ deposits[o] # NoRow
  /\ ~deposits[o].reorged
  /\ ~deposits[o].credited
  /\ deposits' = [deposits EXCEPT ![o].credited = TRUE]
  /\ Credit(o, deposits[o].identity, deposits[o].amount)
  /\ UNCHANGED <<spent, expired>>

InsertAndCreditDeposit(o, i, amount, block) ==
  /\ WriteTx
  /\ deposits[o] = NoRow
  /\ deposits' = [deposits EXCEPT ![o] =
                    [identity |-> i, amount |-> amount, block |-> block,
                     credited |-> TRUE, reorged |-> FALSE]]
  /\ Credit(o, i, amount)
  /\ UNCHANGED <<spent, expired>>

\* Mutant: what a reorg takes back is not booked.
ReorgWithoutLedger(o) ==
  /\ WriteTx
  /\ deposits[o] # NoRow
  /\ ~deposits[o].reorged
  /\ deposits' = [deposits EXCEPT ![o].reorged = TRUE]
  /\ LET i == deposits[o].identity
     IN IF deposits[o].credited /\ i \in known
        THEN balance' = [balance EXCEPT ![i] = @ - deposits[o].amount]
        ELSE UNCHANGED balance
  /\ UNCHANGED <<known, spent, ledger, expired>>

\* A credited deposit whose block went away is taken back, below zero if need be.
MarkDepositReorged(o) ==
  /\ WriteTx
  /\ deposits[o] # NoRow
  /\ ~deposits[o].reorged
  /\ deposits' = [deposits EXCEPT ![o].reorged = TRUE]
  /\ LET i == deposits[o].identity
         amount == deposits[o].amount
     IN IF deposits[o].credited /\ i \in known
        THEN /\ balance' = [balance EXCEPT ![i] = @ - amount]
             /\ AppendLedger(i, "reorg", -amount, o, balance[i] - amount)
        ELSE UNCHANGED <<balance, ledger>>
  /\ UNCHANGED <<known, spent, expired>>

-----------------------------------------------------------------------------
PaymentStep ==
  \E r \in RequestIds :
    \/ \E i \in Identities, issuedAt, receivedAt \in Times, amount \in Amounts :
         \/ ReserveRefused(r, i, issuedAt, receivedAt, amount)
         \/ ReserveGranted(r, i, issuedAt, receivedAt, amount)
    \/ \E i \in Identities, issuedAt, receivedAt \in Times :
         RecordBalanceQuery(r, i, issuedAt, receivedAt)
    \/ CommitPayment(r)
    \/ RollbackPayment(r)
    \/ LateCommitPayment(r)

MaintenanceStep ==
  \/ \E cutoff \in Times : \/ ReapExpiredReservations(cutoff)
                           \/ CleanupSpentRequests(cutoff)
  \/ \E r \in RequestIds : ReapRow(r)

DepositStep ==
  \E o \in Outputs :
    \/ \E i \in Identities, amount \in Amounts, block \in Blocks :
         \/ InsertDeposit(o, i, amount, block)
         \/ InsertAndCreditDeposit(o, i, amount, block)
    \/ \E block \in Blocks : RemineDeposit(o, block)
    \/ CreditDeposit(o)
    \/ MarkDepositReorged(o)

StorageNext == PaymentStep \/ MaintenanceStep \/ DepositStep

StorageSpec == StorageInit /\ [][StorageNext]_storageVars

-----------------------------------------------------------------------------
(* Properties.                                                             *)

\* What the reaper has still to refund is reserved: no row of its list has been
\* settled or deleted.
ExpiredAreReserved == \A r \in expired : HasStatus(r, "reserved")

\* Every table holds well-formed rows, and the reaper's work list holds only
\* reservations, whatever operations run.
StorageTypeOK ==
  /\ known \subseteq Identities
  /\ balance \in [Identities -> Int]
  /\ spent \in [RequestIds -> SpentRow \cup {NoRow}]
  /\ deposits \in [Outputs -> DepositRow \cup {NoRow}]
  /\ ledger \in [Identities -> Seq(LedgerEntry)]
  /\ expired \subseteq RequestIds /\ ExpiredAreReserved

RunningBalance(i, n) == IF n = 0 THEN 0 ELSE ledger[i][n].balanceAfter

\* The statement of an identity adds up line by line: each balance_after is the
\* previous one plus the line's amount, so the latest balance_after is the sum
\* of the ledger (B1, one half of what the reconciliation job compares).
LedgerChained ==
  \A i \in Identities : \A n \in 1..Len(ledger[i]) :
    ledger[i][n].balanceAfter = RunningBalance(i, n - 1) + ledger[i][n].amount

\* The assertion that opens and closes every balance transaction never fires:
\* no sequence of operations, in any order, makes a balance disagree with the
\* latest balance_after (B1, the other half).
AssertionNeverThrows == \A i \in Identities : BalanceAgrees(i)

OneRow(i) ==
  \/ ledger'[i] = ledger[i] /\ balance'[i] = balance[i]
  \/ /\ Len(ledger'[i]) = Len(ledger[i]) + 1
     /\ \A n \in 1..Len(ledger[i]) : ledger'[i][n] = ledger[i][n]
     /\ balance'[i] = balance[i] + ledger'[i][Len(ledger'[i])].amount

\* The ledger is append-only and every balance movement writes exactly one row
\* of exactly its amount (interface.ts: "Every balance movement writes exactly
\* one ledger row (B1)").
OneRowPerMovement == [][\A i \in Identities : OneRow(i)]_storageVars

NextStatus(s) == CASE s = "reserved" -> {"reserved", "committed", "error"}
                   [] s = "error" -> {"error", "committed"}
                   [] OTHER -> {s}

OnlySettles(r) ==
  spent[r] # NoRow /\ spent'[r] # NoRow =>
    /\ spent'[r].status \in NextStatus(spent[r].status)
    /\ spent'[r] = [spent[r] EXCEPT !.status = spent'[r].status]

\* A requestId, once burned, never changes hands, price or age, and its status
\* only moves reserved -> committed | error and error -> committed: nothing
\* un-commits a payment or re-opens a reservation while the row is retained.
RowsOnlySettle == [][\A r \in RequestIds : OnlySettles(r)]_storageVars

NoCredit(i) ==
  balance'[i] < balance[i] /\ balance'[i] < 0 =>
    ledger'[i][Len(ledger'[i])].reason \in {"late_commit", "reorg"}

\* Prepaid: a payment is never granted on credit.  A balance falls below zero
\* only through a late commit or a reorg, the two movements documented to.
OverdraftOnlyLate == [][\A i \in Identities : NoCredit(i)]_storageVars
=============================================================================
