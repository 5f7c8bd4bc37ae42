---------------------------- MODULE StorageProofs ----------------------------
(***************************************************************************)
(* Proofs about Storage, for any sets of identities, requestIds, outputs,  *)
(* blocks, amounts and times, and for any order of operations.             *)
(***************************************************************************)
EXTENDS Storage, SumProofs

\* The balance is the latest balance_after, for identities without a row too.
BalanceIsLatest ==
  \A i \in Identities : balance[i] = RunningBalance(i, Len(ledger[i]))

\* The inductive invariant.  LedgerChained needs the balance to be the latest
\* balance_after, since operations compute the next one from the balance.  (That a
\* row is refunded only while it is reserved is part of StorageTypeOK.)
StorageInv ==
  /\ StorageTypeOK
  /\ LedgerChained
  /\ BalanceIsLatest

-----------------------------------------------------------------------------
(* Moving a balance and appending the ledger row that says so keeps every  *)
(* statement adding up: the step all balance operations share.             *)
LEMMA MoveBalance ==
  ASSUME StorageTypeOK, LedgerChained, BalanceIsLatest,
         NEW i \in Identities, NEW reason \in Reasons, NEW amount \in Int,
         NEW ref \in RequestIds \cup Outputs, NEW after \in Int,
         after = balance[i] + amount,
         AppendLedger(i, reason, amount, ref, after),
         balance' = [balance EXCEPT ![i] = after]
  PROVE  /\ balance' \in [Identities -> Int]
         /\ ledger' \in [Identities -> Seq(LedgerEntry)]
         /\ LedgerChained'
         /\ BalanceIsLatest'
<1> DEFINE entry == [reason |-> reason, amount |-> amount, ref |-> ref,
                     balanceAfter |-> after]
<1>1. entry \in LedgerEntry
  BY DEF LedgerEntry
<1>2. ledger \in [Identities -> Seq(LedgerEntry)] /\ balance \in [Identities -> Int]
  BY DEF StorageTypeOK
<1>3. ledger' = [ledger EXCEPT ![i] = Append(ledger[i], entry)]
  BY <1>2 DEF AppendLedger
<1> HIDE DEF entry
<1>4. ledger[i] \in Seq(LedgerEntry) /\ Append(ledger[i], entry) \in Seq(LedgerEntry)
  BY <1>1, <1>2
<1>5. ledger' \in [Identities -> Seq(LedgerEntry)] /\ balance' \in [Identities -> Int]
  BY <1>2, <1>3, <1>4
<1>6. PICK k \in Nat : k = Len(ledger[i])
  BY <1>4
<1>7. /\ Len(ledger'[i]) = k + 1
      /\ \A n \in 1..k : ledger'[i][n] = ledger[i][n]
      /\ ledger'[i][k + 1] = entry
  BY <1>2, <1>3, <1>4, <1>6
<1>8. \A j \in Identities : j # i => ledger'[j] = ledger[j] /\ balance'[j] = balance[j]
  BY <1>2, <1>3
<1>9. entry.amount = amount /\ entry.balanceAfter = after
  BY DEF entry
<1>10. \A n \in 0..k : RunningBalance(i, n)' = RunningBalance(i, n)
  BY <1>6, <1>7, SMTT(30) DEF RunningBalance
<1>11. LedgerChained'
  <2> SUFFICES ASSUME NEW j \in Identities, NEW n \in 1..Len(ledger'[j])
               PROVE  ledger'[j][n].balanceAfter
                        = RunningBalance(j, n - 1)' + ledger'[j][n].amount
    BY DEF LedgerChained
  <2>1. CASE j # i
    BY <1>8, <2>1 DEF LedgerChained, RunningBalance
  <2>2. CASE j = i /\ n \in 1..k
    <3>1. n - 1 \in 0..k
      BY <2>2
    <3> QED  BY <1>6, <1>7, <1>10, <2>2, <3>1 DEF LedgerChained
  <2>3. CASE j = i /\ n = k + 1
    <3>1. RunningBalance(i, k)' = balance[i]
      BY <1>6, <1>10 DEF BalanceIsLatest
    <3>2. n - 1 = k
      BY <2>3
    <3> QED  BY <1>7, <1>9, <2>3, <3>1, <3>2
  <2> QED  BY <1>7, <2>1, <2>2, <2>3
<1>12. BalanceIsLatest'
  <2> SUFFICES ASSUME NEW j \in Identities
               PROVE  balance'[j] = RunningBalance(j, Len(ledger[j]))'
    BY DEF BalanceIsLatest
  <2>1. CASE j = i
    BY <1>2, <1>7, <1>9, <2>1 DEF RunningBalance
  <2>2. CASE j # i
    BY <1>8, <2>2 DEF BalanceIsLatest, RunningBalance
  <2> QED  BY <2>1, <2>2
<1> QED  BY <1>5, <1>11, <1>12

\* Rows of spent_requests are well formed: the ones there, a new one, and one
\* that changes its status.
LEMMA RowThere ==
  ASSUME StorageTypeOK, NEW r \in RequestIds, spent[r] # NoRow
  PROVE  spent[r] \in SpentRow
BY DEF StorageTypeOK

LEMMA RowInserted ==
  ASSUME StorageTypeOK, NEW r \in RequestIds, NEW i \in Identities,
         NEW issuedAt \in Int, NEW receivedAt \in Int, NEW amount \in Nat,
         NEW status \in Statuses,
         InsertSpent(r, i, issuedAt, receivedAt, amount, status)
  PROVE  spent' \in [RequestIds -> SpentRow \cup {NoRow}]
BY DEF StorageTypeOK, SpentRow, InsertSpent

LEMMA RowMoved ==
  ASSUME StorageTypeOK, NEW r \in RequestIds, spent[r] # NoRow,
         NEW status \in Statuses, SetStatus(r, status)
  PROVE  spent' \in [RequestIds -> SpentRow \cup {NoRow}]
<1>1. spent[r] \in SpentRow
  BY RowThere
<1>2. [spent[r] EXCEPT !.status = status] \in SpentRow
  BY <1>1 DEF SpentRow
<1> QED  BY <1>2 DEF StorageTypeOK, SetStatus

\* Unless it begins a reaper run, an operation that holds the write lock leaves
\* the reaper's work list empty.
LEMMA NoReaperRuns ==
  ASSUME WriteTx, UNCHANGED expired
  PROVE  expired' \subseteq RequestIds /\ ExpiredAreReserved'
BY DEF WriteTx, ExpiredAreReserved

\* Operations that move no balance.
LEMMA NothingMoves ==
  ASSUME StorageInv, UNCHANGED <<balance, ledger>>,
         known' \subseteq Identities,
         spent' \in [RequestIds -> SpentRow \cup {NoRow}],
         deposits' \in [Outputs -> DepositRow \cup {NoRow}],
         expired' \subseteq RequestIds, ExpiredAreReserved'
  PROVE  StorageInv'
BY DEF StorageInv, StorageTypeOK, LedgerChained, BalanceIsLatest, RunningBalance

\* Operations that move one balance.
LEMMA OneMoves ==
  ASSUME StorageInv,
         NEW i \in Identities, NEW reason \in Reasons, NEW amount \in Int,
         NEW ref \in RequestIds \cup Outputs, NEW after \in Int,
         after = balance[i] + amount,
         AppendLedger(i, reason, amount, ref, after),
         balance' = [balance EXCEPT ![i] = after],
         known' \subseteq Identities,
         spent' \in [RequestIds -> SpentRow \cup {NoRow}],
         deposits' \in [Outputs -> DepositRow \cup {NoRow}],
         expired' \subseteq RequestIds, ExpiredAreReserved'
  PROVE  StorageInv'
<1>1. StorageTypeOK /\ LedgerChained /\ BalanceIsLatest
  BY DEF StorageInv
<1>2. /\ balance' \in [Identities -> Int]
      /\ ledger' \in [Identities -> Seq(LedgerEntry)]
      /\ LedgerChained'
      /\ BalanceIsLatest'
  BY <1>1, MoveBalance
<1> QED  BY <1>2 DEF StorageInv, StorageTypeOK

-----------------------------------------------------------------------------
(* Each operation keeps the invariant, for any timestamps and any price.   *)
LEMMA ReserveKeepsInv ==
  ASSUME StorageInv, NEW r \in RequestIds, NEW i \in Identities,
         NEW issuedAt \in Int, NEW receivedAt \in Int, NEW amount \in Nat,
         \/ ReserveRefused(r, i, issuedAt, receivedAt, amount)
         \/ ReserveGranted(r, i, issuedAt, receivedAt, amount)
  PROVE  StorageInv'
<1>1. StorageTypeOK
  BY DEF StorageInv
<1>2. CASE ReserveRefused(r, i, issuedAt, receivedAt, amount)
  <2>1. spent' \in [RequestIds -> SpentRow \cup {NoRow}]
    BY <1>1, <1>2, RowInserted DEF ReserveRefused, Statuses
  <2>2. expired' \subseteq RequestIds /\ ExpiredAreReserved'
    BY <1>2, NoReaperRuns DEF ReserveRefused
  <2> QED  BY <1>1, <1>2, <2>1, <2>2, NothingMoves DEF ReserveRefused, StorageTypeOK
<1>3. CASE ReserveGranted(r, i, issuedAt, receivedAt, amount)
  <2>1. spent' \in [RequestIds -> SpentRow \cup {NoRow}]
    BY <1>1, <1>3, RowInserted DEF ReserveGranted, Statuses
  <2>2. expired' \subseteq RequestIds /\ ExpiredAreReserved'
    BY <1>3, NoReaperRuns DEF ReserveGranted
  <2>3. /\ balance[i] \in Int
        /\ balance[i] - amount \in Int /\ -amount \in Int
        /\ balance[i] - amount = balance[i] + (-amount)
    BY <1>1 DEF StorageTypeOK
  <2>4. balance' = [balance EXCEPT ![i] = balance[i] - amount]
    BY <1>3 DEF ReserveGranted
  <2> QED  BY <1>1, <1>3, <2>1, <2>2, <2>3, <2>4, OneMoves
             DEF ReserveGranted, StorageTypeOK, Reasons
<1> QED  BY <1>2, <1>3

LEMMA QueryKeepsInv ==
  ASSUME StorageInv, NEW r \in RequestIds, NEW i \in Identities,
         NEW issuedAt \in Int, NEW receivedAt \in Int,
         RecordBalanceQuery(r, i, issuedAt, receivedAt)
  PROVE  StorageInv'
<1>1. StorageTypeOK
  BY DEF StorageInv
<1>2. spent' \in [RequestIds -> SpentRow \cup {NoRow}]
  BY <1>1, RowInserted DEF RecordBalanceQuery, Statuses
<1>3. expired' \subseteq RequestIds /\ ExpiredAreReserved'
  BY NoReaperRuns DEF RecordBalanceQuery
<1> QED  BY <1>1, <1>2, <1>3, NothingMoves DEF RecordBalanceQuery, StorageTypeOK

LEMMA CommitKeepsInv ==
  ASSUME StorageInv, NEW r \in RequestIds, CommitPayment(r)
  PROVE  StorageInv'
<1>1. StorageTypeOK
  BY DEF StorageInv
<1>2. spent' \in [RequestIds -> SpentRow \cup {NoRow}]
  BY <1>1, RowMoved DEF CommitPayment, HasStatus, Statuses
<1>3. expired' \subseteq RequestIds /\ ExpiredAreReserved'
  BY NoReaperRuns DEF CommitPayment
<1> QED  BY <1>1, <1>2, <1>3, NothingMoves DEF CommitPayment, StorageTypeOK

\* What rollback and reaper share.
LEMMA RefundKeepsInv ==
  ASSUME StorageInv, NEW r \in RequestIds, HasStatus(r, "reserved"),
         NEW reason \in Reasons, Refund(r, reason), UNCHANGED <<known, deposits>>,
         expired' \subseteq RequestIds, ExpiredAreReserved'
  PROVE  StorageInv'
<1>1. StorageTypeOK
  BY DEF StorageInv
<1>2. spent[r] \in SpentRow
  BY <1>1, RowThere DEF HasStatus
<1>3. spent' \in [RequestIds -> SpentRow \cup {NoRow}]
  BY <1>1, RowMoved DEF Refund, HasStatus, Statuses
<1> DEFINE i == spent[r].identity
           amount == spent[r].amount
<1>4. i \in Identities /\ amount \in Int
  BY <1>2 DEF SpentRow
<1>5. balance[i] + amount \in Int
  BY <1>1, <1>4 DEF StorageTypeOK
<1>6. /\ balance' = [balance EXCEPT ![i] = balance[i] + amount]
      /\ AppendLedger(i, reason, amount, r, balance[i] + amount)
  BY DEF Refund
<1> HIDE DEF i, amount
<1> QED  BY <1>1, <1>3, <1>4, <1>5, <1>6, OneMoves DEF StorageTypeOK

LEMMA RollbackKeepsInv ==
  ASSUME StorageInv, NEW r \in RequestIds, RollbackPayment(r)
  PROVE  StorageInv'
<1>1. expired' \subseteq RequestIds /\ ExpiredAreReserved'
  BY NoReaperRuns DEF RollbackPayment
<1> QED  BY <1>1, RefundKeepsInv DEF RollbackPayment, Reasons

LEMMA LateCommitKeepsInv ==
  ASSUME StorageInv, NEW r \in RequestIds, LateCommitPayment(r)
  PROVE  StorageInv'
<1>1. StorageTypeOK
  BY DEF StorageInv
<1>2. spent[r] \in SpentRow
  BY <1>1, RowThere DEF LateCommitPayment, HasStatus
<1>3. spent' \in [RequestIds -> SpentRow \cup {NoRow}]
  BY <1>1, RowMoved DEF LateCommitPayment, HasStatus, Statuses
<1>4. expired' \subseteq RequestIds /\ ExpiredAreReserved'
  BY NoReaperRuns DEF LateCommitPayment
<1> DEFINE i == spent[r].identity
           amount == spent[r].amount
<1>5. i \in Identities /\ amount \in Int
  BY <1>2 DEF SpentRow
<1>6. /\ balance[i] - amount \in Int /\ -amount \in Int
      /\ balance[i] - amount = balance[i] + (-amount)
  BY <1>1, <1>5 DEF StorageTypeOK
<1>7. /\ balance' = [balance EXCEPT ![i] = balance[i] - amount]
      /\ AppendLedger(i, "late_commit", -amount, r, balance[i] - amount)
      /\ UNCHANGED <<known, deposits>>
  BY DEF LateCommitPayment
<1> HIDE DEF i, amount
<1> QED  BY <1>1, <1>3, <1>4, <1>5, <1>6, <1>7, OneMoves DEF StorageTypeOK, Reasons

LEMMA ReapKeepsInv ==
  ASSUME StorageInv, NEW cutoff \in Int, ReapExpiredReservations(cutoff)
  PROVE  StorageInv'
<1>1. expired' \subseteq RequestIds /\ ExpiredAreReserved'
  BY DEF ReapExpiredReservations, ExpiredAreReserved, HasStatus
<1> QED  BY <1>1, NothingMoves DEF ReapExpiredReservations, StorageInv, StorageTypeOK

\* The refunded row leaves the work list; the rows still on it are untouched.
LEMMA ReapRowKeepsInv ==
  ASSUME StorageInv, NEW r \in RequestIds, ReapRow(r)
  PROVE  StorageInv'
<1>1. HasStatus(r, "reserved")
  BY DEF ReapRow, StorageInv, StorageTypeOK, ExpiredAreReserved
<1>2. expired' \subseteq RequestIds
  BY DEF ReapRow, StorageInv, StorageTypeOK
<1>3. \A q \in RequestIds : q # r => spent'[q] = spent[q]
  BY DEF ReapRow, Refund, SetStatus, StorageInv, StorageTypeOK
<1>4. ExpiredAreReserved'
  BY <1>2, <1>3 DEF ReapRow, ExpiredAreReserved, StorageInv, StorageTypeOK, HasStatus
<1> QED  BY <1>1, <1>2, <1>4, RefundKeepsInv DEF ReapRow, Reasons

LEMMA CleanupKeepsInv ==
  ASSUME StorageInv, NEW cutoff \in Int, CleanupSpentRequests(cutoff)
  PROVE  StorageInv'
<1>1. spent' \in [RequestIds -> SpentRow \cup {NoRow}]
  BY DEF CleanupSpentRequests, StorageInv, StorageTypeOK
<1>2. expired' \subseteq RequestIds /\ ExpiredAreReserved'
  BY NoReaperRuns DEF CleanupSpentRequests
<1> QED  BY <1>1, <1>2, NothingMoves DEF CleanupSpentRequests, StorageInv, StorageTypeOK

LEMMA InsertDepositKeepsInv ==
  ASSUME StorageInv, NEW o \in Outputs, NEW i \in Identities, NEW amount \in Nat,
         NEW block \in Blocks, InsertDeposit(o, i, amount, block)
  PROVE  StorageInv'
<1>1. deposits' \in [Outputs -> DepositRow \cup {NoRow}]
  BY DEF InsertDeposit, StorageInv, StorageTypeOK, DepositRow
<1>2. expired' \subseteq RequestIds /\ ExpiredAreReserved'
  BY NoReaperRuns DEF InsertDeposit
<1> QED  BY <1>1, <1>2, NothingMoves DEF InsertDeposit, StorageInv, StorageTypeOK

LEMMA RemineKeepsInv ==
  ASSUME StorageInv, NEW o \in Outputs, NEW block \in Blocks, RemineDeposit(o, block)
  PROVE  StorageInv'
<1>1. deposits[o] \in DepositRow
  BY DEF RemineDeposit, StorageInv, StorageTypeOK
<1>2. deposits' \in [Outputs -> DepositRow \cup {NoRow}]
  BY <1>1 DEF RemineDeposit, StorageInv, StorageTypeOK, DepositRow
<1>3. expired' \subseteq RequestIds /\ ExpiredAreReserved'
  BY NoReaperRuns DEF RemineDeposit
<1> QED  BY <1>2, <1>3, NothingMoves DEF RemineDeposit, StorageInv, StorageTypeOK

\* What both crediting operations share.
LEMMA CreditKeepsInv ==
  ASSUME StorageInv, NEW o \in Outputs, NEW i \in Identities, NEW amount \in Nat,
         WriteTx, Credit(o, i, amount), UNCHANGED <<spent, expired>>,
         deposits' \in [Outputs -> DepositRow \cup {NoRow}]
  PROVE  StorageInv'
<1>1. StorageTypeOK
  BY DEF StorageInv
<1>2. expired' \subseteq RequestIds /\ ExpiredAreReserved'
  BY NoReaperRuns
<1>3. balance[i] + amount \in Int /\ amount \in Int
  BY <1>1 DEF StorageTypeOK
<1>4. /\ balance' = [balance EXCEPT ![i] = balance[i] + amount]
      /\ AppendLedger(i, "deposit_credited", amount, o, balance[i] + amount)
      /\ known' \subseteq Identities
  BY <1>1 DEF Credit, StorageTypeOK
<1>5. spent' \in [RequestIds -> SpentRow \cup {NoRow}]
  BY <1>1 DEF StorageTypeOK
<1> QED  BY <1>2, <1>3, <1>4, <1>5, OneMoves DEF Reasons

LEMMA CreditDepositKeepsInv ==
  ASSUME StorageInv, NEW o \in Outputs, CreditDeposit(o)
  PROVE  StorageInv'
<1>1. deposits[o] \in DepositRow
  BY DEF CreditDeposit, StorageInv, StorageTypeOK
<1>2. deposits' \in [Outputs -> DepositRow \cup {NoRow}]
  BY <1>1 DEF CreditDeposit, StorageInv, StorageTypeOK, DepositRow
<1>3. deposits[o].identity \in Identities /\ deposits[o].amount \in Nat
  BY <1>1 DEF DepositRow
<1> QED  BY <1>2, <1>3, CreditKeepsInv DEF CreditDeposit

LEMMA InsertAndCreditKeepsInv ==
  ASSUME StorageInv, NEW o \in Outputs, NEW i \in Identities, NEW amount \in Nat,
         NEW block \in Blocks, InsertAndCreditDeposit(o, i, amount, block)
  PROVE  StorageInv'
<1>1. deposits' \in [Outputs -> DepositRow \cup {NoRow}]
  BY DEF InsertAndCreditDeposit, StorageInv, StorageTypeOK, DepositRow
<1> QED  BY <1>1, CreditKeepsInv DEF InsertAndCreditDeposit

LEMMA MarkReorgedKeepsInv ==
  ASSUME StorageInv, NEW o \in Outputs, MarkDepositReorged(o)
  PROVE  StorageInv'
<1>1. StorageTypeOK
  BY DEF StorageInv
<1>2. deposits[o] \in DepositRow
  BY <1>1 DEF MarkDepositReorged, StorageTypeOK
<1>3. deposits' \in [Outputs -> DepositRow \cup {NoRow}]
  BY <1>1, <1>2 DEF MarkDepositReorged, StorageTypeOK, DepositRow
<1>4. expired' \subseteq RequestIds /\ ExpiredAreReserved'
  BY NoReaperRuns DEF MarkDepositReorged
<1> DEFINE i == deposits[o].identity
           amount == deposits[o].amount
<1>5. CASE deposits[o].credited /\ i \in known
  <2>1. i \in Identities /\ amount \in Int
    BY <1>2 DEF DepositRow
  <2>2. /\ balance[i] - amount \in Int /\ -amount \in Int
        /\ balance[i] - amount = balance[i] + (-amount)
    BY <1>1, <2>1 DEF StorageTypeOK
  <2>3. /\ balance' = [balance EXCEPT ![i] = balance[i] - amount]
        /\ AppendLedger(i, "reorg", -amount, o, balance[i] - amount)
        /\ UNCHANGED <<known, spent>>
    BY <1>5 DEF MarkDepositReorged
  <2> HIDE DEF i, amount
  <2> QED  BY <1>1, <1>3, <1>4, <2>1, <2>2, <2>3, OneMoves DEF StorageTypeOK, Reasons
<1>6. CASE ~(deposits[o].credited /\ i \in known)
  BY <1>1, <1>3, <1>4, <1>6, NothingMoves DEF MarkDepositReorged, StorageTypeOK
<1> QED  BY <1>5, <1>6

-----------------------------------------------------------------------------
LEMMA InitInv == StorageInit => StorageInv
BY DEF StorageInit, StorageInv, StorageTypeOK, LedgerChained, BalanceIsLatest,
       RunningBalance, ExpiredAreReserved

LEMMA NextInv == StorageInv /\ [StorageNext]_storageVars => StorageInv'
<1> SUFFICES ASSUME StorageInv, [StorageNext]_storageVars PROVE StorageInv'
  OBVIOUS
<1> USE StorageAssumption
<1>1. CASE PaymentStep
  BY <1>1, ReserveKeepsInv, QueryKeepsInv, CommitKeepsInv, RollbackKeepsInv,
     LateCommitKeepsInv DEF PaymentStep
<1>2. CASE MaintenanceStep
  BY <1>2, ReapKeepsInv, ReapRowKeepsInv, CleanupKeepsInv DEF MaintenanceStep
<1>3. CASE DepositStep
  BY <1>3, InsertDepositKeepsInv, InsertAndCreditKeepsInv, RemineKeepsInv,
     CreditDepositKeepsInv, MarkReorgedKeepsInv DEF DepositStep
<1>4. CASE UNCHANGED storageVars
  BY <1>4 DEF storageVars, StorageInv, StorageTypeOK, LedgerChained, BalanceIsLatest,
     RunningBalance, ExpiredAreReserved, HasStatus
<1> QED  BY <1>1, <1>2, <1>3, <1>4 DEF StorageNext

LEMMA InvAlways == StorageSpec => []StorageInv
BY InitInv, NextInv, PTL DEF StorageSpec

\* Every table stays well formed (the type invariant of the storage).
THEOREM TypeCorrect == StorageSpec => []StorageTypeOK
<1>1. StorageInv => StorageTypeOK
  BY DEF StorageInv
<1> QED  BY <1>1, InvAlways, PTL

\* Every statement adds up line by line, whatever operations ran: B1, for the
\* ledger against itself.
THEOREM StatementsAddUp == StorageSpec => []LedgerChained
<1>1. StorageInv => LedgerChained
  BY DEF StorageInv
<1> QED  BY <1>1, InvAlways, PTL

\* The solvency assertion in the balance transactions never throws: B1, for the
\* balance against the ledger.
THEOREM Solvent == StorageSpec => []AssertionNeverThrows
<1>1. StorageInv => AssertionNeverThrows
  <2> SUFFICES ASSUME StorageInv, NEW i \in Identities, ledger[i] # << >>
               PROVE  balance[i] = LatestBalanceAfter(i)
    BY DEF AssertionNeverThrows, BalanceAgrees
  <2>1. ledger[i] \in Seq(LedgerEntry)
    BY DEF StorageInv, StorageTypeOK
  <2>2. Len(ledger[i]) # 0
    BY <2>1
  <2> QED  BY <2>2 DEF StorageInv, BalanceIsLatest, RunningBalance, LatestBalanceAfter
<1> QED  BY <1>1, InvAlways, PTL

-----------------------------------------------------------------------------
(* What one step may do to one balance, and to one row.                    *)
LEMMA UnmovedBalances ==
  ASSUME UNCHANGED <<balance, ledger>>, StorageTypeOK
  PROVE  \A i \in Identities : OneRow(i) /\ NoCredit(i)
BY DEF OneRow, NoCredit, StorageTypeOK

LEMMA MovedBalance ==
  ASSUME StorageTypeOK, NEW i \in Identities, NEW reason \in Reasons,
         NEW amount \in Int, NEW ref \in RequestIds \cup Outputs, NEW after \in Int,
         after = balance[i] + amount,
         AppendLedger(i, reason, amount, ref, after),
         balance' = [balance EXCEPT ![i] = after],
         amount >= 0 \/ after >= 0 \/ reason \in {"late_commit", "reorg"}
  PROVE  \A j \in Identities : OneRow(j) /\ NoCredit(j)
<1> DEFINE entry == [reason |-> reason, amount |-> amount, ref |-> ref,
                     balanceAfter |-> after]
<1>1. entry \in LedgerEntry /\ entry.amount = amount /\ entry.reason = reason
  BY DEF LedgerEntry
<1>2. ledger \in [Identities -> Seq(LedgerEntry)] /\ balance \in [Identities -> Int]
  BY DEF StorageTypeOK
<1>3. ledger' = [ledger EXCEPT ![i] = Append(ledger[i], entry)]
  BY <1>2 DEF AppendLedger
<1> HIDE DEF entry
<1>4. ledger[i] \in Seq(LedgerEntry)
  BY <1>2
<1>5. /\ Len(ledger'[i]) = Len(ledger[i]) + 1
      /\ \A n \in 1..Len(ledger[i]) : ledger'[i][n] = ledger[i][n]
      /\ ledger'[i][Len(ledger'[i])] = entry
  BY <1>1, <1>2, <1>3, <1>4
<1>6. balance'[i] = after
  BY <1>2
<1>7. OneRow(i) /\ NoCredit(i)
  BY <1>1, <1>2, <1>5, <1>6 DEF OneRow, NoCredit
<1>8. \A j \in Identities : j # i => ledger'[j] = ledger[j] /\ balance'[j] = balance[j]
  BY <1>2, <1>3
<1>9. \A j \in Identities : j # i => OneRow(j) /\ NoCredit(j)
  BY <1>2, <1>8 DEF OneRow, NoCredit
<1> QED  BY <1>7, <1>9

LEMMA RefundMoves ==
  ASSUME StorageInv, NEW r \in RequestIds, HasStatus(r, "reserved"),
         NEW reason \in Reasons, Refund(r, reason)
  PROVE  \A j \in Identities : OneRow(j) /\ NoCredit(j)
<1>1. StorageTypeOK /\ spent[r] \in SpentRow
  BY RowThere DEF HasStatus, StorageInv
<1> DEFINE i == spent[r].identity
           amount == spent[r].amount
<1>2. i \in Identities /\ amount \in Int /\ amount >= 0
  BY <1>1 DEF SpentRow
<1>3. balance[i] + amount \in Int
  BY <1>1, <1>2 DEF StorageTypeOK
<1>4. /\ balance' = [balance EXCEPT ![i] = balance[i] + amount]
      /\ AppendLedger(i, reason, amount, r, balance[i] + amount)
  BY DEF Refund
<1> HIDE DEF i, amount
<1> QED  BY <1>1, <1>2, <1>3, <1>4, MovedBalance

LEMMA PaymentMoves ==
  ASSUME StorageInv, PaymentStep
  PROVE  \A j \in Identities : OneRow(j) /\ NoCredit(j)
<1> USE StorageAssumption
<1>1. StorageTypeOK
  BY DEF StorageInv
<1>2. PICK r \in RequestIds :
        \/ \E i \in Identities, issuedAt, receivedAt \in Times, amount \in Amounts :
             \/ ReserveRefused(r, i, issuedAt, receivedAt, amount)
             \/ ReserveGranted(r, i, issuedAt, receivedAt, amount)
        \/ \E i \in Identities, issuedAt, receivedAt \in Times :
             RecordBalanceQuery(r, i, issuedAt, receivedAt)
        \/ CommitPayment(r)
        \/ RollbackPayment(r)
        \/ LateCommitPayment(r)
  BY DEF PaymentStep
<1>3. ASSUME NEW i \in Identities, NEW issuedAt \in Times, NEW receivedAt \in Times,
             NEW amount \in Amounts, ReserveGranted(r, i, issuedAt, receivedAt, amount)
      PROVE  \A j \in Identities : OneRow(j) /\ NoCredit(j)
  <2>1. balance[i] \in Int /\ amount \in Int
    BY <1>1 DEF StorageTypeOK
  <2>2. /\ balance[i] - amount \in Int /\ -amount \in Int
        /\ balance[i] - amount = balance[i] + (-amount)
        /\ balance[i] - amount >= 0
    BY <1>3, <2>1 DEF ReserveGranted
  <2>3. /\ balance' = [balance EXCEPT ![i] = balance[i] - amount]
        /\ AppendLedger(i, "reserve", -amount, r, balance[i] - amount)
    BY <1>3 DEF ReserveGranted
  <2> QED  BY <1>1, <2>1, <2>2, <2>3, MovedBalance DEF Reasons
<1>4. ASSUME NEW i \in Identities, NEW issuedAt \in Times, NEW receivedAt \in Times,
             \/ \E amount \in Amounts : ReserveRefused(r, i, issuedAt, receivedAt, amount)
             \/ RecordBalanceQuery(r, i, issuedAt, receivedAt)
             \/ CommitPayment(r)
      PROVE  \A j \in Identities : OneRow(j) /\ NoCredit(j)
  BY <1>1, <1>4, UnmovedBalances DEF ReserveRefused, RecordBalanceQuery, CommitPayment
<1>5. CASE CommitPayment(r)
  BY <1>1, <1>5, UnmovedBalances DEF CommitPayment
<1>6. CASE RollbackPayment(r)
  BY <1>6, RefundMoves DEF RollbackPayment, Reasons
<1>7. CASE LateCommitPayment(r)
  <2>1. spent[r] \in SpentRow
    BY <1>1, <1>7, RowThere DEF LateCommitPayment, HasStatus
  <2> DEFINE i == spent[r].identity
             amount == spent[r].amount
  <2>2. i \in Identities /\ amount \in Int
    BY <2>1 DEF SpentRow
  <2>3. /\ balance[i] - amount \in Int /\ -amount \in Int
        /\ balance[i] - amount = balance[i] + (-amount)
    BY <1>1, <2>2 DEF StorageTypeOK
  <2>4. /\ balance' = [balance EXCEPT ![i] = balance[i] - amount]
        /\ AppendLedger(i, "late_commit", -amount, r, balance[i] - amount)
    BY <1>7 DEF LateCommitPayment
  <2> HIDE DEF i, amount
  <2> QED  BY <1>1, <2>2, <2>3, <2>4, MovedBalance DEF Reasons
<1> QED  BY <1>2, <1>3, <1>4, <1>5, <1>6, <1>7

LEMMA MaintenanceMoves ==
  ASSUME StorageInv, MaintenanceStep
  PROVE  \A j \in Identities : OneRow(j) /\ NoCredit(j)
<1>1. StorageTypeOK
  BY DEF StorageInv
<1>2. ASSUME NEW cutoff \in Times,
             ReapExpiredReservations(cutoff) \/ CleanupSpentRequests(cutoff)
      PROVE  \A j \in Identities : OneRow(j) /\ NoCredit(j)
  BY <1>1, <1>2, UnmovedBalances DEF ReapExpiredReservations, CleanupSpentRequests
<1>3. ASSUME NEW r \in RequestIds, ReapRow(r)
      PROVE  \A j \in Identities : OneRow(j) /\ NoCredit(j)
  <2>1. HasStatus(r, "reserved")
    BY <1>3 DEF ReapRow, StorageInv, StorageTypeOK, ExpiredAreReserved
  <2> QED  BY <1>3, <2>1, RefundMoves DEF ReapRow, Reasons
<1> QED  BY <1>2, <1>3 DEF MaintenanceStep

LEMMA CreditMoves ==
  ASSUME StorageInv, NEW o \in Outputs, NEW i \in Identities, NEW amount \in Nat,
         Credit(o, i, amount)
  PROVE  \A j \in Identities : OneRow(j) /\ NoCredit(j)
<1>1. StorageTypeOK
  BY DEF StorageInv
<1>2. balance[i] + amount \in Int /\ amount \in Int /\ amount >= 0
  BY <1>1 DEF StorageTypeOK
<1>3. /\ balance' = [balance EXCEPT ![i] = balance[i] + amount]
      /\ AppendLedger(i, "deposit_credited", amount, o, balance[i] + amount)
  BY DEF Credit
<1> QED  BY <1>1, <1>2, <1>3, MovedBalance DEF Reasons

LEMMA DepositMoves ==
  ASSUME StorageInv, DepositStep
  PROVE  \A j \in Identities : OneRow(j) /\ NoCredit(j)
<1> USE StorageAssumption
<1>1. StorageTypeOK
  BY DEF StorageInv
<1>2. PICK o \in Outputs :
        \/ \E i \in Identities, amount \in Amounts, block \in Blocks :
             \/ InsertDeposit(o, i, amount, block)
             \/ InsertAndCreditDeposit(o, i, amount, block)
        \/ \E block \in Blocks : RemineDeposit(o, block)
        \/ CreditDeposit(o)
        \/ MarkDepositReorged(o)
  BY DEF DepositStep
<1>3. ASSUME NEW i \in Identities, NEW amount \in Amounts, NEW block \in Blocks,
             InsertAndCreditDeposit(o, i, amount, block)
      PROVE  \A j \in Identities : OneRow(j) /\ NoCredit(j)
  BY <1>3, CreditMoves DEF InsertAndCreditDeposit
<1>4. ASSUME NEW block \in Blocks,
             \/ \E i \in Identities, amount \in Amounts : InsertDeposit(o, i, amount, block)
             \/ RemineDeposit(o, block)
      PROVE  \A j \in Identities : OneRow(j) /\ NoCredit(j)
  BY <1>1, <1>4, UnmovedBalances DEF InsertDeposit, RemineDeposit
<1>5. CASE CreditDeposit(o)
  <2>1. deposits[o] \in DepositRow
    BY <1>1, <1>5 DEF CreditDeposit, StorageTypeOK
  <2>2. deposits[o].identity \in Identities /\ deposits[o].amount \in Nat
    BY <2>1 DEF DepositRow
  <2> QED  BY <1>5, <2>2, CreditMoves DEF CreditDeposit
<1>6. CASE MarkDepositReorged(o)
  <2>1. deposits[o] \in DepositRow
    BY <1>1, <1>6 DEF MarkDepositReorged, StorageTypeOK
  <2> DEFINE i == deposits[o].identity
             amount == deposits[o].amount
  <2>2. i \in Identities /\ amount \in Int
    BY <2>1 DEF DepositRow
  <2>3. CASE deposits[o].credited /\ i \in known
    <3>1. /\ balance[i] - amount \in Int /\ -amount \in Int
          /\ balance[i] - amount = balance[i] + (-amount)
      BY <1>1, <2>2 DEF StorageTypeOK
    <3>2. /\ balance' = [balance EXCEPT ![i] = balance[i] - amount]
          /\ AppendLedger(i, "reorg", -amount, o, balance[i] - amount)
      BY <1>6, <2>3 DEF MarkDepositReorged
    <3> HIDE DEF i, amount
    <3> QED  BY <1>1, <2>2, <3>1, <3>2, MovedBalance DEF Reasons
  <2>4. CASE ~(deposits[o].credited /\ i \in known)
    BY <1>1, <1>6, <2>4, UnmovedBalances DEF MarkDepositReorged
  <2> QED  BY <2>3, <2>4
<1> QED  BY <1>2, <1>3, <1>4, <1>5, <1>6

LEMMA StepMoves ==
  ASSUME StorageInv, StorageNext
  PROVE  \A j \in Identities : OneRow(j) /\ NoCredit(j)
BY PaymentMoves, MaintenanceMoves, DepositMoves DEF StorageNext

\* Every balance movement writes exactly one ledger row of exactly its amount,
\* and no ledger row is ever rewritten (interface.ts, B1).
THEOREM EveryMovementIsBooked == StorageSpec => OneRowPerMovement
<1>1. StorageInv /\ [StorageNext]_storageVars
        => [\A i \in Identities : OneRow(i)]_storageVars
  BY StepMoves
<1> QED  BY <1>1, InvAlways, PTL DEF StorageSpec, OneRowPerMovement

\* No payment is granted on credit: only a late commit or a reorg takes a
\* balance below zero.
THEOREM Prepaid == StorageSpec => OverdraftOnlyLate
<1>1. StorageInv /\ [StorageNext]_storageVars
        => [\A i \in Identities : NoCredit(i)]_storageVars
  BY StepMoves
<1> QED  BY <1>1, InvAlways, PTL DEF StorageSpec, OverdraftOnlyLate

-----------------------------------------------------------------------------
(* What one step may do to one row of spent_requests.                      *)
LEMMA SameRows ==
  ASSUME StorageTypeOK,
         \A r \in RequestIds : spent'[r] = spent[r] \/ spent[r] = NoRow \/ spent'[r] = NoRow
  PROVE  \A r \in RequestIds : OnlySettles(r)
<1> SUFFICES ASSUME NEW r \in RequestIds, spent[r] # NoRow, spent'[r] = spent[r]
             PROVE  OnlySettles(r)
  BY DEF OnlySettles
<1>1. spent[r] \in SpentRow
  BY RowThere
<1>2. spent[r] = [spent[r] EXCEPT !.status = spent[r].status]
  BY <1>1 DEF SpentRow
<1> QED  BY <1>1, <1>2 DEF OnlySettles, NextStatus, SpentRow, Statuses

LEMMA StatusMoves ==
  ASSUME StorageTypeOK, NEW r \in RequestIds, spent[r] # NoRow,
         NEW status \in NextStatus(spent[r].status), SetStatus(r, status)
  PROVE  \A q \in RequestIds : OnlySettles(q)
<1>1. spent[r] \in SpentRow
  BY RowThere
<1>2. spent' = [spent EXCEPT ![r] = [spent[r] EXCEPT !.status = status]]
  BY DEF SetStatus, StorageTypeOK
<1>3. spent'[r] = [spent[r] EXCEPT !.status = status]
  BY <1>2 DEF StorageTypeOK
<1>4. spent'[r].status = status
  BY <1>1, <1>3 DEF SpentRow
<1>5. OnlySettles(r)
  BY <1>3, <1>4 DEF OnlySettles
<1>6. \A q \in RequestIds : q # r => spent'[q] = spent[q]
  BY <1>2 DEF StorageTypeOK
<1>7. ASSUME NEW q \in RequestIds, q # r, spent[q] # NoRow PROVE OnlySettles(q)
  <2>1. spent[q] \in SpentRow
    BY <1>7, RowThere
  <2>2. spent[q] = [spent[q] EXCEPT !.status = spent[q].status]
    BY <2>1 DEF SpentRow
  <2> QED  BY <1>6, <1>7, <2>1, <2>2 DEF OnlySettles, NextStatus, SpentRow, Statuses
<1> QED  BY <1>5, <1>7 DEF OnlySettles

LEMMA InsertMoves ==
  ASSUME StorageTypeOK, NEW r \in RequestIds, spent[r] = NoRow, NEW row,
         spent' = [spent EXCEPT ![r] = row]
  PROVE  \A q \in RequestIds : OnlySettles(q)
<1>1. \A q \in RequestIds : spent'[q] = spent[q] \/ spent[q] = NoRow
  BY DEF StorageTypeOK
<1> QED  BY <1>1, SameRows

LEMMA StepSettles ==
  ASSUME StorageInv, StorageNext
  PROVE  \A q \in RequestIds : OnlySettles(q)
<1>1. StorageTypeOK
  BY DEF StorageInv
<1>2. CASE PaymentStep
  <2>1. ASSUME NEW r \in RequestIds, NEW i \in Identities, NEW issuedAt \in Times,
               NEW receivedAt \in Times,
               \/ \E amount \in Amounts :
                    \/ ReserveRefused(r, i, issuedAt, receivedAt, amount)
                    \/ ReserveGranted(r, i, issuedAt, receivedAt, amount)
               \/ RecordBalanceQuery(r, i, issuedAt, receivedAt)
        PROVE  \A q \in RequestIds : OnlySettles(q)
    BY <1>1, <2>1, InsertMoves
       DEF ReserveRefused, ReserveGranted, RecordBalanceQuery, InsertSpent
  <2>2. ASSUME NEW r \in RequestIds,
               CommitPayment(r) \/ RollbackPayment(r) \/ LateCommitPayment(r)
        PROVE  \A q \in RequestIds : OnlySettles(q)
    <3>1. CASE CommitPayment(r)
      BY <1>1, <3>1, StatusMoves DEF CommitPayment, HasStatus, NextStatus
    <3>2. CASE RollbackPayment(r)
      BY <1>1, <3>2, StatusMoves DEF RollbackPayment, Refund, HasStatus, NextStatus
    <3>3. CASE LateCommitPayment(r)
      BY <1>1, <3>3, StatusMoves DEF LateCommitPayment, HasStatus, NextStatus
    <3> QED  BY <2>2, <3>1, <3>2, <3>3
  <2> QED  BY <1>2, <2>1, <2>2 DEF PaymentStep
<1>3. CASE MaintenanceStep
  <2>1. ASSUME NEW cutoff \in Times,
               ReapExpiredReservations(cutoff) \/ CleanupSpentRequests(cutoff)
        PROVE  \A q \in RequestIds : OnlySettles(q)
    BY <1>1, <2>1, SameRows DEF ReapExpiredReservations, CleanupSpentRequests
  <2>2. ASSUME NEW r \in RequestIds, ReapRow(r)
        PROVE  \A q \in RequestIds : OnlySettles(q)
    <3>1. HasStatus(r, "reserved")
      BY <2>2 DEF ReapRow, StorageInv, StorageTypeOK, ExpiredAreReserved
    <3> QED  BY <1>1, <2>2, <3>1, StatusMoves DEF ReapRow, Refund, HasStatus, NextStatus
  <2> QED  BY <1>3, <2>1, <2>2 DEF MaintenanceStep
<1>4. CASE DepositStep
  <2>1. UNCHANGED spent
    BY <1>4 DEF DepositStep, InsertDeposit, InsertAndCreditDeposit, RemineDeposit,
                CreditDeposit, MarkDepositReorged
  <2> QED  BY <1>1, <2>1, SameRows
<1> QED  BY <1>2, <1>3, <1>4 DEF StorageNext

\* Rows of spent_requests only settle: reserved, then committed or error, and
\* error only into committed; payer, price and age never change.
THEOREM RowsSettleForward == StorageSpec => RowsOnlySettle
<1>1. StorageInv /\ [StorageNext]_storageVars
        => [\A r \in RequestIds : OnlySettles(r)]_storageVars
  BY StepSettles
<1> QED  BY <1>1, InvAlways, PTL DEF StorageSpec, RowsOnlySettle

-----------------------------------------------------------------------------
(* Sums over the lines of a statement.                                     *)

\* A new line adds its amount to the sums it belongs to and leaves the others.
LEMMA LineAppended ==
  ASSUME NEW entries \in Seq(LedgerEntry), NEW line \in LedgerEntry,
         NEW lines \in SUBSET (DOMAIN entries)
  PROVE  /\ SumOfLines(entries, lines) \in Int
         /\ SumOfLines(Append(entries, line), lines) = SumOfLines(entries, lines)
         /\ SumOfLines(Append(entries, line), lines \cup {Len(entries) + 1})
              = SumOfLines(entries, lines) + line.amount
<1> DEFINE longer == Append(entries, line)
           v == [n \in DOMAIN entries |-> entries[n].amount]
           w == [n \in DOMAIN longer |-> longer[n].amount]
           last == Len(entries) + 1
<1>1. /\ Len(entries) \in Nat /\ DOMAIN entries = 1..Len(entries)
      /\ \A n \in DOMAIN entries : entries[n] \in LedgerEntry
  OBVIOUS
<1>2. /\ DOMAIN longer = 1..last
      /\ \A n \in DOMAIN entries : longer[n] = entries[n]
      /\ longer[last] = line
  OBVIOUS
<1>3. /\ \A n \in lines : w[n] = v[n] /\ v[n] \in Int
      /\ w[last] = line.amount /\ line.amount \in Int
      /\ last \notin lines
  BY <1>1, <1>2 DEF LedgerEntry
<1>4. IsFiniteSet(lines)
  <2>1. IsFiniteSet(1..Len(entries))
    BY <1>1, FS_Interval
  <2> QED  BY <1>1, <2>1, FS_Subset
<1>5. /\ SumOfLines(entries, lines) = SumFunctionOnSet(v, lines)
      /\ SumOfLines(longer, lines) = SumFunctionOnSet(w, lines)
      /\ SumOfLines(longer, lines \cup {last}) = SumFunctionOnSet(w, lines \cup {last})
  BY DEF SumOfLines
<1> HIDE DEF v, w, last, longer
<1>6. SumFunctionOnSet(v, lines) \in Int
  BY <1>3, <1>4, SumInt
<1>7. SumFunctionOnSet(w, lines) = SumFunctionOnSet(v, lines)
  BY <1>3, <1>4, SumSame
<1>8. SumFunctionOnSet(w, lines \cup {last}) = SumFunctionOnSet(w, lines) + w[last]
  BY <1>3, <1>4, SumAdd
<1> QED  BY <1>3, <1>5, <1>6, <1>7, <1>8 DEF longer, last

\* The lines of a statement about one request or deposit.
LinesFor(entries, ref) == {n \in DOMAIN entries : entries[n].ref = ref}

SumFor(entries, ref) == SumOfLines(entries, LinesFor(entries, ref))

LEMMA SumForAppended ==
  ASSUME NEW entries \in Seq(LedgerEntry), NEW line \in LedgerEntry, NEW ref
  PROVE  /\ SumFor(entries, ref) \in Int
         /\ SumFor(Append(entries, line), ref)
              = IF line.ref = ref THEN SumFor(entries, ref) + line.amount
                                  ELSE SumFor(entries, ref)
<1>1. LinesFor(entries, ref) \in SUBSET (DOMAIN entries)
  BY DEF LinesFor
<1>2. LinesFor(Append(entries, line), ref)
        = IF line.ref = ref THEN LinesFor(entries, ref) \cup {Len(entries) + 1}
                            ELSE LinesFor(entries, ref)
  BY DEF LinesFor
<1> QED  BY <1>1, <1>2, LineAppended, SMTT(30) DEF SumFor

\* The lines that paid money in.
Credits(entries) == {n \in DOMAIN entries : entries[n].reason = "deposit_credited"}

LEMMA CreditsAppended ==
  ASSUME NEW entries \in Seq(LedgerEntry), NEW line \in LedgerEntry
  PROVE  /\ SumOfLines(entries, Credits(entries)) \in Int
         /\ SumOfLines(Append(entries, line), Credits(Append(entries, line)))
              = IF line.reason = "deposit_credited"
                THEN SumOfLines(entries, Credits(entries)) + line.amount
                ELSE SumOfLines(entries, Credits(entries))
<1>1. Credits(entries) \in SUBSET (DOMAIN entries)
  BY DEF Credits
<1>2. Credits(Append(entries, line))
        = IF line.reason = "deposit_credited" THEN Credits(entries) \cup {Len(entries) + 1}
                                              ELSE Credits(entries)
  BY DEF Credits
<1> DEFINE lines == Credits(entries)
           more == Credits(Append(entries, line))
           paidIn == line.reason = "deposit_credited"
<1>3. /\ lines \in SUBSET (DOMAIN entries)
      /\ more = IF paidIn THEN lines \cup {Len(entries) + 1} ELSE lines
  BY <1>1, <1>2
<1> HIDE DEF lines, more, paidIn
<1>4. /\ SumOfLines(entries, lines) \in Int
      /\ SumOfLines(Append(entries, line), lines) = SumOfLines(entries, lines)
      /\ SumOfLines(Append(entries, line), lines \cup {Len(entries) + 1})
           = SumOfLines(entries, lines) + line.amount
  BY <1>3, LineAppended
<1>5. SumOfLines(Append(entries, line), more)
        = IF paidIn THEN SumOfLines(entries, lines) + line.amount
                    ELSE SumOfLines(entries, lines)
  BY <1>3, <1>4
<1> QED  BY <1>4, <1>5 DEF lines, more, paidIn

\* An empty statement adds up to nothing.
LEMMA EmptyStatement ==
  ASSUME NEW ref
  PROVE  SumFor(<< >>, ref) = 0 /\ SumOfLines(<< >>, Credits(<< >>)) = 0
BY SumEmpty DEF SumFor, LinesFor, Credits, SumOfLines

\* A balance is the sum of the statement, not only its last line.
BalanceIsSum ==
  \A i \in Identities : balance[i] = SumOfLines(ledger[i], DOMAIN ledger[i])

LEMMA SumMoves ==
  ASSUME StorageTypeOK, StorageTypeOK', BalanceIsSum, \A i \in Identities : OneRow(i)
  PROVE  BalanceIsSum'
<1> SUFFICES ASSUME NEW i \in Identities
             PROVE  balance'[i] = SumOfLines(ledger'[i], DOMAIN ledger'[i])
  BY DEF BalanceIsSum
<1>1. ledger[i] \in Seq(LedgerEntry) /\ ledger'[i] \in Seq(LedgerEntry)
  BY DEF StorageTypeOK
<1>2. balance[i] = SumOfLines(ledger[i], DOMAIN ledger[i])
  BY DEF BalanceIsSum
<1>3. CASE ledger'[i] = ledger[i] /\ balance'[i] = balance[i]
  BY <1>2, <1>3
<1>4. CASE /\ Len(ledger'[i]) = Len(ledger[i]) + 1
           /\ \A n \in 1..Len(ledger[i]) : ledger'[i][n] = ledger[i][n]
           /\ balance'[i] = balance[i] + ledger'[i][Len(ledger'[i])].amount
  <2> DEFINE old == ledger[i]
             new == ledger'[i]
             line == new[Len(new)]
  <2>1. line \in LedgerEntry
    BY <1>1, <1>4
  <2>2. new = Append(old, line)
    BY <1>1, <1>4
  <2>3. DOMAIN new = DOMAIN old \cup {Len(old) + 1}
    BY <1>1, <1>4
  <2>4. DOMAIN old \in SUBSET (DOMAIN old)
    OBVIOUS
  <2>5. SumOfLines(Append(old, line), DOMAIN old \cup {Len(old) + 1})
          = SumOfLines(old, DOMAIN old) + line.amount
    BY <1>1, <2>1, <2>4, LineAppended
  <2> QED  BY <1>2, <1>4, <2>2, <2>3, <2>5
<1> QED  BY <1>3, <1>4 DEF OneRow

\* The balance of every identity is the sum of its ledger, whatever operations
\* ran: the comparison the reconciliation job makes never finds a mismatch.
THEOREM BalancesAreSums == StorageSpec => []BalanceIsSum
<1>1. StorageInit => BalanceIsSum
  <2> SUFFICES ASSUME StorageInit, NEW i \in Identities
               PROVE  balance[i] = SumOfLines(ledger[i], DOMAIN ledger[i])
    BY DEF BalanceIsSum
  <2>1. balance[i] = 0 /\ ledger[i] = << >> /\ DOMAIN ledger[i] = {}
    BY DEF StorageInit
  <2> QED  BY <2>1, SumEmpty DEF SumOfLines
<1>2. StorageInv /\ StorageInv' /\ BalanceIsSum /\ [StorageNext]_storageVars => BalanceIsSum'
  <2> SUFFICES ASSUME StorageInv, StorageInv', BalanceIsSum, [StorageNext]_storageVars
               PROVE  BalanceIsSum'
    OBVIOUS
  <2>1. CASE StorageNext
    BY <2>1, StepMoves, SumMoves DEF StorageInv
  <2>2. CASE UNCHANGED storageVars
    BY <2>2 DEF storageVars, BalanceIsSum
  <2> QED  BY <2>1, <2>2
<1> QED  BY <1>1, <1>2, InvAlways, PTL DEF StorageSpec
=============================================================================
