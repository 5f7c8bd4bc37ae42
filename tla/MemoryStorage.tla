---------------------------- MODULE MemoryStorage ----------------------------
(***************************************************************************)
(* InMemoryStorage (packages/storage/src/memory.ts), the backend of tests  *)
(* and dry runs, in its own representation: Maps whose keys come and go,   *)
(* deposits addressed by a numeric id, one ledger array shared by all      *)
(* identities.  It implements Storage, the tables of the SQLite backend    *)
(* (ImplementsStorage).                                                    *)
(*                                                                         *)
(* Every method body is synchronous and hence one action.  The reaper's    *)
(* loop is one body too; it is taken row by row while nothing else runs    *)
(* (`reaping').  A method that returns without a change is no action.      *)
(*                                                                         *)
(* On top of it, the reads that promise something: a client that follows   *)
(* its statement page by page (LedgerController) while other requests keep *)
(* writing, the balance answer (BalanceController) and reconciliation      *)
(* (ReconciliationService).  The requestId such a query burns is           *)
(* RecordBalanceQuery, a step of its own.                                  *)
(*                                                                         *)
(* Abstracted: as in Storage.  The order in which a Map is iterated        *)
(* decides nothing but the order of refunds, and is left open.             *)
(***************************************************************************)
EXTENDS Integers, Sequences, FiniteSets, Functions, SequencesExt, FiniteSetsExt

CONSTANTS Identities, RequestIds, Outputs, Blocks, Amounts, Times, NoRow,
          Reader,      \* the identity whose statement is read
          PageLimit    \* entries per page

ASSUME PagingAssumption == Reader \in Identities /\ PageLimit \in Nat \ {0}

Row == [identity: Identities, issuedAt: Int, receivedAt: Int, amount: Nat,
        status: {"reserved", "committed", "error", "insufficient"}]

ASSUME RowAssumption ==
  /\ Amounts \subseteq Nat /\ Times \subseteq Int
  /\ NoRow \notin Row
  /\ NoRow \notin [identity: Identities, amount: Nat, block: Blocks, credited: BOOLEAN,
                  reorged: BOOLEAN]

VARIABLES identities,      \* identityId -> balanceSats
          spentRequests,   \* requestId -> row
          depositsByKey,   \* txid:vout -> row with its id
          entries,         \* the ledger array
          nextDepositId,
          reaping,         \* the reaper's cutoff and the rows not visited yet
          statement,       \* what the reader has got so far
          mismatches       \* what the last reconciliation run has found

memoryVars == <<identities, spentRequests, depositsByKey, entries, nextDepositId, reaping>>
readVars == <<statement, mismatches>>
vars == <<memoryVars, readVars>>

EmptyMap == [k \in {} |-> NoRow]

Has(map, k) == k \in DOMAIN map

\* Map.set and Map.delete.
Put(map, k, v) == [x \in DOMAIN map \cup {k} |-> IF x = k THEN v ELSE map[x]]
Without(map, ks) == Restrict(map, DOMAIN map \ ks)

NotReaping == [cutoff |-> 0, left |-> {}]

MemoryInit ==
  /\ identities = EmptyMap
  /\ spentRequests = EmptyMap
  /\ depositsByKey = EmptyMap
  /\ entries = << >>
  /\ nextDepositId = 1
  /\ reaping = NotReaping
  /\ statement = [lines |-> << >>, more |-> TRUE]
  /\ mismatches = {}

-----------------------------------------------------------------------------
(* Reads.                                                                  *)

\* Those the watcher has still to credit.
ListUncreditedDeposits ==
  {o \in DOMAIN depositsByKey : ~depositsByKey[o].credited /\ ~depositsByKey[o].reorged}

\* Deposits are found again by their id.
KeyOf(id) == {o \in DOMAIN depositsByKey : depositsByKey[o].id = id}

\* Array.filter: of some rows those of i behind a cursor, in their order, each
\* as it is shown.
RowsBehind(rows, i, afterId, shown) ==
  LET got[n \in 0..Len(rows)] ==
        IF n = 0 THEN << >>
        ELSE IF rows[n].identity = i /\ rows[n].id > afterId
             THEN Append(got[n - 1], shown[n])
        ELSE got[n - 1]
  IN got[Len(rows)]

EntriesOf(i) == RowsBehind(entries, i, 0, entries)

\* Array.slice from the start.
FirstOf(rows, limit) == SubSeq(rows, 1, IF Len(rows) < limit THEN Len(rows) ELSE limit)

\* Mutant: the limit is applied before the identity is looked at.
ListCutFirst(i, afterId, limit) ==
  SelectSeq(FirstOf(SelectSeq(entries, LAMBDA e : e.id > afterId), limit),
            LAMBDA e : e.identity = i)

\* The oldest `limit' rows of i behind the cursor.
ListLedgerEntries(i, afterId, limit) ==
  FirstOf(RowsBehind(entries, i, afterId, entries), limit)

\* assertBalanceInvariant: a method that meets a disagreement throws before it
\* changes anything.
BalanceAsserted(i) ==
  LET lines == EntriesOf(i)
  IN Has(identities, i) /\ lines # << >> => Last(lines).balanceAfter = identities[i]

-----------------------------------------------------------------------------
(* Writes.                                                                 *)

Running == reaping.left = {}

Appended(i, reason, amount, ref, after) ==
  entries' = Append(entries, [id |-> Len(entries) + 1, identity |-> i, reason |-> reason,
                              amount |-> amount, ref |-> ref, balanceAfter |-> after])

\* A movement of i's balance with its ledger row.
Move(i, reason, amount, ref) ==
  /\ BalanceAsserted(i)
  /\ identities' = [identities EXCEPT ![i] = @ + amount]
  /\ Appended(i, reason, amount, ref, identities[i] + amount)

NewRow(r, i, issuedAt, receivedAt, amount, status) ==
  spentRequests' = Put(spentRequests, r,
    [identity |-> i, issuedAt |-> issuedAt, receivedAt |-> receivedAt,
     amount |-> amount, status |-> status])

ReservePayment(r, i, issuedAt, receivedAt, amount) ==
  /\ Running
  /\ ~Has(spentRequests, r)
  /\ IF Has(identities, i) /\ identities[i] >= amount
     THEN /\ NewRow(r, i, issuedAt, receivedAt, amount, "reserved")
          /\ Move(i, "reserve", -amount, <<"request", r>>)
     ELSE /\ NewRow(r, i, issuedAt, receivedAt, amount, "insufficient")
          /\ UNCHANGED <<identities, entries>>
  /\ UNCHANGED <<depositsByKey, nextDepositId, reaping, readVars>>

\* A transition of a row that has `from' and whose identity is there.
Transition(r, from, to) ==
  /\ Has(spentRequests, r)
  /\ spentRequests[r].status = from
  /\ spentRequests' = [spentRequests EXCEPT ![r].status = to]

CommitPayment(r) ==
  /\ Running
  /\ Transition(r, "reserved", "committed")
  /\ UNCHANGED <<identities, depositsByKey, entries, nextDepositId, reaping, readVars>>

RollbackPayment(r) ==
  /\ Running
  /\ Transition(r, "reserved", "error")
  /\ LET row == spentRequests[r]
     IN Has(identities, row.identity)
        /\ Move(row.identity, "rollback", row.amount, <<"request", r>>)
  /\ UNCHANGED <<depositsByKey, nextDepositId, reaping, readVars>>

LateCommitPayment(r) ==
  /\ Running
  /\ Transition(r, "error", "committed")
  /\ LET row == spentRequests[r]
     IN Has(identities, row.identity)
        /\ Move(row.identity, "late_commit", -row.amount, <<"request", r>>)
  /\ UNCHANGED <<depositsByKey, nextDepositId, reaping, readVars>>

ReapExpiredReservations(cutoff) ==
  /\ Running
  /\ reaping' = [cutoff |-> cutoff, left |-> DOMAIN spentRequests]
  /\ UNCHANGED <<identities, spentRequests, depositsByKey, entries, nextDepositId, readVars>>

\* The rows the loop refunds; it passes over the others.
Expired(r) ==
  /\ spentRequests[r].status = "reserved"
  /\ spentRequests[r].receivedAt < reaping.cutoff
  /\ Has(identities, spentRequests[r].identity)

VisitRow(r) ==
  /\ r \in reaping.left
  /\ reaping' = [reaping EXCEPT !.left = @ \ {r}]
  /\ IF Expired(r)
     THEN LET row == spentRequests[r]
          IN /\ Transition(r, "reserved", "error")
             /\ Move(row.identity, "reaper_expired", row.amount, <<"request", r>>)
     ELSE UNCHANGED <<identities, spentRequests, entries>>
  /\ UNCHANGED <<depositsByKey, nextDepositId, readVars>>

CleanupSpentRequests(cutoff) ==
  /\ Running
  /\ spentRequests' = Without(spentRequests,
                        {r \in DOMAIN spentRequests : spentRequests[r].issuedAt < cutoff})
  /\ UNCHANGED <<identities, depositsByKey, entries, nextDepositId, reaping, readVars>>

RecordBalanceQuery(r, i, issuedAt, receivedAt) ==
  /\ Running
  /\ ~Has(spentRequests, r)
  /\ NewRow(r, i, issuedAt, receivedAt, 0, "committed")
  /\ UNCHANGED <<identities, depositsByKey, entries, nextDepositId, reaping, readVars>>

-----------------------------------------------------------------------------
(* Deposits.                                                               *)

NewDeposit(i, amount, block) ==
  [id |-> nextDepositId, identity |-> i, amount |-> amount, block |-> block,
   credited |-> FALSE, reorged |-> FALSE]

\* A key that is there already throws duplicate-deposit.
InsertDeposit(o, i, amount, block) ==
  /\ Running
  /\ ~Has(depositsByKey, o)
  /\ depositsByKey' = Put(depositsByKey, o, NewDeposit(i, amount, block))
  /\ nextDepositId' = nextDepositId + 1
  /\ UNCHANGED <<identities, spentRequests, entries, reaping, readVars>>

RemineDeposit(o, block) ==
  /\ Running
  /\ Has(depositsByKey, o)
  /\ depositsByKey' = [depositsByKey EXCEPT ![o].block = block, ![o].reorged = FALSE,
                                            ![o].credited = FALSE]
  /\ UNCHANGED <<identities, spentRequests, entries, nextDepositId, reaping, readVars>>

\* Mutant: an identity that has a balance already is set up anew.
CreditFresh(i, amount, id) ==
  /\ BalanceAsserted(i)
  /\ identities' = Put(identities, i, amount)
  /\ Appended(i, "deposit_credited", amount, <<"deposit", id>>, amount)

\* The money of creditDeposit: an identity without a record gets one.
CreditTo(i, amount, id) ==
  LET before == IF Has(identities, i) THEN identities[i] ELSE 0
  IN /\ BalanceAsserted(i)
     /\ identities' = Put(identities, i, before + amount)
     /\ Appended(i, "deposit_credited", amount, <<"deposit", id>>, before + amount)

CreditDeposit(id) ==
  /\ Running
  /\ \E o \in KeyOf(id) :
       LET deposit == depositsByKey[o]
       IN /\ ~deposit.reorged
          /\ ~deposit.credited
          /\ depositsByKey' = [depositsByKey EXCEPT ![o].credited = TRUE]
          /\ CreditTo(deposit.identity, deposit.amount, id)
  /\ UNCHANGED <<spentRequests, nextDepositId, reaping, readVars>>

InsertAndCreditDeposit(o, i, amount, block) ==
  /\ Running
  /\ ~Has(depositsByKey, o)
  /\ depositsByKey' = Put(depositsByKey, o,
                          [NewDeposit(i, amount, block) EXCEPT !.credited = TRUE])
  /\ CreditTo(i, amount, nextDepositId)
  /\ nextDepositId' = nextDepositId + 1
  /\ UNCHANGED <<spentRequests, reaping, readVars>>

MarkDepositReorged(id) ==
  /\ Running
  /\ \E o \in KeyOf(id) :
       LET deposit == depositsByKey[o]
       IN /\ ~deposit.reorged
          /\ depositsByKey' = [depositsByKey EXCEPT ![o].reorged = TRUE]
          /\ IF deposit.credited /\ Has(identities, deposit.identity)
             THEN Move(deposit.identity, "reorg", -deposit.amount, <<"deposit", id>>)
             ELSE UNCHANGED <<identities, entries>>
  /\ UNCHANGED <<spentRequests, nextDepositId, reaping, readVars>>

-----------------------------------------------------------------------------
(* What clients and operators read.                                        *)

\* The cursor the client passes on: the last line it has.
AfterId == IF statement.lines = << >> THEN 0 ELSE Last(statement.lines).id

\* One page of GET /v1/ledger; nextAfterId is there when the page is full.
ReadPage ==
  LET page == ListLedgerEntries(Reader, AfterId, PageLimit)
  IN /\ Running
     /\ statement.more
     /\ statement' = [lines |-> statement.lines \o page,
                      more |-> Len(page) = PageLimit]
     /\ UNCHANGED <<memoryVars, mismatches>>

SumReserved(i) ==
  MapThenSumSet(LAMBDA r : spentRequests[r].amount,
    {r \in DOMAIN spentRequests :
       spentRequests[r].identity = i /\ spentRequests[r].status = "reserved"})

\* The deposits in a set, taken together.
DepositSats(S) == MapThenSumSet(LAMBDA o : depositsByKey[o].amount, S)

SumPending(i) ==
  DepositSats({o \in ListUncreditedDeposits : depositsByKey[o].identity = i})

SumCredited ==
  DepositSats({o \in DOMAIN depositsByKey : depositsByKey[o].credited /\ ~depositsByKey[o].reorged})

\* The answer of GET /v1/balance.
BalanceAnswer(i) ==
  LET available == IF Has(identities, i) THEN identities[i] ELSE 0
  IN [available |-> available, reserved |-> SumReserved(i), pending |-> SumPending(i),
      balance |-> available + SumReserved(i)]

LedgerSummary(i) ==
  [sum |-> MapThenSumSet(LAMBDA n : EntriesOf(i)[n].amount, DOMAIN EntriesOf(i)),
   latest |-> IF EntriesOf(i) = << >> THEN NoRow ELSE Last(EntriesOf(i)).balanceAfter]

\* A reconciliation run: every identity's balance against the sum of its ledger
\* and against the last running balance.
Reconcile ==
  /\ Running
  /\ mismatches' = {i \in DOMAIN identities :
       \/ LedgerSummary(i).sum # identities[i]
       \/ LedgerSummary(i).latest # identities[i]}
  /\ UNCHANGED <<memoryVars, statement>>

-----------------------------------------------------------------------------
MemoryNext ==
  \/ \E r \in RequestIds :
       \/ \E i \in Identities, issuedAt, receivedAt \in Times :
            \/ RecordBalanceQuery(r, i, issuedAt, receivedAt)
            \/ \E amount \in Amounts : ReservePayment(r, i, issuedAt, receivedAt, amount)
       \/ CommitPayment(r) \/ RollbackPayment(r) \/ LateCommitPayment(r)
       \/ VisitRow(r)
  \/ \E cutoff \in Times : ReapExpiredReservations(cutoff) \/ CleanupSpentRequests(cutoff)
  \/ \E o \in Outputs, block \in Blocks :
       \/ RemineDeposit(o, block)
       \/ \E i \in Identities, amount \in Amounts :
            \/ InsertDeposit(o, i, amount, block)
            \/ InsertAndCreditDeposit(o, i, amount, block)
  \/ \E id \in 1..(nextDepositId - 1) : CreditDeposit(id) \/ MarkDepositReorged(id)
  \/ ReadPage
  \/ Reconcile

MemorySpec == MemoryInit /\ [][MemoryNext]_vars

-----------------------------------------------------------------------------
(* Properties.                                                             *)

\* The row a reference of the ledger points to, as Storage names it.
Referred(ref) == IF ref[1] = "request" THEN ref[2] ELSE CHOOSE o \in KeyOf(ref[2]) : TRUE

TableRow(d) == [identity |-> d.identity, amount |-> d.amount, block |-> d.block,
                credited |-> d.credited, reorged |-> d.reorged]

TableEntry(e) == [reason |-> e.reason, amount |-> e.amount, ref |-> Referred(e.ref),
                  balanceAfter |-> e.balanceAfter]

\* The tables that the Maps and the array stand for.
Balances == [i \in Identities |-> IF Has(identities, i) THEN identities[i] ELSE 0]

Requests == [r \in RequestIds |-> IF Has(spentRequests, r) THEN spentRequests[r] ELSE NoRow]

Deposits == [o \in Outputs |-> IF Has(depositsByKey, o) THEN TableRow(depositsByKey[o]) ELSE NoRow]

Statements ==
  LET shown == [n \in DOMAIN entries |-> TableEntry(entries[n])]
  IN [i \in Identities |-> RowsBehind(entries, i, 0, shown)]

ToRefund == {r \in reaping.left : Expired(r)}

Tables == INSTANCE StorageReads WITH
  known <- DOMAIN identities, balance <- Balances, spent <- Requests,
  deposits <- Deposits, ledger <- Statements, expired <- ToRefund

\* The in-memory backend is "semantically equivalent to the SQLite backend"
\* (memory.ts:27): seen as tables, whatever its methods do, in any order, some
\* transaction of Storage could have done, or nothing has changed.
ImplementsStorage == Tables!StorageSpec

\* The lines of a statement about requests, taken together.
TakenByRequests(lines) ==
  MapThenSumSet(LAMBDA n : lines[n].amount, {n \in DOMAIN lines : lines[n].ref[1] = "request"})

Total(lines) == MapThenSumSet(LAMBDA n : lines[n].amount, DOMAIN lines)

\* The answer to GET /v1/balance as SQLite would give it.
BalanceInTables(i) ==
  [available |-> Tables!AvailableSats(i), reserved |-> Tables!SumReservedSats(i),
   pending |-> Tables!SumPendingDepositSats(i),
   balance |-> Tables!AvailableSats(i) + Tables!SumReservedSats(i)]

\* A page as SQLite would give it, behind the lines the reader has.
PageInTables == Tables!ListLedgerEntries(Reader, Len(statement.lines), PageLimit)

\* The reads of an account tell the same, from either backend.  A client that
\* follows nextAfterId gets its whole statement: however pages and writes of
\* other requests interleave, and wherever a page happens to end, no line is
\* missing, repeated or another identity's (ledger.controller.ts:134-136).  When
\* it has got to the end, the lines add up to the available balance, and whatever
\* is reserved is among them as taken (balance.controller.ts:98-105).  And
\* reconciliation never finds a mismatch (reconciliation.service.ts:36-40).
ReadsAgree ==
  [][/\ statement' # statement =>
          /\ IsPrefix(statement'.lines, EntriesOf(Reader))
          /\ Len(statement'.lines) = Len(statement.lines) + Len(PageInTables)
          /\ ~statement'.more =>
               /\ statement'.lines = EntriesOf(Reader)
               /\ Total(statement'.lines) = BalanceAnswer(Reader).available
               /\ BalanceAnswer(Reader).reserved <= -TakenByRequests(statement'.lines)
               /\ BalanceAnswer(Reader) = BalanceInTables(Reader)
               /\ SumCredited = Tables!SumCreditedDeposits
               /\ LedgerSummary(Reader).sum = Tables!LedgerSum(Reader)
     /\ mismatches' = {}]_vars
=============================================================================
