---------------------------- MODULE AccountProofs ----------------------------
(***************************************************************************)
(* What the facilitator charges: the ledger of a request through every     *)
(* race of handlers, reaper and cleanup, and the proof that the facilitator*)
(* implements the prepaid account of Account.                              *)
(***************************************************************************)
EXTENDS FacilitatorProofs

-----------------------------------------------------------------------------
(* What one step does to the rows and the money.                           *)

\* Nothing moves; a repeated commit may be acknowledged again.
Quiet ==
  /\ UNCHANGED <<known, balance, spent, ledger, burned>>
  /\ \/ UNCHANGED acked
     \/ \E r \in RequestIds : HasStatus(r, "committed") /\ acked' = acked \cup {r}

\* A fresh requestId is burned.
Burn(r, amount, status) ==
  /\ spent[r] = NoRow /\ r \notin burned
  /\ \E at \in Int : InsertSpent(r, Payer[r], IssuedAt[r], at, amount, status)
  /\ burned' = burned \cup {r}
  /\ UNCHANGED <<known, acked>>

Refused(r) == Burn(r, Price[r], "insufficient") /\ UNCHANGED <<balance, ledger>>

Queried(r) == Burn(r, 0, "committed") /\ UNCHANGED <<balance, ledger>>

Granted(r) ==
  /\ Burn(r, Price[r], "reserved")
  /\ Payer[r] \in known
  /\ balance[Payer[r]] >= Price[r]
  /\ balance' = [balance EXCEPT ![Payer[r]] = @ - Price[r]]
  /\ AppendLedger(Payer[r], "reserve", -Price[r], r, balance[Payer[r]] - Price[r])

Committed(r) ==
  /\ HasStatus(r, "reserved")
  /\ SetStatus(r, "committed")
  /\ acked' = acked \cup {r}
  /\ UNCHANGED <<known, balance, ledger, burned>>

Refunded(r) ==
  /\ HasStatus(r, "reserved")
  /\ \E reason \in {"rollback", "reaper_expired"} : Refund(r, reason)
  /\ UNCHANGED <<known, burned, acked>>

CommittedLate(r) ==
  /\ LateCommitPayment(r)
  /\ acked' = acked \cup {r}
  /\ UNCHANGED burned

Purged ==
  /\ spent' = [r \in RequestIds |->
                 IF spent[r] # NoRow /\ spent[r].issuedAt < now - CleanupHorizon
                 THEN NoRow ELSE spent[r]]
  /\ UNCHANGED <<known, balance, ledger, burned, acked>>

Credited(o, i, amount) ==
  /\ Credit(o, i, amount)
  /\ UNCHANGED <<spent, burned, acked>>

MoneyStep ==
  \/ Quiet
  \/ \E r \in RequestIds : \/ Refused(r) \/ Queried(r) \/ Granted(r)
                           \/ Committed(r) \/ Refunded(r) \/ CommittedLate(r)
  \/ Purged
  \/ \E o \in Outputs, i \in Identities, amount \in Nat : Credited(o, i, amount)

\* Whatever the facilitator does is one of these.
LEMMA MoneySteps ==
  ASSUME FacilitatorInv, [FacilitatorNext]_vars
  PROVE  MoneyStep
<1> USE FacilitatorAssumption, StorageAssumption
<1>1. StorageInv /\ StorageTypeOK /\ FacilitatorTypeOK /\ RowsMatchClaims
  BY DEF FacilitatorInv, StorageInv
<1>0. ASSUME UNCHANGED <<storageVars, burned, acked>> PROVE Quiet
  BY <1>0 DEF Quiet, storageVars
<1>2. ASSUME NEW c \in Calls, NEW r \in RequestIds,
             BeginReserve(c, r) \/ BeginQuery(c, r) \/ FailVerify(c)
      PROVE  Quiet
  BY <1>0, <1>2 DEF BeginReserve, BeginQuery, FailVerify
<1>3. ASSUME NEW c \in Calls, NEW r \in RequestIds, BeginCommit(c, r)
      PROVE  Quiet \/ Committed(r)
  <2>1. CASE CommitPayment(r)
    BY <1>3, <2>1 DEF BeginCommit, CommitPayment, Committed, HasStatus
  <2>2. CASE UNCHANGED <<storageVars, acked>>
    BY <1>0, <1>3, <2>2 DEF BeginCommit
  <2>3. CASE HasStatus(r, "committed") /\ acked' = acked \cup {r} /\ UNCHANGED storageVars
    BY <1>3, <2>3 DEF BeginCommit, Quiet, storageVars
  <2> QED  BY <1>3, <2>1, <2>2, <2>3 DEF BeginCommit
<1>4. ASSUME NEW c \in Calls, NEW r \in RequestIds, Rollback(c, r)
      PROVE  Quiet \/ Refunded(r)
  <2>1. CASE RollbackPayment(r)
    BY <1>4, <2>1 DEF Rollback, RollbackPayment, Refunded
  <2>2. CASE UNCHANGED storageVars
    BY <1>0, <1>4, <2>2 DEF Rollback
  <2> QED  BY <1>4, <2>1, <2>2 DEF Rollback
<1>5. ASSUME NEW c \in Calls, FinishCommit(c)
      PROVE  \E r \in RequestIds : Quiet \/ CommittedLate(r)
  <2> DEFINE r == call[c].request
  <2>1. r \in RequestIds
    BY <1>1, <1>5, WaitingTypes DEF FinishCommit
  <2>2. CASE LateCommitPayment(r) /\ acked' = acked \cup {r}
    <3>1. CommittedLate(r)
      BY <1>5, <2>2 DEF FinishCommit, CommittedLate
    <3> QED  BY <2>1, <3>1
  <2>3. CASE UNCHANGED <<storageVars, acked>>
    BY <1>0, <1>5, <2>1, <2>3 DEF FinishCommit
  <2> QED  BY <1>5, <2>2, <2>3 DEF FinishCommit
<1>6. ASSUME NEW c \in Calls, FinishReserve(c) \/ FinishQuery(c)
      PROVE  \E r \in RequestIds : Quiet \/ Refused(r) \/ Queried(r) \/ Granted(r)
  <2> DEFINE r == call[c].request
             at == call[c].checkedAt
  <2>1. /\ Waiting(c, "reserve") \/ Waiting(c, "query")
        /\ burned' = burned \cup {r} /\ UNCHANGED acked
        /\ \/ ReserveReplay(r)
           \/ ReserveRefused(r, Payer[r], IssuedAt[r], at, Price[r])
           \/ ReserveGranted(r, Payer[r], IssuedAt[r], at, Price[r])
           \/ RecordBalanceQuery(r, Payer[r], IssuedAt[r], at)
    BY <1>6 DEF FinishReserve, FinishQuery
  <2>2. r \in RequestIds /\ at \in Int
    BY <1>1, <2>1, WaitingTypes
  <2>3. BurnedOnce(r) /\ spent'[r] # NoRow
    BY <1>1, <1>6, <2>2, NotBurnedAgain, Burns
  <2> HIDE DEF r, at
  <2>4. CASE ReserveReplay(r)
    <3>1. spent[r] # NoRow /\ r \in burned /\ UNCHANGED storageVars
      BY <1>1, <2>2, <2>4 DEF ReserveReplay, RowsMatchClaims
    <3> QED  BY <1>0, <2>1, <2>2, <3>1
  <2>5. CASE ReserveRefused(r, Payer[r], IssuedAt[r], at, Price[r])
    <3>1. Refused(r)
      BY <2>1, <2>2, <2>3, <2>5 DEF ReserveRefused, Refused, Burn, BurnedOnce
    <3> QED  BY <2>2, <3>1
  <2>6. CASE ReserveGranted(r, Payer[r], IssuedAt[r], at, Price[r])
    <3>1. Granted(r)
      BY <2>1, <2>2, <2>3, <2>6 DEF ReserveGranted, Granted, Burn, BurnedOnce
    <3> QED  BY <2>2, <3>1
  <2>7. CASE RecordBalanceQuery(r, Payer[r], IssuedAt[r], at)
    <3>1. Queried(r)
      BY <2>1, <2>2, <2>3, <2>7 DEF RecordBalanceQuery, Queried, Burn, BurnedOnce
    <3> QED  BY <2>2, <3>1
  <2> QED  BY <2>1, <2>4, <2>5, <2>6, <2>7
<1>7. CASE Administration
  <2>1. ASSUME NEW o \in Outputs, NEW i \in Identities, NEW amount \in Amounts,
               AdminCredit(o, i, amount)
        PROVE  Credited(o, i, amount)
    BY <2>1 DEF AdminCredit, InsertAndCreditDeposit, Credited
  <2>2. ASSUME NEW i \in Identities, BlockIdentity(i) \/ UnblockIdentity(i)
        PROVE  Quiet
    BY <1>0, <2>2 DEF BlockIdentity, UnblockIdentity
  <2>3. Amounts \subseteq Nat
    OBVIOUS
  <2> QED  BY <1>7, <2>1, <2>2, <2>3 DEF Administration, MoneyStep
<1>8. CASE Maintenance
  <2>1. CASE RunReaper
    BY <2>1 DEF RunReaper, ReapExpiredReservations, Quiet, MoneyStep
  <2>2. ASSUME NEW r \in RequestIds, ReaperRow(r) PROVE Refunded(r)
    <3>1. HasStatus(r, "reserved")
      BY <1>1, <2>2 DEF ReaperRow, ReapRow, StorageInv, StorageTypeOK, ExpiredAreReserved
    <3> QED  BY <2>2, <3>1 DEF ReaperRow, ReapRow, Refunded
  <2>3. CASE RunCleanup
    BY <2>3 DEF RunCleanup, CleanupSpentRequests, Purged, MoneyStep
  <2> QED  BY <1>8, <2>1, <2>2, <2>3 DEF Maintenance, MoneyStep
<1>9. CASE Crash \/ Tick \/ UNCHANGED vars
  BY <1>0, <1>9 DEF Crash, Tick, vars, callVars, MoneyStep
<1>10. CASE Handler
  <2>1. ASSUME NEW c \in Calls, FailVerify(c) PROVE Quiet
    BY <1>0, <2>1 DEF FailVerify
  <2> QED  BY <1>2, <1>3, <1>4, <1>5, <1>6, <1>10, <2>1 DEF Handler, MoneyStep
<1> QED  BY <1>7, <1>8, <1>9, <1>10 DEF FacilitatorNext

-----------------------------------------------------------------------------
(* The ledger of a request.                                                *)

\* What the ledger shows for a requestId, by what became of it.
ChargesMatch(r) ==
  /\ NetOf(r) \in {0, -Price[r]}
  /\ r \in acked /\ WasReserved(r) => NetOf(r) = -Price[r]
  /\ r \notin burned => NetOf(r) = 0 /\ ~WasReserved(r) /\ r \notin acked
  /\ HasStatus(r, "insufficient") => NetOf(r) = 0 /\ ~WasReserved(r) /\ r \notin acked
  /\ HasStatus(r, "reserved") =>
       NetOf(r) = -Price[r] /\ spent[r].amount = Price[r] /\ WasReserved(r) /\ r \notin acked
  /\ HasStatus(r, "error") =>
       NetOf(r) = 0 /\ spent[r].amount = Price[r] /\ WasReserved(r) /\ r \notin acked
  /\ HasStatus(r, "committed") =>
       \/ NetOf(r) = -Price[r] /\ spent[r].amount = Price[r] /\ WasReserved(r) /\ r \in acked
       \/ NetOf(r) = 0 /\ spent[r].amount = 0 /\ ~WasReserved(r)

\* The inductive invariant of the charges.
ChargesInv == \A r \in RequestIds : ChargesMatch(r)

\* A new line counts for the request it names and for no other.
LEMMA NetAppended ==
  ASSUME StorageTypeOK,
         NEW i \in Identities, NEW reason \in Reasons, NEW amount \in Int,
         NEW ref \in RequestIds \cup Outputs, NEW after \in Int,
         AppendLedger(i, reason, amount, ref, after),
         NEW r \in RequestIds, ref = r => Payer[r] = i
  PROVE  /\ NetOf(r) \in Int
         /\ NetOf(r)' = IF ref = r THEN NetOf(r) + amount ELSE NetOf(r)
         /\ WasReserved(r)' <=> WasReserved(r) \/ (ref = r /\ reason = "reserve")
<1> DEFINE line == [reason |-> reason, amount |-> amount, ref |-> ref, balanceAfter |-> after]
           p == Payer[r]
           old == ledger[p]
<1>1. p \in Identities /\ line \in LedgerEntry /\ old \in Seq(LedgerEntry)
  BY FacilitatorAssumption DEF LedgerEntry, StorageTypeOK
<1>2. ledger'[p] = IF p = i THEN Append(old, line) ELSE old
  BY <1>1 DEF AppendLedger, StorageTypeOK
<1>3. /\ NetOf(r) = SumFor(old, r)
      /\ NetOf(r)' = SumFor(ledger'[p], r)
  BY DEF NetOf, SumFor, LinesFor
<1>4. line.ref = ref /\ line.amount = amount /\ line.reason = reason
  OBVIOUS
<1>5. /\ WasReserved(r) <=> \E n \in DOMAIN old : old[n].ref = r /\ old[n].reason = "reserve"
      /\ WasReserved(r)' <=> \E n \in DOMAIN ledger'[p] : /\ ledger'[p][n].ref = r
                                                          /\ ledger'[p][n].reason = "reserve"
  BY DEF WasReserved
<1> HIDE DEF line, old
<1>6. /\ SumFor(old, r) \in Int
      /\ SumFor(Append(old, line), r) = IF line.ref = r THEN SumFor(old, r) + line.amount
                                                         ELSE SumFor(old, r)
  BY <1>1, SumForAppended
<1>7. /\ DOMAIN Append(old, line) = DOMAIN old \cup {Len(old) + 1}
      /\ \A n \in DOMAIN old : Append(old, line)[n] = old[n]
      /\ Append(old, line)[Len(old) + 1] = line
  BY <1>1
<1>8. CASE p = i
  <2>1. ledger'[p] = Append(old, line)
    BY <1>2, <1>8
  <2>2. NetOf(r)' = IF ref = r THEN NetOf(r) + amount ELSE NetOf(r)
    BY <1>3, <1>4, <1>6, <2>1
  <2>3. WasReserved(r)' <=> WasReserved(r) \/ (line.ref = r /\ line.reason = "reserve")
    BY <1>5, <1>7, <2>1
  <2> QED  BY <1>3, <1>4, <1>6, <2>2, <2>3
<1>9. CASE p # i
  <2>1. ledger'[p] = old /\ ref # r
    BY <1>2, <1>9
  <2> QED  BY <1>3, <1>5, <1>6, <2>1
<1> QED  BY <1>8, <1>9

\* A step that does not concern r leaves its charges alone.
LEMMA OtherCharges ==
  ASSUME NEW r \in RequestIds, ChargesMatch(r), spent'[r] = spent[r],
         NetOf(r)' = NetOf(r), WasReserved(r)' <=> WasReserved(r),
         r \in burned' <=> r \in burned, r \in acked' <=> r \in acked
  PROVE  ChargesMatch(r)'
BY DEF ChargesMatch, HasStatus

LEMMA SameLedger ==
  ASSUME UNCHANGED ledger, NEW r \in RequestIds
  PROVE  NetOf(r)' = NetOf(r) /\ (WasReserved(r)' <=> WasReserved(r))
BY DEF NetOf, WasReserved

\* The row of a requestId after its status has been set.
LEMMA StatusSet ==
  ASSUME StorageTypeOK, NEW r \in RequestIds, spent[r] # NoRow,
         NEW status \in Statuses, SetStatus(r, status)
  PROVE  /\ spent'[r] # NoRow
         /\ spent'[r].status = status
         /\ spent'[r].amount = spent[r].amount
         /\ spent'[r].identity = spent[r].identity
         /\ \A q \in RequestIds : q # r => spent'[q] = spent[q]
<1>1. spent[r] \in SpentRow
  BY RowThere
<1>2. spent' = [spent EXCEPT ![r] = [spent[r] EXCEPT !.status = status]]
  BY DEF SetStatus, StorageTypeOK
<1>3. spent'[r] = [spent[r] EXCEPT !.status = status]
  BY <1>2 DEF StorageTypeOK
<1>4. spent'[r] \in SpentRow
  BY <1>1, <1>3 DEF SpentRow
<1>5. /\ spent'[r].status = status /\ spent'[r].amount = spent[r].amount
      /\ spent'[r].identity = spent[r].identity
  BY <1>1, <1>3 DEF SpentRow
<1>6. \A q \in RequestIds : q # r => spent'[q] = spent[q]
  BY <1>2 DEF StorageTypeOK
<1> QED  BY <1>4, <1>5, <1>6, NoRowAssumption

\* The row a burned requestId gets.
LEMMA RowBurned ==
  ASSUME StorageTypeOK, NEW r \in RequestIds, NEW amount \in Nat, NEW status \in Statuses,
         Burn(r, amount, status)
  PROVE  /\ spent'[r] # NoRow /\ spent'[r].status = status /\ spent'[r].amount = amount
         /\ spent[r] = NoRow /\ r \notin burned /\ burned' = burned \cup {r} /\ UNCHANGED acked
         /\ \A q \in RequestIds : q # r => spent'[q] = spent[q]
<1>1. PICK at \in Int : InsertSpent(r, Payer[r], IssuedAt[r], at, amount, status)
  BY DEF Burn
<1> DEFINE row == [identity |-> Payer[r], issuedAt |-> IssuedAt[r], receivedAt |-> at,
                   amount |-> amount, status |-> status]
<1>2. row \in SpentRow
  BY FacilitatorAssumption DEF SpentRow
<1>3. spent' = [spent EXCEPT ![r] = row]
  BY <1>1 DEF InsertSpent
<1>4. spent'[r] = row /\ \A q \in RequestIds : q # r => spent'[q] = spent[q]
  BY <1>3 DEF StorageTypeOK
<1>5. row # NoRow /\ row.status = status /\ row.amount = amount
  BY <1>2, NoRowAssumption
<1> QED  BY <1>4, <1>5 DEF Burn

\* One case per kind of step, and one request at a time.
LEMMA ChargesKept ==
  ASSUME FacilitatorInv, ChargesInv, [FacilitatorNext]_vars
  PROVE  ChargesInv'
<1>1. StorageInv /\ StorageTypeOK /\ FacilitatorTypeOK /\ RowsMatchClaims
  BY DEF FacilitatorInv, StorageInv
<1>2. \A r \in RequestIds : ChargesMatch(r) /\ NetOf(r) \in Int /\ Price[r] \in Nat
  BY FacilitatorAssumption DEF ChargesInv, ChargesMatch
<1>3. "reserve" \in Reasons /\ "rollback" \in Reasons /\ "reaper_expired" \in Reasons
      /\ "late_commit" \in Reasons /\ "deposit_credited" \in Reasons
  BY DEF Reasons
<1>4. "reserved" \in Statuses /\ "committed" \in Statuses /\ "error" \in Statuses
      /\ "insufficient" \in Statuses
  BY DEF Statuses
<1> SUFFICES ASSUME NEW q \in RequestIds PROVE ChargesMatch(q)'
  BY DEF ChargesInv
<1>5. ChargesMatch(q) /\ Price[q] \in Nat /\ Payer[q] \in Identities
  BY <1>2, FacilitatorAssumption
<1>6. CASE Quiet
  <2>1. NetOf(q)' = NetOf(q) /\ (WasReserved(q)' <=> WasReserved(q))
    BY <1>6, SameLedger DEF Quiet
  <2>2. spent'[q] = spent[q] /\ burned' = burned
    BY <1>6 DEF Quiet
  <2>3. CASE q \in acked' <=> q \in acked
    BY <1>5, <2>1, <2>2, <2>3, OtherCharges
  <2>4. CASE HasStatus(q, "committed")
    <3>1. q \in burned /\ (q \in acked => q \in acked')
      BY <1>1, <1>6, <2>4 DEF RowsMatchClaims, HasStatus, Quiet
    <3> QED  BY <1>5, <2>1, <2>2, <2>4, <3>1 DEF ChargesMatch, HasStatus
  <2> QED  BY <1>6, <2>3, <2>4 DEF Quiet
<1>7. ASSUME NEW r \in RequestIds, Refused(r) PROVE ChargesMatch(q)'
  <2>1. NetOf(q)' = NetOf(q) /\ (WasReserved(q)' <=> WasReserved(q))
    BY <1>7, SameLedger DEF Refused
  <2>2. /\ spent'[r] # NoRow /\ spent'[r].status = "insufficient"
        /\ r \notin burned /\ burned' = burned \cup {r} /\ UNCHANGED acked
        /\ \A p \in RequestIds : p # r => spent'[p] = spent[p]
    BY <1>1, <1>2, <1>4, <1>7, RowBurned DEF Refused
  <2>3. CASE q # r
    BY <1>5, <2>1, <2>2, <2>3, OtherCharges
  <2>4. CASE q = r
    BY <1>5, <2>1, <2>2, <2>4 DEF ChargesMatch, HasStatus
  <2> QED  BY <2>3, <2>4
<1>8. ASSUME NEW r \in RequestIds, Queried(r) PROVE ChargesMatch(q)'
  <2>1. NetOf(q)' = NetOf(q) /\ (WasReserved(q)' <=> WasReserved(q))
    BY <1>8, SameLedger DEF Queried
  <2>2. /\ spent'[r] # NoRow /\ spent'[r].status = "committed" /\ spent'[r].amount = 0
        /\ r \notin burned /\ burned' = burned \cup {r} /\ UNCHANGED acked
        /\ \A p \in RequestIds : p # r => spent'[p] = spent[p]
    BY <1>1, <1>4, <1>8, RowBurned DEF Queried
  <2>3. CASE q # r
    BY <1>5, <2>1, <2>2, <2>3, OtherCharges
  <2>4. CASE q = r
    BY <1>5, <2>1, <2>2, <2>4 DEF ChargesMatch, HasStatus
  <2> QED  BY <2>3, <2>4
<1>9. ASSUME NEW r \in RequestIds, Granted(r) PROVE ChargesMatch(q)'
  <2>1. /\ spent'[r] # NoRow /\ spent'[r].status = "reserved" /\ spent'[r].amount = Price[r]
        /\ r \notin burned /\ burned' = burned \cup {r} /\ UNCHANGED acked
        /\ \A p \in RequestIds : p # r => spent'[p] = spent[p]
    BY <1>1, <1>2, <1>4, <1>9, RowBurned DEF Granted
  <2>2. /\ AppendLedger(Payer[r], "reserve", -Price[r], r, balance[Payer[r]] - Price[r])
        /\ Payer[r] \in Identities /\ Price[r] \in Nat /\ -Price[r] \in Int
        /\ balance[Payer[r]] - Price[r] \in Int
    BY <1>1, <1>9, FacilitatorAssumption DEF Granted, StorageTypeOK
  <2>3. /\ NetOf(q)' = IF r = q THEN NetOf(q) + -Price[r] ELSE NetOf(q)
        /\ WasReserved(q)' <=> WasReserved(q) \/ r = q
    BY <1>1, <1>3, <2>2, NetAppended
  <2>4. CASE q # r
    BY <1>5, <2>1, <2>3, <2>4, OtherCharges
  <2>5. CASE q = r
    <3>1. NetOf(q) = 0 /\ q \notin acked
      BY <1>5, <2>1, <2>5 DEF ChargesMatch
    <3>2. NetOf(q)' = -Price[q]
      BY <1>5, <2>3, <2>5, <3>1
    <3> QED  BY <2>1, <2>3, <2>5, <3>1, <3>2 DEF ChargesMatch, HasStatus
  <2> QED  BY <2>4, <2>5
<1>10. ASSUME NEW r \in RequestIds, Committed(r) PROVE ChargesMatch(q)'
  <2>1. NetOf(q)' = NetOf(q) /\ (WasReserved(q)' <=> WasReserved(q))
    BY <1>10, SameLedger DEF Committed
  <2>2. /\ spent'[r] # NoRow /\ spent'[r].status = "committed"
        /\ spent'[r].amount = spent[r].amount
        /\ \A p \in RequestIds : p # r => spent'[p] = spent[p]
        /\ burned' = burned /\ acked' = acked \cup {r} /\ HasStatus(r, "reserved")
    BY <1>1, <1>4, <1>10, StatusSet DEF Committed, HasStatus
  <2>3. CASE q # r
    BY <1>5, <2>1, <2>2, <2>3, OtherCharges
  <2>4. CASE q = r
    <3>1. q \in burned
      BY <1>1, <2>2, <2>4 DEF RowsMatchClaims, HasStatus
    <3> QED  BY <1>5, <2>1, <2>2, <2>4, <3>1 DEF ChargesMatch, HasStatus
  <2> QED  BY <2>3, <2>4
<1>11. ASSUME NEW r \in RequestIds, Refunded(r) PROVE ChargesMatch(q)'
  <2>1. PICK reason \in {"rollback", "reaper_expired"} : Refund(r, reason)
    BY <1>11 DEF Refunded
  <2>2. /\ spent'[r] # NoRow /\ spent'[r].status = "error"
        /\ spent'[r].amount = spent[r].amount
        /\ \A p \in RequestIds : p # r => spent'[p] = spent[p]
        /\ burned' = burned /\ acked' = acked /\ HasStatus(r, "reserved")
    BY <1>1, <1>4, <1>11, <2>1, StatusSet DEF Refunded, Refund, HasStatus
  <2>3. /\ spent[r].identity = Payer[r] /\ spent[r].amount = Price[r] /\ r \in burned
        /\ NetOf(r) = -Price[r]
    BY <1>1, <1>2, <2>2 DEF RowsMatchClaims, ChargesMatch, HasStatus
  <2>4. /\ AppendLedger(Payer[r], reason, Price[r], r, balance[Payer[r]] + Price[r])
        /\ Payer[r] \in Identities /\ Price[r] \in Int /\ reason \in Reasons
        /\ balance[Payer[r]] + Price[r] \in Int /\ reason # "reserve"
    BY <1>1, <1>3, <2>1, <2>3, FacilitatorAssumption DEF Refund, StorageTypeOK
  <2>5. /\ NetOf(q)' = IF r = q THEN NetOf(q) + Price[r] ELSE NetOf(q)
        /\ WasReserved(q)' <=> WasReserved(q)
    BY <1>1, <2>4, NetAppended
  <2>6. CASE q # r
    BY <1>5, <2>2, <2>5, <2>6, OtherCharges
  <2>7. CASE q = r
    <3>1. NetOf(q)' = 0
      BY <1>5, <2>3, <2>5, <2>7
    <3>2. WasReserved(q) /\ q \notin acked
      BY <1>5, <2>2, <2>7 DEF ChargesMatch
    <3> QED  BY <2>2, <2>3, <2>5, <2>7, <3>1, <3>2 DEF ChargesMatch, HasStatus
  <2> QED  BY <2>6, <2>7
<1>12. ASSUME NEW r \in RequestIds, CommittedLate(r) PROVE ChargesMatch(q)'
  <2>1. /\ spent'[r] # NoRow /\ spent'[r].status = "committed"
        /\ spent'[r].amount = spent[r].amount
        /\ \A p \in RequestIds : p # r => spent'[p] = spent[p]
        /\ burned' = burned /\ acked' = acked \cup {r} /\ HasStatus(r, "error")
    BY <1>1, <1>4, <1>12, StatusSet DEF CommittedLate, LateCommitPayment, HasStatus
  <2>2. /\ spent[r].identity = Payer[r] /\ spent[r].amount = Price[r] /\ r \in burned
        /\ NetOf(r) = 0 /\ WasReserved(r)
    BY <1>1, <1>2, <2>1 DEF RowsMatchClaims, ChargesMatch, HasStatus
  <2>3. /\ AppendLedger(Payer[r], "late_commit", -Price[r], r, balance[Payer[r]] - Price[r])
        /\ Payer[r] \in Identities /\ -Price[r] \in Int
        /\ balance[Payer[r]] - Price[r] \in Int
    BY <1>1, <1>2, <1>12, <2>2, FacilitatorAssumption
       DEF CommittedLate, LateCommitPayment, StorageTypeOK
  <2>4. /\ NetOf(q)' = IF r = q THEN NetOf(q) + -Price[r] ELSE NetOf(q)
        /\ WasReserved(q)' <=> WasReserved(q)
    BY <1>1, <1>3, <2>3, NetAppended
  <2>5. CASE q # r
    BY <1>5, <2>1, <2>4, <2>5, OtherCharges
  <2>6. CASE q = r
    <3>1. NetOf(q)' = -Price[q]
      BY <1>5, <2>2, <2>4, <2>6
    <3> QED  BY <2>1, <2>2, <2>4, <2>6, <3>1 DEF ChargesMatch, HasStatus
  <2> QED  BY <2>5, <2>6
<1>13. CASE Purged
  <2>1. NetOf(q)' = NetOf(q) /\ (WasReserved(q)' <=> WasReserved(q))
    BY <1>13, SameLedger DEF Purged
  <2>2. (spent'[q] = NoRow \/ spent'[q] = spent[q]) /\ UNCHANGED <<burned, acked>>
    BY <1>13 DEF Purged
  <2> QED  BY <1>5, <2>1, <2>2 DEF ChargesMatch, HasStatus
<1>14. ASSUME NEW o \in Outputs, NEW i \in Identities, NEW amount \in Nat, Credited(o, i, amount)
       PROVE  ChargesMatch(q)'
  <2>1. /\ AppendLedger(i, "deposit_credited", amount, o, balance[i] + amount)
        /\ amount \in Int /\ balance[i] + amount \in Int /\ o # q
        /\ UNCHANGED <<spent, burned, acked>>
    BY <1>1, <1>14, StorageAssumption DEF Credited, Credit, StorageTypeOK
  <2>2. NetOf(q)' = NetOf(q) /\ (WasReserved(q)' <=> WasReserved(q))
    BY <1>1, <1>3, <2>1, NetAppended
  <2> QED  BY <1>5, <2>1, <2>2, OtherCharges
<1> QED  BY <1>6, <1>7, <1>8, <1>9, <1>10, <1>11, <1>12, <1>13, <1>14, MoneySteps DEF MoneyStep

LEMMA ChargesAlways == FacilitatorSpec => [](FacilitatorInv /\ ChargesInv)
<1>1. FacilitatorInit => ChargesInv
  <2> SUFFICES ASSUME FacilitatorInit, NEW r \in RequestIds PROVE ChargesMatch(r)
    BY DEF ChargesInv
  <2>1. /\ ledger[Payer[r]] = << >> /\ spent[r] = NoRow /\ acked = {}
    BY FacilitatorAssumption DEF FacilitatorInit, StorageInit
  <2>2. NetOf(r) = 0
    BY <2>1, EmptyStatement DEF NetOf, SumFor, LinesFor
  <2>3. ~WasReserved(r)
    BY <2>1 DEF WasReserved
  <2> QED  BY <2>1, <2>2, <2>3 DEF ChargesMatch, HasStatus
<1>2. FacilitatorInv /\ ChargesInv /\ [FacilitatorNext]_vars => ChargesInv'
  BY ChargesKept
<1> QED  BY <1>1, <1>2, FacilitatorInvAlways, PTL DEF FacilitatorSpec

\* While its row is there, the ledger shows for a request what its status says:
\* the price while it is reserved or committed, nothing once it is refused or
\* refunded.
THEOREM ChargesMatchStatuses == FacilitatorSpec => []ChargeMatchesStatus
<1>1. FacilitatorInv /\ ChargesInv => ChargeMatchesStatus
  <2> SUFFICES ASSUME FacilitatorInv, ChargesInv, NEW r \in RequestIds, spent[r] # NoRow
               PROVE  NetOf(r) = IF spent[r].status \in {"reserved", "committed"}
                                 THEN -spent[r].amount ELSE 0
    BY DEF ChargeMatchesStatus
  <2>1. spent[r].status \in Statuses
    BY RowThere DEF FacilitatorInv, StorageInv, SpentRow
  <2>2. ChargesMatch(r) /\ HasStatus(r, spent[r].status)
    BY DEF ChargesInv, HasStatus
  <2> QED  BY <2>1, <2>2 DEF ChargesMatch, Statuses
<1> QED  BY <1>1, ChargesAlways, PTL

\* No request costs more than its price once or earns its payer money, also
\* after its row has been purged.
THEOREM NeverChargedTwice == FacilitatorSpec => []ChargedAtMostOnce
<1>1. ChargesInv => ChargedAtMostOnce
  BY DEF ChargesInv, ChargesMatch, ChargedAtMostOnce
<1> QED  BY <1>1, ChargesAlways, PTL

\* Once a commit is acknowledged, the price stays charged: no rollback, reaper
\* or cleanup that comes later undoes it or takes it again.
THEOREM AckedCommitsAreFinal == FacilitatorSpec => []AckedCommitIsFinal
<1>1. FacilitatorInv /\ ChargesInv => AckedCommitIsFinal
  BY DEF FacilitatorInv, FacilitatorTypeOK, ChargesInv, ChargesMatch, AckedCommitIsFinal
<1> QED  BY <1>1, ChargesAlways, PTL

-----------------------------------------------------------------------------
(* The facilitator implements the prepaid account.                         *)

Funds == [i \in Identities |-> FundedWith(i)]

States == [r \in RequestIds |-> StateOf(r)]

\* A new line funds its identity if it credits a deposit.
LEMMA FundsAppended ==
  ASSUME StorageTypeOK,
         NEW i \in Identities, NEW reason \in Reasons, NEW amount \in Int,
         NEW ref \in RequestIds \cup Outputs, NEW after \in Int,
         AppendLedger(i, reason, amount, ref, after)
  PROVE  /\ Funds[i] \in Int
         /\ Funds' = IF reason = "deposit_credited"
                     THEN [Funds EXCEPT ![i] = Funds[i] + amount] ELSE Funds
<1> DEFINE line == [reason |-> reason, amount |-> amount, ref |-> ref, balanceAfter |-> after]
<1>1. line \in LedgerEntry /\ \A j \in Identities : ledger[j] \in Seq(LedgerEntry)
  BY DEF LedgerEntry, StorageTypeOK
<1>2. \A j \in Identities : ledger'[j] = IF j = i THEN Append(ledger[i], line) ELSE ledger[j]
  BY DEF AppendLedger, StorageTypeOK
<1>3. line.reason = reason /\ line.amount = amount
  OBVIOUS
<1>4. \A j \in Identities :
        /\ FundedWith(j) = SumOfLines(ledger[j], Credits(ledger[j]))
        /\ FundedWith(j)' = SumOfLines(ledger'[j], Credits(ledger'[j]))
  BY DEF FundedWith, Credits
<1> HIDE DEF line
<1>5. /\ FundedWith(i) \in Int
      /\ FundedWith(i)' = IF reason = "deposit_credited" THEN FundedWith(i) + amount
                                                         ELSE FundedWith(i)
  <2> DEFINE old == ledger[i]
  <2>1. /\ FundedWith(i) = SumOfLines(old, Credits(old))
        /\ FundedWith(i)' = SumOfLines(Append(old, line), Credits(Append(old, line)))
        /\ old \in Seq(LedgerEntry)
    BY <1>1, <1>2, <1>4
  <2> HIDE DEF old
  <2> QED  BY <1>1, <1>3, <2>1, CreditsAppended
<1>6. \A j \in Identities : j # i => FundedWith(j)' = FundedWith(j)
  BY <1>2, <1>4
<1> QED  BY <1>5, <1>6 DEF Funds

LEMMA SameFunds ==
  ASSUME UNCHANGED ledger
  PROVE  Funds' = Funds
BY DEF Funds, FundedWith

\* One request changes its state.
LEMMA OneState ==
  ASSUME NEW r \in RequestIds, NEW s, StateOf(r)' = s,
         \A q \in RequestIds : q # r => StateOf(q)' = StateOf(q)
  PROVE  States' = [States EXCEPT ![r] = s]
BY DEF States

LEMMA SameState ==
  ASSUME NEW r \in RequestIds, spent'[r] = spent[r],
         WasReserved(r)' <=> WasReserved(r),
         r \in burned' <=> r \in burned, r \in acked' <=> r \in acked
  PROVE  StateOf(r)' = StateOf(r)
BY DEF StateOf, HasStatus

\* The state of a request, read from its row or from what it left behind.
LEMMA StateByStatus ==
  ASSUME NEW r \in RequestIds, ChargesMatch(r), r \in burned \/ spent[r] = NoRow
  PROVE  /\ HasStatus(r, "reserved") => StateOf(r) = "held"
         /\ HasStatus(r, "error") => StateOf(r) = "released"
         /\ HasStatus(r, "insufficient") => StateOf(r) = "refused"
         /\ HasStatus(r, "committed") =>
              StateOf(r) = IF WasReserved(r) THEN "charged" ELSE "refused"
         /\ r \notin burned => StateOf(r) = "new"
BY DEF ChargesMatch, StateOf, HasStatus

LEMMA StateByStatusAfter ==
  ASSUME NEW r \in RequestIds, ChargesMatch(r)', r \in burned' \/ spent'[r] = NoRow
  PROVE  /\ HasStatus(r, "reserved")' => StateOf(r)' = "held"
         /\ HasStatus(r, "error")' => StateOf(r)' = "released"
         /\ HasStatus(r, "insufficient")' => StateOf(r)' = "refused"
         /\ HasStatus(r, "committed")' =>
              StateOf(r)' = IF WasReserved(r)' THEN "charged" ELSE "refused"
BY DEF ChargesMatch, StateOf, HasStatus

\* Every kind of step is a step of the account, or invisible to it.
LEMMA StepsOfAccount ==
  ASSUME FacilitatorInv, ChargesInv, FacilitatorInv', ChargesInv',
         [FacilitatorNext]_vars, \A r \in RequestIds : ReservationKept(r)
  PROVE  \/ UNCHANGED <<balance, Funds, States>>
         \/ \E i \in Identities :
              /\ Funds'[i] > Funds[i]
              /\ Funds' = [Funds EXCEPT ![i] = Funds'[i]]
              /\ balance' = [balance EXCEPT ![i] = @ + Funds'[i] - Funds[i]]
              /\ States' = States
         \/ \E r \in RequestIds :
              /\ Funds' = Funds
              /\ \/ /\ States[r] = "new"
                    /\ States' = [States EXCEPT ![r] = "refused"]
                    /\ balance' = balance
                 \/ /\ States[r] = "new"
                    /\ balance[Payer[r]] >= Price[r]
                    /\ States' = [States EXCEPT ![r] = "held"]
                    /\ balance' = [balance EXCEPT ![Payer[r]] = @ - Price[r]]
                 \/ /\ States[r] = "held"
                    /\ States' = [States EXCEPT ![r] = "charged"]
                    /\ balance' = balance
                 \/ /\ States[r] = "held"
                    /\ States' = [States EXCEPT ![r] = "released"]
                    /\ balance' = [balance EXCEPT ![Payer[r]] = @ - (-Price[r])]
                 \/ /\ States[r] = "released"
                    /\ States' = [States EXCEPT ![r] = "charged"]
                    /\ balance' = [balance EXCEPT ![Payer[r]] = @ - Price[r]]
<1>1. StorageInv /\ StorageTypeOK /\ FacilitatorTypeOK /\ RowsMatchClaims /\ RowsMatchClaims'
  BY DEF FacilitatorInv, StorageInv
<1>2. \A r \in RequestIds :
        /\ ChargesMatch(r) /\ ChargesMatch(r)' /\ Price[r] \in Nat
        /\ Payer[r] \in Identities /\ balance[Payer[r]] \in Int /\ NetOf(r) \in Int
        /\ r \in burned \/ spent[r] = NoRow
        /\ r \in burned' \/ spent'[r] = NoRow
  BY <1>1, FacilitatorAssumption
     DEF ChargesInv, ChargesMatch, RowsMatchClaims, StorageTypeOK
<1>3. "reserve" \in Reasons /\ "rollback" \in Reasons /\ "reaper_expired" \in Reasons
      /\ "late_commit" \in Reasons /\ "deposit_credited" \in Reasons
  BY DEF Reasons
<1>4. "reserved" \in Statuses /\ "committed" \in Statuses /\ "error" \in Statuses
      /\ "insufficient" \in Statuses
  BY DEF Statuses
<1>5. \A r \in RequestIds : States[r] = StateOf(r)
  BY DEF States
<1>6. CASE Quiet
  <2>1. Funds' = Funds /\ balance' = balance
    BY <1>6, SameFunds DEF Quiet
  <2>2. ASSUME NEW q \in RequestIds PROVE StateOf(q)' = StateOf(q)
    <3>1. WasReserved(q)' <=> WasReserved(q)
      BY <1>6, SameLedger DEF Quiet
    <3>2. spent'[q] = spent[q] /\ burned' = burned
      BY <1>6 DEF Quiet
    <3>3. CASE q \in acked' <=> q \in acked
      BY <3>1, <3>2, <3>3, SameState
    <3>4. CASE HasStatus(q, "committed")
      <4>1. HasStatus(q, "committed")'
        BY <3>2, <3>4 DEF HasStatus
      <4> QED  BY <1>2, <3>1, <3>4, <4>1, StateByStatus, StateByStatusAfter
    <3> QED  BY <1>6, <3>3, <3>4 DEF Quiet
  <2> QED  BY <2>1, <2>2 DEF States
<1>7. ASSUME NEW r \in RequestIds, Refused(r) \/ Queried(r)
      PROVE  /\ Funds' = Funds /\ States[r] = "new" /\ balance' = balance
             /\ States' = [States EXCEPT ![r] = "refused"]
  <2>1. UNCHANGED <<balance, ledger>>
    BY <1>7 DEF Refused, Queried
  <2>2. /\ spent'[r] # NoRow /\ spent'[r].status \in {"insufficient", "committed"}
        /\ r \notin burned /\ burned' = burned \cup {r} /\ UNCHANGED acked
        /\ \A p \in RequestIds : p # r => spent'[p] = spent[p]
    BY <1>1, <1>2, <1>4, <1>7, RowBurned DEF Refused, Queried
  <2>3. StateOf(r) = "new" /\ ~WasReserved(r)
    BY <1>2, <2>2, StateByStatus DEF ChargesMatch
  <2>4. ~WasReserved(r)'
    BY <2>1, <2>3, SameLedger
  <2>5. StateOf(r)' = "refused"
    BY <1>2, <2>2, <2>4, StateByStatusAfter DEF HasStatus
  <2>6. \A q \in RequestIds : q # r => StateOf(q)' = StateOf(q)
    BY <2>1, <2>2, SameLedger, SameState
  <2> QED  BY <1>5, <2>1, <2>3, <2>5, <2>6, SameFunds, OneState
<1>8. ASSUME NEW r \in RequestIds, Granted(r)
      PROVE  /\ Funds' = Funds /\ States[r] = "new" /\ balance[Payer[r]] >= Price[r]
             /\ States' = [States EXCEPT ![r] = "held"]
             /\ balance' = [balance EXCEPT ![Payer[r]] = @ - Price[r]]
  <2>1. /\ spent'[r] # NoRow /\ spent'[r].status = "reserved"
        /\ r \notin burned /\ burned' = burned \cup {r} /\ UNCHANGED acked
        /\ \A p \in RequestIds : p # r => spent'[p] = spent[p]
    BY <1>1, <1>2, <1>4, <1>8, RowBurned DEF Granted
  <2>2. /\ AppendLedger(Payer[r], "reserve", -Price[r], r, balance[Payer[r]] - Price[r])
        /\ Payer[r] \in Identities /\ -Price[r] \in Int /\ balance[Payer[r]] - Price[r] \in Int
    BY <1>2, <1>8 DEF Granted
  <2>3. Funds' = Funds
    BY <1>1, <1>3, <2>2, FundsAppended
  <2>4. \A q \in RequestIds : q # r => (WasReserved(q)' <=> WasReserved(q))
    BY <1>1, <1>3, <2>2, NetAppended
  <2>5. \A q \in RequestIds : q # r => StateOf(q)' = StateOf(q)
    BY <2>1, <2>4, SameState
  <2>6. StateOf(r) = "new" /\ StateOf(r)' = "held"
    BY <1>2, <2>1, StateByStatus, StateByStatusAfter DEF HasStatus
  <2> QED  BY <1>5, <1>8, <2>3, <2>5, <2>6, OneState DEF Granted
<1>9. ASSUME NEW r \in RequestIds, Committed(r)
      PROVE  /\ Funds' = Funds /\ States[r] = "held" /\ balance' = balance
             /\ States' = [States EXCEPT ![r] = "charged"]
  <2>1. /\ spent'[r] # NoRow /\ spent'[r].status = "committed"
        /\ \A p \in RequestIds : p # r => spent'[p] = spent[p]
        /\ burned' = burned /\ acked' = acked \cup {r} /\ HasStatus(r, "reserved")
        /\ UNCHANGED <<balance, ledger>>
    BY <1>1, <1>4, <1>9, StatusSet DEF Committed, HasStatus
  <2>2. \A q \in RequestIds : q # r => StateOf(q)' = StateOf(q)
    BY <2>1, SameLedger, SameState
  <2>3. StateOf(r) = "held" /\ WasReserved(r)'
    BY <1>2, <2>1, SameLedger, StateByStatus DEF ChargesMatch
  <2>4. StateOf(r)' = "charged"
    BY <1>2, <2>1, <2>3, StateByStatusAfter DEF HasStatus
  <2> QED  BY <1>5, <2>1, <2>2, <2>3, <2>4, SameFunds, OneState
<1>10. ASSUME NEW r \in RequestIds, Refunded(r)
       PROVE  /\ Funds' = Funds /\ States[r] = "held"
              /\ States' = [States EXCEPT ![r] = "released"]
              /\ balance' = [balance EXCEPT ![Payer[r]] = @ - (-Price[r])]
  <2>1. PICK reason \in {"rollback", "reaper_expired"} : Refund(r, reason)
    BY <1>10 DEF Refunded
  <2>2. /\ spent'[r] # NoRow /\ spent'[r].status = "error"
        /\ \A p \in RequestIds : p # r => spent'[p] = spent[p]
        /\ burned' = burned /\ acked' = acked /\ HasStatus(r, "reserved")
    BY <1>1, <1>4, <1>10, <2>1, StatusSet DEF Refunded, Refund, HasStatus
  <2>3. spent[r].identity = Payer[r] /\ spent[r].amount = Price[r]
    BY <1>1, <1>2, <2>2 DEF RowsMatchClaims, ChargesMatch, HasStatus
  <2>4. /\ AppendLedger(Payer[r], reason, Price[r], r, balance[Payer[r]] + Price[r])
        /\ Price[r] \in Int /\ reason \in Reasons /\ Payer[r] \in Identities
        /\ balance[Payer[r]] + Price[r] \in Int
        /\ reason \notin {"reserve", "deposit_credited"}
        /\ balance' = [balance EXCEPT ![Payer[r]] = @ + Price[r]]
    BY <1>2, <1>3, <2>1, <2>3 DEF Refund
  <2>5. Funds' = Funds
    BY <1>1, <2>4, FundsAppended
  <2>6. \A q \in RequestIds : WasReserved(q)' <=> WasReserved(q)
    BY <1>1, <2>4, NetAppended
  <2>7. \A q \in RequestIds : q # r => StateOf(q)' = StateOf(q)
    BY <2>2, <2>6, SameState
  <2>8. StateOf(r) = "held" /\ StateOf(r)' = "released"
    BY <1>2, <2>2, StateByStatus, StateByStatusAfter DEF HasStatus
  <2>9. balance' = [balance EXCEPT ![Payer[r]] = @ - (-Price[r])]
    <3>1. balance[Payer[r]] + Price[r] = balance[Payer[r]] - (-Price[r])
      BY <1>2
    <3> QED  BY <2>4, <3>1, Zenon
  <2> QED  BY <1>5, <2>5, <2>7, <2>8, <2>9, OneState
<1>11. ASSUME NEW r \in RequestIds, CommittedLate(r)
       PROVE  /\ Funds' = Funds /\ States[r] = "released"
              /\ States' = [States EXCEPT ![r] = "charged"]
              /\ balance' = [balance EXCEPT ![Payer[r]] = @ - Price[r]]
  <2>1. /\ spent'[r] # NoRow /\ spent'[r].status = "committed"
        /\ \A p \in RequestIds : p # r => spent'[p] = spent[p]
        /\ burned' = burned /\ acked' = acked \cup {r} /\ HasStatus(r, "error")
    BY <1>1, <1>4, <1>11, StatusSet DEF CommittedLate, LateCommitPayment, HasStatus
  <2>2. spent[r].identity = Payer[r] /\ spent[r].amount = Price[r] /\ WasReserved(r)
    BY <1>1, <1>2, <2>1 DEF RowsMatchClaims, ChargesMatch, HasStatus
  <2>3. /\ AppendLedger(Payer[r], "late_commit", -Price[r], r, balance[Payer[r]] - Price[r])
        /\ -Price[r] \in Int /\ Payer[r] \in Identities
        /\ balance[Payer[r]] - Price[r] \in Int
        /\ balance' = [balance EXCEPT ![Payer[r]] = @ - Price[r]]
    BY <1>2, <1>11, <2>2 DEF CommittedLate, LateCommitPayment
  <2>4. Funds' = Funds
    BY <1>1, <1>3, <2>3, FundsAppended
  <2>5. \A q \in RequestIds : WasReserved(q)' <=> WasReserved(q)
    BY <1>1, <1>3, <2>3, NetAppended
  <2>6. \A q \in RequestIds : q # r => StateOf(q)' = StateOf(q)
    BY <2>1, <2>5, SameState
  <2>7. StateOf(r) = "released" /\ StateOf(r)' = "charged"
    BY <1>2, <2>1, <2>2, <2>5, StateByStatus, StateByStatusAfter DEF HasStatus
  <2> QED  BY <1>5, <2>3, <2>4, <2>6, <2>7, OneState
<1>12. CASE Purged
  <2>1. Funds' = Funds /\ balance' = balance /\ UNCHANGED <<burned, acked>>
    BY <1>12, SameFunds DEF Purged
  <2>2. ASSUME NEW q \in RequestIds PROVE StateOf(q)' = StateOf(q)
    <3>1. WasReserved(q)' <=> WasReserved(q)
      BY <1>12, SameLedger DEF Purged
    <3>2. spent'[q] = spent[q] \/ (spent'[q] = NoRow /\ ~HasStatus(q, "reserved"))
      BY <1>12 DEF Purged, ReservationKept
    <3>3. CASE spent'[q] = spent[q]
      BY <2>1, <3>1, <3>3, SameState
    <3>4. CASE spent'[q] = NoRow /\ ~HasStatus(q, "reserved")
      BY <2>1, <3>1, <3>4 DEF StateOf, HasStatus
    <3> QED  BY <3>2, <3>3, <3>4
  <2> QED  BY <2>1, <2>2 DEF States
<1>13. ASSUME NEW o \in Outputs, NEW i \in Identities, NEW amount \in Nat, Credited(o, i, amount)
       PROVE  /\ States' = States
              /\ Funds[i] \in Int
              /\ Funds' = [Funds EXCEPT ![i] = Funds[i] + amount]
              /\ balance' = [balance EXCEPT ![i] = @ + amount]
  <2>1. /\ AppendLedger(i, "deposit_credited", amount, o, balance[i] + amount)
        /\ amount \in Int /\ balance[i] + amount \in Int
        /\ UNCHANGED <<spent, burned, acked>>
        /\ \A r \in RequestIds : o # r
    BY <1>1, <1>13, StorageAssumption DEF Credited, Credit, StorageTypeOK
  <2>2. \A q \in RequestIds : WasReserved(q)' <=> WasReserved(q)
    BY <1>1, <1>3, <2>1, NetAppended
  <2>3. \A q \in RequestIds : StateOf(q)' = StateOf(q)
    BY <2>1, <2>2, SameState
  <2>4. Funds[i] \in Int /\ Funds' = [Funds EXCEPT ![i] = Funds[i] + amount]
    BY <1>1, <1>3, <2>1, FundsAppended
  <2>5. balance' = [balance EXCEPT ![i] = @ + amount]
    BY <1>13 DEF Credited, Credit
  <2> QED  BY <2>3, <2>4, <2>5 DEF States
<1>14. ASSUME NEW o \in Outputs, NEW i \in Identities, NEW amount \in Nat, Credited(o, i, amount)
       PROVE  \/ UNCHANGED <<balance, Funds, States>>
              \/ /\ Funds'[i] > Funds[i]
                 /\ Funds' = [Funds EXCEPT ![i] = Funds'[i]]
                 /\ balance' = [balance EXCEPT ![i] = @ + Funds'[i] - Funds[i]]
                 /\ States' = States
  <2>1. /\ States' = States
        /\ Funds[i] \in Int
        /\ Funds' = [Funds EXCEPT ![i] = Funds[i] + amount]
        /\ balance' = [balance EXCEPT ![i] = @ + amount]
    BY <1>13, <1>14
  <2>2. /\ Funds = [j \in Identities |-> Funds[j]]
        /\ balance \in [Identities -> Int]
    BY <1>1 DEF Funds, StorageTypeOK
  <2> HIDE DEF Funds
  <2>3. Funds'[i] = Funds[i] + amount
    BY <2>1, <2>2
  <2>4. CASE amount = 0
    <3>1. Funds' = Funds
      BY <2>1, <2>2, <2>4
    <3>2. balance' = balance
      BY <2>1, <2>2, <2>4
    <3> QED  BY <2>1, <3>1, <3>2
  <2>5. CASE amount > 0
    <3>1. Funds'[i] > Funds[i]
      BY <2>1, <2>3, <2>5
    <3>3. Funds' = [Funds EXCEPT ![i] = Funds'[i]]
      BY <2>1, <2>3, Zenon
    <3>2. balance[i] + Funds'[i] - Funds[i] = balance[i] + amount
      BY <2>1, <2>2, <2>3
    <3> QED  BY <2>1, <3>1, <3>2, <3>3
  <2> QED  BY <2>4, <2>5
<1> QED  BY <1>6, <1>7, <1>8, <1>9, <1>10, <1>11, <1>12, <1>14, MoneySteps DEF MoneyStep

\* Every run of the facilitator is a run of the prepaid account, if cleanup
\* leaves the reaper its time: money is held, charged, released and charged late
\* exactly as Account allows; purged rows, replays, crashes and repeated calls
\* are invisible to it.
THEOREM AccountImplemented ==
  ASSUME HorizonCoversReaper
  PROVE  FacilitatorSpec => ImplementsAccount
<1>1. FacilitatorInit => AccountView!AccountInit
  <2> SUFFICES ASSUME FacilitatorInit PROVE AccountView!AccountInit
    OBVIOUS
  <2>1. \A i \in Identities : FundedWith(i) = 0
    <3> SUFFICES ASSUME NEW i \in Identities PROVE FundedWith(i) = 0
      OBVIOUS
    <3>1. ledger[i] = << >>
      BY DEF FacilitatorInit, StorageInit
    <3> QED  BY <3>1, EmptyStatement DEF FundedWith, Credits
  <2>2. \A r \in RequestIds : StateOf(r) = "new"
    <3> SUFFICES ASSUME NEW r \in RequestIds PROVE StateOf(r) = "new"
      OBVIOUS
    <3>1. spent[r] = NoRow /\ ledger[Payer[r]] = << >> /\ burned = {}
      BY FacilitatorAssumption DEF FacilitatorInit, StorageInit
    <3> QED  BY <3>1 DEF StateOf, HasStatus, WasReserved
  <2> QED  BY <2>1, <2>2 DEF FacilitatorInit, StorageInit, AccountView!AccountInit
<1>2. FacilitatorInv /\ ChargesInv /\ HeldAreYoung /\ FacilitatorInv' /\ ChargesInv'
        /\ [FacilitatorNext]_vars
          => [AccountView!AccountNext]_(AccountView!accountVars)
  <2> SUFFICES ASSUME FacilitatorInv, ChargesInv, HeldAreYoung, FacilitatorInv', ChargesInv',
                      [FacilitatorNext]_vars
               PROVE  [AccountView!AccountNext]_(AccountView!accountVars)
    OBVIOUS
  <2>1. \A r \in RequestIds : ReservationKept(r)
    BY HeldRowsStay
  <2> QED  BY <2>1, StepsOfAccount
           DEF AccountView!AccountNext, AccountView!accountVars, AccountView!Fund,
               AccountView!Refuse, AccountView!Hold, AccountView!Charge,
               AccountView!Release, AccountView!ChargeLate, AccountView!Become,
               AccountView!Pay, Funds, States
<1> QED  BY <1>1, <1>2, ChargesAlways, HeldAlways, PTL
         DEF FacilitatorSpec, ImplementsAccount, AccountView!AccountSpec

-----------------------------------------------------------------------------
(* Repeated commits.                                                       *)

\* One handler at a time, as one process runs the synchronous storage calls.
OneHandler == \A c, d \in Calls : c = d

\* A commit that waits for its second transaction finds the refunded row still
\* refunded, or purged; and the last answer was the truth.
LateCommitsWait ==
  /\ \A c \in Calls : Waiting(c, "commit") =>
       LET r == call[c].request
       IN r \in burned /\ (spent[r] = NoRow \/ HasStatus(r, "error"))
  /\ RepeatedCommitSucceeds

LEMMA NothingWaits ==
  ASSUME RepeatedCommitSucceeds', \A c \in Calls : ~Waiting(c, "commit")'
  PROVE  LateCommitsWait'
BY DEF LateCommitsWait

LEMMA LateCommitsKept ==
  ASSUME OneHandler, FacilitatorInv, LateCommitsWait, [FacilitatorNext]_vars
  PROVE  LateCommitsWait'
<1>1. StorageInv /\ StorageTypeOK /\ FacilitatorTypeOK /\ RowsMatchClaims
  BY DEF FacilitatorInv, StorageInv
<1>2. ASSUME NEW op, NEW r, NEW a, Answer(op, r, a), op # "commit" \/ a # "invalid-state"
      PROVE  RepeatedCommitSucceeds'
  BY <1>2 DEF Answer, RepeatedCommitSucceeds
<1>3. ASSUME answered' = NoRow PROVE RepeatedCommitSucceeds'
  BY <1>3 DEF RepeatedCommitSucceeds
<1>4. ASSUME NEW c \in Calls, Free(c), UNCHANGED call \/ Hang(c) PROVE \A d \in Calls : ~Waiting(d, "commit")'
  BY <1>4, <1>1 DEF OneHandler, Free, Waiting, Hang, FacilitatorTypeOK
<1>5. ASSUME NEW c \in Calls, Hang(c) PROVE \A d \in Calls : ~Waiting(d, "commit")'
  BY <1>5, <1>1 DEF OneHandler, Waiting, Hang, FacilitatorTypeOK
<1>6. ASSUME NEW c \in Calls, NEW r, NEW op \in {"reserve", "query"}, Wait(c, op, r)
      PROVE  \A d \in Calls : ~Waiting(d, "commit")'
  BY <1>6, <1>1 DEF OneHandler, Waiting, Wait, FacilitatorTypeOK
<1>7. ASSUME UNCHANGED <<call, burned>>, RepeatedCommitSucceeds',
             \A r \in RequestIds : \/ spent'[r] = spent[r] \/ spent'[r] = NoRow
                                   \/ HasStatus(r, "reserved")
      PROVE  LateCommitsWait'
  <2> SUFFICES ASSUME NEW c \in Calls, Waiting(c, "commit")
               PROVE  LET r == call[c].request
                      IN r \in burned /\ (spent'[r] = NoRow \/ HasStatus(r, "error")')
    BY <1>7 DEF LateCommitsWait, Waiting
  <2> DEFINE r == call[c].request
  <2>1. r \in RequestIds
    BY <1>1, WaitingTypes
  <2>2. r \in burned /\ (spent[r] = NoRow \/ HasStatus(r, "error"))
    BY DEF LateCommitsWait
  <2> QED  BY <1>7, <2>1, <2>2 DEF HasStatus
<1>8. ASSUME NEW c \in Calls, NEW r \in RequestIds,
             BeginReserve(c, r) \/ BeginQuery(c, r) \/ Rollback(c, r)
      PROVE  LateCommitsWait'
  <2>1. RepeatedCommitSucceeds'
    BY <1>2, <1>3, <1>8 DEF BeginReserve, BeginQuery, Rollback
  <2>2. \A d \in Calls : ~Waiting(d, "commit")'
    BY <1>4, <1>6, <1>8 DEF BeginReserve, BeginQuery, Rollback
  <2> QED  BY <2>1, <2>2, NothingWaits
<1>9. ASSUME NEW c \in Calls, FinishReserve(c) \/ FinishQuery(c) \/ FailVerify(c)
      PROVE  LateCommitsWait'
  <2>1. RepeatedCommitSucceeds'
    BY <1>2, <1>9 DEF FinishReserve, FinishQuery, FailVerify
  <2>2. \A d \in Calls : ~Waiting(d, "commit")'
    BY <1>5, <1>9 DEF FinishReserve, FinishQuery, FailVerify
  <2> QED  BY <2>1, <2>2, NothingWaits
<1>10. ASSUME NEW c \in Calls, NEW r \in RequestIds, BeginCommit(c, r)
       PROVE  LateCommitsWait'
  <2>1. CASE HasStatus(r, "error") /\ Wait(c, "commit", r) /\ answered' = NoRow
             /\ UNCHANGED <<storageVars, burned>>
    <3>1. call'[c].request = r /\ \A d \in Calls : d = c
      BY <1>1, <2>1 DEF OneHandler, Wait, FacilitatorTypeOK
    <3>2. r \in burned /\ HasStatus(r, "error")'
      BY <1>1, <2>1 DEF RowsMatchClaims, HasStatus, storageVars
    <3> QED  BY <1>3, <2>1, <3>1, <3>2 DEF LateCommitsWait
  <2>2. CASE Free(c) /\ UNCHANGED call /\ RepeatedCommitSucceeds'
    BY <1>4, <2>2, NothingWaits
  <2>3. CASE Answer("commit", r, "invalid-state") /\ HasStatus(r, "insufficient")
             /\ Free(c) /\ UNCHANGED <<storageVars, call>>
    <3>1. RepeatedCommitSucceeds'
      BY <2>3 DEF Answer, RepeatedCommitSucceeds, HasStatus, storageVars
    <3> QED  BY <1>4, <2>3, <3>1, NothingWaits
  <2> QED  BY <1>2, <1>10, <2>1, <2>2, <2>3 DEF BeginCommit
<1>11. ASSUME NEW c \in Calls, FinishCommit(c)
       PROVE  LateCommitsWait'
  <2> DEFINE r == call[c].request
  <2>1. spent[r] = NoRow \/ HasStatus(r, "error")
    BY <1>11 DEF FinishCommit, LateCommitsWait
  <2>2. RepeatedCommitSucceeds'
    <3>1. CASE Answer("commit", r, "late")
      BY <1>2, <3>1
    <3>2. CASE Answer("commit", r, "invalid-state") /\ ~HasStatus(r, "error") /\ UNCHANGED storageVars
      BY <2>1, <3>2 DEF Answer, RepeatedCommitSucceeds, HasStatus, storageVars
    <3> QED  BY <1>11, <3>1, <3>2 DEF FinishCommit
  <2>3. \A d \in Calls : ~Waiting(d, "commit")'
    BY <1>5, <1>11 DEF FinishCommit
  <2> QED  BY <2>2, <2>3, NothingWaits
<1>12. CASE Administration
  BY <1>3, <1>7, <1>12 DEF Administration, AdminCredit, InsertAndCreditDeposit,
     BlockIdentity, UnblockIdentity, storageVars
<1>13. CASE Maintenance
  <2>1. CASE RunReaper
    BY <1>3, <1>7, <2>1 DEF RunReaper, ReapExpiredReservations
  <2>2. CASE RunCleanup
    BY <1>3, <1>7, <2>2 DEF RunCleanup, CleanupSpentRequests
  <2>3. ASSUME NEW q \in RequestIds, ReaperRow(q) PROVE LateCommitsWait'
    <3>1. HasStatus(q, "reserved") /\ SetStatus(q, "error")
      BY <1>1, <2>3 DEF ReaperRow, ReapRow, StorageInv, StorageTypeOK, ExpiredAreReserved, Refund
    <3>2. \A r \in RequestIds : spent'[r] = spent[r] \/ HasStatus(r, "reserved")
      BY <1>1, <3>1 DEF SetStatus, StorageTypeOK
    <3> QED  BY <1>3, <1>7, <2>3, <3>2 DEF ReaperRow
  <2> QED  BY <1>13, <2>1, <2>2, <2>3 DEF Maintenance
<1>14. CASE Crash
  BY <1>3, <1>14, NothingWaits DEF Crash, Waiting
<1>15. CASE Tick
  BY <1>3, <1>7, <1>15 DEF Tick, storageVars
<1>16. CASE UNCHANGED vars
  BY <1>7, <1>16 DEF vars, callVars, storageVars, LateCommitsWait, RepeatedCommitSucceeds, HasStatus
<1> QED  BY <1>8, <1>9, <1>10, <1>11, <1>12, <1>13, <1>14, <1>15, <1>16
         DEF FacilitatorNext, Handler

\* A repeated commit of a committed payment is never refused by a process that
\* runs one handler at a time.  Two that meet between the transactions of a late
\* commit can be.
THEOREM RepeatedCommitsSucceed ==
  ASSUME OneHandler
  PROVE  FacilitatorSpec => []RepeatedCommitSucceeds
<1>1. FacilitatorInit => LateCommitsWait
  BY DEF FacilitatorInit, LateCommitsWait, Waiting, RepeatedCommitSucceeds
<1>2. FacilitatorInv /\ LateCommitsWait /\ [FacilitatorNext]_vars => LateCommitsWait'
  BY LateCommitsKept
<1>3. LateCommitsWait => RepeatedCommitSucceeds
  BY DEF LateCommitsWait
<1> QED  BY <1>1, <1>2, <1>3, FacilitatorInvAlways, PTL DEF FacilitatorSpec
=============================================================================
