-------------------------- MODULE FacilitatorProofs --------------------------
(***************************************************************************)
(* Proofs about Facilitator, for any number of payers, requests and calls, *)
(* any configuration and any schedule.                                     *)
(***************************************************************************)
EXTENDS Facilitator, StorageProofs

\* Rows belong to the signed claim and are remembered as burned; money is only
\* held for identities that have a row.
RowsMatchClaims ==
  \A r \in RequestIds : spent[r] # NoRow =>
    /\ r \in burned
    /\ spent[r].issuedAt = IssuedAt[r]
    /\ spent[r].identity = Payer[r]
    /\ spent[r].status = "reserved" => Payer[r] \in known

\* A burned requestId without a row is older than the retention horizon.
PurgedAreOld ==
  \A r \in burned : spent[r] = NoRow => IssuedAt[r] < now - CleanupHorizon

\* A signature check in flight is young, and its request was in the window.
ChecksAreYoung ==
  \A c \in Calls : Waiting(c, "reserve") \/ Waiting(c, "query") =>
    /\ call[c].checkedAt <= now
    /\ now <= call[c].checkedAt + RpcMax
    /\ call[c].checkedAt - IssuedAt[call[c].request] <= Tolerance

\* The inductive invariant.
FacilitatorInv ==
  /\ StorageInv
  /\ FacilitatorTypeOK
  /\ RowsMatchClaims
  /\ PurgedAreOld
  /\ ChecksAreYoung

-----------------------------------------------------------------------------
\* The storage's own invariant holds under the facilitator, which only goes
\* through the storage's operations.
LEMMA StorageKept ==
  ASSUME StorageInv, FacilitatorTypeOK, [FacilitatorNext]_vars
  PROVE  StorageInv'
<1> USE FacilitatorAssumption, StorageAssumption
<1>0. ASSUME UNCHANGED storageVars PROVE StorageInv'
  BY <1>0 DEF storageVars, StorageInv, StorageTypeOK, LedgerChained, BalanceIsLatest,
     RunningBalance, ExpiredAreReserved, HasStatus
<1>1. CASE Handler
  <2>1. ASSUME NEW c \in Calls, NEW r \in RequestIds,
               BeginReserve(c, r) \/ BeginQuery(c, r)
        PROVE  StorageInv'
    BY <1>0, <2>1 DEF BeginReserve, BeginQuery
  <2>2. ASSUME NEW c \in Calls, NEW r \in RequestIds, BeginCommit(c, r)
        PROVE  StorageInv'
    BY <1>0, <2>2, CommitKeepsInv DEF BeginCommit
  <2>3. ASSUME NEW c \in Calls, NEW r \in RequestIds, Rollback(c, r)
        PROVE  StorageInv'
    BY <1>0, <2>3, RollbackKeepsInv DEF Rollback
  <2>4. ASSUME NEW c \in Calls,
               Waiting(c, "reserve") \/ Waiting(c, "query") \/ Waiting(c, "commit")
        PROVE  call[c].request \in RequestIds /\ call[c].checkedAt \in Int
    BY <2>4 DEF FacilitatorTypeOK, Waiting, WaitingCall
  <2>5. ASSUME NEW c \in Calls, FinishReserve(c)
        PROVE  StorageInv'
    <3> DEFINE r == call[c].request
    <3>1. r \in RequestIds /\ call[c].checkedAt \in Int
      BY <2>4, <2>5 DEF FinishReserve
    <3>2. \/ ReserveReplay(r)
          \/ ReserveRefused(r, Payer[r], IssuedAt[r], call[c].checkedAt, Price[r])
          \/ ReserveGranted(r, Payer[r], IssuedAt[r], call[c].checkedAt, Price[r])
      BY <2>5 DEF FinishReserve
    <3> HIDE DEF r
    <3>3. Payer[r] \in Identities /\ IssuedAt[r] \in Int /\ Price[r] \in Nat
      BY <3>1
    <3>4. CASE ReserveReplay(r)
      BY <1>0, <3>4 DEF ReserveReplay
    <3> QED  BY <3>1, <3>2, <3>3, <3>4, ReserveKeepsInv
  <2>6. ASSUME NEW c \in Calls, FinishQuery(c)
        PROVE  StorageInv'
    <3> DEFINE r == call[c].request
    <3>1. r \in RequestIds /\ call[c].checkedAt \in Int
      BY <2>4, <2>6 DEF FinishQuery
    <3>2. \/ ReserveReplay(r)
          \/ RecordBalanceQuery(r, Payer[r], IssuedAt[r], call[c].checkedAt)
      BY <2>6 DEF FinishQuery
    <3> HIDE DEF r
    <3>3. Payer[r] \in Identities /\ IssuedAt[r] \in Int
      BY <3>1
    <3>4. CASE ReserveReplay(r)
      BY <1>0, <3>4 DEF ReserveReplay
    <3> QED  BY <3>1, <3>2, <3>3, <3>4, QueryKeepsInv
  <2>7. ASSUME NEW c \in Calls, FailVerify(c) PROVE StorageInv'
    BY <1>0, <2>7 DEF FailVerify
  <2>8. ASSUME NEW c \in Calls, FinishCommit(c) PROVE StorageInv'
    BY <1>0, <2>4, <2>8, LateCommitKeepsInv DEF FinishCommit
  <2> QED  BY <1>1, <2>1, <2>2, <2>3, <2>5, <2>6, <2>7, <2>8 DEF Handler
<1>2. CASE Administration
  <2>1. ASSUME NEW o \in Outputs, NEW i \in Identities, NEW amount \in Amounts,
               AdminCredit(o, i, amount)
        PROVE  StorageInv'
    BY <2>1, InsertAndCreditKeepsInv DEF AdminCredit
  <2>2. ASSUME NEW i \in Identities, BlockIdentity(i) \/ UnblockIdentity(i)
        PROVE  StorageInv'
    BY <1>0, <2>2 DEF BlockIdentity, UnblockIdentity
  <2> QED  BY <1>2, <2>1, <2>2 DEF Administration
<1>3. CASE Maintenance
  <2>1. now - ReserveTtl \in Int /\ now - CleanupHorizon \in Int
    BY DEF FacilitatorTypeOK, CleanupHorizon
  <2>2. CASE RunReaper
    BY <2>1, <2>2, ReapKeepsInv DEF RunReaper
  <2>3. ASSUME NEW r \in RequestIds, ReaperRow(r) PROVE StorageInv'
    BY <2>3, ReapRowKeepsInv DEF ReaperRow
  <2>4. CASE RunCleanup
    BY <2>1, <2>4, CleanupKeepsInv DEF RunCleanup
  <2> QED  BY <1>3, <2>2, <2>3, <2>4 DEF Maintenance
<1>4. CASE Crash \/ Tick \/ UNCHANGED vars
  BY <1>0, <1>4 DEF Crash, Tick, vars
<1> QED  BY <1>1, <1>2, <1>3, <1>4 DEF FacilitatorNext

LEMMA WaitingTypes ==
  ASSUME FacilitatorTypeOK, NEW c \in Calls,
         Waiting(c, "reserve") \/ Waiting(c, "query") \/ Waiting(c, "commit")
  PROVE  call[c].request \in RequestIds /\ call[c].checkedAt \in Int
BY DEF FacilitatorTypeOK, Waiting, WaitingCall

\* The facilitator's own variables stay well formed.
LEMMA TypeKept ==
  ASSUME FacilitatorTypeOK, StorageTypeOK', [FacilitatorNext]_vars
  PROVE  FacilitatorTypeOK'
<1> USE FacilitatorAssumption
<1>0. ASSUME call' \in [Calls -> WaitingCall \cup {NoRow}],
             answered' \in Response \cup {NoRow},
             burned' \subseteq RequestIds, acked' \subseteq RequestIds,
             UNCHANGED <<now, blockedAt, reapedAt>>
      PROVE  FacilitatorTypeOK'
  BY <1>0 DEF FacilitatorTypeOK
<1>1. ASSUME NEW c \in Calls, NEW r \in RequestIds, NEW op \in {"reserve", "query", "commit"},
             Wait(c, op, r)
      PROVE  call' \in [Calls -> WaitingCall \cup {NoRow}]
  BY <1>1 DEF Wait, WaitingCall, FacilitatorTypeOK
<1>2. ASSUME NEW c \in Calls, Hang(c)
      PROVE  call' \in [Calls -> WaitingCall \cup {NoRow}]
  BY <1>2 DEF Hang, FacilitatorTypeOK
<1>3. ASSUME NEW op \in {"reserve", "query", "commit", "rollback"},
             NEW r \in RequestIds, NEW a \in Answers, Answer(op, r, a)
      PROVE  answered' \in Response \cup {NoRow}
  BY <1>3 DEF Answer, Response
<1>4. CASE Handler
  <2>1. ASSUME NEW c \in Calls, NEW r \in RequestIds, BeginReserve(c, r)
        PROVE  FacilitatorTypeOK'
    <3>1. call' \in [Calls -> WaitingCall \cup {NoRow}]
      BY <1>1, <2>1 DEF BeginReserve, FacilitatorTypeOK
    <3>2. answered' \in Response \cup {NoRow}
      BY <1>3, <2>1 DEF BeginReserve, Answers
    <3>8. UNCHANGED <<now, blockedAt, reapedAt>>
      BY <2>1 DEF BeginReserve
    <3>9. burned' \subseteq RequestIds /\ acked' \subseteq RequestIds
      BY <2>1 DEF BeginReserve, FacilitatorTypeOK
    <3> QED  BY <1>0, <3>8, <3>9, <3>1, <3>2
  <2>2. ASSUME NEW c \in Calls, NEW r \in RequestIds, BeginQuery(c, r)
        PROVE  FacilitatorTypeOK'
    <3>1. call' \in [Calls -> WaitingCall \cup {NoRow}]
      BY <1>1, <2>2 DEF BeginQuery, FacilitatorTypeOK
    <3>2. answered' \in Response \cup {NoRow}
      BY <1>3, <2>2 DEF BeginQuery, Answers
    <3>8. UNCHANGED <<now, blockedAt, reapedAt>>
      BY <2>2 DEF BeginQuery
    <3>9. burned' \subseteq RequestIds /\ acked' \subseteq RequestIds
      BY <2>2 DEF BeginQuery, FacilitatorTypeOK
    <3> QED  BY <1>0, <3>8, <3>9, <3>1, <3>2
  <2>3. ASSUME NEW c \in Calls, NEW r \in RequestIds, BeginCommit(c, r)
        PROVE  FacilitatorTypeOK'
    <3>1. call' \in [Calls -> WaitingCall \cup {NoRow}]
      BY <1>1, <2>3 DEF BeginCommit, FacilitatorTypeOK
    <3>2. answered' \in Response \cup {NoRow}
      BY <1>3, <2>3 DEF BeginCommit, Answers
    <3>3. acked' \subseteq RequestIds
      BY <2>3 DEF BeginCommit, FacilitatorTypeOK
    <3>8. UNCHANGED <<now, blockedAt, reapedAt>>
      BY <2>3 DEF BeginCommit
    <3>9. burned' \subseteq RequestIds /\ acked' \subseteq RequestIds
      BY <2>3 DEF BeginCommit, FacilitatorTypeOK
    <3> QED  BY <1>0, <3>8, <3>9, <3>1, <3>2, <3>3
  <2>4. ASSUME NEW c \in Calls, NEW r \in RequestIds, Rollback(c, r)
        PROVE  FacilitatorTypeOK'
    <3>1. answered' \in Response \cup {NoRow}
      BY <1>3, <2>4 DEF Rollback, Answers
    <3>2. call' \in [Calls -> WaitingCall \cup {NoRow}]
      BY <2>4 DEF Rollback, FacilitatorTypeOK
    <3>8. UNCHANGED <<now, blockedAt, reapedAt>>
      BY <2>4 DEF Rollback
    <3>9. burned' \subseteq RequestIds /\ acked' \subseteq RequestIds
      BY <2>4 DEF Rollback, FacilitatorTypeOK
    <3> QED  BY <1>0, <3>1, <3>2, <3>8, <3>9
  <2>5. ASSUME NEW c \in Calls, FinishReserve(c) \/ FinishQuery(c) \/ FailVerify(c)
        PROVE  FacilitatorTypeOK'
    <3>1. call[c].request \in RequestIds
      BY <2>5, WaitingTypes DEF FinishReserve, FinishQuery, FailVerify
    <3>2. call' \in [Calls -> WaitingCall \cup {NoRow}]
      BY <1>2, <2>5 DEF FinishReserve, FinishQuery, FailVerify
    <3>3. answered' \in Response \cup {NoRow}
      BY <1>3, <2>5, <3>1 DEF FinishReserve, FinishQuery, FailVerify, Answers
    <3>8. UNCHANGED <<now, blockedAt, reapedAt>>
      BY <2>5 DEF FinishReserve, FinishQuery, FailVerify
    <3>9. burned' \subseteq RequestIds /\ acked' \subseteq RequestIds
      BY <2>5, <3>1 DEF FinishReserve, FinishQuery, FailVerify, FacilitatorTypeOK
    <3> QED  BY <1>0, <3>2, <3>3, <3>8, <3>9
  <2>6. ASSUME NEW c \in Calls, FinishCommit(c)
        PROVE  FacilitatorTypeOK'
    <3>1. call[c].request \in RequestIds
      BY <2>6, WaitingTypes DEF FinishCommit
    <3>2. call' \in [Calls -> WaitingCall \cup {NoRow}]
      BY <1>2, <2>6 DEF FinishCommit
    <3>3. answered' \in Response \cup {NoRow}
      BY <1>3, <2>6, <3>1 DEF FinishCommit, Answers
    <3>8. UNCHANGED <<now, blockedAt, reapedAt>>
      BY <2>6 DEF FinishCommit
    <3>9. burned' \subseteq RequestIds /\ acked' \subseteq RequestIds
      BY <2>6, <3>1 DEF FinishCommit, FacilitatorTypeOK
    <3> QED  BY <1>0, <3>8, <3>9, <3>1, <3>2, <3>3
  <2> QED  BY <1>4, <2>1, <2>2, <2>3, <2>4, <2>5, <2>6 DEF Handler
<1>5. CASE Administration
  BY <1>5 DEF Administration, AdminCredit, BlockIdentity, UnblockIdentity,
              FacilitatorTypeOK, NotBlocked
<1>6. CASE Maintenance
  BY <1>6 DEF Maintenance, RunReaper, ReaperRow, RunCleanup, FacilitatorTypeOK
<1>7. CASE Crash \/ Tick
  BY <1>7 DEF Crash, Tick, FacilitatorTypeOK
<1>8. CASE UNCHANGED vars
  BY <1>8 DEF vars, callVars, FacilitatorTypeOK
<1> QED  BY <1>4, <1>5, <1>6, <1>7, <1>8 DEF FacilitatorNext

\* Handlers, answers, clocks and tables stay well formed under any interleaving
\* of calls, maintenance runs and crashes.
THEOREM FacilitatorTypeCorrect == FacilitatorSpec => []FacilitatorTypeOK
<1>1. FacilitatorInit => StorageInv /\ FacilitatorTypeOK
  <2> SUFFICES ASSUME FacilitatorInit PROVE StorageInv /\ FacilitatorTypeOK
    OBVIOUS
  <2>1. StorageInv
    BY InitInv DEF FacilitatorInit
  <2> QED  BY <2>1, FacilitatorAssumption
             DEF FacilitatorInit, FacilitatorTypeOK, StorageInv, NotBlocked
<1>2. StorageInv /\ FacilitatorTypeOK /\ [FacilitatorNext]_vars
        => StorageInv' /\ FacilitatorTypeOK'
  BY StorageKept, TypeKept DEF StorageInv
<1> QED  BY <1>1, <1>2, PTL DEF FacilitatorSpec

-----------------------------------------------------------------------------
(* What one step may do to the rows, to the history and to the clock.      *)

\* A row keeps its claim and moves to a final status, or stays as it is.
Settled(r) ==
  \/ spent'[r] = spent[r]
  \/ /\ spent[r] # NoRow
     /\ \E s \in {"committed", "error"} : spent'[r] = [spent[r] EXCEPT !.status = s]

Settles ==
  /\ \A r \in RequestIds : Settled(r)
  /\ known \subseteq known'
  /\ UNCHANGED burned
  /\ now <= now'

LEMMA StatusSettles ==
  ASSUME StorageTypeOK, NEW q \in RequestIds, spent[q] # NoRow,
         NEW s \in {"committed", "error"}, SetStatus(q, s)
  PROVE  \A r \in RequestIds : Settled(r)
<1>1. spent' = [spent EXCEPT ![q] = [spent[q] EXCEPT !.status = s]]
  BY DEF SetStatus, StorageTypeOK
<1>2. spent'[q] = [spent[q] EXCEPT !.status = s]
  BY <1>1 DEF StorageTypeOK
<1>3. \A r \in RequestIds : r # q => spent'[r] = spent[r]
  BY <1>1 DEF StorageTypeOK
<1> QED  BY <1>2, <1>3 DEF Settled

\* Only the two burning handlers insert a row, and only cleanup deletes one.
LEMMA StepKinds ==
  ASSUME StorageInv, FacilitatorTypeOK, [FacilitatorNext]_vars
  PROVE  \/ Settles
         \/ \E c \in Calls : FinishReserve(c) \/ FinishQuery(c)
         \/ RunCleanup
<1>1. StorageTypeOK /\ now \in Int /\ known \subseteq Identities
  BY DEF StorageInv, FacilitatorTypeOK, StorageTypeOK
<1>0. ASSUME UNCHANGED <<spent, known, burned>>, now' = now \/ now' = now + 1
      PROVE  Settles
  BY <1>0, <1>1 DEF Settles, Settled
<1>2. ASSUME NEW q \in RequestIds, spent[q] # NoRow,
             NEW s \in {"committed", "error"}, SetStatus(q, s),
             UNCHANGED <<known, burned, now>>
      PROVE  Settles
  BY <1>1, <1>2, StatusSettles DEF Settles
<1>3. CASE Handler
  <2>1. ASSUME NEW c \in Calls, NEW r \in RequestIds,
               BeginReserve(c, r) \/ BeginQuery(c, r) \/ FailVerify(c)
        PROVE  Settles
    BY <1>0, <2>1 DEF BeginReserve, BeginQuery, FailVerify, storageVars
  <2>2. ASSUME NEW c \in Calls, NEW r \in RequestIds, BeginCommit(c, r)
        PROVE  Settles
    <3>1. CASE CommitPayment(r)
      BY <1>2, <2>2, <3>1 DEF BeginCommit, CommitPayment, HasStatus
    <3>2. CASE UNCHANGED storageVars
      BY <1>0, <2>2, <3>2 DEF BeginCommit, storageVars
    <3> QED  BY <2>2, <3>1, <3>2 DEF BeginCommit
  <2>3. ASSUME NEW c \in Calls, NEW r \in RequestIds, Rollback(c, r)
        PROVE  Settles
    <3>1. CASE RollbackPayment(r)
      BY <1>2, <2>3, <3>1 DEF Rollback, RollbackPayment, Refund, HasStatus
    <3>2. CASE UNCHANGED storageVars
      BY <1>0, <2>3, <3>2 DEF Rollback, storageVars
    <3> QED  BY <2>3, <3>1, <3>2 DEF Rollback
  <2>4. ASSUME NEW c \in Calls, FinishCommit(c)
        PROVE  Settles
    <3>1. CASE LateCommitPayment(call[c].request)
      <4>1. call[c].request \in RequestIds
        BY <2>4, WaitingTypes DEF FinishCommit
      <4> QED  BY <1>2, <2>4, <3>1, <4>1 DEF FinishCommit, LateCommitPayment, HasStatus
    <3>2. CASE UNCHANGED storageVars
      BY <1>0, <2>4, <3>2 DEF FinishCommit, storageVars
    <3> QED  BY <2>4, <3>1, <3>2 DEF FinishCommit
  <2>5. ASSUME NEW c \in Calls, FailVerify(c) PROVE Settles
    BY <1>0, <2>5 DEF FailVerify, storageVars
  <2> QED  BY <1>3, <2>1, <2>2, <2>3, <2>4, <2>5 DEF Handler
<1>4. CASE Administration
  <2>1. ASSUME NEW o \in Outputs, NEW i \in Identities, NEW amount \in Amounts,
               AdminCredit(o, i, amount)
        PROVE  Settles
    <3>1. UNCHANGED <<spent, burned, now>> /\ known' = known \cup {i}
      BY <2>1 DEF AdminCredit, InsertAndCreditDeposit, Credit
    <3> QED  BY <1>1, <3>1 DEF Settles, Settled
  <2>2. ASSUME NEW i \in Identities, BlockIdentity(i) \/ UnblockIdentity(i)
        PROVE  Settles
    BY <1>0, <2>2 DEF BlockIdentity, UnblockIdentity, storageVars
  <2> QED  BY <1>4, <2>1, <2>2 DEF Administration
<1>5. CASE RunReaper
  BY <1>0, <1>5 DEF RunReaper, ReapExpiredReservations
<1>6. ASSUME NEW r \in RequestIds, ReaperRow(r) PROVE Settles
  <2>1. HasStatus(r, "reserved")
    BY <1>6 DEF ReaperRow, ReapRow, StorageInv, StorageTypeOK, ExpiredAreReserved
  <2> QED  BY <1>2, <1>6, <2>1 DEF ReaperRow, ReapRow, Refund, HasStatus
<1>7. CASE Crash \/ Tick \/ UNCHANGED vars
  BY <1>0, <1>7 DEF Crash, Tick, vars, callVars, storageVars
<1> QED  BY <1>3, <1>4, <1>5, <1>6, <1>7 DEF FacilitatorNext, Handler, Maintenance

-----------------------------------------------------------------------------
(* The invariant.                                                          *)

LEMMA RowSettled ==
  ASSUME StorageTypeOK, NEW r \in RequestIds, Settled(r)
  PROVE  /\ spent'[r] = NoRow <=> spent[r] = NoRow
         /\ spent[r] # NoRow =>
              /\ spent'[r].issuedAt = spent[r].issuedAt
              /\ spent'[r].receivedAt = spent[r].receivedAt
              /\ spent'[r].identity = spent[r].identity
              /\ spent'[r].status = "reserved" => spent'[r] = spent[r]
<1>1. CASE spent'[r] = spent[r]
  BY <1>1
<1>2. ASSUME spent[r] # NoRow, NEW s \in {"committed", "error"},
             spent'[r] = [spent[r] EXCEPT !.status = s]
      PROVE  /\ spent'[r] # NoRow
             /\ spent'[r].issuedAt = spent[r].issuedAt
             /\ spent'[r].receivedAt = spent[r].receivedAt
             /\ spent'[r].identity = spent[r].identity
             /\ spent'[r].status # "reserved"
  <2>1. spent[r] \in SpentRow
    BY <1>2, RowThere
  <2>2. spent'[r] \in SpentRow
    BY <1>2, <2>1 DEF SpentRow, Statuses
  <2> QED  BY <1>2, <2>1, <2>2, NoRowAssumption DEF SpentRow
<1> QED  BY <1>1, <1>2 DEF Settled

\* What the two burning handlers do: they find the row, or insert it.
LEMMA Burns ==
  ASSUME StorageTypeOK, FacilitatorTypeOK, NEW c \in Calls,
         FinishReserve(c) \/ FinishQuery(c)
  PROVE  LET q == call[c].request IN
         /\ q \in RequestIds
         /\ Waiting(c, "reserve") \/ Waiting(c, "query")
         /\ burned' = burned \cup {q}
         /\ UNCHANGED <<now, known, blockedAt, reapedAt>>
         /\ \A r \in RequestIds : r # q => spent'[r] = spent[r]
         /\ spent'[q] # NoRow
         /\ \/ spent[q] # NoRow /\ spent'[q] = spent[q]
            \/ /\ spent[q] = NoRow
               /\ spent'[q].issuedAt = IssuedAt[q]
               /\ spent'[q].receivedAt = call[c].checkedAt
               /\ spent'[q].identity = Payer[q]
               /\ spent'[q].status = "reserved" =>
                    Payer[q] \in known /\ Waiting(c, "reserve")
<1> DEFINE q == call[c].request
           at == call[c].checkedAt
<1>1. Waiting(c, "reserve") \/ Waiting(c, "query")
  BY DEF FinishReserve, FinishQuery
<1>2. q \in RequestIds /\ at \in Int
  BY <1>1, WaitingTypes
<1>3. /\ burned' = burned \cup {q}
      /\ UNCHANGED <<now, blockedAt, reapedAt>>
      /\ \/ ReserveReplay(q)
         \/ /\ Waiting(c, "reserve")
            /\ \/ ReserveRefused(q, Payer[q], IssuedAt[q], at, Price[q])
               \/ ReserveGranted(q, Payer[q], IssuedAt[q], at, Price[q])
         \/ RecordBalanceQuery(q, Payer[q], IssuedAt[q], at)
  BY DEF FinishReserve, FinishQuery
<1> HIDE DEF q, at
<1>4. Payer[q] \in Identities /\ IssuedAt[q] \in Int /\ Price[q] \in Nat
  BY <1>2, FacilitatorAssumption
<1>5. ASSUME NEW amount \in Nat, NEW status \in Statuses, spent[q] = NoRow,
             InsertSpent(q, Payer[q], IssuedAt[q], at, amount, status)
      PROVE  /\ \A r \in RequestIds : r # q => spent'[r] = spent[r]
             /\ spent'[q] # NoRow
             /\ spent'[q].issuedAt = IssuedAt[q]
             /\ spent'[q].receivedAt = at
             /\ spent'[q].identity = Payer[q]
             /\ spent'[q].status = status
  <2> DEFINE row == [identity |-> Payer[q], issuedAt |-> IssuedAt[q],
                     receivedAt |-> at, amount |-> amount, status |-> status]
  <2>1. row \in SpentRow
    BY <1>2, <1>4 DEF SpentRow
  <2>2. spent' = [spent EXCEPT ![q] = row]
    BY <1>5 DEF InsertSpent
  <2>3. spent'[q] = row /\ \A r \in RequestIds : r # q => spent'[r] = spent[r]
    BY <1>2, <2>2 DEF StorageTypeOK
  <2> QED  BY <2>1, <2>3, NoRowAssumption
<1>6. CASE ReserveReplay(q)
  BY <1>1, <1>2, <1>3, <1>6 DEF ReserveReplay, storageVars, q
<1>7. CASE RecordBalanceQuery(q, Payer[q], IssuedAt[q], at)
  <2>1. spent[q] = NoRow /\ UNCHANGED known
    BY <1>7 DEF RecordBalanceQuery
  <2>2. "committed" \in Statuses /\ 0 \in Nat
    BY DEF Statuses
  <2>3. InsertSpent(q, Payer[q], IssuedAt[q], at, 0, "committed")
    BY <1>7 DEF RecordBalanceQuery
  <2> QED  BY <1>1, <1>2, <1>3, <1>5, <2>1, <2>2, <2>3 DEF q, at
<1>8. CASE /\ Waiting(c, "reserve")
           /\ ReserveRefused(q, Payer[q], IssuedAt[q], at, Price[q])
  <2>1. spent[q] = NoRow /\ UNCHANGED known
    BY <1>8 DEF ReserveRefused
  <2>2. "insufficient" \in Statuses
    BY DEF Statuses
  <2>3. InsertSpent(q, Payer[q], IssuedAt[q], at, Price[q], "insufficient")
    BY <1>8 DEF ReserveRefused
  <2> QED  BY <1>1, <1>2, <1>3, <1>4, <1>5, <2>1, <2>2, <2>3 DEF q, at
<1>9. CASE /\ Waiting(c, "reserve")
           /\ ReserveGranted(q, Payer[q], IssuedAt[q], at, Price[q])
  <2>1. spent[q] = NoRow /\ UNCHANGED known /\ Payer[q] \in known
    BY <1>9 DEF ReserveGranted
  <2>2. "reserved" \in Statuses
    BY DEF Statuses
  <2>3. InsertSpent(q, Payer[q], IssuedAt[q], at, Price[q], "reserved")
    BY <1>9 DEF ReserveGranted
  <2> QED  BY <1>1, <1>2, <1>3, <1>4, <1>5, <1>9, <2>1, <2>2, <2>3 DEF q, at
<1> QED  BY <1>3, <1>6, <1>7, <1>8, <1>9

LEMMA RowsKept ==
  ASSUME FacilitatorInv, [FacilitatorNext]_vars
  PROVE  RowsMatchClaims'
<1>1. StorageTypeOK /\ FacilitatorTypeOK /\ StorageInv /\ RowsMatchClaims
  BY DEF FacilitatorInv, StorageInv
<1>2. CASE Settles
  BY <1>1, <1>2, RowSettled DEF Settles, RowsMatchClaims
<1>3. ASSUME NEW c \in Calls, FinishReserve(c) \/ FinishQuery(c)
      PROVE  RowsMatchClaims'
  BY <1>1, <1>3, Burns DEF RowsMatchClaims
<1>4. CASE RunCleanup
  BY <1>1, <1>4 DEF RunCleanup, CleanupSpentRequests, RowsMatchClaims
<1> QED  BY <1>1, <1>2, <1>3, <1>4, StepKinds

LEMMA PurgedKept ==
  ASSUME FacilitatorInv, [FacilitatorNext]_vars
  PROVE  PurgedAreOld'
<1>1. /\ StorageTypeOK /\ FacilitatorTypeOK /\ StorageInv
      /\ RowsMatchClaims /\ PurgedAreOld
  BY DEF FacilitatorInv, StorageInv
<1>2. /\ now \in Int /\ now' \in Int /\ CleanupHorizon \in Int
      /\ burned \subseteq RequestIds
      /\ \A r \in RequestIds : IssuedAt[r] \in Int
  <2>1. StorageTypeOK'
    BY <1>1, StorageKept DEF StorageInv
  <2>2. FacilitatorTypeOK'
    BY <1>1, <2>1, TypeKept
  <2> QED  BY <1>1, <2>2, FacilitatorAssumption DEF FacilitatorTypeOK, CleanupHorizon
<1>3. CASE Settles
  <2> SUFFICES ASSUME NEW r \in burned, spent'[r] = NoRow
               PROVE  IssuedAt[r] < now' - CleanupHorizon
    BY <1>3 DEF Settles, PurgedAreOld, CleanupHorizon
  <2>1. spent[r] = NoRow
    BY <1>1, <1>2, <1>3, RowSettled DEF Settles
  <2>2. IssuedAt[r] < now - CleanupHorizon /\ now <= now'
    BY <1>1, <1>3, <2>1 DEF PurgedAreOld, Settles
  <2> QED  BY <1>2, <2>2
<1>4. ASSUME NEW c \in Calls, FinishReserve(c) \/ FinishQuery(c)
      PROVE  PurgedAreOld'
  <2> DEFINE q == call[c].request
  <2>1. /\ burned' = burned \cup {q} /\ spent'[q] # NoRow /\ now' = now
        /\ \A r \in RequestIds : r # q => spent'[r] = spent[r]
    BY <1>1, <1>4, Burns
  <2> HIDE DEF q
  <2> QED  BY <1>1, <1>2, <2>1 DEF PurgedAreOld, CleanupHorizon
<1>5. CASE RunCleanup
  <2> SUFFICES ASSUME NEW r \in burned, spent'[r] = NoRow
               PROVE  IssuedAt[r] < now - CleanupHorizon
    BY <1>5 DEF RunCleanup, PurgedAreOld, CleanupHorizon
  <2>1. r \in RequestIds
    BY <1>2
  <2>2. spent[r] = NoRow \/ spent[r].issuedAt < now - CleanupHorizon
    BY <1>5, <2>1 DEF RunCleanup, CleanupSpentRequests
  <2> QED  BY <1>1, <2>1, <2>2 DEF PurgedAreOld, RowsMatchClaims
<1> QED  BY <1>1, <1>3, <1>4, <1>5, StepKinds

\* Signature checks: a new one starts now, the others stay or end, and the
\* clock waits for them.
Checking(c) == Waiting(c, "reserve") \/ Waiting(c, "query")

StaysOrEnds ==
  /\ \A c \in Calls : Checking(c)' => call'[c] = call[c]
  /\ \/ UNCHANGED now
     \/ /\ now' = now + 1
        /\ \A c \in Calls : Checking(c) => now < call[c].checkedAt + RpcMax

LEMMA CallSteps ==
  ASSUME FacilitatorTypeOK, [FacilitatorNext]_vars
  PROVE  \/ StaysOrEnds
         \/ \E c \in Calls, r \in RequestIds, op \in {"reserve", "query"} :
              /\ InWindow(r) /\ Wait(c, op, r) /\ UNCHANGED <<now, blockedAt>>
              /\ op = "reserve" => blockedAt[Payer[r]] = NotBlocked
<1>1. ASSUME UNCHANGED <<call, now>> PROVE StaysOrEnds
  BY <1>1 DEF StaysOrEnds
<1>2. ASSUME NEW c \in Calls, Hang(c), UNCHANGED now PROVE StaysOrEnds
  BY <1>2 DEF StaysOrEnds, Hang, Checking, Waiting, FacilitatorTypeOK
<1>3. ASSUME NEW c \in Calls, NEW r \in RequestIds, Wait(c, "commit", r), UNCHANGED now
      PROVE  StaysOrEnds
  BY <1>3 DEF StaysOrEnds, Wait, Checking, Waiting, FacilitatorTypeOK
<1>4. CASE Handler
  <2>1. ASSUME NEW c \in Calls, NEW r \in RequestIds, BeginReserve(c, r)
        PROVE  \/ StaysOrEnds
               \/ /\ InWindow(r) /\ Wait(c, "reserve", r) /\ UNCHANGED <<now, blockedAt>>
                  /\ blockedAt[Payer[r]] = NotBlocked
    BY <1>1, <2>1 DEF BeginReserve
  <2>2. ASSUME NEW c \in Calls, NEW r \in RequestIds, BeginQuery(c, r)
        PROVE  \/ StaysOrEnds
               \/ InWindow(r) /\ Wait(c, "query", r) /\ UNCHANGED <<now, blockedAt>>
    BY <1>1, <2>2 DEF BeginQuery
  <2>3. ASSUME NEW c \in Calls, NEW r \in RequestIds, BeginCommit(c, r)
        PROVE  StaysOrEnds
    BY <1>1, <1>3, <2>3 DEF BeginCommit
  <2>4. ASSUME NEW c \in Calls, NEW r \in RequestIds, Rollback(c, r)
        PROVE  StaysOrEnds
    BY <1>1, <2>4 DEF Rollback
  <2>5. ASSUME NEW c \in Calls,
               FinishReserve(c) \/ FinishQuery(c) \/ FailVerify(c) \/ FinishCommit(c)
        PROVE  StaysOrEnds
    BY <1>2, <2>5 DEF FinishReserve, FinishQuery, FailVerify, FinishCommit
  <2> QED  BY <1>4, <2>1, <2>2, <2>3, <2>4, <2>5 DEF Handler
<1>5. CASE Administration
  BY <1>1, <1>5 DEF Administration, AdminCredit, BlockIdentity, UnblockIdentity
<1>6. CASE Maintenance
  BY <1>1, <1>6 DEF Maintenance, RunReaper, ReaperRow, RunCleanup
<1>7. CASE Crash
  BY <1>7 DEF Crash, StaysOrEnds, Checking, Waiting
<1>8. CASE Tick
  BY <1>8 DEF Tick, StaysOrEnds, Checking
<1>9. CASE UNCHANGED vars
  BY <1>1, <1>9 DEF vars, callVars
<1> QED  BY <1>4, <1>5, <1>6, <1>7, <1>8, <1>9 DEF FacilitatorNext

LEMMA ChecksKept ==
  ASSUME FacilitatorInv, [FacilitatorNext]_vars
  PROVE  ChecksAreYoung'
<1>1. FacilitatorTypeOK /\ ChecksAreYoung /\ now \in Int /\ RpcMax \in Nat /\ Tolerance \in Nat
  BY FacilitatorAssumption DEF FacilitatorInv, FacilitatorTypeOK
<1>2. CASE StaysOrEnds
  <2> SUFFICES ASSUME NEW c \in Calls, Checking(c)'
               PROVE  /\ call'[c].checkedAt <= now'
                      /\ now' <= call'[c].checkedAt + RpcMax
                      /\ call'[c].checkedAt - IssuedAt[call'[c].request] <= Tolerance
    BY DEF ChecksAreYoung, Checking
  <2>1. call'[c] = call[c] /\ Checking(c)
    BY <1>2 DEF StaysOrEnds, Checking, Waiting
  <2>2. /\ call[c].checkedAt <= now
        /\ now <= call[c].checkedAt + RpcMax
        /\ call[c].checkedAt - IssuedAt[call[c].request] <= Tolerance
    BY <1>1, <2>1 DEF ChecksAreYoung, Checking
  <2>3. call[c].checkedAt \in Int
    BY <1>1, <2>1, WaitingTypes DEF Checking
  <2>4. now' = now \/ (now' = now + 1 /\ now < call[c].checkedAt + RpcMax)
    BY <1>2, <2>1 DEF StaysOrEnds
  <2> QED  BY <1>1, <2>1, <2>2, <2>3, <2>4
<1>3. ASSUME NEW c \in Calls, NEW r \in RequestIds, NEW op \in {"reserve", "query"},
             InWindow(r), Wait(c, op, r), UNCHANGED now
      PROVE  ChecksAreYoung'
  <2>1. call'[c] = [op |-> op, request |-> r, checkedAt |-> now]
    BY <1>1, <1>3 DEF Wait, FacilitatorTypeOK
  <2>2. \A d \in Calls : d # c => call'[d] = call[d]
    BY <1>1, <1>3 DEF Wait, FacilitatorTypeOK
  <2>3. now - IssuedAt[r] <= Tolerance
    BY <1>3 DEF InWindow
  <2> SUFFICES ASSUME NEW d \in Calls, Checking(d)'
               PROVE  /\ call'[d].checkedAt <= now'
                      /\ now' <= call'[d].checkedAt + RpcMax
                      /\ call'[d].checkedAt - IssuedAt[call'[d].request] <= Tolerance
    BY DEF ChecksAreYoung, Checking
  <2>4. CASE d = c
    BY <1>1, <1>3, <2>1, <2>3, <2>4
  <2>5. CASE d # c
    BY <1>1, <1>3, <2>2, <2>5 DEF ChecksAreYoung, Checking, Waiting
  <2> QED  BY <2>4, <2>5
<1> QED  BY <1>1, <1>2, <1>3, CallSteps

LEMMA FacilitatorInvAlways == FacilitatorSpec => []FacilitatorInv
<1>1. FacilitatorInit => FacilitatorInv
  <2> SUFFICES ASSUME FacilitatorInit PROVE FacilitatorInv
    OBVIOUS
  <2>1. StorageInv
    BY InitInv DEF FacilitatorInit
  <2>2. FacilitatorTypeOK
    BY <2>1, FacilitatorAssumption
       DEF FacilitatorInit, FacilitatorTypeOK, StorageInv, NotBlocked
  <2> QED  BY <2>1, <2>2 DEF FacilitatorInit, StorageInit, FacilitatorInv,
                RowsMatchClaims, PurgedAreOld, ChecksAreYoung, Waiting
<1>2. FacilitatorInv /\ [FacilitatorNext]_vars => FacilitatorInv'
  <2> SUFFICES ASSUME FacilitatorInv, [FacilitatorNext]_vars PROVE FacilitatorInv'
    OBVIOUS
  <2>1. StorageInv'
    BY StorageKept DEF FacilitatorInv
  <2>2. FacilitatorTypeOK'
    BY <2>1, TypeKept DEF FacilitatorInv, StorageInv
  <2> QED  BY <2>1, <2>2, RowsKept, PurgedKept, ChecksKept DEF FacilitatorInv
<1> QED  BY <1>1, <1>2, PTL DEF FacilitatorSpec

\* A requestId that has lost its row is too old for a signature check in flight.
LEMMA NotBurnedAgain ==
  ASSUME FacilitatorInv, [FacilitatorNext]_vars, NEW r \in RequestIds
  PROVE  BurnedOnce(r)
<1> SUFFICES ASSUME spent[r] = NoRow, spent'[r] # NoRow, r \in burned
             PROVE  FALSE
  BY DEF BurnedOnce
<1>1. /\ StorageTypeOK /\ StorageInv /\ FacilitatorTypeOK
      /\ PurgedAreOld /\ ChecksAreYoung
  BY DEF FacilitatorInv, StorageInv
<1>2. ~Settles
  BY <1>1, RowSettled DEF Settles
<1>3. ~RunCleanup
  BY DEF RunCleanup, CleanupSpentRequests
<1>4. PICK c \in Calls : FinishReserve(c) \/ FinishQuery(c)
  BY <1>1, <1>2, <1>3, StepKinds
<1>5. call[c].request = r /\ Checking(c)
  BY <1>1, <1>4, Burns DEF Checking
<1>6. now <= call[c].checkedAt + RpcMax /\ call[c].checkedAt - IssuedAt[r] <= Tolerance
  BY <1>1, <1>5 DEF ChecksAreYoung, Checking
<1>7. IssuedAt[r] < now - CleanupHorizon
  BY <1>1 DEF PurgedAreOld
<1>8. call[c].checkedAt \in Int /\ now \in Int /\ IssuedAt[r] \in Int
  BY <1>1, <1>5, WaitingTypes, FacilitatorAssumption DEF Checking, FacilitatorTypeOK
<1>9. RpcMax + Tolerance <= CleanupHorizon /\ CleanupHorizon \in Int
  BY FacilitatorAssumption, RpcAssumption DEF CleanupHorizon
<1> QED  BY <1>6, <1>7, <1>8, <1>9, FacilitatorAssumption

\* Cleanup never opens the replay window: whatever the clocks, the length of a
\* signature check and the times of the maintenance runs, no requestId is
\* burned twice.
THEOREM NeverReplayed == FacilitatorSpec => NoReplayAfterPurge
<1>1. FacilitatorInv /\ [FacilitatorNext]_vars => [\A r \in RequestIds : BurnedOnce(r)]_vars
  BY NotBurnedAgain
<1> QED  BY <1>1, FacilitatorInvAlways, PTL DEF FacilitatorSpec, NoReplayAfterPurge

-----------------------------------------------------------------------------
(* The blocklist.                                                          *)

\* A reserve that waits for its signature check passed the blocklist before
\* the identity was blocked.
PassedBlocklist ==
  \A c \in Calls : Waiting(c, "reserve") =>
    LET i == Payer[call[c].request]
    IN blockedAt[i] = NotBlocked \/ call[c].checkedAt <= blockedAt[i]

LEMMA BlockSteps ==
  ASSUME FacilitatorTypeOK, [FacilitatorNext]_vars
  PROVE  \/ UNCHANGED blockedAt
         \/ \E i \in Identities : /\ UNCHANGED <<call, now>>
                                  /\ \/ blockedAt' = [blockedAt EXCEPT ![i] = now]
                                     \/ blockedAt' = [blockedAt EXCEPT ![i] = NotBlocked]
<1>1. CASE Handler
  BY <1>1 DEF Handler, BeginReserve, BeginQuery, BeginCommit, Rollback,
     FinishReserve, FinishQuery, FailVerify, FinishCommit
<1>2. CASE Administration
  BY <1>2 DEF Administration, AdminCredit, BlockIdentity, UnblockIdentity
<1>3. CASE Maintenance
  BY <1>3 DEF Maintenance, RunReaper, ReaperRow, RunCleanup
<1>4. CASE Crash \/ Tick \/ UNCHANGED vars
  BY <1>4 DEF Crash, Tick, vars, callVars
<1> QED  BY <1>1, <1>2, <1>3, <1>4 DEF FacilitatorNext

LEMMA PassedKept ==
  ASSUME FacilitatorInv, PassedBlocklist, [FacilitatorNext]_vars
  PROVE  PassedBlocklist'
<1>1. FacilitatorTypeOK /\ ChecksAreYoung
  BY DEF FacilitatorInv
<1>2. CASE StaysOrEnds
  <2> SUFFICES ASSUME NEW c \in Calls, Waiting(c, "reserve")'
               PROVE  LET i == Payer[call'[c].request]
                      IN blockedAt'[i] = NotBlocked \/ call'[c].checkedAt <= blockedAt'[i]
    BY DEF PassedBlocklist
  <2>1. call'[c] = call[c] /\ Waiting(c, "reserve")
    BY <1>2 DEF StaysOrEnds, Checking, Waiting
  <2>2. call[c].request \in RequestIds /\ Payer[call[c].request] \in Identities
    BY <1>1, <2>1, WaitingTypes, FacilitatorAssumption
  <2>3. call[c].checkedAt <= now
    BY <1>1, <2>1 DEF ChecksAreYoung
  <2>4. CASE UNCHANGED blockedAt
    BY <2>1, <2>4 DEF PassedBlocklist
  <2>5. ASSUME NEW i \in Identities,
               \/ blockedAt' = [blockedAt EXCEPT ![i] = now]
               \/ blockedAt' = [blockedAt EXCEPT ![i] = NotBlocked]
        PROVE  LET j == Payer[call[c].request]
               IN blockedAt'[j] = NotBlocked \/ call[c].checkedAt <= blockedAt'[j]
    BY <1>1, <2>1, <2>2, <2>3, <2>5 DEF PassedBlocklist, FacilitatorTypeOK
  <2> QED  BY <1>1, <2>1, <2>4, <2>5, BlockSteps
<1>3. ASSUME NEW c \in Calls, NEW r \in RequestIds, NEW op \in {"reserve", "query"},
             Wait(c, op, r), UNCHANGED <<now, blockedAt>>,
             op = "reserve" => blockedAt[Payer[r]] = NotBlocked
      PROVE  PassedBlocklist'
  BY <1>1, <1>3 DEF PassedBlocklist, Wait, Waiting, FacilitatorTypeOK
<1> QED  BY <1>1, <1>2, <1>3, CallSteps

\* An identity that has been blocked for longer than a signature check can
\* take pays nothing any more, whatever was in flight when it was blocked.
THEOREM BlockedIdentitiesStopPaying == FacilitatorSpec => BlockTakesEffect
<1>1. FacilitatorInit => PassedBlocklist
  BY DEF FacilitatorInit, PassedBlocklist, Waiting
<1>2. FacilitatorInv /\ PassedBlocklist /\ [FacilitatorNext]_vars => PassedBlocklist'
  BY PassedKept
<1>3. ASSUME FacilitatorInv, PassedBlocklist, [FacilitatorNext]_vars, NEW r \in RequestIds
      PROVE  GrantedUnblocked(r)
  <2> SUFFICES ASSUME ~HasStatus(r, "reserved"), spent'[r] # NoRow,
                      spent'[r].status = "reserved", blockedAt[Payer[r]] # NotBlocked
               PROVE  now <= blockedAt[Payer[r]] + RpcMax
    BY DEF GrantedUnblocked
  <2>1. StorageTypeOK /\ StorageInv /\ FacilitatorTypeOK /\ ChecksAreYoung
    BY <1>3 DEF FacilitatorInv, StorageInv
  <2>2. spent[r] # NoRow => spent[r].status # "reserved"
    BY DEF HasStatus
  <2>3. ~Settles
    BY <2>1, <2>2, RowSettled DEF Settles
  <2>4. ~RunCleanup
    BY <2>2 DEF RunCleanup, CleanupSpentRequests
  <2>5. PICK c \in Calls : FinishReserve(c) \/ FinishQuery(c)
    BY <1>3, <2>1, <2>3, <2>4, StepKinds
  <2>6. call[c].request = r /\ Waiting(c, "reserve")
    BY <2>1, <2>2, <2>5, Burns
  <2>7. call[c].checkedAt <= blockedAt[Payer[r]] /\ now <= call[c].checkedAt + RpcMax
    BY <1>3, <2>1, <2>6 DEF PassedBlocklist, ChecksAreYoung
  <2>8. call[c].checkedAt \in Int /\ now \in Int /\ blockedAt[Payer[r]] \in Int
    BY <2>1, <2>6, WaitingTypes, FacilitatorAssumption DEF FacilitatorTypeOK, NotBlocked
  <2> QED  BY <2>7, <2>8, FacilitatorAssumption
<1>4. FacilitatorInv /\ PassedBlocklist /\ [FacilitatorNext]_vars
        => [\A r \in RequestIds : GrantedUnblocked(r)]_vars
  BY <1>3
<1> QED  BY <1>1, <1>2, <1>4, FacilitatorInvAlways, PTL DEF FacilitatorSpec, BlockTakesEffect

-----------------------------------------------------------------------------
(* Cleanup and the reaper.                                                 *)

LongestWait == IF RpcMax > ReserveTtl THEN RpcMax ELSE ReserveTtl

\* A reservation the reaper's last run left alone was received after its
\* cutoff, or checked while it ran; its payload was young then.
HeldAreYoung ==
  /\ now <= reapedAt + ReaperGap
  /\ reapedAt <= now
  /\ \A r \in RequestIds : HasStatus(r, "reserved") =>
       /\ spent[r].receivedAt - spent[r].issuedAt <= Tolerance
       /\ r \notin expired => reapedAt - LongestWait <= spent[r].receivedAt

LEMMA ReaperSteps ==
  ASSUME FacilitatorTypeOK, [FacilitatorNext]_vars
  PROVE  \/ UNCHANGED <<expired, reapedAt, now>>
         \/ /\ now' = now + 1 /\ now < reapedAt + ReaperGap
            /\ UNCHANGED <<expired, reapedAt, spent>>
         \/ RunReaper
         \/ \E r \in RequestIds : ReaperRow(r)
<1>1. ASSUME NEW c \in Calls, FinishReserve(c) \/ FinishQuery(c) \/ FinishCommit(c)
      PROVE  UNCHANGED <<expired, reapedAt, now>>
  BY <1>1 DEF FinishReserve, FinishQuery, FinishCommit, ReserveReplay, ReserveRefused,
     ReserveGranted, RecordBalanceQuery, LateCommitPayment, storageVars
<1>2. ASSUME NEW c \in Calls, NEW r \in RequestIds,
             \/ BeginReserve(c, r) \/ BeginQuery(c, r) \/ FailVerify(c)
             \/ BeginCommit(c, r) \/ Rollback(c, r)
      PROVE  UNCHANGED <<expired, reapedAt, now>>
  BY <1>2 DEF BeginReserve, BeginQuery, FailVerify, BeginCommit, Rollback,
     CommitPayment, RollbackPayment, storageVars
<1>3. CASE Handler
  <2>1. ASSUME NEW c \in Calls, FailVerify(c) PROVE UNCHANGED <<expired, reapedAt, now>>
    BY <2>1 DEF FailVerify, storageVars
  <2> QED  BY <1>1, <1>2, <1>3, <2>1 DEF Handler
<1>4. CASE Administration \/ RunCleanup
  BY <1>4 DEF Administration, AdminCredit, InsertAndCreditDeposit, BlockIdentity,
     UnblockIdentity, RunCleanup, CleanupSpentRequests, storageVars
<1>5. CASE Crash \/ Tick \/ UNCHANGED vars
  BY <1>5 DEF Crash, Tick, vars, callVars, storageVars
<1> QED  BY <1>3, <1>4, <1>5 DEF FacilitatorNext, Maintenance

\* A row that is reserved after a step was so before, or is new and its
\* signature check has just ended.
LEMMA ReservedSteps ==
  ASSUME FacilitatorInv, [FacilitatorNext]_vars, NEW r \in RequestIds,
         HasStatus(r, "reserved")'
  PROVE  \/ spent'[r] = spent[r]
         \/ /\ spent'[r].issuedAt = IssuedAt[r]
            /\ UNCHANGED <<now, reapedAt>>
            /\ \E c \in Calls : /\ Waiting(c, "reserve")
                                /\ call[c].request = r
                                /\ spent'[r].receivedAt = call[c].checkedAt
<1>1. StorageTypeOK /\ StorageInv /\ FacilitatorTypeOK
  BY DEF FacilitatorInv, StorageInv
<1>2. spent'[r] # NoRow /\ spent'[r].status = "reserved"
  BY DEF HasStatus
<1>3. CASE Settles
  BY <1>1, <1>2, <1>3, RowSettled DEF Settles
<1>4. CASE RunCleanup
  BY <1>2, <1>4 DEF RunCleanup, CleanupSpentRequests
<1>5. ASSUME NEW c \in Calls, FinishReserve(c) \/ FinishQuery(c), spent'[r] # spent[r]
      PROVE  /\ spent'[r].issuedAt = IssuedAt[r]
             /\ UNCHANGED <<now, reapedAt>>
             /\ Waiting(c, "reserve")
             /\ call[c].request = r
             /\ spent'[r].receivedAt = call[c].checkedAt
  BY <1>1, <1>2, <1>5, Burns
<1> QED  BY <1>1, <1>3, <1>4, <1>5, StepKinds

LEMMA HeldKept ==
  ASSUME FacilitatorInv, HeldAreYoung, [FacilitatorNext]_vars
  PROVE  HeldAreYoung'
<1>1. /\ StorageTypeOK /\ FacilitatorTypeOK /\ RowsMatchClaims /\ ChecksAreYoung
      /\ StorageInv
  BY DEF FacilitatorInv, StorageInv
<1>2. /\ now \in Int /\ reapedAt \in Int /\ ReaperGap \in Nat
      /\ LongestWait \in Nat /\ RpcMax <= LongestWait /\ ReserveTtl <= LongestWait
      /\ ReserveTtl \in Nat /\ RpcMax \in Nat
  BY <1>1, FacilitatorAssumption DEF FacilitatorTypeOK, LongestWait
<1>3. now' <= reapedAt' + ReaperGap /\ reapedAt' <= now' /\ reapedAt' \in Int
  <2>1. now <= reapedAt + ReaperGap /\ reapedAt <= now
    BY DEF HeldAreYoung
  <2>2. RunReaper => now' = now /\ reapedAt' = now
    BY DEF RunReaper
  <2>3. \A r \in RequestIds : ReaperRow(r) => now' = now /\ reapedAt' = reapedAt
    BY DEF ReaperRow
  <2> QED  BY <1>1, <1>2, <2>1, <2>2, <2>3, ReaperSteps
<1>4. ASSUME NEW r \in RequestIds, HasStatus(r, "reserved")', spent'[r] = spent[r]
      PROVE  /\ spent'[r].receivedAt - spent'[r].issuedAt <= Tolerance
             /\ r \notin expired' => reapedAt' - LongestWait <= spent'[r].receivedAt
  <2>1. HasStatus(r, "reserved")
    BY <1>4 DEF HasStatus
  <2>2. /\ spent[r].receivedAt - spent[r].issuedAt <= Tolerance
        /\ r \notin expired => reapedAt - LongestWait <= spent[r].receivedAt
    BY <2>1 DEF HeldAreYoung
  <2>3. spent[r].receivedAt \in Int
    BY <1>1, <2>1, RowThere DEF HasStatus, SpentRow
  <2>4. CASE UNCHANGED <<expired, reapedAt>>
    BY <1>4, <2>2, <2>4
  <2>5. CASE RunReaper
    <3>1. /\ reapedAt' = now
          /\ expired' = {q \in RequestIds : /\ HasStatus(q, "reserved")
                                            /\ spent[q].receivedAt < now - ReserveTtl
                                            /\ spent[q].identity \in known}
      BY <2>5 DEF RunReaper, ReapExpiredReservations
    <3>2. spent[r].identity \in known
      BY <1>1, <2>1 DEF RowsMatchClaims, HasStatus
    <3>3. r \notin expired' => ~(spent[r].receivedAt < now - ReserveTtl)
      BY <2>1, <3>1, <3>2
    <3> QED  BY <1>2, <1>4, <2>2, <2>3, <3>1, <3>3
  <2>6. ASSUME NEW q \in RequestIds, ReaperRow(q)
        PROVE  reapedAt' = reapedAt /\ (r \notin expired' => r \notin expired)
    <3>1. expired' = expired \ {q} /\ reapedAt' = reapedAt /\ SetStatus(q, "error")
      BY <2>6 DEF ReaperRow, ReapRow, Refund
    <3>2. CASE r = q
      <4>1. spent[q] \in SpentRow
        BY <1>1, <2>1, <3>2, RowThere DEF HasStatus
      <4>2. spent'[q] = [spent[q] EXCEPT !.status = "error"]
        BY <1>1, <3>1 DEF SetStatus, StorageTypeOK
      <4>3. spent'[q].status = "error"
        BY <4>1, <4>2 DEF SpentRow
      <4> QED  BY <1>4, <3>2, <4>3 DEF HasStatus
    <3> QED  BY <3>1, <3>2
  <2> QED  BY <1>1, <1>4, <2>2, <2>4, <2>5, <2>6, ReaperSteps
<1>5. ASSUME NEW r \in RequestIds, spent'[r].issuedAt = IssuedAt[r],
             UNCHANGED <<now, reapedAt>>, NEW c \in Calls, Waiting(c, "reserve"),
             call[c].request = r, spent'[r].receivedAt = call[c].checkedAt
      PROVE  /\ spent'[r].receivedAt - spent'[r].issuedAt <= Tolerance
             /\ reapedAt' - LongestWait <= spent'[r].receivedAt
  <2>1. /\ now <= call[c].checkedAt + RpcMax
        /\ call[c].checkedAt - IssuedAt[r] <= Tolerance
    BY <1>1, <1>5 DEF ChecksAreYoung
  <2>2. call[c].checkedAt \in Int /\ reapedAt <= now
    BY <1>1, <1>5, WaitingTypes DEF HeldAreYoung
  <2> QED  BY <1>2, <1>5, <2>1, <2>2
<1>6. ASSUME NEW r \in RequestIds, HasStatus(r, "reserved")'
      PROVE  /\ spent'[r].receivedAt - spent'[r].issuedAt <= Tolerance
             /\ r \notin expired' => reapedAt' - LongestWait <= spent'[r].receivedAt
  BY <1>4, <1>5, <1>6, ReservedSteps
<1> QED  BY <1>3, <1>6 DEF HeldAreYoung, LongestWait

LEMMA HeldAlways == FacilitatorSpec => []HeldAreYoung
<1>1. FacilitatorInit => HeldAreYoung
  <2> SUFFICES ASSUME FacilitatorInit PROVE HeldAreYoung
    OBVIOUS
  <2>1. \A r \in RequestIds : ~HasStatus(r, "reserved")
    BY DEF FacilitatorInit, StorageInit, HasStatus
  <2> QED  BY <2>1, FacilitatorAssumption DEF FacilitatorInit, HeldAreYoung
<1>2. FacilitatorInv /\ HeldAreYoung /\ [FacilitatorNext]_vars => HeldAreYoung'
  BY HeldKept
<1> QED  BY <1>1, <1>2, FacilitatorInvAlways, PTL DEF FacilitatorSpec

\* The horizon also leaves room for the time between two reaper runs.
HorizonCoversReaper ==
  /\ ReaperGap + ReserveTtl + Tolerance <= CleanupHorizon
  /\ ReaperGap + RpcMax + Tolerance <= CleanupHorizon

\* Then cleanup finds no reservation old enough to delete.
LEMMA HeldRowsStay ==
  ASSUME HorizonCoversReaper, FacilitatorInv, HeldAreYoung, [FacilitatorNext]_vars,
         NEW r \in RequestIds
  PROVE  ReservationKept(r)
<1>1. /\ ReaperGap + LongestWait + Tolerance <= CleanupHorizon
      /\ ReaperGap \in Int /\ LongestWait \in Int /\ Tolerance \in Int
      /\ CleanupHorizon \in Int
  BY FacilitatorAssumption DEF HorizonCoversReaper, LongestWait, CleanupHorizon
<1> SUFFICES ASSUME HasStatus(r, "reserved") PROVE spent'[r] # NoRow
  BY DEF ReservationKept
<1>2. StorageTypeOK /\ StorageInv /\ FacilitatorTypeOK /\ spent[r] # NoRow
  BY DEF FacilitatorInv, StorageInv, HasStatus
<1>3. CASE Settles
  BY <1>2, <1>3, RowSettled DEF Settles
<1>4. ASSUME NEW c \in Calls, FinishReserve(c) \/ FinishQuery(c)
      PROVE  spent'[r] # NoRow
  BY <1>2, <1>4, Burns
<1>5. CASE RunCleanup
  <2>1. /\ expired = {}
        /\ spent'[r] = IF spent[r].issuedAt < now - CleanupHorizon
                       THEN NoRow ELSE spent[r]
    BY <1>2, <1>5 DEF RunCleanup, CleanupSpentRequests, WriteTx
  <2>2. /\ now <= reapedAt + ReaperGap
        /\ spent[r].receivedAt - spent[r].issuedAt <= Tolerance
        /\ reapedAt - LongestWait <= spent[r].receivedAt
    BY <2>1 DEF HeldAreYoung
  <2>3. /\ now \in Int /\ reapedAt \in Int
        /\ spent[r].issuedAt \in Int /\ spent[r].receivedAt \in Int
    BY <1>2, RowThere DEF FacilitatorTypeOK, SpentRow
  <2>4. ~(spent[r].issuedAt < now - CleanupHorizon)
    BY <1>1, <2>2, <2>3
  <2> QED  BY <1>2, <2>1, <2>4
<1> QED  BY <1>2, <1>3, <1>4, <1>5, StepKinds

\* Cleanup never deletes a reservation, and the money held by it, provided the
\* horizon covers the reaper.  With the default configuration it does not:
\* MCFacilitatorDefaults.
THEOREM ReservationsOutliveCleanup ==
  ASSUME HorizonCoversReaper
  PROVE  FacilitatorSpec => CleanupNeverUndercutsReaper
<1>1. FacilitatorInv /\ HeldAreYoung /\ [FacilitatorNext]_vars
        => [\A r \in RequestIds : ReservationKept(r)]_vars
  BY HeldRowsStay
<1> QED  BY <1>1, HeldAlways, FacilitatorInvAlways, PTL
           DEF FacilitatorSpec, CleanupNeverUndercutsReaper
=============================================================================
