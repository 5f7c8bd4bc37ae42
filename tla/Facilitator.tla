----------------------------- MODULE Facilitator -----------------------------
(***************************************************************************)
(* The facilitator around the storage: the prepaid-sig verifier            *)
(* (packages/verifier/src/prepaid-sig.ts) behind the payment API, the      *)
(* signed read endpoints that share its replay store, the blocklist, and   *)
(* the maintenance jobs (reaper, cleanup).                                 *)
(*                                                                         *)
(* A call is one HTTP request a handler is working on; several run at      *)
(* once.  A handler is cut where it awaits something slow or runs a second *)
(* transaction: the signature RPC of a reserve or a query, and the two     *)
(* transactions of a commit that meets a refunded reservation.  Everything *)
(* between two such points touches the shared state once, in one action.   *)
(* Any caller may send any call for any requestId, as often as it likes.   *)
(*                                                                         *)
(* Each requestId stands for one signed payload, so payer, issuedAt and    *)
(* price are functions of it: clients send retries byte-identically.       *)
(***************************************************************************)
EXTENDS Storage, FiniteSetsExt

CONSTANTS Calls,        \* slots for concurrently running handlers
          Payer,        \* Payer[r]: the identity that signed r
          IssuedAt,     \* IssuedAt[r]: the time stamped by the client
          Price,        \* Price[r]: the signed amount
          Tolerance,    \* payment.timestampToleranceSec
          ReserveTtl,   \* payment.reserveTtlSec
          MinHorizon,   \* the 600 s floor of the retention horizon
          RpcMax,       \* longest signature check (RPC timeout included)
          ReaperGap,    \* longest time between two successful reaper runs
          MaxTime       \* bound on the clock

ASSUME FacilitatorAssumption ==
         /\ Payer \in [RequestIds -> Identities]
         /\ IssuedAt \in [RequestIds -> Nat]
         /\ Price \in [RequestIds -> Nat]
         /\ Tolerance \in Nat /\ ReserveTtl \in Nat /\ MinHorizon \in Nat
         /\ RpcMax \in Nat /\ ReaperGap \in Nat /\ MaxTime \in Nat

VARIABLES now,         \* the server's clock
          blockedAt,   \* blocked_identities.blocked_at, NotBlocked without a row
          call,        \* what each handler is waiting for, NoRow when it is free
          answered,    \* the response the last step sent, NoRow if it sent none
          reapedAt,    \* when the reaper last ran
          burned,      \* history: requestIds that ever had a row
          acked        \* history: requestIds a commit was acknowledged for

callVars == <<now, blockedAt, call, answered, reapedAt, burned, acked>>
vars == <<storageVars, callVars>>

NotBlocked == -1

\* A handler that waits: for a signature check begun at checkedAt (reserve,
\* query), or for the second transaction of a commit.
WaitingCall == [op: {"reserve", "query", "commit"}, request: RequestIds,
                checkedAt: Int]

Answers == {"replay", "timestamp-out-of-window", "blocked", "verify-failed",
            "refused", "reserved", "recorded",
            "committed", "already-committed", "late",
            "rolled-back", "already-rolled-back",
            "invalid-state", "unknown-request"}

Response == [op: {"reserve", "query", "commit", "rollback"},
             request: RequestIds, answer: Answers]

\* Mutant: the horizon is not doubled.
UndoubledHorizon == IF ReserveTtl > Tolerance THEN ReserveTtl ELSE Tolerance

\* maintenance.service.ts: scaled with the configuration so that cleanup can
\* never undercut the reaper or the replay window.
CleanupHorizon ==
  LET longest == IF ReserveTtl > Tolerance THEN ReserveTtl ELSE Tolerance
  IN IF MinHorizon > 2 * longest THEN MinHorizon ELSE 2 * longest

\* The RPC client times out after half a second, the two others are minutes.
ASSUME RpcAssumption == RpcMax <= Tolerance \/ RpcMax <= ReserveTtl

InWindow(r) == /\ now - IssuedAt[r] <= Tolerance
               /\ IssuedAt[r] - now <= Tolerance

FacilitatorInit ==
  /\ StorageInit
  /\ now = 0
  /\ blockedAt = [i \in Identities |-> NotBlocked]
  /\ call = [c \in Calls |-> NoRow]
  /\ answered = NoRow
  /\ reapedAt = 0
  /\ burned = {}
  /\ acked = {}

-----------------------------------------------------------------------------
Free(c) == call[c] = NoRow

Waiting(c, op) == call[c] # NoRow /\ call[c].op = op

Wait(c, op, r) ==
  call' = [call EXCEPT ![c] = [op |-> op, request |-> r, checkedAt |-> now]]

Answer(op, r, a) == answered' = [op |-> op, request |-> r, answer |-> a]

Hang(c) == call' = [call EXCEPT ![c] = NoRow]

-----------------------------------------------------------------------------
(* POST /v1/reserve: verifyAndReserve.                                     *)

\* Mutant: the blocklist is not consulted.
BeginReserveUnblocked(c, r) ==
  /\ Free(c)
  /\ spent[r] = NoRow
  /\ InWindow(r)
  /\ Wait(c, "reserve", r)
  /\ answered' = NoRow
  /\ UNCHANGED <<storageVars, now, blockedAt, reapedAt, burned, acked>>

\* Short-circuit for burned ids, then the checks in the code's order: window
\* and blocklist, before the signature RPC is sent.
BeginReserve(c, r) ==
  /\ Free(c)
  /\ \/ /\ spent[r] # NoRow
        /\ Answer("reserve", r, "replay")
        /\ UNCHANGED call
     \/ /\ spent[r] = NoRow
        /\ ~InWindow(r)
        /\ Answer("reserve", r, "timestamp-out-of-window")
        /\ UNCHANGED call
     \/ /\ spent[r] = NoRow
        /\ InWindow(r)
        /\ blockedAt[Payer[r]] # NotBlocked
        /\ Answer("reserve", r, "blocked")
        /\ UNCHANGED call
     \/ /\ spent[r] = NoRow
        /\ InWindow(r)
        /\ blockedAt[Payer[r]] = NotBlocked
        /\ Wait(c, "reserve", r)
        /\ answered' = NoRow
  /\ UNCHANGED <<storageVars, now, blockedAt, reapedAt, burned, acked>>

\* The signature is good: reservePayment, received at the time of the checks.
FinishReserve(c) ==
  /\ Waiting(c, "reserve")
  /\ Hang(c)
  /\ LET r == call[c].request
         at == call[c].checkedAt
     IN /\ \/ /\ ReserveReplay(r)
              /\ Answer("reserve", r, "replay")
           \/ /\ ReserveRefused(r, Payer[r], IssuedAt[r], at, Price[r])
              /\ Answer("reserve", r, "refused")
           \/ /\ ReserveGranted(r, Payer[r], IssuedAt[r], at, Price[r])
              /\ Answer("reserve", r, "reserved")
        /\ burned' = burned \cup {r}
  /\ UNCHANGED <<now, blockedAt, reapedAt, acked>>

-----------------------------------------------------------------------------
(* GET /v1/balance and GET /v1/ledger: no short-circuit and no blocklist,  *)
(* the requestId is burned after the signature check.                      *)

BeginQuery(c, r) ==
  /\ Free(c)
  /\ \/ /\ InWindow(r)
        /\ Wait(c, "query", r)
        /\ answered' = NoRow
     \/ /\ ~InWindow(r)
        /\ Answer("query", r, "timestamp-out-of-window")
        /\ UNCHANGED call
  /\ UNCHANGED <<storageVars, now, blockedAt, reapedAt, burned, acked>>

FinishQuery(c) ==
  /\ Waiting(c, "query")
  /\ Hang(c)
  /\ LET r == call[c].request
     IN /\ \/ /\ ReserveReplay(r)
              /\ Answer("query", r, "replay")
           \/ /\ RecordBalanceQuery(r, Payer[r], IssuedAt[r], call[c].checkedAt)
              /\ Answer("query", r, "recorded")
        /\ burned' = burned \cup {r}
  /\ UNCHANGED <<now, blockedAt, reapedAt, acked>>

\* The signature is bad or the node is unavailable: nothing was written.
FailVerify(c) ==
  /\ \E op \in {"reserve", "query"} :
       Waiting(c, op) /\ Answer(op, call[c].request, "verify-failed")
  /\ Hang(c)
  /\ UNCHANGED <<storageVars, now, blockedAt, reapedAt, burned, acked>>

-----------------------------------------------------------------------------
(* POST /v1/commit and POST /v1/rollback.                                  *)

\* Mutant: a repeated commit is taken for a commit from a wrong state.
BeginCommitOnce(c, r) ==
  /\ Free(c)
  /\ WriteTx
  /\ \/ /\ CommitPayment(r)
        /\ Answer("commit", r, "committed")
        /\ acked' = acked \cup {r}
        /\ UNCHANGED call
     \/ /\ HasStatus(r, "error")
        /\ Wait(c, "commit", r)
        /\ answered' = NoRow
        /\ UNCHANGED <<storageVars, acked>>
     \/ /\ HasStatus(r, "committed") \/ HasStatus(r, "insufficient")
        /\ Answer("commit", r, "invalid-state")
        /\ UNCHANGED <<storageVars, call, acked>>
     \/ /\ spent[r] = NoRow
        /\ Answer("commit", r, "unknown-request")
        /\ UNCHANGED <<storageVars, call, acked>>
  /\ UNCHANGED <<now, blockedAt, reapedAt, burned>>

\* First transaction of commit; a refunded reservation needs a second one.
BeginCommit(c, r) ==
  /\ Free(c)
  /\ WriteTx
  /\ \/ /\ CommitPayment(r)
        /\ Answer("commit", r, "committed")
        /\ acked' = acked \cup {r}
        /\ UNCHANGED call
     \/ /\ HasStatus(r, "committed")
        /\ Answer("commit", r, "already-committed")
        /\ acked' = acked \cup {r}
        /\ UNCHANGED <<storageVars, call>>
     \/ /\ HasStatus(r, "error")
        /\ Wait(c, "commit", r)
        /\ answered' = NoRow
        /\ UNCHANGED <<storageVars, acked>>
     \/ /\ HasStatus(r, "insufficient")
        /\ Answer("commit", r, "invalid-state")
        /\ UNCHANGED <<storageVars, call, acked>>
     \/ /\ spent[r] = NoRow
        /\ Answer("commit", r, "unknown-request")
        /\ UNCHANGED <<storageVars, call, acked>>
  /\ UNCHANGED <<now, blockedAt, reapedAt, burned>>

\* Second transaction: lateCommitPayment, conditional on the status it reads.
FinishCommit(c) ==
  /\ Waiting(c, "commit")
  /\ WriteTx
  /\ Hang(c)
  /\ LET r == call[c].request
     IN \/ /\ LateCommitPayment(r)
           /\ Answer("commit", r, "late")
           /\ acked' = acked \cup {r}
        \/ /\ ~HasStatus(r, "error")
           /\ Answer("commit", r, "invalid-state")
           /\ UNCHANGED <<storageVars, acked>>
  /\ UNCHANGED <<now, blockedAt, reapedAt, burned>>

Rollback(c, r) ==
  /\ Free(c)
  /\ WriteTx
  /\ \/ /\ RollbackPayment(r)
        /\ Answer("rollback", r, "rolled-back")
     \/ /\ HasStatus(r, "error")
        /\ Answer("rollback", r, "already-rolled-back")
        /\ UNCHANGED storageVars
     \/ /\ HasStatus(r, "committed") \/ HasStatus(r, "insufficient")
        /\ Answer("rollback", r, "invalid-state")
        /\ UNCHANGED storageVars
     \/ /\ spent[r] = NoRow
        /\ Answer("rollback", r, "unknown-request")
        /\ UNCHANGED storageVars
  /\ UNCHANGED <<now, blockedAt, call, reapedAt, burned, acked>>

-----------------------------------------------------------------------------
(* Administration, maintenance and time.                                   *)

\* Simulated deposits and manual credits: insert and credit at once.
AdminCredit(o, i, amount) ==
  /\ \E block \in Blocks : InsertAndCreditDeposit(o, i, amount, block)
  /\ answered' = NoRow
  /\ UNCHANGED <<now, blockedAt, call, reapedAt, burned, acked>>

BlockIdentity(i) ==
  /\ WriteTx
  /\ blockedAt' = [blockedAt EXCEPT ![i] = now]
  /\ answered' = NoRow
  /\ UNCHANGED <<storageVars, now, call, reapedAt, burned, acked>>

UnblockIdentity(i) ==
  /\ WriteTx
  /\ blockedAt' = [blockedAt EXCEPT ![i] = NotBlocked]
  /\ answered' = NoRow
  /\ UNCHANGED <<storageVars, now, call, reapedAt, burned, acked>>

RunReaper ==
  /\ ReapExpiredReservations(now - ReserveTtl)
  /\ reapedAt' = now
  /\ answered' = NoRow
  /\ UNCHANGED <<now, blockedAt, call, burned, acked>>

ReaperRow(r) ==
  /\ ReapRow(r)
  /\ answered' = NoRow
  /\ UNCHANGED <<now, blockedAt, call, reapedAt, burned, acked>>

RunCleanup ==
  /\ CleanupSpentRequests(now - CleanupHorizon)
  /\ answered' = NoRow
  /\ UNCHANGED <<now, blockedAt, call, reapedAt, burned, acked>>

\* The process dies: the handlers it ran are gone, the database stays.  (Dying
\* inside the reaper's transaction undoes it, which is dying before it.)
Crash ==
  /\ WriteTx
  /\ call' = [c \in Calls |-> NoRow]
  /\ answered' = NoRow
  /\ UNCHANGED <<storageVars, now, blockedAt, reapedAt, burned, acked>>

\* Time passes, but no signature check outlives RpcMax and the reaper is not
\* silent for longer than ReaperGap.
Tick ==
  /\ now < MaxTime
  /\ WriteTx
  /\ now < reapedAt + ReaperGap
  /\ \A c \in Calls : Waiting(c, "reserve") \/ Waiting(c, "query") =>
                        now < call[c].checkedAt + RpcMax
  /\ now' = now + 1
  /\ answered' = NoRow
  /\ UNCHANGED <<storageVars, blockedAt, call, reapedAt, burned, acked>>

Handler ==
  \E c \in Calls :
    \/ \E r \in RequestIds : \/ BeginReserve(c, r) \/ BeginQuery(c, r)
                             \/ BeginCommit(c, r) \/ Rollback(c, r)
    \/ FinishReserve(c)
    \/ FinishQuery(c)
    \/ FailVerify(c)
    \/ FinishCommit(c)

Administration ==
  \/ \E o \in Outputs, i \in Identities, amount \in Amounts : AdminCredit(o, i, amount)
  \/ \E i \in Identities : BlockIdentity(i) \/ UnblockIdentity(i)

Maintenance == RunReaper \/ (\E r \in RequestIds : ReaperRow(r)) \/ RunCleanup

FacilitatorNext == Handler \/ Administration \/ Maintenance \/ Crash \/ Tick

FacilitatorSpec == FacilitatorInit /\ [][FacilitatorNext]_vars

\* The reaper's interval fires again and again, its transaction runs to the
\* end, the signature RPC times out at the latest, and time passes.
Fairness ==
  /\ WF_vars(RunReaper)
  /\ \A r \in RequestIds : WF_vars(ReaperRow(r))
  /\ \A c \in Calls : WF_vars(FailVerify(c))
  /\ WF_vars(Tick)

LiveFacilitatorSpec == FacilitatorSpec /\ Fairness

-----------------------------------------------------------------------------
(* Properties.                                                             *)

\* Every handler waits for one of the three things a handler can wait for, every
\* answer is one the API has, and the tables below stay well formed.
FacilitatorTypeOK ==
  /\ StorageTypeOK
  /\ now \in 0..MaxTime
  /\ blockedAt \in [Identities -> 0..MaxTime \cup {NotBlocked}]
  /\ call \in [Calls -> WaitingCall \cup {NoRow}]
  /\ answered \in Response \cup {NoRow}
  /\ reapedAt \in 0..MaxTime
  /\ burned \subseteq RequestIds
  /\ acked \subseteq RequestIds

\* The net effect of requestId r on its payer's ledger.
NetOf(r) == LET entries == ledger[Payer[r]]
            IN SumOfLines(entries, {n \in DOMAIN entries : entries[n].ref = r})

\* Money was once held for r; a signed query burns its requestId without.
WasReserved(r) ==
  LET entries == ledger[Payer[r]]
  IN \E n \in DOMAIN entries : entries[n].ref = r /\ entries[n].reason = "reserve"

\* What the facilitator promises, whatever it does to keep it: the requests'
\* states as the account sees them.
StateOf(r) ==
  IF HasStatus(r, "reserved") THEN "held"
  ELSE IF WasReserved(r) THEN IF r \in acked THEN "charged" ELSE "released"
  ELSE IF r \in burned THEN "refused" ELSE "new"

\* What deposits and manual credits paid in for i.
FundedWith(i) ==
  SumOfLines(ledger[i], {n \in DOMAIN ledger[i] : ledger[i][n].reason = "deposit_credited"})

AccountView == INSTANCE Account WITH available <- balance,
                                     funded <- [i \in Identities |-> FundedWith(i)],
                                     state <- [r \in RequestIds |-> StateOf(r)]

\* Every run of the facilitator is a run of the abstract prepaid account: money
\* is held, charged, released and charged late exactly as Account allows, and
\* purged rows, replays, crashes and repeated calls are invisible to it.
ImplementsAccount == AccountView!AccountSpec

BurnedOnce(r) == spent[r] = NoRow /\ spent'[r] # NoRow => r \notin burned

\* A burned requestId is never burned again, not even after cleanup purged its
\* row: a replay inside the acceptance window always meets the row, whatever
\* the client's clock, the length of the signature check and the time of the
\* cleanup run (maintenance.service.ts: "a purged requestId can never be
\* replayed inside the acceptance window").
NoReplayAfterPurge == [][\A r \in RequestIds : BurnedOnce(r)]_vars

\* Two-phase debit: while the row is there, the ledger has debited exactly the
\* price if the request is reserved or committed and nothing if it is refused
\* or refunded, through every reaper race, late commit and repeated call.
ChargeMatchesStatus ==
  \A r \in RequestIds :
    spent[r] # NoRow =>
      NetOf(r) = IF spent[r].status \in {"reserved", "committed"}
                 THEN -spent[r].amount ELSE 0

\* Whatever is retried or raced, and after the row is gone, a requestId never
\* costs more than its price once and never earns its payer money.
ChargedAtMostOnce == \A r \in RequestIds : NetOf(r) \in {0, -Price[r]}

\* An acknowledged commit is final: no rollback, reaper or cleanup that comes
\* later gives the money back or takes it twice.
AckedCommitIsFinal ==
  \A r \in acked : WasReserved(r) => NetOf(r) = -Price[r]

GrantedUnblocked(r) ==
  /\ ~HasStatus(r, "reserved")
  /\ spent'[r] # NoRow
  /\ spent'[r].status = "reserved"
  /\ blockedAt[Payer[r]] # NotBlocked
  => now <= blockedAt[Payer[r]] + RpcMax

\* Blocking takes effect: a payment granted now passed the blocklist check at
\* most RpcMax ago, so an identity blocked for longer than that pays nothing.
BlockTakesEffect == [][\A r \in RequestIds : GrantedUnblocked(r)]_vars

ReservationKept(r) == HasStatus(r, "reserved") => spent'[r] # NoRow

\* Cleanup never undercuts the reaper: a reservation is settled or refunded
\* before its row is purged, so no held money is lost with its row
\* (maintenance.service.ts:43-44).
CleanupNeverUndercutsReaper == [][\A r \in RequestIds : ReservationKept(r)]_vars

\* commit is idempotent (facilitator-api.md:116): no repeat of it is refused
\* while the payment stands committed, however the row got there.  It holds for
\* the handlers of one process; two processes can meet between the transactions
\* of a late commit.
RepeatedCommitSucceeds ==
  answered # NoRow /\ answered.op = "commit" /\ answered.answer = "invalid-state"
    => ~HasStatus(answered.request, "committed")

\* A reservation nobody settles does not hold the payer's money forever: the
\* reaper gets to it (unless the clock reaches its bound first).
ReservationsSettle ==
  \A r \in RequestIds :
    HasStatus(r, "reserved") /\ spent[r].receivedAt + ReserveTtl + ReaperGap < MaxTime
      ~> HasStatus(r, "committed") \/ HasStatus(r, "error")
=============================================================================
