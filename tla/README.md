# Formal models of v402

TLA+ models of the v402 payment stack (`packages/`): prepaid, signature
authenticated HTTP payments from VerusID balances. TLC checks small instances;
TLAPS proves the central safety properties for every value of the constants.

## The system

| Part | State | Operations | Hard about it |
|---|---|---|---|
| `storage`, `storage-sqlite` | identities (balance), `spent_requests`, `deposits`, `ledger_entries`, blocklist, watcher cursor | reserve, commit, rollback, late commit, reap, cleanup, credit, re-mine, reorg | balance, ledger and row status must move together under any order of calls |
| `verifier` (prepaid-sig) | none of its own | `verifyAndReserve`, `commit`, `rollback` | awaits a signature RPC between the checks and the reservation; commit is two transactions |
| `verifier` (identity-provider) | identity cache, fetches in flight | get, refresh | stale keys, fetches begun before a rotation, rate-limited refreshes |
| `facilitator` API and maintenance | clocks, timers | HTTP handlers, reaper, cleanup, admin credit, reconciliation | independent timers, crashes between two phases |
| `deposit-watcher` | cursor (in storage), the running poll | poll: reorg check, scan, credit at depth | the chain moves while a poll runs; polls fail half way |
| `adapter-nestjs`, `proxy`, `verifier` (HTTP client) | the request being served | reserve, run the handler, commit or roll back | lost answers in either phase |
| `client-fetch` | accepts cache | 402 handshake, retries of the same signed request | what may be retried under which requestId |
| `mcp` | amount spent in this process | paid fetch under caps | concurrent tool calls |
| `protocol`, `signer-verus` | none | amounts, canonical payload, headers, signatures | exact conversions, M-of-N rule |
| `verus-rpc` | circuit breaker | JSON-RPC calls with timeout | failures end calls at any await |
| `test-vectors`, `conformance-suite`, `apps`, `scripts` | none | tests and examples | - |

A client asks a resource server, gets a 402 challenge, signs a payload bound to
a fresh requestId and sends it again. The resource server (adapter or proxy) lets
the facilitator verify and reserve the price, runs the request, and commits
(2xx, 4xx) or rolls back (5xx, network failure). The reaper refunds reservations
nobody settles; a commit that comes after the reaper debits again (late commit).
Cleanup forgets requestIds older than the retention horizon. Balances come from
on-chain deposits the watcher finds, attributes to a sender identity and credits
at confirmation depth, or from operators by hand.

## Modules

| Module | Models |
|---|---|
| `Storage` | the IStorage operations that move money or rows, one action per transaction; the reaper's transaction is a loop over rows and is modelled row by row under its write lock |
| `StorageReads` | the queries of `SqliteStorage` behind balance, ledger and reconciliation |
| `MemoryStorage` | `InMemoryStorage` in its own representation (maps, numeric deposit ids, one ledger array), with clients that page through their statement and reconciliation on top; refines `Storage` |
| `Facilitator` | `Storage` under concurrent handlers: payment API, signed queries, blocklist, reaper, cleanup, crashes, a clock |
| `Account` | the abstract prepaid account: hold, charge, release, charge late, fund |
| `Attribution` | whom a deposit is credited to, from the inputs of its transaction |
| `DepositWatcher` | `Storage` and `Attribution` under `RealDepositWatcher`: one or more watchers, a chain that grows and reorganises, failing polls, manual credits |
| `PaidRequest` | `Storage` under a paid tool call end to end: MCP server, paying client, proxy or NestJS adapter, HTTP verifier client, with every message losable |
| `Signing` | extension blocks, canonical payloads, signatures and the client's signed requests, as pure operators |
| `Verifier` | `Signing` under concurrent checks: the prepaid-sig checks, the offline identity cache, the RPC client and its circuit breaker |
| `MCMemory`, `MCFacilitator`, `MCDepositWatcher`, `MCPaidRequest`, `MCVerifier` | instances for TLC |
| `SumProofs` | lemmas about sums over finite sets and smallest numbers |
| `StorageProofs`, `MemoryProofs`, `FacilitatorProofs`, `AccountProofs`, `WatcherProofs`, `PaidRequestProofs`, `VerifierProofs` | theorems |

`Facilitator`, `DepositWatcher` and `PaidRequest` extend `Storage` and use its operations
unchanged; `Facilitator` is refined from `Account` by an instance
(`ImplementsAccount`), `MemoryStorage` from `StorageReads`, which extends `Storage`, by
another (`ImplementsStorage`).

### Storage

`balance`, `spent`, `deposits` and `ledger` are the tables, keyed as in
`schema.ts`; `known` is the set of identities that have a row; `expired` is the
work list of the reaper transaction, non-empty exactly while that transaction
holds the write lock (`WriteTx`). Sats are integers as in the code (bigint, TEXT
in SQLite). Columns that no decision reads are left out.

### MemoryStorage and StorageReads

`memory.ts` calls itself "semantically equivalent to the SQLite backend". `MemoryStorage`
is that file as it is written: identities without a row are absent from a Map, deposits
are found by key or by a linear search for their id, and the ledger of an identity is
filtered out of one array. `ImplementsStorage` maps it to the tables: whatever a method body
does, some transaction of the tables could have done, or nothing has changed in them. (Which
transaction it is, refinement does not say; the lemmas of `MemoryProofs` do.)

A reader asks for its statement one page after another (`ReadPage`, with `afterId` as the
client computes it) while any other operation runs between the pages, and `Reconcile` is
the comparison of `ReconciliationService`. The SQLite driver is synchronous, so the awaits
between balance and ledger summary of one identity, and between the sums of a balance answer,
resolve at once and the reads are one step; a second process on the same file could come between
them, which is not modelled.
`ReadsAgree` compares what these reads return with the queries of `StorageReads`.

### Facilitator

A handler is cut at the signature RPC and between the two transactions of
commit. `BeginReserve` does the replay short-circuit, the window and the blocklist
check; `FinishReserve` reserves with the time of those checks. Signed queries do
not consult the blocklist and have no short-circuit, as in the controllers.
`FailVerify` stands for a bad signature, an unavailable node and a call that
never returned. Header, extension and canonicalisation failures write nothing and
are not distinguished. Each requestId stands for one signed payload, as clients
resend byte-identically (`Payer`, `IssuedAt`, `Price`). Blocklist writes and manual
credits may come at any time. `burned` and `acked` are history variables. The two
transactions of a commit can only be separated by another process on the same
database, since the SQLite driver is synchronous; the model allows it always.

### DepositWatcher and Attribution

A poll is cut between its calls to the node and to the storage: tip, cursor,
cursor hash, verification of each recorded deposit, each block, each output and its
write, cursor move, listing, each credit. `MoveChain` takes the node to any longer
chain of the set `Chains`; `ReorgsMidPoll` says whether blocks may be replaced while
a poll runs. `bootstraps` is a history variable: the heights the cursor was set at
on first start. `PollFails` is a failed RPC or a process that dies. The sender of each
output is `AttributeSender` of its inputs, which come in the kinds `attribution.ts`
distinguishes (coinbase, an address, a list of them, a spent output to be fetched).

### PaidRequest

`Tools` are calls of `v402_paid_fetch`: probe, caps, `client.fetch`, counting. Inside,
`paidFetch` goes through `challenge`, `sign`, `wait`, `answered`, `read`. Each copy of a
request that is sent is a record in `handlers`, which the resource server takes from
`arriving` over `reserving`, `forwarding` and `settling` to its end. The client waits for the
answer of its latest attempt; its connection can fail at any moment (`NetworkError`), which
leaves the copy where it is, so that copies overtake each other. A handler can vanish at any
step (`HandlerDies`, or `Deploy`, which replaces the rules of the resource server and ends all
its connections), except that a reserve the facilitator has been sent runs on (`orphaned`). The
link to the facilitator loses reserve answers (`ReserveUnheard`) and whole phase-2 calls
(`Settle` without `SettleAt`). The proxy pipes the answer through before it settles, the
NestJS interceptor after; `Forward` chooses. The rules are matched in order, the first one
counts, and a route can be free under one set of rules and priced under the next. `Earlier`
is what other calls have spent before, and the cache of requirements starts in any state an
earlier call could have left. `signed` and `served` are history variables, and so is the
field `moved` of a call. `Deploy` ends every copy in flight: rolling deploys, in which servers
with two prices answer side by side, are outside the model, and `OnePaymentPerCall` rests on that.

### Signing and Verifier

A payload is the sequence of its lines, a digest is the tuple of what it binds, and a compact
signature is a key with the digest it signed: recovery gives that key for that digest and
nothing for another. `SendPaid`, `GetBalance` and `GetLedger` build requests as the client
does; `MCVerifier` alters them in every part and lets TLC evaluate that none of these verifies
(`SignaturesBind`), that extension blocks round-trip (`BlocksRoundTrip`), and that a request
is turned away for the first reason the code checks (`RefusedInOrder`).

`Verifier` has slots in which checks run concurrently. A check runs up to its call to the node
in one step, as the code does; the node reads its state (`NodeReads`) and answers later
(`Deliver`), so a key can rotate in between. Fetches of one identity are shared. Everything
carries its age in ticks, cut off where no comparison looks further, so the run is unbounded in
time. The breaker is the `cockatiel` policy as the code configures it: consecutive failures
open it, one call after `Recovery` tests the node while others queue behind it, and only
`isUnavailability` errors count (`CallFails`). A call may also end in any other error
(`CallErrs`): the node answers with a JSON-RPC error that says nothing of the identity, or the body of
its answer breaks off. For the breaker that is an answer, and those who await it are told
`invalid-signature`. `answers` are the checks judged in the last step; its field `erred` is history.

## Runs

| Run | Shows | Bounds |
|---|---|---|
| `MCMemory` | the in-memory backend implements the tables; pages, balance and reconciliation agree with them | 2 identities, 1 requestId, 2 deposits, 3 ledger rows in all, pages of 2 lines: a full page, a page that ends with the statement and one that is cut off |
| `MCFacilitator` | at-most-once charging, final commits, no replay, blocklist, retention, reservations settle | 1 requestId, 2 handlers, clock to 9: the request's window (0 to 4), the purge (7) and replays after it |
| `MCFacilitatorAccount` | refinement of `Account`; balance, ledger and statuses stay in step; commit is idempotent within one process | 2 requestIds of 1 sat each for a balance of 1 or 2, so that they compete or are both held and reaped together; 1 handler, clock to 5 |
| `MCFacilitatorDefaults` | finding: cleanup overtakes the reaper | defaults scaled to the reaper's 60 s: tolerance 5, reserve TTL 5, horizon 10 |
| `MCDepositWatcher` | deposits counted once, at depth, all of them, manual credits untouched, every movement booked | 1 watcher, chains A, B, C up to 8 blocks that move two payments and then drop one, lookback 3, 4 blocks a poll, depth 1 |
| `MCWatcherParallel` | nothing skipped, nothing counted twice | 2 watchers, one growing chain of 6 blocks, 2 blocks per poll, 1 failed poll |
| `MCWatcherMidPoll`, `MCWatcherReturn`, `MCWatcherManual` | findings, below | 1 watcher, a handful of chains |
| `MCPaidRequest` | served once, charged once and only when served, at the price probed; stale requirements heal; calls end | 1 call, 1 transient and 1 price retry (so up to 3 signed requests, each sent twice), 2 restarts among 3 sets of rules (price 1, price 2, free), 1 deposit of 3 sats that may come late, caps of 1 per request and 2 in all with 1 spent before, so that a cached price of 2 is above the cap |
| `MCPaidCap` | finding: the cumulative cap is exceeded | 2 calls at once, no retries, no restarts, 2 requestIds |
| `MCVerifier` | accepted only as signed, by keys the chain held a moment ago; fresh keys are not refused for long; refreshes are rate limited; outages pass | 2 slots, 2 identities for 1 cache entry, a 2-of-2 identity that rotates to another key, TTL 2, refresh age 1, breaker at 2 failures: an entry can expire, be evicted and be stale while the breaker opens and tests |

In `MCFacilitator` one time unit is the reaper's interval (60 s). The reservation
and tolerance times are a few units, so that every order of window, reaper and
cleanup occurs; the theorems below hold for all values. Symmetry is used in
`MCMemory` only, which checks no liveness.

Fairness. `MCFacilitator` assumes that the reaper's interval keeps firing and its
transaction ends (`@Interval("reaper")`), that a signature check ends (the RPC client
has a timeout) and that time passes. Clients, operators and cleanup owe nothing.
The watcher runs assume that a poll that can go on does, and that the timer starts
the next one (`start()` reschedules after success and failure alike). `MCPaidRequest`
assumes of each tool call that it goes on: it is code that runs, and what it waits for is
answered or its connection fails (`NetworkError`), since Node's `fetch` gives up after its
header and body time-outs of 300 s; nothing
is assumed of the resource server, the facilitator or the reaper. `MCVerifier` assumes that time
passes and that a call to the node is answered or fails (`timeoutMs`); the node itself may
stay away for ever.

Deadlock is checked in every run.

## Findings

Each is a run that violates one property stated by a doc or a comment.

1. `MCFacilitatorDefaults`: with the default 300 s / 300 s / 600 s a reservation
   whose client clock is 300 s behind is due for the reaper and for cleanup at the
   same second; if cleanup runs first the held money is lost
   (`maintenance.service.ts:43-48`).
2. `MCWatcherMidPoll`: a reorg within a poll, after the check of the cursor block and while the
   range is being scanned, is not noticed (`real-watcher.ts:151-192`).
3. `MCWatcherReturn`: a payment whose original block returns stays marked reorged
   (`real-watcher.ts:241`).
4. `MCWatcherManual`: a manual credit under the payment's own txid is taken for a
   re-mine by the first scan after it and credited again (`real-watcher.ts:238-247`).
5. `MCPaidCap`: two paid fetches that run at once are both admitted on what is left of the
   cumulative cap, which is compared before the fetch and counted after it
   (`mcp/server.ts:103-111`), although `mcp/server.ts:35-37` says that "the model can never
   spend more than the operator configured, no matter what it is asked".

Four more can be seen by changing the constants of a passing run:
- `RepeatedCommitSucceeds` fails with two handlers (Calls = {c1, c2}): two commits on two
  processes that both find a refunded reservation; one answers 409 although the
  payment is committed (`prepaid-sig.ts:377-381`).
- `CreditedOnlyWhenBuried` fails with MaxFailures = 1 and the chains `Dropped`: rows
  recorded above the cursor by a failed poll are not verified when their blocks are
  replaced (`real-watcher.ts:189-203`).
- `HistoryIgnored` fails with StartHeight = 0 and the chains `Replaced`: the rescan after
  a reorg reaches below the bootstrap height (`real-watcher.ts:153`).
- `CursorCertifies` fails with MaxPerPoll = 2, below the lookback: a rescan that is capped sets
  the cursor below rows already recorded, and a second reorg of their blocks passes unnoticed
  (`real-watcher.ts:153`, `:184`). The defaults, 20 and 200, are safe; the configuration
  does not tie one to the other (`config/schema.ts:69`).

The passing watcher run excludes exactly these: reorganisations come between
polls, no block returns, no poll fails under a reorganisation, the watcher has a
startHeight, and manual credits do not reuse the txid of a payment on the chain.

Where code and docs say different things and the model follows the code:
- `handshake.ts:227` retries any 503 or 429, the endpoint's own included, while
  `prepaid-sig-scheme.md:198` says clients must not auto-retry endpoint 5xx and
  `signers.md:81` that they do not. It costs the payer nothing (`OnePaymentPerCall`,
  `ServedAtMostOnce`): the retry is answered 409, which then hides the endpoint's answer.
- `handshake.ts:149-150` says that a stale cache does not consume the price-mismatch
  budget, but the loop's counter moves on (`SignAgain`): with `priceMismatchRetries` 1 a
  price that moves right after is handed to the caller. `MismatchMeansPriceMoved` therefore
  allows a mismatch when the price moved during the call.
- `facilitator-api.md:265` and `prepaid-sig-scheme.md:196` say of 503 that nothing was
  reserved; `http-facilitator-verifier.ts:60-69` answers 503 as well when the facilitator's
  answer to a reserve was lost (`ReserveUnheard`).
- `proxy/server.ts:124` says that a failed phase-2 call is logged; `commit` and `rollback` of the
  HTTP verifier return `{ok: false}` instead of throwing, so most failures are not.
- The cumulative cap of the MCP server (finding 5) is missed in other ways too: a call that
  throws after it was charged is not counted (`Throw` in step `read`), nor is a service that
  answers 402 itself, and a price that rises between probe and payment is counted as it was probed.
  The cap per request can be exceeded in this last way. `ChargedAsProbed` says what is left: what
  is charged is the price that was compared, within the cap per request, as long as the price stands still.
- `prepaid-sig-scheme.md:106-113` says that verification MUST use the latest identity state, so that
  revocation and rotation take effect immediately, and `signers.md:61-63` that facilitators do. In
  offline mode `identity-provider.ts:39-42` serves a cached state for `ttlSec` (60 s), and a rotated or
  revoked key goes on paying for that long. `AcceptedAsSigned` demands the latest state in rpc mode and of
  queries, and of offline mode only the bound the code documents.
- `verus-rpc/errors.ts:8-10` calls a node unavailable that could not be reached or did not answer in time, and
  `prepaid-sig-scheme.md:230-236` keeps `invalid-signature` for semantic failures. But `await response.text()`
  (`json-rpc.ts:40`) is outside the `try`, so a body that breaks off is a plain error, and every JSON-RPC error
  (`json-rpc.ts:47-48`, a node that warms up) passes `client.ts:80` untouched;
  `prepaid-sig.ts:279-280` turns both into 402 `invalid-signature`, whatever the signature
  (`ledger.controller.ts:98` likewise). `CallErrs` does the same, and `FreshKeysHeal`
  excepts the checks it ends.
- `identity.controller.ts:40-42` normalizes the fully qualified name with its chain suffix while
  attribution strips it (`attribution.ts`), so `account` is null for names that carry one.

## Proofs

All theorems are about the specification itself, for any values of the constants that meet the
named assumptions of the modules (TLC evaluates these on every run), and, where a theorem is
an `ASSUME ... PROVE`, the hypotheses it names.

`SumProofs` proves what `SumFunctionOnSet` computes: a sum over a finite set is an integer, the
sum over S with one more element is the sum over S and that element's value in whatever order
it is taken, and equal functions have equal sums. The induction is over finite sets and is
written out as the choice of a smallest counterexample, since the induction theorems of the
library take an operator, which no prover instantiates. All proofs about amounts use these.

### Storage

`StorageProofs`: `TypeCorrect` (StorageTypeOK), `StatementsAddUp` (LedgerChained), `Solvent`
(AssertionNeverThrows), `EveryMovementIsBooked` (OneRowPerMovement), `Prepaid`
(OverdraftOnlyLate), `RowsSettleForward` (RowsOnlySettle), `BalancesAreSums` (the balance is the
sum of the ledger, which is what reconciliation compares). The inductive invariant
`StorageInv` adds to the type invariant and the chained ledger that an identity's
balance is the latest `balanceAfter` or 0 when it has no ledger row (BalanceIsLatest:
AssertionNeverThrows says it only for identities with a row in the table, which a first
credit does not preserve) and that the reaper's work list holds reservations of known
identities (ExpiredAreReserved, which `StorageTypeOK` states as well: without it the row-by-row
refund could refund anything).

### MemoryStorage

`MemoryProofs`: `MemoryImplemented` proves `ImplementsStorage` for any identities, requests, deposits and
page limits: seen as tables, every step of `InMemoryStorage` is some transaction of
`Storage`, or changes nothing. (The lemmas from `ReserveShown` to `MarkReorgedShown` say which: the
one of the same name.) `RowAssumption` says that prices are natural numbers and that the
value that stands for a missing row is no row. `MemoryInv` is what the mapping rests on: the Maps
hold well-formed rows (MapsOK); a deposit's numeric id names one key and is below the next id, so that
depositById finds the row the table keeps under the output (IdsAddress); every deposit line of the ledger
names an id that was given, so that a new deposit is never taken for an old line's (RefsOld);
and the loop of the reaper has left only rows that are present (LoopOK). The ledger of an identity
in the tables is its part of the one array, and `RowsBehind` is followed line by line as the array
grows. A row the loop visits and does not refund is a stutter: SQLite's query has
left it out. The assertion in the methods is never needed for the refinement: what it guards is
AssertionNeverThrows of `Storage`.

### Facilitator and Account

`FacilitatorProofs`: `FacilitatorTypeCorrect`;
`NeverReplayed` (NoReplayAfterPurge): a purged requestId was issued longer ago than the
horizon (PurgedAreOld), a check in flight began when it was in the window and at most
`RpcMax` ago (ChecksAreYoung), and the horizon is at least the tolerance plus
`RpcMax` by `CleanupHorizon` and `RpcAssumption`; `BlockedIdentitiesStopPaying`
(BlockTakesEffect); `ReservationsOutliveCleanup` (CleanupNeverUndercutsReaper) under the
explicit hypothesis `HorizonCoversReaper`: the horizon leaves room for tolerance + reservation
time (or RPC time) + reaper gap, which the default configuration does not meet (finding 1).
`RpcAssumption` says that a signature check is shorter than the tolerance or the reservation
time: 0.5 s against 300 s.

`AccountProofs` is about money per request. `MoneySteps` reduces every action to one of a few
kinds of step (a fresh requestId is burned, refused or reserved; a row is settled, refunded,
charged late or purged; an identity is funded), and `ChargesInv` follows the ledger lines of a request
through them: a request without a row and never burned has none, a reserved or committed
row nets to the price, a refunded or refused one to nothing, an acknowledged commit to the price even
after its row was purged. From it `ChargesMatchStatuses`, `NeverChargedTwice` and
`AckedCommitsAreFinal`. The same steps are steps of `Account` or stutter:
`AccountImplemented` proves `ImplementsAccount` for any number of handlers and requests, under
`HorizonCoversReaper`, because a hold that cleanup deletes is never released. `RepeatedCommitsSucceed`
is proved for one handler (`OneHandler`, one process, in which the synchronous driver keeps the two
transactions of a commit together): a commit that waits for its second transaction finds
its row still refunded or purged (`LateCommitsWait`).

### DepositWatcher

`WatcherProofs` has one inductive invariant per hypothesis, since the code keeps these promises
under different circumstances. Each hypothesis below is needed: a finding or a
change of constants listed above shows what happens without it.

- `WatcherInv` holds for any chains, watchers and failures: a row the watcher wrote
  names a block that some chain the node has been on had, with the payment in it (RowsMined), and a poll
  carries only such blocks (PollOK). It gives `WatcherTypes` and `ManualCreditsAreFinal`.
- `BookInv` holds for one watcher, without reorganisations in the middle of a poll, without failing polls,
  and with a poll that can scan further than its rescan reaches back (`Orderly`: the
  defaults are 200 and 20). Between polls the recorded rows are those of one chain, the one
  the cursor was set on, none above it (BookStands). While a poll verifies, every row its
  chain has lost is still on its list, and the range to scan reaches above all rows (VerifyKnows); while
  it scans, all rows are on its chain (ScanKnows); what it lists for crediting
  is still recorded as listed (CreditKnows). It gives `CreditsAreBuried` (CreditedOnlyWhenBuried).
- `CountInv` adds that the ledger has booked for every output its amount, if it is credited to that
  identity, and nothing otherwise (LedgerCounts), so that a reorg takes back what was credited and a re-mine
  starts from nothing. It gives `DepositsCountOnce` (CountedOnce) when
  operators do not credit a txid that pays on the chain (`ManualOffChain`, finding 4).
- `ScanInv` says that no row on the chain the book stands on is marked reorged and that every payment
  up to the cursor has a row. It gives `CursorSpeaksForBook` (CursorCertifies) when
  reorganisations are no deeper than the lookback (`Shallow`) and do not return to a block they replaced
  (`NoReturn`, finding 3).
- `HistoryInv` gives `HistoryStaysIgnored` (HistoryIgnored) for any number of watchers and failing polls on
  a chain that only grows (`Grows`): every cursor and range starts above some bootstrap height.

### PaidRequest

`PaidRequestProofs` proves about `PaidSpec`, for any number of tool calls, requestIds, rules,
prices, retries and restarts: `PaidServedAtMostOnce`, `PaidChargedOnlyIfServed`,
`PaidOnePaymentPerCall`, `PaidMismatchMeansPriceMoved`, `PaidChargedAsProbed` and `PaidTypes`.
The first two are not inductive: they need the chain from a signature
to a charge (`Service`). A handler reserves only at the signed price; what is forwarded or
settled has a row, and without a row nothing was served, so the handler whose reservation is
granted is the first and only one to forward its requestId (`OneForwards`); a handler settles
by an answer the service has given (`SettlesServed`). `Quiet` collects the many steps that
cannot disturb it; granting, forwarding and settling have a lemma each. The third adds that of
the requestIds a call has signed all but the latest are `Unpayable`, and the latest too once
the call is about to sign another: no handler forwards or settles it, and none that could
still reserve it would pass the price check. That holds because a price-mismatch is answered
before anything is reserved, because an insufficient balance burns the requestId, and because a
restart, the one way to a new price, takes the copies under way with it.

`Priced` follows the price a call that saw no restart works with: what it was offered or probed is the server's
price, its signature and its copies carry that price, so a mismatch tells of a restart, or of a requirement
that came from the cache and is given up once, and what a handler reserves, an orphaned one too, is
the price that was compared with the cap per request (`PaidChargedAsProbed`): a stale requirement is signed, but turned
away before anything is written. `PaidTypes` takes the invariant of the storage along and the
budgets of the client (`Counters`). Nothing is proved about the cumulative cap, which does not hold
(finding 5).

### Verifier

`VerifierProofs` is about `VerifierSpec` with any identities, requests, states of the chain, slots and times.
`VerifierInv` relates ages: what the node has answered, the chain has held since the call was made
(CallsAge), and what an entry of the cache says it has held since the call that fetched it was made, so at most
`RpcMax` before the entry's age (CacheAges). A check that runs has passed everything before the signature and has a
call it waits for (ChecksWait); a half-open breaker has one call under test and only then are
others queued (OneTest); an identity asked about a moment ago has that call under way or an entry as young as it
(FetchesKnown). From these `VerifierTypes`, and `RefreshesAreLimited`, since a fetch starts only where no
young entry is found.

`VerifiedIfSigned` is the step from the code's check to what is meant by it: for a request that passes the checks
before the signature, `VerifyIdentitySignature` over the server's payload succeeds in a state exactly if the
keys of this state have signed what is served. It needs that an extension block which parses in strictly ascending
order serializes to itself (`SerializedParsed`: an order-preserving permutation moves nothing), so that the bytes
that were checked are the bytes that were signed. Together with the ages it gives `AcceptedOnlyAsSigned`
(AcceptedAsSigned) and `FreshKeysAccepted` (FreshKeysHeal): a signature that is judged, and
refused, is not one of the keys the chain held throughout. Nothing is claimed of a check whose call ended
in an error (`CallErrs`).

### Only model-checked

- Liveness: ReservationsSettle, BuriedIsCredited, OrphansAreReversed, CallsEnd, OutagesPass. It is out of the
  prover's reach.
- ReadsAgree: what the Map-based reads and the queries of SQLite sum up. Both sides compute sums over the same
  lines from different representations; the lemmas of `SumProofs` are what a proof needs, with an
  invariant that what was taken from an identity is at least what is reserved.
- What the client builds (`SignaturesBind`, `BlocksRoundTrip`, `RefusedInOrder`): TLC evaluates these over the
  requests of `MCVerifier`.

## Plan

1. `Storage`, `MemoryStorage`, `Facilitator`, `Account`: done, safety proved but for ReadsAgree.
2. `DepositWatcher` with `Attribution`: done, safety proved.
3. `PaidRequest`: done, safety proved.
4. `Signing`, `Verifier`: done, safety proved.
5. To do: prove ReadsAgree about `MemoryStorage`.

## Not modelled

- Elliptic curves, hashes, WIF, the byte layout of signatures: symbolic in `Signing`.
- HTTP framing, JSON-RPC encoding, the formatting of amounts, the wording of schemas and answers.
- The parsing of configuration, dependency injection, start-up, metrics, logs, and the endpoints
  that report configuration or relay the node (health, discovery, topup, identity).
- The on-chain figure of reconciliation, which the code calls advisory and computes from a float,
  and the log of reconciliation runs.
- Reads torn between two processes on one SQLite file, and two watchers bootstrapping at the
  same time: the code gives no rule for either.
- Endless streams: `maxRetryAfterMs`, back-pressure of the proxy's pipe and a client that leaves
  in the middle of an answer. In the last case phase 2 is not reached, which `HandlerDies`
  covers, and the reaper refunds.
- SQLite's durability (a committed transaction survives a crash in the model); wall clocks that
  jump backwards. The blocklist is not persisted separately from the other tables: a crash
  leaves it as it was.
- `conformance-suite`, `test-vectors`, `scripts`, `apps`, `examples`, `docker`: test and build
  tooling that runs once over fixed inputs and keeps no state of the system.
