---------------------------- MODULE DepositWatcher ----------------------------
(***************************************************************************)
(* The deposit watcher (packages/deposit-watcher/src/real-watcher.ts)      *)
(* between the node's chain and the storage: a poll reads the tip, checks  *)
(* the cursor block's hash, verifies the recorded deposits when it is      *)
(* gone, scans blocks for payments, moves the cursor and credits at depth. *)
(*                                                                         *)
(* A poll is cut between its calls to the node and to the storage, since   *)
(* the chain, an operator and another process's watcher can move there; a  *)
(* call to the node and the write that follows it at once are one step.  A *)
(* call that fails ends the poll where it is; what it wrote stays, and so  *)
(* it is when the process dies.                                            *)
(*                                                                         *)
(* The chain is the environment: it moves to a longer one of a given set,  *)
(* extending itself or replacing blocks.  A payment's sender is found from *)
(* the inputs of its transaction (Attribution); outputs of one block are   *)
(* taken in any order.                                                     *)
(***************************************************************************)
EXTENDS Storage, SequencesExt, FiniteSetsExt, TLC

CONSTANTS Watchers,       \* watcher processes on one database
          Chains,         \* the chains the node can be on: sequences of blocks
          Genesis,        \* hash of block 0
          Vins,           \* inputs of the transaction of each output
          IdentityAddresses, AccountOf,  \* as in Attribution
          Value,          \* sats of an output
          ManualOutputs,  \* (txid, vout) an operator may credit by hand
          StartHeight,    \* config.startHeight, 0 when not set (bootstrap at the tip)
          Lookback,       \* config.reorgLookbackBlocks
          MaxPerPoll,     \* config.maxBlocksPerPoll
          MinConf,        \* config.minConfirmations
          ReorgsMidPoll,  \* may the chain reorganise while a poll is running?
          MaxFailures     \* bound on polls that end early

Attributions == INSTANCE Attribution WITH NoSender <- NoRow

\* The payer of each output, NoRow when there is none to be told.
Sender == [o \in Outputs |-> Attributions!AttributeSender(Vins[o])]

Hashes == {Genesis} \cup UNION {{c[h].hash : h \in DOMAIN c} : c \in Chains}

\* A block's hash commits to every block below it, and so to its height; no chain
\* pays an output twice.
ASSUME ChainAssumption ==
  /\ \A c, d \in Chains : \A h \in DOMAIN c, k \in DOMAIN d :
       c[h].hash = d[k].hash => h = k /\ \A j \in 1..h : c[j] = d[j]
  /\ \A c \in Chains : \A h, k \in DOMAIN c : h # k => c[h].pays \cap c[k].pays = {}
  /\ \A c \in Chains : \A h \in DOMAIN c : c[h].hash # Genesis
  /\ Chains \subseteq Seq([hash : Hashes, pays : SUBSET Outputs])

ASSUME WatcherAssumption ==
  /\ \A o \in Outputs : \A v \in Vins[o] : v.kind \in Attributions!InputKinds
  /\ AccountOf \in [IdentityAddresses -> Identities]
  /\ Value \in [Outputs -> Nat]
  /\ ManualOutputs \subseteq Outputs
  /\ StartHeight \in Nat
  /\ Lookback \in Nat \ {0} /\ MaxPerPoll \in Nat \ {0} /\ MinConf \in Nat
  /\ ReorgsMidPoll \in BOOLEAN /\ MaxFailures \in Nat
  /\ NoRow \notin Outputs /\ NoRow \notin [height : Nat, hash : Hashes \cup {"admin"}]

VARIABLES chain,      \* the node's active chain, chain[h] is the block at height h
          cursor,     \* watcher_cursor: [height, hash], NoRow before the bootstrap
          poll,       \* what each watcher's running poll has got to
          bootstraps, \* history: heights the cursor was set at to begin with
          failures    \* how many polls ended early

watcherVars == <<chain, cursor, poll, bootstraps, failures>>
vars == <<storageVars, watcherVars>>

HashAt(h) == IF h = 0 THEN Genesis ELSE chain[h].hash

BlockAt(h) == [height |-> h, hash |-> HashAt(h)]

\* The block recorded with a credit made by hand: height 0, hash "admin".
AdminBlock == [height |-> 0, hash |-> "admin"]

\* A deposit row holds the block it was mined in, or that of a manual credit.
ASSUME BlockAssumption ==
  /\ AdminBlock \in Blocks
  /\ \A c \in Chains : \A h \in DOMAIN c : [height |-> h, hash |-> c[h].hash] \in Blocks

NothingListed == [o \in Outputs |-> NoRow]

\* A running poll: the tip and the cursor it read, the next height and the last,
\* the hash of the block fetched last and its outputs still to look at, the
\* output being written, the deposits listed (with the block each had when it
\* was listed) and the hashes cached while verifying.
IdlePoll == [step |-> "idle", tip |-> 0, cursor |-> NoRow, next |-> 0, to |-> 0,
             hash |-> Genesis, todo |-> {}, output |-> NoRow, listed |-> NothingListed,
             cached |-> << >>]

At(w, step) == poll[w].step = step

Idle == \A w \in Watchers : At(w, "idle")

Smaller(a, b) == IF a < b THEN a ELSE b
Larger(a, b) == IF a > b THEN a ELSE b

WatcherInit ==
  /\ StorageInit
  /\ chain \in {c \in Chains : \A d \in Chains : Len(c) <= Len(d)}
  /\ cursor = NoRow
  /\ poll = [w \in Watchers |-> IdlePoll]
  /\ bootstraps = {}
  /\ failures = 0

-----------------------------------------------------------------------------
(* The environment.                                                        *)

\* The node moves to a longer chain: new blocks, or a reorganisation.
MoveChain ==
  /\ \E c \in Chains :
       /\ Len(c) > Len(chain)
       /\ ~IsPrefix(chain, c) => ReorgsMidPoll \/ Idle
       /\ chain' = c
  /\ UNCHANGED <<storageVars, cursor, poll, bootstraps, failures>>

\* POST /admin/credit, with or without the txid of a deposit that was missed.
ManualCredit(o, i) ==
  /\ InsertAndCreditDeposit(o, i, Value[o], AdminBlock)
  /\ UNCHANGED watcherVars

-----------------------------------------------------------------------------
(* poll(), up to the scan.                                                 *)

\* getBlockCount.
StartPoll(w) ==
  /\ At(w, "idle")
  /\ poll' = [poll EXCEPT ![w].step = "start", ![w].tip = Len(chain)]
  /\ UNCHANGED <<storageVars, chain, cursor, bootstraps, failures>>

\* getWatcherCursor.
ReadCursor(w) ==
  /\ At(w, "start")
  /\ poll' = [poll EXCEPT ![w].cursor = cursor,
                          ![w].step = IF cursor = NoRow THEN "bootstrap" ELSE "check"]
  /\ UNCHANGED <<storageVars, chain, cursor, bootstraps, failures>>

\* Mutant: bootstrap behind the tip.
BootstrapEarly(w) ==
  /\ At(w, "bootstrap")
  /\ cursor' = BlockAt(Larger(0, poll[w].tip - Lookback))
  /\ bootstraps' = bootstraps \cup {poll[w].tip}
  /\ poll' = [poll EXCEPT ![w] = IdlePoll]
  /\ UNCHANGED <<storageVars, chain, failures>>

\* There was no cursor: set it at the tip and end the poll, or, with a
\* startHeight, set it below that and go on.
Bootstrap(w) ==
  /\ At(w, "bootstrap")
  /\ LET height == IF StartHeight = 0 THEN poll[w].tip ELSE StartHeight - 1
     IN /\ height <= Len(chain)
        /\ cursor' = BlockAt(height)
        /\ bootstraps' = bootstraps \cup {height}
        /\ poll' = [poll EXCEPT ![w] =
                      IF StartHeight = 0 THEN IdlePoll
                      ELSE [@ EXCEPT !.step = "check", !.cursor = BlockAt(height)]]
  /\ UNCHANGED <<storageVars, chain, failures>>

ScanRange(p, from) == [p EXCEPT !.step = "verify", !.cursor = NoRow, !.next = from,
                                !.to = Smaller(p.tip, from + MaxPerPoll - 1)]

Recorded(o) == deposits[o] # NoRow /\ ~deposits[o].reorged

DepositsAtOrAbove(h) == {o \in Outputs : Recorded(o) /\ deposits[o].block.height >= h}

UncreditedDeposits == {o \in Outputs : Recorded(o) /\ ~deposits[o].credited}

\* The deposits of a query, each with the block it has now.
Listing(found) == [o \in Outputs |-> IF o \in found THEN deposits[o].block ELSE NoRow]

CursorOnChain(w) == HashAt(poll[w].cursor.height) = poll[w].cursor.hash

\* The chain still carries the cursor block: go on behind it.
CursorHolds(w) ==
  /\ At(w, "check")
  /\ CursorOnChain(w)
  /\ poll' = [poll EXCEPT ![w] = ScanRange(@, @.cursor.height + 1)]
  /\ UNCHANGED <<storageVars, chain, cursor, bootstraps, failures>>

\* Mutants: no rescan below the cursor; every row listed, those without a block
\* too; only the rows at the cursor listed.
CursorGoneNoRescan(w) ==
  /\ At(w, "check")
  /\ ~CursorOnChain(w)
  /\ poll' = [poll EXCEPT ![w] =
       ScanRange([@ EXCEPT !.listed = Listing(DepositsAtOrAbove(1))],
                 poll[w].cursor.height)]
  /\ UNCHANGED <<storageVars, chain, cursor, bootstraps, failures>>

CursorGoneListsAll(w) ==
  /\ At(w, "check")
  /\ ~CursorOnChain(w)
  /\ poll' = [poll EXCEPT ![w] =
       ScanRange([@ EXCEPT !.listed = Listing(DepositsAtOrAbove(0))],
                 Larger(1, poll[w].cursor.height - Lookback))]
  /\ UNCHANGED <<storageVars, chain, cursor, bootstraps, failures>>

CursorGoneListsRecent(w) ==
  /\ At(w, "check")
  /\ ~CursorOnChain(w)
  /\ poll' = [poll EXCEPT ![w] =
       ScanRange([@ EXCEPT !.listed = Listing(DepositsAtOrAbove(poll[w].cursor.height))],
                 Larger(1, poll[w].cursor.height - Lookback))]
  /\ UNCHANGED <<storageVars, chain, cursor, bootstraps, failures>>

\* It does not: verify the recorded deposits, and rescan from Lookback blocks
\* below the cursor.
CursorGone(w) ==
  /\ At(w, "check")
  /\ ~CursorOnChain(w)
  /\ poll' = [poll EXCEPT ![w] =
       ScanRange([@ EXCEPT !.listed = Listing(DepositsAtOrAbove(1))],
                 Larger(1, poll[w].cursor.height - Lookback))]
  /\ UNCHANGED <<storageVars, chain, cursor, bootstraps, failures>>

\* The hash at a height is asked for once per poll.
CachedHash(w, h) == IF h \in DOMAIN poll[w].cached THEN poll[w].cached[h] ELSE HashAt(h)

Cache(cached, h, x) == [k \in DOMAIN cached \cup {h} |-> IF k = h THEN x ELSE cached[k]]

\* A listed deposit whose block is gone is marked, and taken back if credited.
VerifyDeposit(w, o) ==
  /\ At(w, "verify")
  /\ poll[w].listed[o] # NoRow
  /\ LET block == poll[w].listed[o]
         hash == CachedHash(w, block.height)
     IN /\ \/ block.hash = hash /\ UNCHANGED storageVars
           \/ block.hash # hash /\ MarkDepositReorged(o)
           \/ block.hash # hash /\ deposits[o].reorged /\ UNCHANGED storageVars
        /\ poll' = [poll EXCEPT ![w].listed[o] = NoRow,
                                ![w].cached = Cache(@, block.height, hash)]
  /\ UNCHANGED <<chain, cursor, bootstraps, failures>>

EndVerify(w) ==
  /\ At(w, "verify")
  /\ poll[w].listed = NothingListed
  /\ poll' = [poll EXCEPT ![w].step = IF poll[w].next <= poll[w].to THEN "scan" ELSE "list",
                          ![w].cached = << >>]
  /\ UNCHANGED <<storageVars, chain, cursor, bootstraps, failures>>

-----------------------------------------------------------------------------
(* scanBlock.                                                              *)

\* getBlockVerbose.
FetchBlock(w) ==
  /\ At(w, "scan")
  /\ poll[w].todo = {}
  /\ poll[w].next <= poll[w].to
  /\ LET block == chain[poll[w].next]
     IN poll' = [poll EXCEPT ![w].hash = block.hash, ![w].todo = block.pays,
                             ![w].next = @ + 1]
  /\ UNCHANGED <<storageVars, chain, cursor, bootstraps, failures>>

\* Mutant: a row seen again at its own block is re-mined as well.
LookAtAnyRow(w, o) ==
  /\ At(w, "scan")
  /\ o \in poll[w].todo
  /\ LET seen == deposits[o] # NoRow
         pass == ~seen /\ Sender[o] = NoRow
     IN poll' = [poll EXCEPT ![w].todo = @ \ {o},
                             ![w].output = IF pass THEN NoRow ELSE o,
                             ![w].step = IF pass THEN "scan"
                                         ELSE IF seen THEN "remine" ELSE "insert"]
  /\ UNCHANGED <<storageVars, chain, cursor, bootstraps, failures>>

\* getDeposit, then attribution when there is no row yet.
LookAtOutput(w, o) ==
  /\ At(w, "scan")
  /\ o \in poll[w].todo
  /\ LET seen == deposits[o] # NoRow
         same == seen /\ deposits[o].block.hash = poll[w].hash
         pass == same \/ (~seen /\ Sender[o] = NoRow)
     IN poll' = [poll EXCEPT ![w].todo = @ \ {o},
                             ![w].output = IF pass THEN NoRow ELSE o,
                             ![w].step = IF pass THEN "scan"
                                         ELSE IF seen THEN "remine" ELSE "insert"]
  /\ UNCHANGED <<storageVars, chain, cursor, bootstraps, failures>>

\* Height and hash of the block being scanned.
ScannedBlock(w) == [height |-> poll[w].next - 1, hash |-> poll[w].hash]

\* The row is there with another block: back onto the confirmation path, or
\* there is none: insert it, unless another watcher has in the meantime.
WriteOutput(w) ==
  /\ LET o == poll[w].output
     IN \/ At(w, "remine") /\ RemineDeposit(o, ScannedBlock(w))
        \/ At(w, "insert") /\ InsertDeposit(o, Sender[o], Value[o], ScannedBlock(w))
        \/ At(w, "insert") /\ deposits[o] # NoRow /\ UNCHANGED storageVars
  /\ poll' = [poll EXCEPT ![w].step = "scan", ![w].output = NoRow]
  /\ UNCHANGED <<chain, cursor, bootstraps, failures>>

\* Mutant: the cursor moves to the height after the range.
MoveCursorPast(w) ==
  /\ At(w, "scan")
  /\ poll[w].todo = {}
  /\ poll[w].next > poll[w].to
  /\ cursor' = [height |-> poll[w].next, hash |-> poll[w].hash]
  /\ poll' = [poll EXCEPT ![w].step = "list"]
  /\ UNCHANGED <<storageVars, chain, bootstraps, failures>>

\* Mutant: the cursor moves to the tip although the range was capped.
MoveCursorToTip(w) ==
  /\ At(w, "scan")
  /\ poll[w].todo = {}
  /\ poll[w].next > poll[w].to
  /\ cursor' = BlockAt(poll[w].tip)
  /\ poll' = [poll EXCEPT ![w].step = "list"]
  /\ UNCHANGED <<storageVars, chain, bootstraps, failures>>

\* The range is scanned: the cursor moves to its last block as it was fetched.
MoveCursor(w) ==
  /\ At(w, "scan")
  /\ poll[w].todo = {}
  /\ poll[w].next > poll[w].to
  /\ cursor' = [height |-> poll[w].to, hash |-> poll[w].hash]
  /\ poll' = [poll EXCEPT ![w].step = "list"]
  /\ UNCHANGED <<storageVars, chain, bootstraps, failures>>

-----------------------------------------------------------------------------
(* Crediting at depth, with the tip the poll started from.                 *)

ListUncredited(w) ==
  /\ At(w, "list")
  /\ poll' = [poll EXCEPT ![w].step = "credit",
                          ![w].listed = Listing(UncreditedDeposits)]
  /\ UNCHANGED <<storageVars, chain, cursor, bootstraps, failures>>

\* Mutant: one confirmation short.
CreditShallow(w, o) ==
  /\ At(w, "credit")
  /\ poll[w].listed[o] # NoRow
  /\ LET deep == poll[w].tip - poll[w].listed[o].height >= MinConf - 1
     IN \/ deep /\ CreditDeposit(o)
        \/ deep /\ (deposits[o].credited \/ deposits[o].reorged) /\ UNCHANGED storageVars
        \/ ~deep /\ UNCHANGED storageVars
  /\ poll' = [poll EXCEPT ![w].listed[o] = NoRow]
  /\ UNCHANGED <<chain, cursor, bootstraps, failures>>

CreditAtDepth(w, o) ==
  /\ At(w, "credit")
  /\ poll[w].listed[o] # NoRow
  /\ LET deep == poll[w].tip - poll[w].listed[o].height >= MinConf
     IN \/ deep /\ CreditDeposit(o)
        \/ deep /\ (deposits[o].credited \/ deposits[o].reorged) /\ UNCHANGED storageVars
        \/ ~deep /\ UNCHANGED storageVars
  /\ poll' = [poll EXCEPT ![w].listed[o] = NoRow]
  /\ UNCHANGED <<chain, cursor, bootstraps, failures>>

EndPoll(w) ==
  /\ At(w, "credit")
  /\ poll[w].listed = NothingListed
  /\ poll' = [poll EXCEPT ![w] = IdlePoll]
  /\ UNCHANGED <<storageVars, chain, cursor, bootstraps, failures>>

\* A call to the node fails, or the process dies: the next poll starts over.
PollFails(w) ==
  /\ ~At(w, "idle")
  /\ failures < MaxFailures
  /\ failures' = failures + 1
  /\ poll' = [poll EXCEPT ![w] = IdlePoll]
  /\ UNCHANGED <<storageVars, chain, cursor, bootstraps>>

-----------------------------------------------------------------------------
PollStep(w) ==
  \/ StartPoll(w) \/ ReadCursor(w) \/ Bootstrap(w) \/ CursorHolds(w) \/ CursorGone(w)
  \/ EndVerify(w) \/ FetchBlock(w) \/ WriteOutput(w) \/ MoveCursor(w)
  \/ ListUncredited(w) \/ EndPoll(w)
  \/ \E o \in Outputs : VerifyDeposit(w, o) \/ LookAtOutput(w, o) \/ CreditAtDepth(w, o)

WatcherNext ==
  \/ MoveChain
  \/ \E o \in ManualOutputs, i \in Identities : ManualCredit(o, i)
  \/ \E w \in Watchers : PollStep(w) \/ PollFails(w)

WatcherSpec == WatcherInit /\ [][WatcherNext]_vars

\* The timer starts the next poll, and a poll runs to its end unless it fails.
LiveWatcherSpec == WatcherSpec /\ \A w \in Watchers : WF_vars(PollStep(w))

-----------------------------------------------------------------------------
(* Properties.                                                             *)

\* Polls, cursor and rows stay well formed: the cursor is a block the node has
\* had, and a running scan stays inside its range.
WatcherTypeOK ==
  /\ StorageTypeOK
  /\ chain \in Chains
  /\ cursor = NoRow \/ (cursor.height \in 0..Len(chain) /\ cursor.hash \in Hashes)
  /\ \A w \in Watchers :
       /\ poll[w].step \in {"scan", "remine", "insert"} => poll[w].next <= poll[w].to + 1
       /\ poll[w].output # NoRow <=> At(w, "remine") \/ At(w, "insert")
  /\ bootstraps \subseteq Nat
  /\ failures \in 0..MaxFailures

OnChain(block) == block.height \in DOMAIN chain /\ chain[block.height].hash = block.hash

Credited(o) == Recorded(o) /\ deposits[o].credited

\* What the watcher answers for begins above the height it was set to start at.
AnswersFor(h) == bootstraps # {} /\ h > Max(bootstraps)

\* The cursor certifies the book: between two polls, if the chain carries the
\* cursor block, then every deposit not marked reorged is on the chain, and
\* every attributable payment up to the cursor is recorded at its block.  The
\* next poll looks at the cursor block only, so it relies on this.
CursorCertifies ==
  Idle /\ cursor # NoRow /\ HashAt(cursor.height) = cursor.hash =>
    /\ \A o \in Outputs : Recorded(o) => deposits[o].block = AdminBlock \/ OnChain(deposits[o].block)
    /\ \A h \in 1..cursor.height : \A o \in chain[h].pays :
         AnswersFor(h) /\ Sender[o] # NoRow => Recorded(o) /\ deposits[o].block = BlockAt(h)

\* What the ledger has booked for a deposit.
Booked(o) == LET entries == ledger[deposits[o].identity]
             IN SumOfLines(entries, {n \in DOMAIN entries : entries[n].ref = o})

\* A deposit counts once while it is credited and not at all otherwise, through
\* any number of reorganisations, re-mines and repeated scans.
CountedOnce ==
  \A o \in Outputs : deposits[o] # NoRow =>
    Booked(o) = IF Credited(o) THEN deposits[o].amount ELSE 0

BuriedWhenCredited(o) ==
  deposits'[o] # deposits[o] /\ Credited(o)' /\ deposits'[o].block # AdminBlock =>
    OnChain(deposits[o].block) /\ Len(chain) - deposits[o].block.height >= MinConf

\* The watcher credits a deposit only when its block is on the chain, buried
\* under the confirmation depth (prepaid-sig-scheme.md, section 6).
CreditedOnlyWhenBuried == [][\A o \in Outputs : BuriedWhenCredited(o)]_vars

\* A credit made by hand has no block: no reorganisation takes it back.
ManualCreditsStand ==
  \A o \in Outputs : deposits[o] # NoRow /\ deposits[o].block = AdminBlock => Credited(o)

\* A payment nobody could be credited for automatically is not: what is booked
\* for it is what an operator credited, once (discovery-topup.md:36-38).
UnattributedNotAutoCredited ==
  \A o \in Outputs : deposits[o] # NoRow /\ Sender[o] = NoRow => Booked(o) <= Value[o]

\* A watcher without startHeight ignores what was paid before it was first
\* started (real-watcher.ts:21).
HistoryIgnored ==
  \A o \in Outputs : deposits[o] # NoRow /\ deposits[o].block # AdminBlock =>
    deposits[o].block.height > Min(bootstraps)

Buried(o) == \E h \in DOMAIN chain : /\ o \in chain[h].pays
                                     /\ AnswersFor(h)
                                     /\ Len(chain) - h >= MinConf
                                     /\ Sender[o] # NoRow

\* A payment of the watcher's time that stays on the chain, deep enough, ends up
\* credited, mined again or not.
BuriedIsCredited == \A o \in Outputs : <>[]Buried(o) => <>[]Credited(o)

Orphaned(o) == /\ Credited(o)
               /\ deposits[o].block # AdminBlock
               /\ ~OnChain(deposits[o].block)

\* If the block of a credited deposit is reorganised away, the credit does not
\* stand: it is reversed, or the payment is mined again.
OrphansAreReversed == \A o \in Outputs : []<>~Orphaned(o)
=============================================================================
