---------------------------- MODULE WatcherProofs ----------------------------
(***************************************************************************)
(* Proofs about DepositWatcher, for any chains, payments and watchers.     *)
(***************************************************************************)
EXTENDS DepositWatcher, StorageProofs

\* The chains the node is on or may have been on before.
Seen(c) == c = chain \/ Len(c) < Len(chain)

HashIn(c, h) == IF h = 0 THEN Genesis ELSE c[h].hash

HadBlock(h, x) == \E c \in Chains : Seen(c) /\ h \in 0..Len(c) /\ HashIn(c, h) = x

Mined(o, h, x) ==
  \E c \in Chains : Seen(c) /\ h \in 1..Len(c) /\ c[h].hash = x /\ o \in c[h].pays

\* A row the watcher wrote holds a block that paid the output.
RowsMined ==
  \A o \in Outputs : deposits[o] # NoRow /\ deposits[o].block # AdminBlock =>
    LET b == deposits[o].block
    IN b = [height |-> b.height, hash |-> b.hash] /\ Mined(o, b.height, b.hash)

PollFields == {"step", "tip", "cursor", "next", "to", "hash", "todo", "output",
               "listed", "cached"}

PollSteps == {"idle", "start", "bootstrap", "check", "verify", "scan", "remine",
              "insert", "list", "credit"}

Scanning(w) == poll[w].step \in {"scan", "remine", "insert"}

Writing(w) == poll[w].step \in {"remine", "insert"}

\* What a running poll knows: its tip and its range are on the chain, what it
\* scans was paid in the block it fetched, and what it verifies has such a block.
PollOK(w) ==
  /\ DOMAIN poll[w] = PollFields
  /\ poll[w].step \in PollSteps
  /\ poll[w].tip \in 0..Len(chain)
  /\ poll[w].next \in Nat /\ poll[w].to \in Int
  /\ At(w, "check") => HadBlock(poll[w].cursor.height, poll[w].cursor.hash)
  /\ poll[w].step \in {"idle", "start", "bootstrap", "check"} => poll[w].listed = NothingListed
  /\ At(w, "verify") \/ Scanning(w) => poll[w].next >= 1 /\ poll[w].to <= poll[w].tip
  /\ At(w, "verify") => \A o \in Outputs : poll[w].listed[o] # NoRow =>
                                             deposits[o] # NoRow /\ deposits[o].block # AdminBlock
  /\ Scanning(w) => /\ poll[w].next <= poll[w].to + 1
                    /\ \/ poll[w].next <= poll[w].to /\ poll[w].todo = {} /\ At(w, "scan")
                       \/ HadBlock(poll[w].next - 1, poll[w].hash)
                    /\ \A o \in poll[w].todo : o \in Outputs /\ Mined(o, poll[w].next - 1, poll[w].hash)
  /\ ~Scanning(w) => poll[w].todo = {}
  /\ poll[w].output # NoRow <=> Writing(w)
  /\ Writing(w) => /\ poll[w].output \in Outputs
                   /\ Mined(poll[w].output, poll[w].next - 1, poll[w].hash)
  /\ At(w, "insert") => Sender[poll[w].output] # NoRow

\* The inductive invariant of any number of watchers on any chains.
WatcherInv ==
  /\ StorageInv
  /\ chain \in Chains
  /\ cursor = NoRow \/ HadBlock(cursor.height, cursor.hash)
  /\ poll = [w \in Watchers |-> poll[w]]
  /\ \A w \in Watchers : PollOK(w)
  /\ RowsMined
  /\ ManualCreditsStand
  /\ bootstraps \subseteq Nat
  /\ failures \in 0..MaxFailures

-----------------------------------------------------------------------------
(* What the steps share.                                                   *)

LEMMA ChainTypes ==
  ASSUME NEW c \in Chains
  PROVE  /\ Len(c) \in Nat /\ DOMAIN c = 1..Len(c)
         /\ \A h \in 1..Len(c) : c[h].hash \in Hashes /\ c[h].pays \subseteq Outputs
<1> DEFINE B == [hash : Hashes, pays : SUBSET Outputs]
<1>1. c \in Seq(B)
  BY ChainAssumption
<1>2. \A b \in B : b.hash \in Hashes /\ b.pays \subseteq Outputs
  OBVIOUS
<1> HIDE DEF B
<1>3. Len(c) \in Nat /\ DOMAIN c = 1..Len(c) /\ \A h \in 1..Len(c) : c[h] \in B
  BY <1>1
<1> QED  BY <1>2, <1>3

LEMMA BlocksHad ==
  ASSUME chain \in Chains, NEW h, NEW x, HadBlock(h, x)
  PROVE  h \in 0..Len(chain) /\ x \in Hashes
<1>1. PICK c \in Chains : Seen(c) /\ h \in 0..Len(c) /\ HashIn(c, h) = x
  BY DEF HadBlock
<1>2. Len(chain) \in Nat /\ Len(c) \in Nat /\ \A k \in 1..Len(c) : c[k].hash \in Hashes
  BY ChainTypes
<1>3. Genesis \in Hashes
  BY DEF Hashes
<1> QED  BY <1>1, <1>2, <1>3 DEF Seen, HashIn

LEMMA BlocksMined ==
  ASSUME chain \in Chains, NEW o, NEW h, NEW x, Mined(o, h, x)
  PROVE  /\ h \in 1..Len(chain) /\ x \in Hashes /\ HadBlock(h, x)
         /\ [height |-> h, hash |-> x] \in Blocks
         /\ [height |-> h, hash |-> x] # AdminBlock
<1>1. PICK c \in Chains : Seen(c) /\ h \in 1..Len(c) /\ c[h].hash = x /\ o \in c[h].pays
  BY DEF Mined
<1>2. /\ Len(chain) \in Nat /\ Len(c) \in Nat /\ DOMAIN c = 1..Len(c)
      /\ \A k \in 1..Len(c) : c[k].hash \in Hashes
  BY ChainTypes
<1>3. h \in 0..Len(c) /\ HashIn(c, h) = x
  BY <1>1, <1>2 DEF HashIn
<1>4. HadBlock(h, x)
  BY <1>1, <1>3 DEF HadBlock
<1>5. [height |-> h, hash |-> x] \in Blocks
  BY <1>1, <1>2, BlockAssumption
<1>6. [height |-> h, hash |-> x].height # AdminBlock.height
  BY <1>1, <1>2 DEF AdminBlock
<1> QED  BY <1>1, <1>2, <1>4, <1>5, <1>6 DEF Seen

\* The chain stays, or gives way to a longer one: what was seen stays seen.
ChainMoves == chain' = chain \/ Len(chain') > Len(chain)

LEMMA SeenStays ==
  ASSUME chain \in Chains, chain' \in Chains, ChainMoves
  PROVE  /\ Len(chain) <= Len(chain')
         /\ \A h, x : HadBlock(h, x) => HadBlock(h, x)'
         /\ \A o, h, x : Mined(o, h, x) => Mined(o, h, x)'
<1>1. Len(chain) \in Nat /\ Len(chain') \in Nat
  BY ChainTypes
<1>2. \A c \in Chains : Seen(c) => Seen(c)'
  BY <1>1, ChainTypes DEF ChainMoves, Seen
<1> QED  BY <1>1, <1>2 DEF ChainMoves, HadBlock, Mined, HashIn

\* Rows are never deleted, and none turns into a manual credit.
RowsStay ==
  \A o \in Outputs : deposits[o] # NoRow =>
    /\ deposits'[o] # NoRow
    /\ deposits[o].block # AdminBlock => deposits'[o].block # AdminBlock

\* A poll that does not move keeps what it knows.
LEMMA PollStands ==
  ASSUME NEW v \in Watchers, PollOK(v), poll'[v] = poll[v],
         chain \in Chains, chain' \in Chains, ChainMoves, RowsStay
  PROVE  PollOK(v)'
<1>1. Len(chain) \in Nat /\ Len(chain') \in Nat
  BY ChainTypes
<1> QED  BY <1>1, SeenStays DEF PollOK, At, Scanning, Writing, RowsStay

\* A step of one watcher.
LEMMA OneWatcherMoves ==
  ASSUME WatcherInv, NEW w \in Watchers, NEW q, poll' = [poll EXCEPT ![w] = q], PollOK(w)',
         StorageInv', RowsMined', ManualCreditsStand', RowsStay, UNCHANGED chain,
         cursor' = NoRow \/ HadBlock(cursor.height, cursor.hash)',
         bootstraps' \subseteq Nat, failures' \in 0..MaxFailures
  PROVE  WatcherInv'
<1>1. /\ poll' = [v \in Watchers |-> poll'[v]]
      /\ \A v \in Watchers : v # w => poll'[v] = poll[v]
  BY DEF WatcherInv
<1>2. \A v \in Watchers : PollOK(v)'
  <2> SUFFICES ASSUME NEW v \in Watchers, v # w PROVE PollOK(v)'
    OBVIOUS
  <2> QED  BY <1>1, PollStands DEF WatcherInv, ChainMoves
<1> QED  BY <1>1, <1>2 DEF WatcherInv

\* A step that writes nothing to the storage.
LEMMA OnlyPollMoves ==
  ASSUME WatcherInv, NEW w \in Watchers, NEW q, poll' = [poll EXCEPT ![w] = q], PollOK(w)',
         UNCHANGED <<storageVars, chain>>,
         cursor' = NoRow \/ HadBlock(cursor.height, cursor.hash)',
         bootstraps' \subseteq Nat, failures' \in 0..MaxFailures
  PROVE  WatcherInv'
<1>1. StorageInv'
  BY NextInv DEF WatcherInv
<1>2. /\ \A o, h, x : Mined(o, h, x)' <=> Mined(o, h, x)
      /\ UNCHANGED deposits
  BY DEF Mined, Seen, storageVars
<1>3. RowsMined' /\ ManualCreditsStand' /\ RowsStay
  BY <1>2 DEF WatcherInv, RowsMined, ManualCreditsStand, Credited, Recorded, RowsStay
<1> QED  BY <1>1, <1>3, OneWatcherMoves

\* An idle watcher knows nothing.
LEMMA IdleOK ==
  ASSUME NEW w \in Watchers, poll'[w] = IdlePoll, chain' \in Chains
  PROVE  PollOK(w)'
<1>1. Len(chain') \in Nat
  BY ChainTypes
<1> QED  BY <1>1 DEF PollOK, IdlePoll, PollFields, PollSteps, At, Scanning, Writing

-----------------------------------------------------------------------------
(* Each step keeps the invariant.                                          *)

LEMMA StartKeepsInv ==
  ASSUME WatcherInv, NEW w \in Watchers, StartPoll(w)
  PROVE  WatcherInv'
<1> DEFINE q == [poll[w] EXCEPT !.step = "start", !.tip = Len(chain)]
<1>0. poll[w].step = "idle" /\ UNCHANGED <<storageVars, chain, cursor, bootstraps, failures>>
  BY DEF StartPoll, At
<1>1. PollOK(w) /\ chain \in Chains /\ Len(chain) \in Nat
  BY ChainTypes DEF WatcherInv
<1>2. /\ DOMAIN q = PollFields /\ q.step = "start" /\ q.tip = Len(chain)
      /\ q.next = poll[w].next /\ q.to = poll[w].to /\ q.todo = poll[w].todo
      /\ q.output = poll[w].output /\ q.listed = poll[w].listed
  BY <1>1 DEF PollOK, PollFields
<1>3. poll' = [poll EXCEPT ![w] = q]
  BY DEF StartPoll
<1> HIDE DEF q
<1>4. poll'[w] = q
  BY <1>3 DEF WatcherInv
<1>5. PollOK(w)'
  BY <1>0, <1>1, <1>2, <1>4 DEF PollOK, PollSteps, Scanning, Writing, At
<1> QED  BY <1>0, <1>3, <1>5, OnlyPollMoves DEF WatcherInv, HadBlock, Seen

LEMMA ReadCursorKeepsInv ==
  ASSUME WatcherInv, NEW w \in Watchers, ReadCursor(w)
  PROVE  WatcherInv'
<1> DEFINE next == IF cursor = NoRow THEN "bootstrap" ELSE "check"
           q == [poll[w] EXCEPT !.cursor = cursor, !.step = next]
<1>0. poll[w].step = "start" /\ UNCHANGED <<storageVars, chain, cursor, bootstraps, failures>>
  BY DEF ReadCursor, At
<1>1. PollOK(w) /\ chain \in Chains /\ (cursor = NoRow \/ HadBlock(cursor.height, cursor.hash))
  BY DEF WatcherInv
<1>2. /\ DOMAIN q = PollFields /\ q.step = next /\ q.cursor = cursor
      /\ q.next = poll[w].next /\ q.to = poll[w].to /\ q.todo = poll[w].todo
      /\ q.output = poll[w].output /\ q.listed = poll[w].listed /\ q.tip = poll[w].tip
  BY <1>1 DEF PollOK, PollFields
<1>3. poll' = [poll EXCEPT ![w] = q]
  BY DEF ReadCursor
<1> HIDE DEF q
<1>4. poll'[w] = q
  BY <1>3 DEF WatcherInv
<1>5. HadBlock(cursor.height, cursor.hash)' <=> HadBlock(cursor.height, cursor.hash)
  BY <1>0 DEF HadBlock, Seen
<1>6. PollOK(w)'
  BY <1>0, <1>1, <1>2, <1>4, <1>5 DEF PollOK, PollSteps, Scanning, Writing, At, HadBlock, Seen
<1> QED  BY <1>0, <1>3, <1>5, <1>6, OnlyPollMoves DEF WatcherInv

LEMMA BlockThere ==
  ASSUME chain \in Chains, NEW h \in Nat, h <= Len(chain)
  PROVE  HadBlock(h, HashAt(h))
<1>1. Len(chain) \in Nat
  BY ChainTypes
<1> QED  BY <1>1 DEF HadBlock, Seen, HashAt, HashIn

LEMMA BootstrapKeepsInv ==
  ASSUME WatcherInv, NEW w \in Watchers, Bootstrap(w)
  PROVE  WatcherInv'
<1> DEFINE height == IF StartHeight = 0 THEN poll[w].tip ELSE StartHeight - 1
           b == BlockAt(height)
           q == [poll[w] EXCEPT !.step = "check", !.cursor = b]
<1>0. /\ poll[w].step = "bootstrap" /\ height <= Len(chain)
      /\ UNCHANGED <<storageVars, chain, failures>>
      /\ cursor' = b /\ bootstraps' = bootstraps \cup {height}
  BY DEF Bootstrap, At
<1>1. /\ PollOK(w) /\ chain \in Chains /\ Len(chain) \in Nat /\ bootstraps \subseteq Nat
      /\ failures \in 0..MaxFailures
  BY ChainTypes DEF WatcherInv
<1>2. height \in Nat
  BY <1>1, WatcherAssumption DEF PollOK
<1>3. /\ DOMAIN q = PollFields /\ q.step = "check" /\ q.cursor = b
      /\ q.next = poll[w].next /\ q.to = poll[w].to /\ q.todo = poll[w].todo
      /\ q.output = poll[w].output /\ q.listed = poll[w].listed /\ q.tip = poll[w].tip
  BY <1>1 DEF PollOK, PollFields
<1>4. poll' = [poll EXCEPT ![w] = IF StartHeight = 0 THEN IdlePoll ELSE q]
  BY DEF Bootstrap
<1>5. cursor'.height = height /\ HadBlock(cursor.height, cursor.hash)'
  <2>1. cursor'.height = height /\ cursor'.hash = HashAt(height)
    BY <1>0 DEF BlockAt
  <2>2. HadBlock(height, HashAt(height))
    BY <1>0, <1>1, <1>2, BlockThere
  <2> QED  BY <1>0, <2>1, <2>2 DEF HadBlock, Seen
<1> HIDE DEF q, height, b
<1>6. poll'[w] = IF StartHeight = 0 THEN IdlePoll ELSE q
  BY <1>4 DEF WatcherInv
<1>7. PollOK(w)'
  <2>1. CASE StartHeight = 0
    BY <1>0, <1>1, <1>6, <2>1, IdleOK
  <2>2. CASE StartHeight # 0
    <3>1. poll'[w].cursor = cursor'
      BY <1>0, <1>3, <1>6, <2>2
    <3> QED  BY <1>0, <1>1, <1>3, <1>5, <1>6, <2>2, <3>1 DEF PollOK, PollSteps, Scanning, Writing, At
  <2> QED  BY <2>1, <2>2
<1>8. bootstraps' \subseteq Nat /\ failures' \in 0..MaxFailures
  BY <1>0, <1>1, <1>2
<1> QED  BY <1>0, <1>4, <1>5, <1>7, <1>8, OnlyPollMoves

\* Both ways out of the cursor check.
LEMMA RangeKeepsInv ==
  ASSUME WatcherInv, NEW w \in Watchers, At(w, "check"), NEW from \in Nat \ {0},
         NEW p, DOMAIN p = PollFields, p.todo = poll[w].todo, p.output = poll[w].output,
         p.tip = poll[w].tip, \A o \in Outputs : p.listed[o] # NoRow =>
                                deposits[o] # NoRow /\ deposits[o].block # AdminBlock,
         poll' = [poll EXCEPT ![w] = ScanRange(p, from)],
         UNCHANGED <<storageVars, chain, cursor, bootstraps, failures>>
  PROVE  WatcherInv'
<1> DEFINE q == ScanRange(p, from)
           to == Smaller(poll[w].tip, from + MaxPerPoll - 1)
<1>1. PollOK(w) /\ chain \in Chains /\ Len(chain) \in Nat /\ poll[w].step = "check"
  BY ChainTypes DEF WatcherInv, At
<1>2. to \in Int /\ to <= poll[w].tip
  BY <1>1, WatcherAssumption DEF PollOK, Smaller
<1>3. /\ DOMAIN q = PollFields /\ q.step = "verify" /\ q.next = from /\ q.to = to
      /\ q.todo = poll[w].todo /\ q.output = poll[w].output /\ q.listed = p.listed
      /\ q.tip = poll[w].tip
  BY <1>1 DEF PollOK, PollFields, ScanRange
<1>4. poll' = [poll EXCEPT ![w] = q]
  OBVIOUS
<1> HIDE DEF q, to
<1>5. poll'[w] = q
  BY <1>4 DEF WatcherInv
<1>6. PollOK(w)'
  BY <1>1, <1>2, <1>3, <1>5 DEF PollOK, PollSteps, Scanning, Writing, At, storageVars
<1> QED  BY <1>4, <1>6, OnlyPollMoves DEF WatcherInv, HadBlock, Seen

LEMMA CursorHoldsKeepsInv ==
  ASSUME WatcherInv, NEW w \in Watchers, CursorHolds(w)
  PROVE  WatcherInv'
<1>1. PollOK(w) /\ chain \in Chains /\ Len(chain) \in Nat /\ poll[w].step = "check"
  BY ChainTypes DEF WatcherInv, CursorHolds, At
<1>2. poll[w].cursor.height + 1 \in Nat \ {0}
  BY <1>1, BlocksHad DEF PollOK, At
<1>3. \A o \in Outputs : poll[w].listed[o] = NoRow
  BY <1>1 DEF PollOK, NothingListed
<1> DEFINE p == poll[w]
           from == poll[w].cursor.height + 1
<1>4. /\ poll' = [poll EXCEPT ![w] = ScanRange(p, from)]
      /\ UNCHANGED <<storageVars, chain, cursor, bootstraps, failures>> /\ At(w, "check")
  BY DEF CursorHolds
<1>5. /\ DOMAIN p = PollFields /\ p.todo = poll[w].todo /\ p.output = poll[w].output
      /\ p.tip = poll[w].tip /\ \A o \in Outputs : p.listed[o] = NoRow
  BY <1>1, <1>3 DEF PollOK
<1>6. from \in Nat \ {0}
  BY <1>2
<1> HIDE DEF from, p
<1> QED  BY <1>4, <1>5, <1>6, RangeKeepsInv

LEMMA CursorGoneKeepsInv ==
  ASSUME WatcherInv, NEW w \in Watchers, CursorGone(w)
  PROVE  WatcherInv'
<1> DEFINE listed == Listing(DepositsAtOrAbove(1))
           from == Larger(1, poll[w].cursor.height - Lookback)
<1>1. PollOK(w) /\ chain \in Chains /\ Len(chain) \in Nat /\ poll[w].step = "check"
  BY ChainTypes DEF WatcherInv, CursorGone, At
<1>2. from \in Nat \ {0}
  BY <1>1, BlocksHad, WatcherAssumption DEF PollOK, At, Larger
<1>3. \A o \in Outputs : listed[o] # NoRow => deposits[o] # NoRow /\ deposits[o].block # AdminBlock
  BY DEF Listing, DepositsAtOrAbove, Recorded, AdminBlock
<1> DEFINE p == [poll[w] EXCEPT !.listed = listed]
<1>5. /\ DOMAIN p = PollFields /\ p.todo = poll[w].todo /\ p.output = poll[w].output
      /\ p.tip = poll[w].tip /\ p.listed = listed
  BY <1>1 DEF PollOK, PollFields
<1>4. /\ poll' = [poll EXCEPT ![w] = ScanRange(p, from)]
      /\ UNCHANGED <<storageVars, chain, cursor, bootstraps, failures>> /\ At(w, "check")
  BY DEF CursorGone
<1> HIDE DEF listed, from, p
<1> QED  BY <1>2, <1>3, <1>4, <1>5, RangeKeepsInv

\* What each operation makes of a row.
LEMMA RowChanges ==
  ASSUME NEW row \in DepositRow, NEW credited \in BOOLEAN, NEW reorged \in BOOLEAN
  PROVE  /\ DOMAIN row = {"identity", "amount", "block", "credited", "reorged"}
         /\ row.identity \in Identities /\ row.amount \in Nat
         /\ [row EXCEPT !.reorged = reorged] \in DepositRow
         /\ [row EXCEPT !.reorged = reorged].block = row.block
         /\ [row EXCEPT !.credited = credited] \in DepositRow
         /\ [row EXCEPT !.credited = credited].block = row.block
BY DEF DepositRow

LEMMA VerifyKeepsInv ==
  ASSUME WatcherInv, NEW w \in Watchers, NEW o \in Outputs, VerifyDeposit(w, o)
  PROVE  WatcherInv'
<1> DEFINE block == poll[w].listed[o]
           hash == CachedHash(w, block.height)
           listed == [poll[w].listed EXCEPT ![o] = NoRow]
           cached == Cache(poll[w].cached, block.height, hash)
           q == [poll[w] EXCEPT !.listed = listed, !.cached = cached]
<1>0. /\ poll[w].step = "verify" /\ poll[w].listed[o] # NoRow
      /\ UNCHANGED <<chain, cursor, bootstraps, failures>>
      /\ MarkDepositReorged(o) \/ UNCHANGED storageVars
  BY DEF VerifyDeposit, At
<1>1. PollOK(w) /\ chain \in Chains
  BY DEF WatcherInv
<1>2. /\ DOMAIN q = PollFields /\ q.step = "verify" /\ q.listed = listed
      /\ q.next = poll[w].next /\ q.to = poll[w].to /\ q.todo = poll[w].todo
      /\ q.output = poll[w].output /\ q.tip = poll[w].tip
  BY <1>0, <1>1 DEF PollOK, PollFields
<1>3. poll' = [poll EXCEPT ![w] = q]
  BY DEF VerifyDeposit
<1>4. \A u \in Outputs : listed[u] # NoRow => poll[w].listed[u] # NoRow
  OBVIOUS
<1> HIDE DEF q, listed, cached, hash, block
<1>5. poll'[w] = q
  BY <1>3 DEF WatcherInv
<1>6. deposits[o] # NoRow /\ deposits[o].block # AdminBlock
  BY <1>0, <1>1 DEF PollOK, At
<1>7. /\ deposits' = deposits \/ deposits' = [deposits EXCEPT ![o].reorged = TRUE]
      /\ \A u \in Outputs : deposits[u] \in DepositRow \cup {NoRow}
      /\ deposits = [u \in Outputs |-> deposits[u]]
  BY <1>0 DEF MarkDepositReorged, storageVars, WatcherInv, StorageInv, StorageTypeOK
<1>8. \A u \in Outputs : \/ deposits'[u] = deposits[u]
                         \/ /\ u = o /\ deposits'[u] # NoRow
                            /\ deposits'[u].block = deposits[u].block
  <2>1. deposits[o] \in DepositRow /\ NoRow \notin DepositRow
    BY <1>6, <1>7, NoRowAssumption
  <2> DEFINE row == [deposits[o] EXCEPT !.reorged = TRUE]
  <2>2. row \in DepositRow /\ row.block = deposits[o].block
    BY <2>1, RowChanges
  <2>3. deposits' = deposits \/ deposits' = [deposits EXCEPT ![o] = row]
    BY <1>7
  <2> HIDE DEF row
  <2> QED  BY <1>7, <2>1, <2>2, <2>3
<1>9. RowsStay
  BY <1>6, <1>8 DEF RowsStay
<1>10. PollOK(w)'
  BY <1>0, <1>1, <1>2, <1>4, <1>5, <1>9
     DEF PollOK, PollSteps, Scanning, Writing, At, RowsStay
<1>11. StorageInv'
  BY <1>0, MarkReorgedKeepsInv, NextInv DEF WatcherInv
<1>12. RowsMined'
  <2>1. \A u, h, x : Mined(u, h, x)' <=> Mined(u, h, x)
    BY <1>0 DEF Mined, Seen
  <2> QED  BY <1>6, <1>8, <2>1 DEF WatcherInv, RowsMined
<1>13. ManualCreditsStand'
  BY <1>6, <1>8 DEF WatcherInv, ManualCreditsStand, Credited, Recorded
<1> QED  BY <1>0, <1>3, <1>9, <1>10, <1>11, <1>12, <1>13, OneWatcherMoves
         DEF WatcherInv, HadBlock, Seen

LEMMA EndVerifyKeepsInv ==
  ASSUME WatcherInv, NEW w \in Watchers, EndVerify(w)
  PROVE  WatcherInv'
<1> DEFINE next == IF poll[w].next <= poll[w].to THEN "scan" ELSE "list"
           q == [poll[w] EXCEPT !.step = next, !.cached = << >>]
<1>0. poll[w].step = "verify" /\ UNCHANGED <<storageVars, chain, cursor, bootstraps, failures>>
  BY DEF EndVerify, At
<1>1. PollOK(w) /\ chain \in Chains
  BY DEF WatcherInv
<1>2. /\ DOMAIN q = PollFields /\ q.step = next
      /\ q.next = poll[w].next /\ q.to = poll[w].to /\ q.todo = poll[w].todo
      /\ q.output = poll[w].output /\ q.tip = poll[w].tip
  BY <1>1 DEF PollOK, PollFields
<1>3. poll' = [poll EXCEPT ![w] = q]
  BY DEF EndVerify
<1> HIDE DEF q
<1>4. poll'[w] = q
  BY <1>3 DEF WatcherInv
<1>5. PollOK(w)'
  BY <1>0, <1>1, <1>2, <1>4 DEF PollOK, PollSteps, Scanning, Writing, At
<1> QED  BY <1>0, <1>3, <1>5, OnlyPollMoves DEF WatcherInv, HadBlock, Seen

LEMMA FetchKeepsInv ==
  ASSUME WatcherInv, NEW w \in Watchers, FetchBlock(w)
  PROVE  WatcherInv'
<1> DEFINE h == poll[w].next
           q == [poll[w] EXCEPT !.hash = chain[h].hash, !.todo = chain[h].pays, !.next = @ + 1]
<1>0. /\ poll[w].step = "scan" /\ h <= poll[w].to
      /\ UNCHANGED <<storageVars, chain, cursor, bootstraps, failures>>
  BY DEF FetchBlock, At
<1>1. PollOK(w) /\ chain \in Chains /\ Len(chain) \in Nat
  BY ChainTypes DEF WatcherInv
<1>2. /\ DOMAIN q = PollFields /\ q.step = "scan" /\ q.next = h + 1
      /\ q.hash = chain[h].hash /\ q.todo = chain[h].pays
      /\ q.to = poll[w].to /\ q.output = poll[w].output /\ q.tip = poll[w].tip
  BY <1>0, <1>1 DEF PollOK, PollFields
<1>3. poll' = [poll EXCEPT ![w] = q]
  BY DEF FetchBlock
<1>4. h \in 1..Len(chain)
  BY <1>0, <1>1 DEF PollOK, At, Scanning
<1>5. \A o \in chain[h].pays : o \in Outputs /\ Mined(o, h, chain[h].hash)
  BY <1>1, <1>4, ChainTypes DEF Mined, Seen
<1>6. HadBlock(h, chain[h].hash)
  BY <1>1, <1>4, BlockThere DEF HashAt
<1> HIDE DEF q
<1>7. poll'[w] = q
  BY <1>3 DEF WatcherInv
<1>8. (\A o, k, x : Mined(o, k, x)' <=> Mined(o, k, x)) /\ (\A k, x : HadBlock(k, x)' <=> HadBlock(k, x))
  BY <1>0 DEF Mined, HadBlock, Seen
<1>9. q.next - 1 = h
  BY <1>2, <1>4
<1>10. PollOK(w)'
  BY <1>0, <1>1, <1>2, <1>4, <1>5, <1>6, <1>7, <1>8, <1>9 DEF PollOK, PollSteps, Scanning, Writing, At
<1> QED  BY <1>0, <1>3, <1>10, OnlyPollMoves DEF WatcherInv, HadBlock, Seen

LEMMA LookKeepsInv ==
  ASSUME WatcherInv, NEW w \in Watchers, NEW o \in Outputs, LookAtOutput(w, o)
  PROVE  WatcherInv'
<1> DEFINE seen == deposits[o] # NoRow
           same == seen /\ deposits[o].block.hash = poll[w].hash
           pass == same \/ (~seen /\ Sender[o] = NoRow)
           next == IF pass THEN "scan" ELSE IF seen THEN "remine" ELSE "insert"
           found == IF pass THEN NoRow ELSE o
           q == [poll[w] EXCEPT !.todo = poll[w].todo \ {o}, !.output = found, !.step = next]
<1>0. /\ poll[w].step = "scan" /\ o \in poll[w].todo
      /\ UNCHANGED <<storageVars, chain, cursor, bootstraps, failures>>
  BY DEF LookAtOutput, At
<1>1. PollOK(w) /\ chain \in Chains /\ NoRow \notin Outputs
  BY WatcherAssumption DEF WatcherInv
<1>2. /\ DOMAIN q = PollFields /\ q.step = next /\ q.output = found
      /\ q.todo = poll[w].todo \ {o} /\ q.hash = poll[w].hash
      /\ q.next = poll[w].next /\ q.to = poll[w].to /\ q.tip = poll[w].tip
  BY <1>1 DEF PollOK, PollFields
<1>3. poll' = [poll EXCEPT ![w] = q]
  BY DEF LookAtOutput
<1>4. /\ next \in {"scan", "remine", "insert"}
      /\ found = IF next = "scan" THEN NoRow ELSE o
      /\ next = "insert" => Sender[o] # NoRow
  OBVIOUS
<1> HIDE DEF q, next, found
<1>5. poll'[w] = q
  BY <1>3 DEF WatcherInv
<1>6. (\A u, k, x : Mined(u, k, x)' <=> Mined(u, k, x)) /\ (\A k, x : HadBlock(k, x)' <=> HadBlock(k, x))
  BY <1>0 DEF Mined, HadBlock, Seen
<1>7. /\ Mined(o, poll[w].next - 1, poll[w].hash)
      /\ \A u \in poll[w].todo : u \in Outputs /\ Mined(u, poll[w].next - 1, poll[w].hash)
      /\ HadBlock(poll[w].next - 1, poll[w].hash)
  BY <1>0, <1>1 DEF PollOK, Scanning
<1>8. PollOK(w)'
  BY <1>0, <1>1, <1>2, <1>4, <1>5, <1>6, <1>7 DEF PollOK, PollSteps, Scanning, Writing, At
<1> QED  BY <1>0, <1>3, <1>8, OnlyPollMoves DEF WatcherInv, HadBlock, Seen

\* A sender is an account or nobody.
LEMMA SenderTypes ==
  ASSUME NEW o \in Outputs, Sender[o] # NoRow
  PROVE  Sender[o] \in Identities
<1> DEFINE found == Attributions!SourceAddresses(Vins[o]) \cap IdentityAddresses
<1>1. Cardinality(found) = 1 /\ Sender[o] = AccountOf[CHOOSE a \in found : TRUE]
  <2>1. Sender[o] = Attributions!AttributeSender(Vins[o])
    BY DEF Sender
  <2>2. Attributions!AttributeSender(Vins[o])
          = IF Cardinality(found) = 1 THEN AccountOf[CHOOSE a \in found : TRUE] ELSE NoRow
    BY Zenon DEF Attributions!AttributeSender, Attributions!Cardinality, Cardinality
  <2> HIDE DEF found
  <2> QED  BY <2>1, <2>2
<1>2. found # {}
  BY <1>1, FS_EmptySet
<1>3. found \subseteq IdentityAddresses
  OBVIOUS
<1> HIDE DEF found
<1> QED  BY <1>1, <1>2, <1>3, WatcherAssumption

LEMMA WriteKeepsInv ==
  ASSUME WatcherInv, NEW w \in Watchers, WriteOutput(w)
  PROVE  WatcherInv'
<1> DEFINE o == poll[w].output
           h == poll[w].next - 1
           x == poll[w].hash
           block == [height |-> h, hash |-> x]
           q == [poll[w] EXCEPT !.step = "scan", !.output = NoRow]
<1>0. /\ UNCHANGED <<chain, cursor, bootstraps, failures>>
      /\ \/ poll[w].step = "remine" /\ RemineDeposit(o, block)
         \/ poll[w].step = "insert" /\ InsertDeposit(o, Sender[o], Value[o], block)
         \/ poll[w].step = "insert" /\ UNCHANGED storageVars
  BY DEF WriteOutput, At, ScannedBlock
<1>1. PollOK(w) /\ chain \in Chains /\ NoRow \notin Outputs
  BY WatcherAssumption DEF WatcherInv
<1>2. /\ DOMAIN q = PollFields /\ q.step = "scan" /\ q.output = NoRow
      /\ q.todo = poll[w].todo /\ q.hash = poll[w].hash
      /\ q.next = poll[w].next /\ q.to = poll[w].to /\ q.tip = poll[w].tip
  BY <1>1 DEF PollOK, PollFields
<1>3. poll' = [poll EXCEPT ![w] = q]
  BY DEF WriteOutput
<1>4. /\ o \in Outputs /\ Mined(o, h, x)
      /\ poll[w].step = "insert" => Sender[o] # NoRow
      /\ \A u \in poll[w].todo : u \in Outputs /\ Mined(u, h, x)
  BY <1>0, <1>1 DEF PollOK, Scanning, Writing, At
<1>5. HadBlock(h, x) /\ block \in Blocks /\ block # AdminBlock
  BY <1>1, <1>4, BlocksMined
<1> HIDE DEF q, h, x, o
<1>6. poll'[w] = q
  BY <1>3 DEF WatcherInv
<1>7. (\A u, k, y : Mined(u, k, y)' <=> Mined(u, k, y)) /\ (\A k, y : HadBlock(k, y)' <=> HadBlock(k, y))
  BY <1>0 DEF Mined, HadBlock, Seen
<1>8. PollOK(w)'
  BY <1>0, <1>1, <1>2, <1>4, <1>5, <1>6, <1>7 DEF PollOK, PollSteps, Scanning, Writing, At, h, x
<1>9. /\ \A u \in Outputs : deposits[u] \in DepositRow \cup {NoRow}
      /\ deposits = [u \in Outputs |-> deposits[u]]
  BY DEF WatcherInv, StorageInv, StorageTypeOK
<1>10. \A u \in Outputs : \/ deposits'[u] = deposits[u]
                          \/ u = o /\ deposits'[u] # NoRow /\ deposits'[u].block = block
  <2>1. CASE RemineDeposit(o, block)
    <3> DEFINE row == [deposits[o] EXCEPT !.block = block, !.reorged = FALSE, !.credited = FALSE]
    <3>1. deposits[o] \in DepositRow /\ NoRow \notin DepositRow
      BY <1>4, <1>9, <2>1, NoRowAssumption DEF RemineDeposit
    <3>2. row \in DepositRow /\ row.block = block
      BY <1>5, <3>1 DEF DepositRow
    <3>3. deposits' = [deposits EXCEPT ![o] = row]
      BY <2>1 DEF RemineDeposit
    <3> HIDE DEF row, block
    <3> QED  BY <1>4, <1>9, <3>1, <3>2, <3>3
  <2>2. CASE InsertDeposit(o, Sender[o], Value[o], block) /\ poll[w].step = "insert"
    <3> DEFINE row == [identity |-> Sender[o], amount |-> Value[o], block |-> block,
                       credited |-> FALSE, reorged |-> FALSE]
    <3>1. row \in DepositRow /\ row.block = block /\ NoRow \notin DepositRow
      BY <1>4, <1>5, <2>2, SenderTypes, WatcherAssumption, NoRowAssumption DEF DepositRow
    <3>2. deposits' = [deposits EXCEPT ![o] = row]
      BY <2>2 DEF InsertDeposit
    <3> HIDE DEF row, block
    <3> QED  BY <1>4, <1>9, <3>1, <3>2
  <2>3. CASE UNCHANGED storageVars
    BY <2>3 DEF storageVars
  <2> QED  BY <1>0, <2>1, <2>2, <2>3
<1>11. StorageInv'
  <2>1. CASE UNCHANGED storageVars
    BY <2>1, NextInv DEF WatcherInv
  <2>2. CASE RemineDeposit(o, block)
    BY <1>4, <1>5, <2>2, RemineKeepsInv DEF WatcherInv
  <2>3. CASE InsertDeposit(o, Sender[o], Value[o], block) /\ poll[w].step = "insert"
    BY <1>4, <1>5, <2>3, InsertDepositKeepsInv, SenderTypes, WatcherAssumption DEF WatcherInv
  <2> QED  BY <1>0, <2>1, <2>2, <2>3
<1>12. RowsStay
  BY <1>5, <1>10 DEF RowsStay
<1>13. RowsMined'
  <2>1. /\ block.height = h /\ block.hash = x
        /\ block = [height |-> block.height, hash |-> block.hash]
    OBVIOUS
  <2> HIDE DEF block
  <2> QED  BY <1>4, <1>7, <1>10, <2>1 DEF WatcherInv, RowsMined
<1>14. ManualCreditsStand'
  BY <1>5, <1>10 DEF WatcherInv, ManualCreditsStand, Credited, Recorded
<1> QED  BY <1>0, <1>3, <1>7, <1>8, <1>11, <1>12, <1>13, <1>14, OneWatcherMoves DEF WatcherInv

LEMMA MoveCursorKeepsInv ==
  ASSUME WatcherInv, NEW w \in Watchers, MoveCursor(w)
  PROVE  WatcherInv'
<1> DEFINE q == [poll[w] EXCEPT !.step = "list"]
<1>0. /\ poll[w].step = "scan" /\ poll[w].todo = {} /\ poll[w].next > poll[w].to
      /\ UNCHANGED <<storageVars, chain, bootstraps, failures>>
      /\ cursor' = [height |-> poll[w].to, hash |-> poll[w].hash]
  BY DEF MoveCursor, At
<1>1. PollOK(w) /\ chain \in Chains
  BY DEF WatcherInv
<1>2. /\ DOMAIN q = PollFields /\ q.step = "list" /\ q.output = poll[w].output
      /\ q.todo = poll[w].todo /\ q.next = poll[w].next /\ q.to = poll[w].to
      /\ q.tip = poll[w].tip
  BY <1>1 DEF PollOK, PollFields
<1>3. poll' = [poll EXCEPT ![w] = q]
  BY DEF MoveCursor
<1>4. HadBlock(poll[w].to, poll[w].hash)
  <2>1. /\ poll[w].next \in Nat /\ poll[w].to \in Int /\ poll[w].next <= poll[w].to + 1
        /\ HadBlock(poll[w].next - 1, poll[w].hash)
    BY <1>0, <1>1 DEF PollOK, Scanning
  <2>2. poll[w].next - 1 = poll[w].to
    BY <1>0, <2>1
  <2> QED  BY <2>1, <2>2
<1> HIDE DEF q
<1>5. poll'[w] = q
  BY <1>3 DEF WatcherInv
<1>6. HadBlock(cursor.height, cursor.hash)'
  <2>1. cursor'.height = poll[w].to /\ cursor'.hash = poll[w].hash
    BY <1>0
  <2> QED  BY <1>0, <1>4, <2>1 DEF HadBlock, Seen
<1>7. PollOK(w)'
  BY <1>0, <1>1, <1>2, <1>5 DEF PollOK, PollSteps, Scanning, Writing, At
<1> QED  BY <1>0, <1>3, <1>6, <1>7, OnlyPollMoves DEF WatcherInv

LEMMA ListKeepsInv ==
  ASSUME WatcherInv, NEW w \in Watchers, ListUncredited(w)
  PROVE  WatcherInv'
<1> DEFINE q == [poll[w] EXCEPT !.step = "credit", !.listed = Listing(UncreditedDeposits)]
<1>0. poll[w].step = "list" /\ UNCHANGED <<storageVars, chain, cursor, bootstraps, failures>>
  BY DEF ListUncredited, At
<1>1. PollOK(w) /\ chain \in Chains
  BY DEF WatcherInv
<1>2. /\ DOMAIN q = PollFields /\ q.step = "credit" /\ q.output = poll[w].output
      /\ q.todo = poll[w].todo /\ q.next = poll[w].next /\ q.to = poll[w].to
      /\ q.tip = poll[w].tip
  BY <1>1 DEF PollOK, PollFields
<1>3. poll' = [poll EXCEPT ![w] = q]
  BY DEF ListUncredited
<1> HIDE DEF q
<1>4. poll'[w] = q
  BY <1>3 DEF WatcherInv
<1>5. PollOK(w)'
  BY <1>0, <1>1, <1>2, <1>4 DEF PollOK, PollSteps, Scanning, Writing, At
<1> QED  BY <1>0, <1>3, <1>5, OnlyPollMoves DEF WatcherInv, HadBlock, Seen

LEMMA CreditKeepsWatcherInv ==
  ASSUME WatcherInv, NEW w \in Watchers, NEW o \in Outputs, CreditAtDepth(w, o)
  PROVE  WatcherInv'
<1> DEFINE listed == [poll[w].listed EXCEPT ![o] = NoRow]
           q == [poll[w] EXCEPT !.listed = listed]
<1>0. /\ poll[w].step = "credit" /\ UNCHANGED <<chain, cursor, bootstraps, failures>>
      /\ CreditDeposit(o) \/ UNCHANGED storageVars
  BY DEF CreditAtDepth, At
<1>1. PollOK(w) /\ chain \in Chains
  BY DEF WatcherInv
<1>2. /\ DOMAIN q = PollFields /\ q.step = "credit" /\ q.output = poll[w].output
      /\ q.todo = poll[w].todo /\ q.next = poll[w].next /\ q.to = poll[w].to
      /\ q.tip = poll[w].tip
  BY <1>0, <1>1 DEF PollOK, PollFields
<1>3. poll' = [poll EXCEPT ![w] = q]
  BY DEF CreditAtDepth
<1> HIDE DEF q
<1>4. poll'[w] = q
  BY <1>3 DEF WatcherInv
<1>5. PollOK(w)'
  BY <1>0, <1>1, <1>2, <1>4 DEF PollOK, PollSteps, Scanning, Writing, At
<1>6. StorageInv'
  BY <1>0, CreditDepositKeepsInv, NextInv DEF WatcherInv
<1>7. \A u \in Outputs : \/ deposits'[u] = deposits[u]
                         \/ /\ u = o /\ deposits[u] # NoRow /\ deposits'[u] # NoRow
                            /\ deposits'[u].block = deposits[u].block
                            /\ Credited(u)'
  <2>1. CASE UNCHANGED storageVars
    BY <2>1 DEF storageVars
  <2>2. CASE CreditDeposit(o)
    <3> DEFINE row == [deposits[o] EXCEPT !.credited = TRUE]
    <3>1. deposits[o] \in DepositRow /\ NoRow \notin DepositRow /\ ~deposits[o].reorged
      BY <2>2, NoRowAssumption DEF CreditDeposit, WatcherInv, StorageInv, StorageTypeOK
    <3>2. row \in DepositRow /\ row.block = deposits[o].block /\ row.credited /\ ~row.reorged
      BY <3>1, RowChanges
    <3>3. deposits' = [deposits EXCEPT ![o] = row] /\ deposits = [u \in Outputs |-> deposits[u]]
      BY <2>2 DEF CreditDeposit, WatcherInv, StorageInv, StorageTypeOK
    <3> HIDE DEF row
    <3> QED  BY <3>1, <3>2, <3>3 DEF Credited, Recorded
  <2> QED  BY <1>0, <2>1, <2>2
<1>8. RowsStay
  BY <1>7 DEF RowsStay
<1>9. RowsMined'
  <2>1. \A u, h, x : Mined(u, h, x)' <=> Mined(u, h, x)
    BY <1>0 DEF Mined, Seen
  <2> QED  BY <1>7, <2>1 DEF WatcherInv, RowsMined
<1>10. ManualCreditsStand'
  BY <1>7 DEF WatcherInv, ManualCreditsStand, Credited, Recorded
<1> QED  BY <1>0, <1>3, <1>5, <1>6, <1>8, <1>9, <1>10, OneWatcherMoves
         DEF WatcherInv, HadBlock, Seen

LEMMA EndKeepsInv ==
  ASSUME WatcherInv, NEW w \in Watchers, EndPoll(w) \/ PollFails(w)
  PROVE  WatcherInv'
<1>0. /\ UNCHANGED <<storageVars, chain, cursor, bootstraps>>
      /\ poll' = [poll EXCEPT ![w] = IdlePoll]
      /\ failures' \in 0..MaxFailures
  BY WatcherAssumption DEF EndPoll, PollFails, WatcherInv
<1>1. poll'[w] = IdlePoll
  BY <1>0 DEF WatcherInv
<1>2. PollOK(w)'
  BY <1>0, <1>1, IdleOK DEF WatcherInv
<1> QED  BY <1>0, <1>2, OnlyPollMoves DEF WatcherInv, HadBlock, Seen

LEMMA ChainKeepsInv ==
  ASSUME WatcherInv, MoveChain
  PROVE  WatcherInv'
<1>1. /\ chain' \in Chains /\ ChainMoves /\ chain \in Chains
      /\ UNCHANGED <<storageVars, cursor, poll, bootstraps, failures>>
  BY DEF MoveChain, ChainMoves, WatcherInv
<1>2. RowsStay
  BY <1>1 DEF RowsStay, storageVars
<1>3. \A w \in Watchers : PollOK(w)'
  BY <1>1, <1>2, PollStands DEF WatcherInv
<1>4. StorageInv'
  BY <1>1, NextInv DEF WatcherInv
<1>5. RowsMined' /\ ManualCreditsStand'
  BY <1>1, SeenStays DEF storageVars, WatcherInv, RowsMined, ManualCreditsStand, Credited, Recorded
<1>6. cursor' = NoRow \/ HadBlock(cursor.height, cursor.hash)'
  BY <1>1, SeenStays DEF WatcherInv
<1> QED  BY <1>1, <1>3, <1>4, <1>5, <1>6 DEF WatcherInv

LEMMA ManualKeepsInv ==
  ASSUME WatcherInv, NEW o \in Outputs, NEW i \in Identities, ManualCredit(o, i)
  PROVE  WatcherInv'
<1>1. /\ UNCHANGED <<chain, cursor, poll, bootstraps, failures>> /\ chain \in Chains
      /\ InsertAndCreditDeposit(o, i, Value[o], AdminBlock)
  BY DEF ManualCredit, WatcherInv, watcherVars
<1>2. StorageInv'
  BY <1>1, InsertAndCreditKeepsInv, WatcherAssumption, BlockAssumption DEF WatcherInv
<1>3. \A u \in Outputs : \/ deposits'[u] = deposits[u]
                         \/ /\ deposits[u] = NoRow
                            /\ deposits'[u].block = AdminBlock /\ Credited(u)'
  <2> DEFINE row == [identity |-> i, amount |-> Value[o], block |-> AdminBlock,
                     credited |-> TRUE, reorged |-> FALSE]
  <2>1. row \in DepositRow /\ row.block = AdminBlock /\ row.credited /\ ~row.reorged
    BY WatcherAssumption, BlockAssumption DEF DepositRow
  <2>2. /\ deposits' = [deposits EXCEPT ![o] = row] /\ deposits[o] = NoRow
        /\ deposits = [u \in Outputs |-> deposits[u]]
    BY <1>1 DEF InsertAndCreditDeposit, WatcherInv, StorageInv, StorageTypeOK
  <2> HIDE DEF row
  <2> QED  BY <2>1, <2>2, NoRowAssumption DEF Credited, Recorded
<1>4. RowsStay
  BY <1>3 DEF RowsStay
<1>5. \A v \in Watchers : PollOK(v)'
  BY <1>1, <1>4, PollStands DEF WatcherInv, ChainMoves
<1>6. RowsMined'
  <2>1. \A u, h, x : Mined(u, h, x)' <=> Mined(u, h, x)
    BY <1>1 DEF Mined, Seen
  <2> QED  BY <1>3, <2>1 DEF WatcherInv, RowsMined
<1>7. ManualCreditsStand'
  BY <1>3 DEF WatcherInv, ManualCreditsStand, Credited, Recorded
<1> QED  BY <1>1, <1>2, <1>5, <1>6, <1>7 DEF WatcherInv, HadBlock, Seen

-----------------------------------------------------------------------------
LEMMA WatcherInitInv == WatcherInit => WatcherInv
<1> SUFFICES ASSUME WatcherInit PROVE WatcherInv
  OBVIOUS
<1>1. StorageInv /\ chain \in Chains
  BY InitInv DEF WatcherInit
<1>2. \A w \in Watchers : PollOK(w)
  <2>1. Len(chain) \in Nat
    BY <1>1, ChainTypes
  <2> QED  BY <2>1 DEF WatcherInit, PollOK, IdlePoll, PollFields, PollSteps, At, Scanning, Writing
<1>3. RowsMined /\ ManualCreditsStand
  BY DEF WatcherInit, StorageInit, RowsMined, ManualCreditsStand
<1> QED  BY <1>1, <1>2, <1>3, WatcherAssumption DEF WatcherInit, WatcherInv

LEMMA WatcherNextInv == WatcherInv /\ [WatcherNext]_vars => WatcherInv'
<1> SUFFICES ASSUME WatcherInv, [WatcherNext]_vars PROVE WatcherInv'
  OBVIOUS
<1>1. ASSUME NEW w \in Watchers, PollStep(w) PROVE WatcherInv'
  BY <1>1, StartKeepsInv, ReadCursorKeepsInv, BootstrapKeepsInv, CursorHoldsKeepsInv,
     CursorGoneKeepsInv, EndVerifyKeepsInv, FetchKeepsInv, WriteKeepsInv, MoveCursorKeepsInv,
     ListKeepsInv, EndKeepsInv, VerifyKeepsInv, LookKeepsInv, CreditKeepsWatcherInv
     DEF PollStep
<1>2. ASSUME NEW o \in ManualOutputs, NEW i \in Identities, ManualCredit(o, i) PROVE WatcherInv'
  BY <1>2, ManualKeepsInv, WatcherAssumption
<1>3. CASE UNCHANGED vars
  <2>1. UNCHANGED <<storageVars, chain, cursor, poll, bootstraps, failures>> /\ UNCHANGED deposits
    BY <1>3 DEF vars, watcherVars, storageVars
  <2>2. StorageInv'
    BY <2>1, NextInv DEF WatcherInv
  <2>3. chain \in Chains /\ ChainMoves /\ RowsStay
    BY <2>1 DEF WatcherInv, ChainMoves, RowsStay
  <2>4. \A w \in Watchers : PollOK(w)'
    BY <2>1, <2>3, PollStands DEF WatcherInv
  <2>5. RowsMined' /\ ManualCreditsStand'
    BY <2>1, <2>3, SeenStays DEF WatcherInv, RowsMined, ManualCreditsStand, Credited, Recorded
  <2>6. cursor' = NoRow \/ HadBlock(cursor.height, cursor.hash)'
    BY <2>1, <2>3, SeenStays DEF WatcherInv
  <2> QED  BY <2>1, <2>2, <2>4, <2>5, <2>6 DEF WatcherInv
<1> QED  BY <1>1, <1>2, <1>3, ChainKeepsInv, EndKeepsInv DEF WatcherNext

LEMMA WatcherInvAlways == WatcherSpec => []WatcherInv
BY WatcherInitInv, WatcherNextInv, PTL DEF WatcherSpec

\* Rows, cursor and running polls stay well formed, whatever the chain does,
\* however many watchers run and wherever their polls end.
THEOREM WatcherTypes == WatcherSpec => []WatcherTypeOK
<1>1. WatcherInv => WatcherTypeOK
  <2> SUFFICES ASSUME WatcherInv PROVE WatcherTypeOK
    OBVIOUS
  <2>1. StorageTypeOK
    BY DEF WatcherInv, StorageInv
  <2>2. cursor = NoRow \/ (cursor.height \in 0..Len(chain) /\ cursor.hash \in Hashes)
    BY BlocksHad DEF WatcherInv
  <2> QED  BY <2>1, <2>2 DEF WatcherInv, WatcherTypeOK, PollOK, Scanning, Writing, At
<1> QED  BY <1>1, WatcherInvAlways, PTL

\* No reorganisation takes a manual credit back, with any number of watchers.
THEOREM ManualCreditsAreFinal == WatcherSpec => []ManualCreditsStand
<1>1. WatcherInv => ManualCreditsStand
  BY DEF WatcherInv
<1> QED  BY <1>1, WatcherInvAlways, PTL

-----------------------------------------------------------------------------
(* One watcher whose polls all end, on a chain that reorganises between    *)
(* them.                                                                   *)

\* A poll's range reaches back over its whole rescan (the code's defaults: 200
\* blocks per poll, 20 blocks of lookback).
Orderly ==
  /\ \E w : Watchers = {w}
  /\ ~ReorgsMidPoll /\ MaxFailures = 0
  /\ MaxPerPoll > Lookback

\* No chain pays an output an operator credits by hand.
ManualOffChain == \A c \in Chains : \A h \in DOMAIN c : c[h].pays \cap ManualOutputs = {}

On(c, b) == b.height \in 1..Len(c) /\ c[b.height].hash = b.hash

RowsOn(c) == \A o \in Outputs : Recorded(o) => deposits[o].block = AdminBlock \/ On(c, deposits[o].block)

RowsUpTo(k) == \A o \in Outputs : Recorded(o) => deposits[o].block.height <= k

OnlyManual == \A o \in Outputs : deposits[o] # NoRow => deposits[o].block = AdminBlock

\* The cursor is on c, with the block it names.
CursorIn(c) == cursor.height \in 0..Len(c) /\ HashIn(c, cursor.height) = cursor.hash

\* Between two polls the rows are those of the chain the cursor was set on, none
\* of them above the cursor.
BookStands ==
  IF cursor = NoRow THEN OnlyManual
  ELSE RowsUpTo(cursor.height) /\ \E c \in Chains : CursorIn(c) /\ RowsOn(c)

\* While it verifies, a poll still lists the rows its chain has lost, and the
\* range it is going to scan reaches above all rows.
VerifyKnows(w) ==
  LET p == poll[w] IN
  /\ cursor # NoRow /\ p.to >= 0 /\ DOMAIN p.listed = Outputs
  /\ \A o \in Outputs : Recorded(o) =>
       \/ deposits[o].block = AdminBlock \/ On(chain, deposits[o].block)
       \/ p.listed[o] # NoRow
  /\ \A o \in Outputs : p.listed[o] # NoRow => deposits[o] # NoRow /\ deposits[o].block = p.listed[o]
  /\ \A h \in DOMAIN p.cached : h \in 0..Len(chain) /\ p.cached[h] = HashAt(h)
  /\ RowsUpTo(p.next - 1) \/ RowsUpTo(p.to)
  /\ p.next > p.to => CursorIn(chain) /\ RowsUpTo(cursor.height)

\* While it scans, its rows are on its chain, and so is the block it has fetched.
ScanKnows(w) ==
  LET p == poll[w] IN
  /\ RowsOn(chain) /\ RowsUpTo(p.to)
  /\ p.next > p.to \/ p.todo # {} \/ Writing(w) => p.next >= 2 /\ p.hash = chain[p.next - 1].hash
  /\ \A o \in p.todo : o \in chain[p.next - 1].pays
  /\ Writing(w) => p.output \in chain[p.next - 1].pays
  /\ At(w, "remine") => deposits[p.output] # NoRow /\ deposits[p.output].block.hash # p.hash

\* Behind the scan the book stands on the poll's own chain.
CreditKnows(w) ==
  LET p == poll[w] IN
  /\ cursor # NoRow /\ CursorIn(chain) /\ RowsOn(chain) /\ RowsUpTo(cursor.height)
  /\ At(w, "credit") =>
       /\ DOMAIN p.listed = Outputs
       /\ \A o \in Outputs : p.listed[o] # NoRow => Recorded(o) /\ deposits[o].block = p.listed[o]

PollBook(w) ==
  LET p == poll[w] IN
  /\ poll[w].step \in {"idle", "start", "bootstrap", "check"} => BookStands /\ p.cached = << >>
  /\ At(w, "start") /\ cursor # NoRow => cursor.height <= p.tip
  /\ At(w, "bootstrap") => cursor = NoRow
  /\ At(w, "check") => cursor # NoRow /\ p.cursor = cursor /\ (CursorIn(chain) \/ cursor.height <= p.tip)
  /\ At(w, "verify") => VerifyKnows(w)
  /\ Scanning(w) => ScanKnows(w)
  /\ poll[w].step \in {"list", "credit"} => CreditKnows(w)

\* What the ledger has booked for an output, for every identity.
LedgerCounts ==
  \A o \in Outputs : \A i \in Identities :
    SumFor(ledger[i], o) = IF Credited(o) /\ deposits[o].identity = i
                           THEN deposits[o].amount ELSE 0

\* A credited row has an account to take the money from again; rows without a
\* block were credited by hand.
CreditsKnown ==
  \A o \in Outputs : deposits[o] # NoRow =>
    /\ deposits[o].credited => deposits[o].identity \in known
    /\ deposits[o].block = AdminBlock => o \in ManualOutputs

BookInv == \A w \in Watchers : PollBook(w)

CountInv == LedgerCounts /\ CreditsKnown

-----------------------------------------------------------------------------
(* What each step of a poll leaves in it.                                  *)

LEMMA PollShape ==
  ASSUME WatcherInv, NEW w \in Watchers
  PROVE  /\ poll = [v \in Watchers |-> poll[v]] /\ DOMAIN poll[w] = PollFields /\ PollOK(w)
         /\ chain \in Chains /\ Len(chain) \in Nat /\ StorageTypeOK
BY ChainTypes DEF WatcherInv, PollOK, StorageInv

LEMMA StartMoves ==
  ASSUME WatcherInv, NEW w \in Watchers, StartPoll(w)
  PROVE  /\ poll[w].step = "idle" /\ poll'[w].step = "start" /\ poll'[w].tip = Len(chain)
         /\ poll'[w].cached = poll[w].cached
         /\ UNCHANGED <<storageVars, chain, cursor, bootstraps>>
<1> DEFINE q == [poll[w] EXCEPT !.step = "start", !.tip = Len(chain)]
<1>1. poll' = [poll EXCEPT ![w] = q]
  BY DEF StartPoll
<1>2. q.step = "start" /\ q.tip = Len(chain) /\ q.cached = poll[w].cached
  BY PollShape DEF PollFields
<1> HIDE DEF q
<1> QED  BY <1>1, <1>2, PollShape DEF StartPoll, At

LEMMA ReadMoves ==
  ASSUME WatcherInv, NEW w \in Watchers, ReadCursor(w)
  PROVE  /\ poll[w].step = "start" /\ poll'[w].cursor = cursor
         /\ poll'[w].step = IF cursor = NoRow THEN "bootstrap" ELSE "check"
         /\ poll'[w].tip = poll[w].tip /\ poll'[w].cached = poll[w].cached
         /\ UNCHANGED <<storageVars, chain, cursor, bootstraps>>
<1> DEFINE next == IF cursor = NoRow THEN "bootstrap" ELSE "check"
           q == [poll[w] EXCEPT !.cursor = cursor, !.step = next]
<1>1. poll' = [poll EXCEPT ![w] = q]
  BY DEF ReadCursor
<1>2. /\ q.step = next /\ q.tip = poll[w].tip /\ q.cached = poll[w].cached
      /\ q.cursor = cursor
  BY PollShape DEF PollFields
<1> HIDE DEF q
<1> QED  BY <1>1, <1>2, PollShape DEF ReadCursor, At

LEMMA BootstrapMoves ==
  ASSUME WatcherInv, NEW w \in Watchers, Bootstrap(w)
  PROVE  /\ poll[w].step = "bootstrap"
         /\ \E height \in 0..Len(chain) :
              cursor' = BlockAt(height) /\ bootstraps' = bootstraps \cup {height}
         /\ \/ poll'[w] = IdlePoll
            \/ /\ poll'[w].step = "check" /\ poll'[w].cursor = cursor'
               /\ poll'[w].cached = poll[w].cached
         /\ UNCHANGED <<storageVars, chain>>
<1> DEFINE height == IF StartHeight = 0 THEN poll[w].tip ELSE StartHeight - 1
           q == [poll[w] EXCEPT !.step = "check", !.cursor = BlockAt(height)]
<1>1. poll' = [poll EXCEPT ![w] = IF StartHeight = 0 THEN IdlePoll ELSE q]
  BY DEF Bootstrap
<1>2. q.step = "check" /\ q.cursor = BlockAt(height) /\ q.cached = poll[w].cached
  BY PollShape DEF PollFields
<1>3. /\ cursor' = BlockAt(height) /\ bootstraps' = bootstraps \cup {height}
      /\ UNCHANGED <<storageVars, chain>> /\ poll[w].step = "bootstrap" /\ height <= Len(chain)
  BY DEF Bootstrap, At
<1>4. height \in 0..Len(chain)
  BY <1>3, PollShape, WatcherAssumption DEF PollOK
<1> HIDE DEF q, height
<1>5. poll'[w] = IF StartHeight = 0 THEN IdlePoll ELSE q
  BY <1>1, PollShape
<1> QED  BY <1>2, <1>3, <1>4, <1>5

LEMMA RangeMoves ==
  ASSUME WatcherInv, NEW w \in Watchers, CursorHolds(w) \/ CursorGone(w)
  PROVE  \E from \in Nat \ {0} :
           /\ poll[w].step = "check" /\ poll'[w].step = "verify"
           /\ poll'[w].next = from /\ poll'[w].to = Smaller(poll[w].tip, from + MaxPerPoll - 1)
           /\ poll'[w].cached = poll[w].cached
           /\ \/ /\ CursorOnChain(w) /\ from = poll[w].cursor.height + 1
                 /\ poll'[w].listed = NothingListed
              \/ /\ ~CursorOnChain(w) /\ from = Larger(1, poll[w].cursor.height - Lookback)
                 /\ poll'[w].listed = Listing(DepositsAtOrAbove(1))
           /\ UNCHANGED <<storageVars, chain, cursor, bootstraps>>
<1>1. poll[w].step = "check" /\ UNCHANGED <<storageVars, chain, cursor, bootstraps>>
  BY DEF CursorHolds, CursorGone, At
<1>2. poll[w].cursor.height \in Nat /\ poll[w].listed = NothingListed
  BY <1>1, PollShape, BlocksHad DEF PollOK, At
<1>3. CASE CursorHolds(w)
  <2> DEFINE from == poll[w].cursor.height + 1
             q == ScanRange(poll[w], from)
  <2>1. poll' = [poll EXCEPT ![w] = q] /\ CursorOnChain(w)
    BY <1>3 DEF CursorHolds
  <2>2. /\ q.step = "verify" /\ q.next = from /\ q.to = Smaller(poll[w].tip, from + MaxPerPoll - 1)
        /\ q.cached = poll[w].cached /\ q.listed = poll[w].listed
    BY PollShape DEF PollFields, ScanRange
  <2> HIDE DEF q
  <2>3. poll'[w] = q /\ from \in Nat \ {0}
    BY <1>2, <2>1, PollShape
  <2> HIDE DEF from
  <2>4. from = poll[w].cursor.height + 1
    BY DEF from
  <2> QED  BY <1>1, <1>2, <2>1, <2>2, <2>3, <2>4
<1>4. CASE CursorGone(w)
  <2> DEFINE from == Larger(1, poll[w].cursor.height - Lookback)
             listed == Listing(DepositsAtOrAbove(1))
             r == [poll[w] EXCEPT !.listed = listed]
             q == ScanRange(r, from)
  <2>1. poll' = [poll EXCEPT ![w] = q] /\ ~CursorOnChain(w)
    BY <1>4 DEF CursorGone
  <2>2. /\ DOMAIN r = PollFields /\ r.cached = poll[w].cached /\ r.listed = listed
        /\ r.tip = poll[w].tip
    BY PollShape DEF PollFields
  <2> HIDE DEF r, listed
  <2>3. /\ q.step = "verify" /\ q.next = from /\ q.to = Smaller(poll[w].tip, from + MaxPerPoll - 1)
        /\ q.cached = poll[w].cached /\ q.listed = listed
    BY <2>2 DEF PollFields, ScanRange
  <2> HIDE DEF q
  <2>4. poll'[w] = q /\ from \in Nat \ {0}
    BY <1>2, <2>1, PollShape, WatcherAssumption, SMTT(30) DEF Larger
  <2>5. from = Larger(1, poll[w].cursor.height - Lookback)
    OBVIOUS
  <2> HIDE DEF from
  <2> QED  BY <1>1, <2>1, <2>3, <2>4, <2>5 DEF listed
<1> QED  BY <1>3, <1>4

LEMMA VerifyMoves ==
  ASSUME WatcherInv, NEW w \in Watchers, NEW o \in Outputs, VerifyDeposit(w, o)
  PROVE  LET block == poll[w].listed[o]
             hash == CachedHash(w, block.height)
         IN /\ poll[w].step = "verify" /\ poll'[w].step = "verify" /\ block # NoRow
            /\ poll'[w].next = poll[w].next /\ poll'[w].to = poll[w].to
            /\ poll'[w].listed = [poll[w].listed EXCEPT ![o] = NoRow]
            /\ poll'[w].cached = Cache(poll[w].cached, block.height, hash)
            /\ \/ block.hash = hash /\ UNCHANGED storageVars
               \/ block.hash # hash /\ MarkDepositReorged(o)
               \/ block.hash # hash /\ deposits[o].reorged /\ UNCHANGED storageVars
            /\ UNCHANGED <<chain, cursor, bootstraps>>
<1> DEFINE block == poll[w].listed[o]
           hash == CachedHash(w, block.height)
           listed == [poll[w].listed EXCEPT ![o] = NoRow]
           cached == Cache(poll[w].cached, block.height, hash)
           q == [poll[w] EXCEPT !.listed = listed, !.cached = cached]
<1>1. poll' = [poll EXCEPT ![w] = q]
  BY DEF VerifyDeposit
<1>2. /\ q.step = poll[w].step /\ q.next = poll[w].next /\ q.to = poll[w].to
      /\ q.listed = listed /\ q.cached = cached
  BY PollShape DEF PollFields
<1>3. /\ \/ block.hash = hash /\ UNCHANGED storageVars
         \/ block.hash # hash /\ MarkDepositReorged(o)
         \/ block.hash # hash /\ deposits[o].reorged /\ UNCHANGED storageVars
      /\ UNCHANGED <<chain, cursor, bootstraps>> /\ poll[w].step = "verify" /\ block # NoRow
  BY DEF VerifyDeposit, At
<1> HIDE DEF q, listed, cached, hash, block
<1>4. poll'[w] = q
  BY <1>1, PollShape
<1> QED  BY <1>2, <1>3, <1>4 DEF listed, cached, hash, block

LEMMA EndVerifyMoves ==
  ASSUME WatcherInv, NEW w \in Watchers, EndVerify(w)
  PROVE  /\ poll[w].step = "verify" /\ poll[w].listed = NothingListed
         /\ poll'[w].step = IF poll[w].next <= poll[w].to THEN "scan" ELSE "list"
         /\ poll'[w].next = poll[w].next /\ poll'[w].to = poll[w].to
         /\ poll'[w].todo = {} /\ poll'[w].output = NoRow
         /\ UNCHANGED <<storageVars, chain, cursor, bootstraps>>
<1> DEFINE next == IF poll[w].next <= poll[w].to THEN "scan" ELSE "list"
           q == [poll[w] EXCEPT !.step = next, !.cached = << >>]
<1>1. poll' = [poll EXCEPT ![w] = q]
  BY DEF EndVerify
<1>2. /\ q.step = next /\ q.next = poll[w].next /\ q.to = poll[w].to
      /\ q.todo = poll[w].todo /\ q.output = poll[w].output
  BY PollShape DEF PollFields
<1>3. /\ UNCHANGED <<storageVars, chain, cursor, bootstraps>>
      /\ poll[w].step = "verify" /\ poll[w].listed = NothingListed
  BY DEF EndVerify, At
<1>4. poll[w].todo = {} /\ poll[w].output = NoRow
  BY <1>3, PollShape DEF PollOK, Scanning, Writing
<1> HIDE DEF q, next
<1>5. poll'[w] = q
  BY <1>1, PollShape
<1> QED  BY <1>2, <1>3, <1>4, <1>5 DEF next

LEMMA FetchMoves ==
  ASSUME WatcherInv, NEW w \in Watchers, FetchBlock(w)
  PROVE  LET h == poll[w].next
         IN /\ poll[w].step = "scan" /\ poll'[w].step = "scan" /\ poll[w].todo = {}
            /\ h \in 1..Len(chain) /\ h <= poll[w].to
            /\ poll'[w].next = h + 1 /\ poll'[w].to = poll[w].to /\ poll'[w].output = poll[w].output
            /\ poll'[w].hash = chain[h].hash /\ poll'[w].todo = chain[h].pays
            /\ UNCHANGED <<storageVars, chain, cursor, bootstraps>>
<1> DEFINE h == poll[w].next
           q == [poll[w] EXCEPT !.hash = chain[h].hash, !.todo = chain[h].pays, !.next = @ + 1]
<1>1. poll' = [poll EXCEPT ![w] = q]
  BY DEF FetchBlock
<1>2. /\ q.step = poll[w].step /\ q.next = h + 1 /\ q.to = poll[w].to
      /\ q.todo = chain[h].pays /\ q.output = poll[w].output /\ q.hash = chain[h].hash
  BY PollShape DEF PollFields
<1>3. /\ UNCHANGED <<storageVars, chain, cursor, bootstraps>>
      /\ poll[w].step = "scan" /\ poll[w].todo = {} /\ h <= poll[w].to
  BY DEF FetchBlock, At
<1>4. h \in 1..Len(chain)
  BY <1>3, PollShape DEF PollOK, Scanning
<1> HIDE DEF q, h
<1>5. poll'[w] = q
  BY <1>1, PollShape
<1> QED  BY <1>2, <1>3, <1>4, <1>5 DEF h

LEMMA LookMoves ==
  ASSUME WatcherInv, NEW w \in Watchers, NEW o \in Outputs, LookAtOutput(w, o)
  PROVE  LET seen == deposits[o] # NoRow
             same == seen /\ deposits[o].block.hash = poll[w].hash
             pass == same \/ (~seen /\ Sender[o] = NoRow)
         IN /\ poll[w].step = "scan" /\ o \in poll[w].todo
            /\ poll'[w].step = IF pass THEN "scan" ELSE IF seen THEN "remine" ELSE "insert"
            /\ poll'[w].output = IF pass THEN NoRow ELSE o
            /\ poll'[w].todo = poll[w].todo \ {o} /\ poll'[w].hash = poll[w].hash
            /\ poll'[w].next = poll[w].next /\ poll'[w].to = poll[w].to
            /\ UNCHANGED <<storageVars, chain, cursor, bootstraps>>
<1> DEFINE seen == deposits[o] # NoRow
           same == seen /\ deposits[o].block.hash = poll[w].hash
           pass == same \/ (~seen /\ Sender[o] = NoRow)
           next == IF pass THEN "scan" ELSE IF seen THEN "remine" ELSE "insert"
           found == IF pass THEN NoRow ELSE o
           q == [poll[w] EXCEPT !.todo = poll[w].todo \ {o}, !.output = found, !.step = next]
<1>1. poll' = [poll EXCEPT ![w] = q]
  BY DEF LookAtOutput
<1>2. /\ q.step = next /\ q.next = poll[w].next /\ q.to = poll[w].to /\ q.output = found
      /\ q.todo = poll[w].todo \ {o} /\ q.hash = poll[w].hash
  BY PollShape DEF PollFields
<1>3. /\ UNCHANGED <<storageVars, chain, cursor, bootstraps>>
      /\ poll[w].step = "scan" /\ o \in poll[w].todo
  BY DEF LookAtOutput, At
<1> HIDE DEF q, next, found
<1>4. poll'[w] = q
  BY <1>1, PollShape
<1> QED  BY <1>2, <1>3, <1>4 DEF next, found

LEMMA WriteMoves ==
  ASSUME WatcherInv, NEW w \in Watchers, WriteOutput(w)
  PROVE  LET o == poll[w].output
             block == [height |-> poll[w].next - 1, hash |-> poll[w].hash]
         IN /\ \/ poll[w].step = "remine" /\ RemineDeposit(o, block)
               \/ poll[w].step = "insert" /\ InsertDeposit(o, Sender[o], Value[o], block)
               \/ poll[w].step = "insert" /\ deposits[o] # NoRow /\ UNCHANGED storageVars
            /\ o \in Outputs
            /\ poll'[w].step = "scan" /\ poll'[w].output = NoRow
            /\ poll'[w].todo = poll[w].todo /\ poll'[w].hash = poll[w].hash
            /\ poll'[w].next = poll[w].next /\ poll'[w].to = poll[w].to
            /\ UNCHANGED <<chain, cursor, bootstraps>>
<1> DEFINE o == poll[w].output
           block == [height |-> poll[w].next - 1, hash |-> poll[w].hash]
           q == [poll[w] EXCEPT !.step = "scan", !.output = NoRow]
<1>1. poll' = [poll EXCEPT ![w] = q]
  BY DEF WriteOutput
<1>2. /\ q.step = "scan" /\ q.next = poll[w].next /\ q.to = poll[w].to /\ q.output = NoRow
      /\ q.todo = poll[w].todo /\ q.hash = poll[w].hash
  BY PollShape DEF PollFields
<1>3. /\ \/ poll[w].step = "remine" /\ RemineDeposit(o, block)
         \/ poll[w].step = "insert" /\ InsertDeposit(o, Sender[o], Value[o], block)
         \/ poll[w].step = "insert" /\ deposits[o] # NoRow /\ UNCHANGED storageVars
      /\ UNCHANGED <<chain, cursor, bootstraps>>
  BY DEF WriteOutput, At, ScannedBlock
<1>4. o \in Outputs
  BY <1>3, PollShape DEF PollOK, Writing
<1> HIDE DEF q, o, block
<1>5. poll'[w] = q
  BY <1>1, PollShape
<1> QED  BY <1>2, <1>3, <1>4, <1>5 DEF o, block

LEMMA MoveCursorMoves ==
  ASSUME WatcherInv, NEW w \in Watchers, MoveCursor(w)
  PROVE  /\ poll[w].step = "scan" /\ poll[w].todo = {} /\ poll[w].next = poll[w].to + 1
         /\ poll[w].output = NoRow /\ poll[w].next \in Nat
         /\ cursor' = [height |-> poll[w].to, hash |-> poll[w].hash]
         /\ poll'[w].step = "list"
         /\ UNCHANGED <<storageVars, chain, bootstraps>>
<1> DEFINE q == [poll[w] EXCEPT !.step = "list"]
<1>1. poll' = [poll EXCEPT ![w] = q]
  BY DEF MoveCursor
<1>2. q.step = "list"
  BY PollShape DEF PollFields
<1>3. /\ UNCHANGED <<storageVars, chain, bootstraps>> /\ poll[w].next > poll[w].to
      /\ poll[w].step = "scan" /\ poll[w].todo = {}
      /\ cursor' = [height |-> poll[w].to, hash |-> poll[w].hash]
  BY DEF MoveCursor, At
<1>4. poll[w].next = poll[w].to + 1 /\ poll[w].output = NoRow /\ poll[w].next \in Nat
  BY <1>3, PollShape DEF PollOK, Scanning, Writing
<1> HIDE DEF q
<1> QED  BY <1>1, <1>2, <1>3, <1>4, PollShape

LEMMA ListMoves ==
  ASSUME WatcherInv, NEW w \in Watchers, ListUncredited(w)
  PROVE  /\ poll[w].step = "list" /\ poll'[w].step = "credit"
         /\ poll'[w].listed = Listing(UncreditedDeposits)
         /\ UNCHANGED <<storageVars, chain, cursor, bootstraps>>
<1> DEFINE q == [poll[w] EXCEPT !.step = "credit", !.listed = Listing(UncreditedDeposits)]
<1>1. poll' = [poll EXCEPT ![w] = q]
  BY DEF ListUncredited
<1>2. q.step = "credit" /\ q.listed = Listing(UncreditedDeposits)
  BY PollShape DEF PollFields
<1> HIDE DEF q
<1> QED  BY <1>1, <1>2, PollShape DEF ListUncredited, At

LEMMA CreditingMoves ==
  ASSUME WatcherInv, NEW w \in Watchers, NEW o \in Outputs, CreditAtDepth(w, o)
  PROVE  /\ poll[w].step = "credit" /\ poll'[w].step = "credit"
         /\ poll[w].listed[o] # NoRow
         /\ poll'[w].listed = [poll[w].listed EXCEPT ![o] = NoRow]
         /\ \/ poll[w].tip - poll[w].listed[o].height >= MinConf /\ CreditDeposit(o)
            \/ UNCHANGED storageVars
         /\ UNCHANGED <<chain, cursor, bootstraps>>
<1> DEFINE listed == [poll[w].listed EXCEPT ![o] = NoRow]
           q == [poll[w] EXCEPT !.listed = listed]
<1>1. poll' = [poll EXCEPT ![w] = q]
  BY DEF CreditAtDepth
<1>2. q.step = poll[w].step /\ q.listed = listed
  BY PollShape DEF PollFields
<1>3. /\ UNCHANGED <<chain, cursor, bootstraps>> /\ poll[w].step = "credit" /\ poll[w].listed[o] # NoRow
      /\ \/ poll[w].tip - poll[w].listed[o].height >= MinConf /\ CreditDeposit(o)
         \/ UNCHANGED storageVars
  BY DEF CreditAtDepth, At
<1> HIDE DEF q, listed
<1> QED  BY <1>1, <1>2, <1>3, PollShape DEF listed

LEMMA EndMoves ==
  ASSUME WatcherInv, NEW w \in Watchers, EndPoll(w)
  PROVE  /\ poll[w].step = "credit" /\ poll'[w] = IdlePoll
         /\ UNCHANGED <<storageVars, chain, cursor, bootstraps>>
BY PollShape DEF EndPoll, At

-----------------------------------------------------------------------------
(* What each storage operation leaves in the deposit rows.                 *)

LEMMA DepositMarked ==
  ASSUME StorageTypeOK, NEW o \in Outputs, MarkDepositReorged(o)
  PROVE  /\ deposits[o] # NoRow /\ ~deposits[o].reorged
         /\ deposits'[o] # NoRow /\ deposits'[o].reorged
         /\ deposits'[o].block = deposits[o].block
         /\ deposits'[o].credited = deposits[o].credited
         /\ deposits'[o].identity = deposits[o].identity
         /\ deposits'[o].amount = deposits[o].amount
         /\ \A u \in Outputs : u # o => deposits'[u] = deposits[u]
<1> DEFINE row == [deposits[o] EXCEPT !.reorged = TRUE]
<1>1. /\ deposits[o] # NoRow /\ ~deposits[o].reorged /\ deposits' = [deposits EXCEPT ![o] = row]
      /\ deposits = [u \in Outputs |-> deposits[u]]
  BY DEF MarkDepositReorged, StorageTypeOK
<1>2. deposits[o] \in DepositRow /\ NoRow \notin DepositRow
  BY <1>1, NoRowAssumption DEF StorageTypeOK
<1>3. /\ row \in DepositRow /\ row.reorged /\ row.block = deposits[o].block
      /\ row.credited = deposits[o].credited /\ row.identity = deposits[o].identity
      /\ row.amount = deposits[o].amount
  BY <1>2, RowChanges, ZenonT(30)
<1> HIDE DEF row
<1> QED  BY <1>1, <1>2, <1>3

LEMMA DepositRemined ==
  ASSUME StorageTypeOK, NEW o \in Outputs, NEW b \in Blocks, RemineDeposit(o, b)
  PROVE  /\ deposits[o] # NoRow
         /\ deposits'[o] # NoRow /\ ~deposits'[o].reorged /\ ~deposits'[o].credited
         /\ deposits'[o].block = b
         /\ \A u \in Outputs : u # o => deposits'[u] = deposits[u]
<1> DEFINE row == [deposits[o] EXCEPT !.block = b, !.reorged = FALSE, !.credited = FALSE]
<1>1. /\ deposits[o] # NoRow /\ deposits' = [deposits EXCEPT ![o] = row]
      /\ deposits = [u \in Outputs |-> deposits[u]]
  BY DEF RemineDeposit, StorageTypeOK
<1>2. deposits[o] \in DepositRow /\ NoRow \notin DepositRow
  BY <1>1, NoRowAssumption DEF StorageTypeOK
<1>3. row \in DepositRow /\ ~row.reorged /\ ~row.credited /\ row.block = b
  BY <1>2 DEF DepositRow
<1> HIDE DEF row
<1> QED  BY <1>1, <1>2, <1>3

LEMMA DepositCredited ==
  ASSUME StorageTypeOK, NEW o \in Outputs, CreditDeposit(o)
  PROVE  /\ deposits[o] # NoRow /\ ~deposits[o].reorged /\ ~deposits[o].credited
         /\ deposits'[o] # NoRow /\ ~deposits'[o].reorged /\ deposits'[o].credited
         /\ deposits'[o].block = deposits[o].block
         /\ deposits'[o].identity = deposits[o].identity
         /\ deposits'[o].amount = deposits[o].amount
         /\ \A u \in Outputs : u # o => deposits'[u] = deposits[u]
<1> DEFINE row == [deposits[o] EXCEPT !.credited = TRUE]
<1>1. /\ deposits[o] # NoRow /\ ~deposits[o].reorged /\ ~deposits[o].credited
      /\ deposits' = [deposits EXCEPT ![o] = row]
      /\ deposits = [u \in Outputs |-> deposits[u]]
  BY DEF CreditDeposit, StorageTypeOK
<1>2. deposits[o] \in DepositRow /\ NoRow \notin DepositRow
  BY <1>1, NoRowAssumption DEF StorageTypeOK
<1>3. /\ row \in DepositRow /\ row.reorged = deposits[o].reorged /\ row.credited
      /\ row.block = deposits[o].block /\ row.identity = deposits[o].identity
      /\ row.amount = deposits[o].amount
  BY <1>2, RowChanges, ZenonT(30)
<1> HIDE DEF row
<1> QED  BY <1>1, <1>2, <1>3

-----------------------------------------------------------------------------
(* The book of one watcher.                                                *)

\* Chains with the same block at a height are the same up to it.
LEMMA Agree ==
  ASSUME NEW c \in Chains, NEW d \in Chains, NEW h \in 0..Len(c), h \in 0..Len(d),
         HashIn(c, h) = HashIn(d, h)
  PROVE  \A k \in 1..h : k \in 1..Len(c) /\ k \in 1..Len(d) /\ c[k] = d[k]
<1>1. /\ Len(c) \in Nat /\ Len(d) \in Nat /\ DOMAIN c = 1..Len(c) /\ DOMAIN d = 1..Len(d)
  BY ChainTypes
<1>2. CASE h = 0
  BY <1>2
<1>3. CASE h # 0
  <2>1. h \in DOMAIN c /\ h \in DOMAIN d /\ c[h].hash = d[h].hash
    BY <1>1, <1>3 DEF HashIn
  <2>2. \A j \in 1..h : c[j] = d[j]
    BY <2>1, ChainAssumption
  <2> QED  BY <1>1, <1>3, <2>2
<1> QED  BY <1>2, <1>3

LEMMA BookSame ==
  ASSUME UNCHANGED <<deposits, chain, cursor>>
  PROVE  /\ BookStands' <=> BookStands
         /\ RowsOn(chain)' <=> RowsOn(chain)
         /\ \A k : RowsUpTo(k)' <=> RowsUpTo(k)
         /\ CursorIn(chain)' <=> CursorIn(chain)
         /\ \A h : HashAt(h)' = HashAt(h)
         /\ \A o \in Outputs : Recorded(o)' <=> Recorded(o)
BY DEF BookStands, RowsOn, RowsUpTo, CursorIn, HashAt, Recorded, OnlyManual, On, HashIn

LEMMA StartBook ==
  ASSUME WatcherInv, NEW w \in Watchers, PollBook(w), StartPoll(w)
  PROVE  PollBook(w)'
<1>1. /\ poll[w].step = "idle" /\ poll'[w].step = "start" /\ poll'[w].tip = Len(chain)
      /\ poll'[w].cached = poll[w].cached /\ UNCHANGED <<deposits, chain, cursor>>
  BY StartMoves DEF storageVars
<1>2. BookStands /\ poll[w].cached = << >>
  BY <1>1 DEF PollBook
<1>3. cursor # NoRow => cursor.height <= Len(chain)
  BY BlocksHad DEF WatcherInv
<1> QED  BY <1>1, <1>2, <1>3, BookSame DEF PollBook, At, Scanning, Writing

LEMMA ReadBook ==
  ASSUME WatcherInv, NEW w \in Watchers, PollBook(w), ReadCursor(w)
  PROVE  PollBook(w)'
<1>1. /\ poll[w].step = "start" /\ poll'[w].cursor = cursor
      /\ poll'[w].step = IF cursor = NoRow THEN "bootstrap" ELSE "check"
      /\ poll'[w].tip = poll[w].tip /\ poll'[w].cached = poll[w].cached
      /\ UNCHANGED <<deposits, chain, cursor>>
  BY ReadMoves DEF storageVars
<1>2. /\ BookStands /\ poll[w].cached = << >>
      /\ cursor # NoRow => cursor.height <= poll[w].tip
  BY <1>1 DEF PollBook, At
<1> QED  BY <1>1, <1>2, BookSame DEF PollBook, At, Scanning, Writing

\* A cursor the watcher sets is a row.
LEMMA CursorSet ==
  ASSUME NEW h \in Nat, NEW x \in Hashes
  PROVE  [height |-> h, hash |-> x] # NoRow
BY WatcherAssumption

LEMMA BootstrapBook ==
  ASSUME WatcherInv, NEW w \in Watchers, PollBook(w), Bootstrap(w)
  PROVE  PollBook(w)'
<1>1. /\ poll[w].step = "bootstrap" /\ UNCHANGED <<deposits, chain>>
      /\ \/ poll'[w] = IdlePoll
         \/ /\ poll'[w].step = "check" /\ poll'[w].cursor = cursor'
            /\ poll'[w].cached = poll[w].cached
  BY BootstrapMoves DEF storageVars
<1>2. PICK height \in 0..Len(chain) : cursor' = BlockAt(height)
  BY BootstrapMoves
<1>3. OnlyManual /\ poll[w].cached = << >>
  BY <1>1 DEF PollBook, At, BookStands
<1>4. /\ cursor'.height = height /\ cursor'.hash = HashIn(chain, height) /\ height \in Nat
  BY <1>2 DEF BlockAt, HashAt, HashIn
<1>5. chain \in Chains /\ CursorIn(chain)'
  BY <1>1, <1>4, PollShape DEF CursorIn, HashIn
<1>6. cursor' # NoRow
  <2>1. HashAt(height) \in Hashes
    BY <1>4, PollShape, BlockThere, BlocksHad
  <2> QED  BY <1>2, <1>4, <2>1, CursorSet DEF BlockAt
<1>7. RowsUpTo(cursor.height)' /\ RowsOn(chain)'
  BY <1>1, <1>3, <1>4 DEF OnlyManual, RowsUpTo, RowsOn, Recorded, AdminBlock
<1>8. BookStands'
  BY <1>1, <1>5, <1>6, <1>7 DEF BookStands, RowsUpTo, RowsOn, CursorIn, On, HashIn, Recorded
<1>9. CASE poll'[w] = IdlePoll
  BY <1>8, <1>9 DEF PollBook, IdlePoll, At, Scanning, Writing
<1>10. CASE poll'[w] # IdlePoll
  BY <1>1, <1>3, <1>5, <1>6, <1>8, <1>10 DEF PollBook, At, Scanning, Writing
<1> QED  BY <1>9, <1>10

\* The rows are those of any chain that carries the cursor.
LEMMA BookOnCursor ==
  ASSUME WatcherInv, BookStands, cursor # NoRow, CursorIn(chain)
  PROVE  RowsOn(chain)
<1>1. PICK c \in Chains : CursorIn(c) /\ RowsOn(c) /\ RowsUpTo(cursor.height)
  BY DEF BookStands
<1>2. chain \in Chains /\ Len(chain) \in Nat /\ Len(c) \in Nat
  BY ChainTypes DEF WatcherInv
<1>3. \A k \in 1..cursor.height : k \in 1..Len(chain) /\ chain[k] = c[k]
  BY <1>1, <1>2, Agree DEF CursorIn
<1>4. ASSUME NEW o \in Outputs, Recorded(o), deposits[o].block # AdminBlock
      PROVE  On(chain, deposits[o].block)
  <2>1. On(c, deposits[o].block) /\ deposits[o].block.height <= cursor.height
    BY <1>1, <1>4 DEF RowsOn, RowsUpTo
  <2>2. cursor.height \in Nat
    BY <1>1, <1>2 DEF CursorIn
  <2>3. deposits[o].block.height \in 1..cursor.height
    BY <1>2, <2>1, <2>2 DEF On
  <2> QED  BY <1>3, <2>1, <2>3 DEF On
<1> QED  BY <1>4 DEF RowsOn

\* A recorded row that is not a manual credit holds a block of some height.
LEMMA RowBlocks ==
  ASSUME WatcherInv, NEW o \in Outputs, deposits[o] # NoRow, deposits[o].block # AdminBlock
  PROVE  /\ deposits[o].block.height \in 1..Len(chain) /\ deposits[o].block.hash \in Hashes
         /\ deposits[o].block
              = [height |-> deposits[o].block.height, hash |-> deposits[o].block.hash]
         /\ deposits[o].block # NoRow
         /\ Mined(o, deposits[o].block.height, deposits[o].block.hash)
<1> DEFINE b == deposits[o].block
<1>1. b = [height |-> b.height, hash |-> b.hash] /\ Mined(o, b.height, b.hash)
  BY DEF WatcherInv, RowsMined
<1>2. chain \in Chains /\ Len(chain) \in Nat
  BY ChainTypes DEF WatcherInv
<1> HIDE DEF b
<1>3. b.height \in 1..Len(chain) /\ b.hash \in Hashes
  BY <1>1, <1>2, BlocksMined
<1>4. b # NoRow
  BY <1>1, <1>2, <1>3, CursorSet
<1> QED  BY <1>1, <1>3, <1>4 DEF b

\* Rows below a height are below any higher one.
LEMMA RowsUpToMore ==
  ASSUME WatcherInv, NEW j \in Int, NEW k \in Int, j <= k, RowsUpTo(j)
  PROVE  RowsUpTo(k)
<1>1. SUFFICES ASSUME NEW o \in Outputs, Recorded(o) PROVE deposits[o].block.height <= k
  BY DEF RowsUpTo
<1>2. deposits[o].block.height <= j /\ deposits[o] # NoRow
  BY <1>1 DEF RowsUpTo, Recorded
<1>3. deposits[o].block.height \in Int
  <2>1. CASE deposits[o].block = AdminBlock
    BY <2>1 DEF AdminBlock
  <2>2. CASE deposits[o].block # AdminBlock
    <3>1. deposits[o].block.height \in 1..Len(chain)
      BY <1>2, <2>2, RowBlocks
    <3>2. Len(chain) \in Nat
      BY ChainTypes DEF WatcherInv
    <3> QED  BY <3>1, <3>2
  <2> QED  BY <2>1, <2>2
<1> QED  BY <1>2, <1>3

\* A rescan below the cursor comes back up to it, when a poll takes more blocks
\* than the lookback.
LEMMA RangeReaches ==
  ASSUME NEW H \in Nat, NEW tip \in Nat, NEW L \in Nat \ {0}, NEW M \in Nat \ {0},
         M > L, H >= 1, H <= tip
  PROVE  LET from == Larger(1, H - L)
             to == Smaller(tip, from + M - 1)
         IN H <= to /\ from <= to
BY DEF Smaller, Larger

LEMMA RangeBook ==
  ASSUME Orderly, WatcherInv, NEW w \in Watchers, PollBook(w), CursorHolds(w) \/ CursorGone(w)
  PROVE  PollBook(w)'
<1>1. PICK from \in Nat \ {0} :
           /\ poll[w].step = "check" /\ poll'[w].step = "verify"
           /\ poll'[w].next = from /\ poll'[w].to = Smaller(poll[w].tip, from + MaxPerPoll - 1)
           /\ poll'[w].cached = poll[w].cached
           /\ \/ /\ CursorOnChain(w) /\ from = poll[w].cursor.height + 1
                 /\ poll'[w].listed = NothingListed
              \/ /\ ~CursorOnChain(w) /\ from = Larger(1, poll[w].cursor.height - Lookback)
                 /\ poll'[w].listed = Listing(DepositsAtOrAbove(1))
           /\ UNCHANGED <<storageVars, chain, cursor, bootstraps>>
  BY RangeMoves
<1> DEFINE H == cursor.height
           to == Smaller(poll[w].tip, from + MaxPerPoll - 1)
<1>2. /\ BookStands /\ poll[w].cached = << >> /\ cursor # NoRow /\ poll[w].cursor = cursor
      /\ CursorIn(chain) \/ H <= poll[w].tip
  BY <1>1 DEF PollBook, At
<1>3. UNCHANGED <<deposits, chain, cursor>>
  BY <1>1 DEF storageVars
<1>4. H \in 0..Len(chain) /\ Len(chain) \in Nat /\ poll[w].tip \in Nat /\ RowsUpTo(H)
  BY <1>2, PollShape, BlocksHad DEF WatcherInv, PollOK, BookStands
<1>5. CursorOnChain(w) <=> CursorIn(chain)
  BY <1>2, <1>4 DEF CursorOnChain, CursorIn, HashAt, HashIn
<1>6. to >= 0 /\ Lookback \in Nat \ {0} /\ MaxPerPoll \in Nat \ {0} /\ MaxPerPoll > Lookback
  BY <1>4, WatcherAssumption DEF Smaller, Orderly
<1>7. CASE CursorOnChain(w) /\ from = H + 1 /\ poll'[w].listed = NothingListed
  <2>1. RowsOn(chain) /\ CursorIn(chain)
    BY <1>2, <1>5, <1>7, BookOnCursor
  <2>2. from - 1 = H
    BY <1>4, <1>7
  <2> HIDE DEF H, to
  <2>3. RowsUpTo(from - 1) /\ RowsUpTo(cursor.height)
    BY <1>4, <2>2 DEF H
  <2>4. \A o \in Outputs : ~(poll'[w].listed[o] # NoRow)
    BY <1>7 DEF NothingListed
  <2>5. \A o \in Outputs : Recorded(o) => deposits[o].block = AdminBlock \/ On(chain, deposits[o].block)
    BY <2>1 DEF RowsOn
  <2>6. \A b : On(chain, b)' <=> On(chain, b)
    BY <1>3 DEF On
  <2>7. VerifyKnows(w)'
    BY <1>1, <1>2, <1>3, <1>6, <1>7, <2>1, <2>3, <2>4, <2>5, <2>6, BookSame
       DEF VerifyKnows, to, NothingListed
  <2> QED  BY <1>1, <2>7 DEF PollBook, At, Scanning
<1>8. CASE /\ ~CursorOnChain(w) /\ from = Larger(1, H - Lookback)
           /\ poll'[w].listed = Listing(DepositsAtOrAbove(1))
  <2>1. H <= poll[w].tip /\ H >= 1
    <3>1. H # 0
      <4>1. HadBlock(cursor.height, cursor.hash)
        BY <1>2 DEF WatcherInv
      <4>2. H = 0 => cursor.hash = Genesis
        BY <4>1 DEF HadBlock, HashIn
      <4> QED  BY <1>2, <1>8, <4>2 DEF CursorOnChain, HashAt
    <3> QED  BY <1>2, <1>4, <1>5, <1>8, <3>1
  <2>2. H <= to /\ from <= to
    <3>1. H \in Nat
      BY <1>4
    <3> QED  BY <1>4, <1>6, <1>8, <2>1, <3>1, RangeReaches
  <2>3. RowsUpTo(to)
    <3>1. to \in Int
      BY <1>4, <1>6 DEF Smaller
    <3> HIDE DEF to
    <3> QED  BY <1>4, <2>2, <3>1, RowsUpToMore
  <2>4. \A o \in Outputs : Recorded(o) /\ deposits[o].block # AdminBlock =>
          poll'[w].listed[o] = deposits[o].block /\ deposits[o].block # NoRow
    <3>1. SUFFICES ASSUME NEW o \in Outputs, Recorded(o), deposits[o].block # AdminBlock
                   PROVE  poll'[w].listed[o] = deposits[o].block /\ deposits[o].block # NoRow
      OBVIOUS
    <3>2. deposits[o].block.height \in 1..Len(chain) /\ deposits[o].block # NoRow
      BY <3>1, RowBlocks DEF Recorded
    <3>3. o \in DepositsAtOrAbove(1)
      BY <1>4, <3>1, <3>2 DEF DepositsAtOrAbove
    <3> QED  BY <1>8, <3>2, <3>3 DEF Listing
  <2>5. \A o \in Outputs : poll'[w].listed[o] # NoRow =>
          deposits[o] # NoRow /\ deposits[o].block = poll'[w].listed[o]
    BY <1>8 DEF Listing, DepositsAtOrAbove, Recorded
  <2> HIDE DEF H, to
  <2>6. ~(poll'[w].next > poll'[w].to)
    BY <1>1, <1>6, <2>2, WatcherAssumption, <1>4 DEF to, Smaller
  <2>7. VerifyKnows(w)'
    BY <1>1, <1>2, <1>3, <1>6, <1>8, <2>3, <2>4, <2>5, <2>6, BookSame
       DEF VerifyKnows, to, Listing
  <2> QED  BY <1>1, <2>7 DEF PollBook, At, Scanning
<1> QED  BY <1>1, <1>2, <1>7, <1>8

LEMMA VerifyBook ==
  ASSUME WatcherInv, NEW w \in Watchers, PollBook(w), NEW o \in Outputs, VerifyDeposit(w, o)
  PROVE  PollBook(w)'
<1> DEFINE block == poll[w].listed[o]
           hash == CachedHash(w, block.height)
           p == poll[w]
<1>1. /\ p.step = "verify" /\ poll'[w].step = "verify" /\ block # NoRow
      /\ poll'[w].next = p.next /\ poll'[w].to = p.to
      /\ poll'[w].listed = [p.listed EXCEPT ![o] = NoRow]
      /\ poll'[w].cached = Cache(p.cached, block.height, hash)
      /\ \/ block.hash = hash /\ UNCHANGED storageVars
         \/ block.hash # hash /\ MarkDepositReorged(o)
         \/ block.hash # hash /\ deposits[o].reorged /\ UNCHANGED storageVars
      /\ UNCHANGED <<chain, cursor, bootstraps>>
  BY VerifyMoves
<1>2. /\ cursor # NoRow /\ p.to >= 0 /\ DOMAIN p.listed = Outputs
      /\ \A u \in Outputs : Recorded(u) =>
           \/ deposits[u].block = AdminBlock \/ On(chain, deposits[u].block)
           \/ p.listed[u] # NoRow
      /\ \A u \in Outputs : p.listed[u] # NoRow => deposits[u] # NoRow /\ deposits[u].block = p.listed[u]
      /\ \A h \in DOMAIN p.cached : h \in 0..Len(chain) /\ p.cached[h] = HashAt(h)
      /\ RowsUpTo(p.next - 1) \/ RowsUpTo(p.to)
      /\ p.next > p.to => CursorIn(chain) /\ RowsUpTo(cursor.height)
  BY <1>1 DEF PollBook, VerifyKnows, At
<1>3. /\ deposits[o] # NoRow /\ deposits[o].block = block /\ block # AdminBlock
      /\ block.height \in 1..Len(chain) /\ Len(chain) \in Nat
  <2>1. deposits[o] # NoRow /\ deposits[o].block = block
    BY <1>1, <1>2
  <2>2. deposits[o].block # AdminBlock
    BY <1>1, PollShape DEF PollOK, At
  <2> QED  BY <2>1, <2>2, RowBlocks, PollShape
<1>4. hash = HashAt(block.height) /\ HashAt(block.height) = chain[block.height].hash
  BY <1>2, <1>3 DEF CachedHash, HashAt
<1>5. \A u \in Outputs :
        /\ deposits[u] # NoRow => deposits'[u] # NoRow /\ deposits'[u].block = deposits[u].block
        /\ Recorded(u)' => Recorded(u)
        /\ u # o => deposits'[u] = deposits[u]
  <2>1. CASE UNCHANGED storageVars
    BY <2>1 DEF storageVars, Recorded
  <2>2. CASE MarkDepositReorged(o)
    BY <2>2, DepositMarked, PollShape DEF Recorded
  <2> QED  BY <1>1, <2>1, <2>2
<1>6. Recorded(o)' => On(chain, deposits[o].block)
  <2>1. CASE block.hash = hash
    BY <1>3, <1>4, <2>1 DEF On
  <2>2. CASE MarkDepositReorged(o)
    BY <2>2, DepositMarked, PollShape DEF Recorded
  <2>3. CASE deposits[o].reorged /\ UNCHANGED storageVars
    BY <2>3 DEF storageVars, Recorded
  <2> QED  BY <1>1, <2>1, <2>2, <2>3
<1>7. \A h \in DOMAIN poll'[w].cached : h \in 0..Len(chain) /\ poll'[w].cached[h] = HashAt(h)
  <2> DEFINE cached == Cache(p.cached, block.height, hash)
  <2>1. DOMAIN cached = {block.height} \cup DOMAIN p.cached
    BY DEF Cache
  <2>2. \A h \in DOMAIN cached : cached[h] = IF h = block.height THEN hash ELSE p.cached[h]
    BY DEF Cache
  <2>3. \A h \in DOMAIN p.cached : h \in 0..Len(chain) /\ p.cached[h] = HashAt(h)
    BY <1>2
  <2>4. block.height \in 0..Len(chain)
    BY <1>3
  <2> HIDE DEF cached, block, hash, p
  <2>5. \A h \in DOMAIN cached : h \in 0..Len(chain) /\ cached[h] = HashAt(h)
    BY <1>4, <2>1, <2>2, <2>3, <2>4
  <2>6. poll'[w].cached = cached
    BY <1>1 DEF cached, block, hash, p
  <2> QED  BY <2>5, <2>6
<1>8. \A k : RowsUpTo(k) => RowsUpTo(k)'
  BY <1>5 DEF RowsUpTo, Recorded
<1>9. \A u \in Outputs : poll'[w].listed[u] = IF u = o THEN NoRow ELSE p.listed[u]
  <2>1. DOMAIN p.listed = Outputs
    BY <1>2
  <2> QED  BY <1>1, <2>1
<1>10. (\A b : On(chain, b)' <=> On(chain, b)) /\ (CursorIn(chain)' <=> CursorIn(chain)) /\ (\A h : HashAt(h)' = HashAt(h))
  BY <1>1 DEF On, CursorIn, HashAt, HashIn
<1>11. DOMAIN poll'[w].listed = Outputs
  BY <1>1, <1>2
<1> HIDE DEF block, hash
<1>12. \A u \in Outputs : Recorded(u)' =>
         \/ deposits'[u].block = AdminBlock \/ On(chain, deposits'[u].block)
         \/ poll'[w].listed[u] # NoRow
  BY <1>2, <1>5, <1>6, <1>9 DEF Recorded
<1>13. \A u \in Outputs : poll'[w].listed[u] # NoRow =>
         deposits'[u] # NoRow /\ deposits'[u].block = poll'[w].listed[u]
  BY <1>2, <1>5, <1>9
<1>14. VerifyKnows(w)'
  BY <1>1, <1>2, <1>7, <1>8, <1>10, <1>11, <1>12, <1>13 DEF VerifyKnows
<1> QED  BY <1>1, <1>14 DEF PollBook, At, Scanning

\* Where a poll is: its tip on the chain, its range below the tip.
LEMMA PollRange ==
  ASSUME WatcherInv, NEW w \in Watchers
  PROVE  /\ chain \in Chains /\ Len(chain) \in Nat /\ DOMAIN chain = 1..Len(chain)
         /\ poll[w].next \in Nat /\ poll[w].to \in Int /\ poll[w].tip \in Nat
         /\ poll[w].tip <= Len(chain)
         /\ At(w, "verify") \/ Scanning(w) => poll[w].next >= 1 /\ poll[w].to <= Len(chain)
         /\ Scanning(w) => poll[w].next - 1 <= poll[w].to
         /\ cursor # NoRow => cursor.height \in 0..Len(chain)
<1>1. chain \in Chains /\ Len(chain) \in Nat /\ DOMAIN chain = 1..Len(chain) /\ PollOK(w)
  BY ChainTypes DEF WatcherInv
<1>2. cursor # NoRow => cursor.height \in 0..Len(chain)
  BY <1>1, BlocksHad DEF WatcherInv
<1> QED  BY <1>1, <1>2 DEF PollOK

LEMMA EndVerifyBook ==
  ASSUME WatcherInv, NEW w \in Watchers, PollBook(w), EndVerify(w)
  PROVE  PollBook(w)'
<1>1. /\ poll[w].step = "verify" /\ poll[w].listed = NothingListed
      /\ poll'[w].step = IF poll[w].next <= poll[w].to THEN "scan" ELSE "list"
      /\ poll'[w].next = poll[w].next /\ poll'[w].to = poll[w].to
      /\ poll'[w].todo = {} /\ poll'[w].output = NoRow
      /\ UNCHANGED <<deposits, chain, cursor>>
  BY EndVerifyMoves DEF storageVars
<1>2. VerifyKnows(w)
  BY <1>1 DEF PollBook, At
<1>3. RowsOn(chain)
  BY <1>1, <1>2 DEF VerifyKnows, RowsOn, NothingListed
<1>4. poll[w].next \in Nat /\ poll[w].to \in Int
  BY PollRange
<1>5. CASE poll[w].next <= poll[w].to
  <2>1. RowsUpTo(poll[w].to)
    BY <1>2, <1>4, <1>5, RowsUpToMore DEF VerifyKnows
  <2>2. ScanKnows(w)'
    BY <1>1, <1>3, <1>4, <1>5, <2>1, BookSame DEF ScanKnows, Writing, At
  <2> QED  BY <1>1, <1>5, <2>2 DEF PollBook, At, Scanning
<1>6. CASE ~(poll[w].next <= poll[w].to)
  <2>1. cursor # NoRow /\ CursorIn(chain) /\ RowsUpTo(cursor.height)
    BY <1>2, <1>4, <1>6 DEF VerifyKnows
  <2>2. CreditKnows(w)'
    BY <1>1, <1>3, <1>6, <2>1, BookSame DEF CreditKnows, At
  <2> QED  BY <1>1, <1>6, <2>2 DEF PollBook, At, Scanning
<1> QED  BY <1>5, <1>6

LEMMA FetchBook ==
  ASSUME WatcherInv, NEW w \in Watchers, PollBook(w), FetchBlock(w)
  PROVE  PollBook(w)'
<1> DEFINE h == poll[w].next
<1>1. /\ poll[w].step = "scan" /\ poll'[w].step = "scan" /\ h \in 1..Len(chain)
      /\ poll'[w].next = h + 1 /\ poll'[w].to = poll[w].to
      /\ poll'[w].hash = chain[h].hash /\ poll'[w].todo = chain[h].pays
      /\ UNCHANGED <<deposits, chain, cursor>>
  BY FetchMoves DEF storageVars
<1>2. ScanKnows(w)
  BY <1>1 DEF PollBook, Scanning
<1>3. h + 1 - 1 = h /\ h + 1 >= 2
  BY <1>1, PollRange
<1>4. ScanKnows(w)'
  BY <1>1, <1>2, <1>3, BookSame DEF ScanKnows, Writing, At
<1> QED  BY <1>1, <1>4 DEF PollBook, At, Scanning

LEMMA LookBook ==
  ASSUME WatcherInv, NEW w \in Watchers, PollBook(w), NEW o \in Outputs, LookAtOutput(w, o)
  PROVE  PollBook(w)'
<1> DEFINE seen == deposits[o] # NoRow
           same == seen /\ deposits[o].block.hash = poll[w].hash
           pass == same \/ (~seen /\ Sender[o] = NoRow)
<1>1. /\ poll[w].step = "scan" /\ o \in poll[w].todo
      /\ poll'[w].step = IF pass THEN "scan" ELSE IF seen THEN "remine" ELSE "insert"
      /\ poll'[w].output = IF pass THEN NoRow ELSE o
      /\ poll'[w].todo = poll[w].todo \ {o} /\ poll'[w].hash = poll[w].hash
      /\ poll'[w].next = poll[w].next /\ poll'[w].to = poll[w].to
      /\ UNCHANGED <<deposits, chain, cursor>>
  BY LookMoves DEF storageVars
<1>2. ScanKnows(w)
  BY <1>1 DEF PollBook, Scanning
<1>3. /\ o \in chain[poll[w].next - 1].pays
      /\ poll[w].next >= 2 /\ poll[w].hash = chain[poll[w].next - 1].hash
      /\ poll'[w].step = "remine" => seen /\ deposits[o].block.hash # poll[w].hash
  BY <1>1, <1>2 DEF ScanKnows
<1>4. \A u \in poll'[w].todo : u \in chain[poll[w].next - 1].pays
  BY <1>1, <1>2 DEF ScanKnows
<1>5. ScanKnows(w)'
  BY <1>1, <1>2, <1>3, <1>4, BookSame DEF ScanKnows, Writing, At
<1> QED  BY <1>1, <1>5 DEF PollBook, At, Scanning

\* What the scan writes about the output it looked at.
LEMMA WriteRows ==
  ASSUME WatcherInv, NEW w \in Watchers, WriteOutput(w)
  PROVE  LET o == poll[w].output
             block == [height |-> poll[w].next - 1, hash |-> poll[w].hash]
         IN /\ o \in Outputs /\ block \in Blocks
            /\ \A u \in Outputs : u # o => deposits'[u] = deposits[u]
            /\ \/ poll[w].step = "insert" /\ deposits[o] # NoRow /\ UNCHANGED storageVars
               \/ /\ UNCHANGED <<ledger, known>>
                  /\ deposits'[o] # NoRow /\ ~deposits'[o].reorged /\ ~deposits'[o].credited
                  /\ deposits'[o].block = block
                  /\ poll[w].step = "insert" => deposits[o] = NoRow
                  /\ poll[w].step = "remine" => deposits[o] # NoRow
<1> DEFINE o == poll[w].output
           block == [height |-> poll[w].next - 1, hash |-> poll[w].hash]
<1>1. /\ \/ poll[w].step = "remine" /\ RemineDeposit(o, block)
         \/ poll[w].step = "insert" /\ InsertDeposit(o, Sender[o], Value[o], block)
         \/ poll[w].step = "insert" /\ deposits[o] # NoRow /\ UNCHANGED storageVars
      /\ o \in Outputs
  BY WriteMoves
<1>2. Mined(o, poll[w].next - 1, poll[w].hash) /\ (poll[w].step = "insert" => Sender[o] # NoRow)
  BY <1>1, PollShape DEF PollOK, Writing, At
<1>3. block \in Blocks /\ StorageTypeOK
  BY <1>2, BlocksMined, PollShape DEF WatcherInv, StorageInv
<1> HIDE DEF o, block
<1>4. CASE poll[w].step = "remine" /\ RemineDeposit(o, block)
  <2>1. UNCHANGED <<ledger, known>>
    BY <1>4 DEF RemineDeposit
  <2> QED  BY <1>1, <1>3, <1>4, <2>1, DepositRemined DEF o, block
<1>5. CASE poll[w].step = "insert" /\ InsertDeposit(o, Sender[o], Value[o], block)
  <2>1. /\ UNCHANGED <<ledger, known>> /\ deposits[o] = NoRow
        /\ deposits' = [deposits EXCEPT ![o] =
                          [identity |-> Sender[o], amount |-> Value[o], block |-> block,
                           credited |-> FALSE, reorged |-> FALSE]]
    BY <1>5 DEF InsertDeposit
  <2>2. Sender[o] \in Identities /\ Value[o] \in Nat
    BY <1>1, <1>2, <1>5, SenderTypes, WatcherAssumption
  <2>3. /\ deposits'[o] # NoRow /\ ~deposits'[o].reorged /\ deposits'[o].credited = FALSE
        /\ deposits'[o].block = block /\ \A u \in Outputs : u # o => deposits'[u] = deposits[u]
    <3> DEFINE row == [identity |-> Sender[o], amount |-> Value[o], block |-> block,
                       credited |-> FALSE, reorged |-> FALSE]
    <3>1. /\ row \in DepositRow /\ row.block = block /\ ~row.reorged /\ row.credited = FALSE
          /\ NoRow \notin DepositRow
      BY <1>3, <2>2, NoRowAssumption DEF DepositRow
    <3>2. deposits' = [deposits EXCEPT ![o] = row] /\ deposits = [u \in Outputs |-> deposits[u]]
      BY <1>3, <2>1 DEF StorageTypeOK
    <3> HIDE DEF row
    <3> QED  BY <1>1, <3>1, <3>2
  <2> QED  BY <1>1, <1>3, <1>5, <2>1, <2>3 DEF o, block
<1>6. CASE poll[w].step = "insert" /\ deposits[o] # NoRow /\ UNCHANGED storageVars
  BY <1>1, <1>3, <1>6 DEF o, block, storageVars
<1> QED  BY <1>1, <1>4, <1>5, <1>6

LEMMA WriteBook ==
  ASSUME WatcherInv, NEW w \in Watchers, PollBook(w), WriteOutput(w)
  PROVE  PollBook(w)'
<1> DEFINE o == poll[w].output
           h == poll[w].next - 1
           block == [height |-> h, hash |-> poll[w].hash]
<1>1. /\ poll[w].step \in {"remine", "insert"}
      /\ poll'[w].step = "scan" /\ poll'[w].output = NoRow
      /\ poll'[w].todo = poll[w].todo /\ poll'[w].hash = poll[w].hash
      /\ poll'[w].next = poll[w].next /\ poll'[w].to = poll[w].to
      /\ UNCHANGED <<chain, cursor>>
  BY WriteMoves
<1>2. /\ ScanKnows(w) /\ poll[w].next >= 2 /\ poll[w].hash = chain[h].hash
  BY <1>1 DEF PollBook, ScanKnows, Scanning, Writing
<1>3. h \in 1..Len(chain) /\ h <= poll[w].to
  BY <1>1, <1>2, PollRange DEF Scanning
<1>4. On(chain, block) /\ block.height = h
  BY <1>2, <1>3 DEF On
<1>5. \A u \in Outputs : deposits'[u] = deposits[u] \/ deposits'[u].block = block
  <2>1. /\ \A u \in Outputs : u # o => deposits'[u] = deposits[u]
        /\ UNCHANGED storageVars \/ deposits'[o].block = block
    BY WriteRows
  <2> HIDE DEF o, block
  <2> QED  BY <2>1 DEF storageVars
<1> HIDE DEF block, h
<1>6. RowsOn(chain)' /\ RowsUpTo(poll[w].to)'
  <2>1. \A u \in Outputs : Recorded(u)' => \/ deposits'[u].block = block
                                           \/ Recorded(u) /\ deposits'[u].block = deposits[u].block
    BY <1>5 DEF Recorded
  <2>2. \A b : On(chain, b)' <=> On(chain, b)
    BY <1>1 DEF On
  <2>3. RowsOn(chain)'
    BY <1>2, <1>4, <2>1, <2>2 DEF ScanKnows, RowsOn
  <2>4. \A u \in Outputs : Recorded(u)' => deposits'[u].block.height <= poll[w].to
    BY <1>2, <1>3, <1>4, <2>1 DEF ScanKnows, RowsUpTo
  <2> QED  BY <1>1, <2>3, <2>4 DEF RowsUpTo
<1>7. ScanKnows(w)'
  BY <1>1, <1>2, <1>6 DEF ScanKnows, Writing, At, h, RowsUpTo
<1> QED  BY <1>1, <1>7 DEF PollBook, At, Scanning

LEMMA MoveCursorBook ==
  ASSUME WatcherInv, NEW w \in Watchers, PollBook(w), MoveCursor(w)
  PROVE  PollBook(w)'
<1> DEFINE to == poll[w].to
           x == poll[w].hash
<1>1. /\ poll[w].step = "scan" /\ poll[w].todo = {} /\ poll[w].next = to + 1
      /\ poll[w].output = NoRow /\ cursor' = [height |-> to, hash |-> x]
      /\ poll'[w].step = "list" /\ UNCHANGED <<deposits, chain>>
  BY MoveCursorMoves DEF storageVars
<1>2. ScanKnows(w)
  BY <1>1 DEF PollBook, Scanning
<1>3. /\ chain \in Chains /\ Len(chain) \in Nat /\ poll[w].next \in Nat /\ to \in Int
      /\ to <= Len(chain)
  BY <1>1, PollRange DEF Scanning
<1>4. to \in 1..Len(chain) /\ x = chain[to].hash
  <2>1. poll[w].next > to /\ poll[w].next - 1 = to
    BY <1>1, <1>3
  <2>2. poll[w].next >= 2 /\ x = chain[poll[w].next - 1].hash
    BY <1>2, <2>1 DEF ScanKnows
  <2> QED  BY <1>3, <2>1, <2>2
<1> HIDE DEF to, x
<1>5. cursor' # NoRow
  BY <1>1, <1>3, <1>4, ChainTypes, CursorSet
<1>6. cursor'.height = to /\ cursor'.hash = x
  BY <1>1
<1>7. CursorIn(chain)'
  BY <1>1, <1>3, <1>4, <1>6 DEF CursorIn, HashIn
<1>8. RowsOn(chain)' /\ RowsUpTo(cursor.height)'
  BY <1>1, <1>2, <1>6 DEF ScanKnows, RowsOn, RowsUpTo, On, Recorded, to
<1>9. CreditKnows(w)'
  BY <1>1, <1>5, <1>7, <1>8 DEF CreditKnows, At
<1> QED  BY <1>1, <1>9 DEF PollBook, At, Scanning

LEMMA ListBook ==
  ASSUME WatcherInv, NEW w \in Watchers, PollBook(w), ListUncredited(w)
  PROVE  PollBook(w)'
<1>1. /\ poll[w].step = "list" /\ poll'[w].step = "credit"
      /\ poll'[w].listed = Listing(UncreditedDeposits)
      /\ UNCHANGED <<deposits, chain, cursor>>
  BY ListMoves DEF storageVars
<1>2. CreditKnows(w)
  BY <1>1 DEF PollBook
<1>3. /\ DOMAIN poll'[w].listed = Outputs
      /\ \A o \in Outputs : poll'[w].listed[o] # NoRow => Recorded(o) /\ deposits[o].block = poll'[w].listed[o]
  BY <1>1 DEF Listing, UncreditedDeposits
<1>4. CreditKnows(w)'
  BY <1>1, <1>2, <1>3, BookSame DEF CreditKnows
<1> QED  BY <1>1, <1>4 DEF PollBook, At, Scanning

LEMMA CreditBook ==
  ASSUME WatcherInv, NEW w \in Watchers, PollBook(w), NEW o \in Outputs, CreditAtDepth(w, o)
  PROVE  PollBook(w)'
<1>1. /\ poll[w].step = "credit" /\ poll'[w].step = "credit"
      /\ poll'[w].listed = [poll[w].listed EXCEPT ![o] = NoRow]
      /\ CreditDeposit(o) \/ UNCHANGED storageVars
      /\ UNCHANGED <<chain, cursor>>
  BY CreditingMoves
<1>2. CreditKnows(w)
  BY <1>1 DEF PollBook
<1>3. \A u \in Outputs : /\ Recorded(u)' <=> Recorded(u)
                         /\ Recorded(u) => deposits'[u].block = deposits[u].block
  <2>1. CASE CreditDeposit(o)
    BY <2>1, DepositCredited DEF WatcherInv, StorageInv, Recorded
  <2>2. CASE UNCHANGED storageVars
    BY <2>2 DEF storageVars, Recorded
  <2> QED  BY <1>1, <2>1, <2>2
<1>4. (\A b : On(chain, b)' <=> On(chain, b)) /\ (CursorIn(chain)' <=> CursorIn(chain))
  BY <1>1 DEF On, CursorIn, HashIn
<1>5. RowsOn(chain)' /\ RowsUpTo(cursor.height)'
  BY <1>1, <1>2, <1>3, <1>4 DEF CreditKnows, RowsOn, RowsUpTo
<1>6. /\ DOMAIN poll'[w].listed = Outputs
      /\ \A u \in Outputs : poll'[w].listed[u] = IF u = o THEN NoRow ELSE poll[w].listed[u]
  BY <1>1, <1>2 DEF CreditKnows, At
<1>7. \A u \in Outputs : poll'[w].listed[u] # NoRow => Recorded(u)' /\ deposits'[u].block = poll'[w].listed[u]
  BY <1>1, <1>2, <1>3, <1>6 DEF CreditKnows, At
<1>8. CreditKnows(w)'
  BY <1>1, <1>2, <1>4, <1>5, <1>6, <1>7 DEF CreditKnows
<1> QED  BY <1>1, <1>8 DEF PollBook, At, Scanning

LEMMA EndBook ==
  ASSUME WatcherInv, NEW w \in Watchers, PollBook(w), EndPoll(w)
  PROVE  PollBook(w)'
<1>1. /\ poll[w].step = "credit" /\ poll'[w].step = "idle" /\ poll'[w].cached = << >>
      /\ UNCHANGED <<deposits, chain, cursor>>
  BY EndMoves DEF storageVars, IdlePoll
<1>2. CreditKnows(w) /\ chain \in Chains
  BY <1>1 DEF PollBook, WatcherInv
<1>3. BookStands
  BY <1>2 DEF CreditKnows, BookStands
<1> QED  BY <1>1, <1>3, BookSame DEF PollBook, At, Scanning

\* A chain that grows carries what the shorter one carried.
LEMMA Grown ==
  ASSUME chain \in Chains, chain' \in Chains, IsPrefix(chain, chain')
  PROVE  /\ Len(chain) <= Len(chain') /\ \A h \in 1..Len(chain) : chain'[h] = chain[h]
         /\ \A b : On(chain, b) => On(chain, b)'
         /\ CursorIn(chain) /\ UNCHANGED cursor => CursorIn(chain)'
         /\ \A h \in 0..Len(chain) : HashAt(h)' = HashAt(h)
<1>1. Len(chain) \in Nat /\ Len(chain') \in Nat
  BY ChainTypes
<1>2. Len(chain) <= Len(chain') /\ \A h \in 1..Len(chain) : chain'[h] = chain[h]
  BY <1>1 DEF IsPrefix
<1> QED  BY <1>1, <1>2 DEF On, CursorIn, HashAt, HashIn

LEMMA ChainBook ==
  ASSUME Orderly, WatcherInv, NEW w \in Watchers, PollBook(w), MoveChain
  PROVE  PollBook(w)'
<1>1. /\ UNCHANGED <<deposits, cursor, poll>> /\ chain \in Chains /\ chain' \in Chains
      /\ IsPrefix(chain, chain') \/ poll[w].step = "idle"
  BY DEF MoveChain, WatcherInv, storageVars, Orderly, Idle, At
<1>2. /\ BookStands' <=> BookStands
      /\ \A k : RowsUpTo(k)' <=> RowsUpTo(k)
      /\ \A o \in Outputs : Recorded(o)' <=> Recorded(o)
  BY <1>1 DEF BookStands, RowsOn, RowsUpTo, CursorIn, Recorded, OnlyManual, On, HashIn
<1>3. CASE poll[w].step = "idle"
  BY <1>1, <1>2, <1>3 DEF PollBook, At, Scanning
<1>4. CASE IsPrefix(chain, chain')
  <2>1. /\ Len(chain) <= Len(chain') /\ \A h \in 1..Len(chain) : chain'[h] = chain[h]
        /\ \A b : On(chain, b) => On(chain, b)'
        /\ CursorIn(chain) => CursorIn(chain)'
        /\ \A h \in 0..Len(chain) : HashAt(h)' = HashAt(h)
        /\ Len(chain') \in Nat /\ Len(chain) \in Nat
    BY <1>1, <1>4, Grown, ChainTypes
  <2>2. RowsOn(chain) => RowsOn(chain)'
    BY <1>1, <1>2, <2>1 DEF RowsOn
  <2>3. VerifyKnows(w) => VerifyKnows(w)'
    <3>1. SUFFICES ASSUME VerifyKnows(w) PROVE VerifyKnows(w)'
      OBVIOUS
    <3>2. \A o \in Outputs : Recorded(o)' => \/ deposits'[o].block = AdminBlock \/ On(chain, deposits[o].block)'
                                             \/ poll'[w].listed[o] # NoRow
      BY <1>1, <1>2, <2>1, <3>1 DEF VerifyKnows
    <3>3. \A h \in DOMAIN poll'[w].cached : h \in 0..Len(chain') /\ poll'[w].cached[h] = HashAt(h)'
      BY <1>1, <2>1, <3>1 DEF VerifyKnows
    <3> QED  BY <1>1, <1>2, <2>1, <3>1, <3>2, <3>3 DEF VerifyKnows
  <2>4. Scanning(w) /\ ScanKnows(w) => ScanKnows(w)'
    <3>1. SUFFICES ASSUME Scanning(w), ScanKnows(w) PROVE ScanKnows(w)'
      OBVIOUS
    <3> DEFINE p == poll[w]
    <3>2. /\ p.next \in Nat /\ p.to \in Int /\ p.to <= Len(chain) /\ p.next - 1 <= p.to
      BY <3>1, PollRange
    <3>3. p.next >= 2 => chain'[p.next - 1] = chain[p.next - 1]
      <4>1. p.next >= 2 => p.next - 1 \in 1..Len(chain)
        BY <2>1, <3>2
      <4> QED  BY <2>1, <4>1
    <3>4. p.next > p.to \/ p.todo # {} \/ Writing(w) => p.next >= 2 /\ p.hash = chain'[p.next - 1].hash
      BY <3>1, <3>3 DEF ScanKnows
    <3>5. \A o \in p.todo : o \in chain'[p.next - 1].pays
      BY <3>1, <3>3 DEF ScanKnows
    <3>6. Writing(w) => p.output \in chain'[p.next - 1].pays
      BY <3>1, <3>3 DEF ScanKnows
    <3> QED  BY <1>1, <1>2, <2>2, <3>1, <3>4, <3>5, <3>6 DEF ScanKnows, Writing, At
  <2>5. CreditKnows(w) => CreditKnows(w)'
    BY <1>1, <1>2, <2>1, <2>2 DEF CreditKnows, At
  <2>6. At(w, "check") /\ CursorIn(chain) => CursorIn(chain)'
    BY <1>1, <2>1
  <2> QED  BY <1>1, <1>2, <2>3, <2>4, <2>5, <2>6 DEF PollBook, At, Scanning
<1> QED  BY <1>1, <1>3, <1>4

\* A manual credit adds a row that was not there.
LEMMA ManualRows ==
  ASSUME WatcherInv, NEW o \in Outputs, NEW i \in Identities, ManualCredit(o, i)
  PROVE  /\ UNCHANGED <<chain, cursor, poll, bootstraps, failures>>
         /\ InsertAndCreditDeposit(o, i, Value[o], AdminBlock)
         /\ deposits[o] = NoRow /\ deposits'[o] # NoRow
         /\ deposits'[o].block = AdminBlock /\ deposits'[o].credited /\ ~deposits'[o].reorged
         /\ deposits'[o].identity = i /\ deposits'[o].amount = Value[o]
         /\ \A u \in Outputs : u # o => deposits'[u] = deposits[u]
<1> DEFINE row == [identity |-> i, amount |-> Value[o], block |-> AdminBlock,
                   credited |-> TRUE, reorged |-> FALSE]
<1>1. /\ UNCHANGED <<chain, cursor, poll, bootstraps, failures>>
      /\ InsertAndCreditDeposit(o, i, Value[o], AdminBlock)
  BY DEF ManualCredit, watcherVars
<1>2. /\ row \in DepositRow /\ row.block = AdminBlock /\ row.credited /\ ~row.reorged
      /\ row.identity = i /\ row.amount = Value[o] /\ NoRow \notin DepositRow
  BY WatcherAssumption, BlockAssumption, NoRowAssumption DEF DepositRow
<1>3. /\ deposits' = [deposits EXCEPT ![o] = row] /\ deposits[o] = NoRow
      /\ deposits = [u \in Outputs |-> deposits[u]]
  BY <1>1 DEF InsertAndCreditDeposit, WatcherInv, StorageInv, StorageTypeOK
<1> HIDE DEF row
<1> QED  BY <1>1, <1>2, <1>3

LEMMA ManualBook ==
  ASSUME WatcherInv, NEW w \in Watchers, PollBook(w),
         NEW o \in Outputs, NEW i \in Identities, ManualCredit(o, i)
  PROVE  PollBook(w)'
<1>1. /\ UNCHANGED <<chain, cursor, poll>>
      /\ deposits[o] = NoRow /\ deposits'[o].block = AdminBlock
      /\ \A u \in Outputs : u # o => deposits'[u] = deposits[u]
  BY ManualRows
<1>2. \A u \in Outputs :
        /\ Recorded(u)' => \/ deposits'[u].block = AdminBlock
                           \/ Recorded(u) /\ deposits'[u].block = deposits[u].block
        /\ Recorded(u) => Recorded(u)' /\ deposits'[u].block = deposits[u].block
        /\ deposits[u] # NoRow => deposits'[u] = deposits[u]
  BY <1>1 DEF Recorded
<1>3. \A k \in Int : k >= 0 /\ RowsUpTo(k) => RowsUpTo(k)'
  BY <1>1, <1>2 DEF RowsUpTo, AdminBlock, Recorded
<1>4. \A c \in Chains : RowsOn(c) => RowsOn(c)'
  BY <1>2 DEF RowsOn, On
<1>5. (\A b : On(chain, b)' <=> On(chain, b)) /\ (\A c \in Chains : CursorIn(c)' <=> CursorIn(c))
  BY <1>1 DEF On, CursorIn, HashIn
<1>6. /\ chain \in Chains /\ poll[w].next \in Nat /\ poll[w].to \in Int
      /\ At(w, "verify") \/ Scanning(w) => poll[w].next >= 1
      /\ Scanning(w) => poll[w].next - 1 <= poll[w].to
      /\ cursor # NoRow => cursor.height \in Nat
  BY PollRange
<1>7. cursor # NoRow => (RowsUpTo(cursor.height) => RowsUpTo(cursor.height)')
  BY <1>1, <1>3, <1>6
<1>8. BookStands => BookStands'
  <2>1. CASE cursor = NoRow
    BY <1>1, <2>1 DEF BookStands, OnlyManual
  <2>2. CASE cursor # NoRow
    <3>1. SUFFICES ASSUME BookStands PROVE BookStands'
      OBVIOUS
    <3>2. PICK c \in Chains : CursorIn(c) /\ RowsOn(c)
      BY <2>2, <3>1 DEF BookStands
    <3>3. CursorIn(c)' /\ RowsOn(c)' /\ RowsUpTo(cursor.height)'
      BY <1>4, <1>5, <1>7, <2>2, <3>1, <3>2 DEF BookStands
    <3> QED  BY <1>1, <2>2, <3>3 DEF BookStands
  <2> QED  BY <2>1, <2>2
<1>9. At(w, "verify") /\ VerifyKnows(w) => VerifyKnows(w)'
  <2>1. SUFFICES ASSUME At(w, "verify"), VerifyKnows(w) PROVE VerifyKnows(w)'
    OBVIOUS
  <2>2. RowsUpTo(poll[w].next - 1)' \/ RowsUpTo(poll[w].to)'
    BY <1>1, <1>3, <1>6, <2>1 DEF VerifyKnows
  <2>3. \A u \in Outputs : Recorded(u)' => \/ deposits'[u].block = AdminBlock \/ On(chain, deposits'[u].block)
                                           \/ poll'[w].listed[u] # NoRow
    BY <1>1, <1>2, <2>1 DEF VerifyKnows
  <2>4. \A u \in Outputs : poll'[w].listed[u] # NoRow => deposits'[u] # NoRow /\ deposits'[u].block = poll'[w].listed[u]
    BY <1>1, <1>2, <2>1 DEF VerifyKnows
  <2>5. \A h \in DOMAIN poll'[w].cached : h \in 0..Len(chain') /\ poll'[w].cached[h] = HashAt(h)'
    BY <1>1, <2>1 DEF VerifyKnows, HashAt
  <2> QED  BY <1>1, <1>5, <1>6, <1>7, <2>1, <2>2, <2>3, <2>4, <2>5 DEF VerifyKnows
<1>10. Scanning(w) /\ ScanKnows(w) => ScanKnows(w)'
  <2>1. SUFFICES ASSUME Scanning(w), ScanKnows(w) PROVE ScanKnows(w)'
    OBVIOUS
  <2>2. RowsUpTo(poll[w].to)' /\ RowsOn(chain)'
    <3>1. poll[w].to >= 0
      BY <1>6, <2>1
    <3> QED  BY <1>1, <1>3, <1>4, <1>6, <2>1, <3>1 DEF ScanKnows
  <2>3. At(w, "remine") => deposits'[poll[w].output] = deposits[poll[w].output]
    <3>1. At(w, "remine") => poll[w].output \in Outputs
      BY PollShape DEF PollOK, Writing, At
    <3> QED  BY <1>2, <2>1, <3>1 DEF ScanKnows
  <2> QED  BY <1>1, <2>1, <2>2, <2>3 DEF ScanKnows, Writing, At
<1>11. CreditKnows(w) => CreditKnows(w)'
  BY <1>1, <1>2, <1>4, <1>5, <1>6, <1>7 DEF CreditKnows, At
<1> QED  BY <1>1, <1>5, <1>6, <1>8, <1>9, <1>10, <1>11 DEF PollBook, At, Scanning

LEMMA BookInit == WatcherInit => BookInv
BY DEF WatcherInit, StorageInit, BookInv, PollBook, IdlePoll, BookStands, OnlyManual, At, Scanning

LEMMA BookNext ==
  ASSUME Orderly, WatcherInv, BookInv, [WatcherNext]_vars
  PROVE  BookInv'
<1> SUFFICES ASSUME NEW w \in Watchers PROVE PollBook(w)'
  BY DEF BookInv
<1>1. PollBook(w)
  BY DEF BookInv
<1>2. CASE MoveChain
  BY <1>1, <1>2, ChainBook
<1>3. ASSUME NEW o \in ManualOutputs, NEW i \in Identities, ManualCredit(o, i) PROVE PollBook(w)'
  BY <1>1, <1>3, ManualBook, WatcherAssumption
<1>4. ASSUME NEW v \in Watchers, PollStep(v) PROVE PollBook(w)'
  <2>1. v = w
    BY DEF Orderly
  <2>2. PollStep(w)
    BY <1>4, <2>1
  <2> QED  BY <1>1, <2>2, StartBook, ReadBook, BootstrapBook, RangeBook, VerifyBook, EndVerifyBook,
           FetchBook, LookBook, WriteBook, MoveCursorBook, ListBook, CreditBook, EndBook
           DEF PollStep
<1>5. ASSUME NEW v \in Watchers, PollFails(v) PROVE FALSE
  BY <1>5 DEF PollFails, Orderly, WatcherInv
<1>6. CASE UNCHANGED vars
  <2>1. UNCHANGED <<deposits, chain, cursor, poll>>
    BY <1>6 DEF vars, watcherVars, storageVars
  <2>2. VerifyKnows(w)' <=> VerifyKnows(w)
    BY <2>1, BookSame DEF VerifyKnows, On
  <2>3. ScanKnows(w)' <=> ScanKnows(w)
    BY <2>1, BookSame DEF ScanKnows, At, Writing
  <2>4. CreditKnows(w)' <=> CreditKnows(w)
    BY <2>1, BookSame DEF CreditKnows, At
  <2> QED  BY <1>1, <2>1, <2>2, <2>3, <2>4, BookSame DEF PollBook, At, Scanning
<1> QED  BY <1>2, <1>3, <1>4, <1>5, <1>6 DEF WatcherNext

LEMMA BookAlways == ASSUME Orderly PROVE WatcherSpec => []BookInv
<1>1. WatcherInv /\ BookInv /\ [WatcherNext]_vars => BookInv'
  BY BookNext
<1> QED  BY <1>1, WatcherInvAlways, BookInit, PTL DEF WatcherSpec

\* The steps that touch the storage.
LEMMA StorageMoves ==
  ASSUME [WatcherNext]_vars
  PROVE  \/ UNCHANGED storageVars
         \/ \E w \in Watchers : \/ WriteOutput(w)
                              \/ \E o \in Outputs : VerifyDeposit(w, o) \/ CreditAtDepth(w, o)
         \/ \E o \in ManualOutputs, i \in Identities : ManualCredit(o, i)
<1>1. \A w \in Watchers : StartPoll(w) => UNCHANGED storageVars
  BY DEF StartPoll
<1>2. \A w \in Watchers : ReadCursor(w) => UNCHANGED storageVars
  BY DEF ReadCursor
<1>3. \A w \in Watchers : Bootstrap(w) => UNCHANGED storageVars
  BY DEF Bootstrap
<1>4. \A w \in Watchers : CursorHolds(w) => UNCHANGED storageVars
  BY DEF CursorHolds
<1>5. \A w \in Watchers : CursorGone(w) => UNCHANGED storageVars
  BY DEF CursorGone
<1>6. \A w \in Watchers : EndVerify(w) => UNCHANGED storageVars
  BY DEF EndVerify
<1>7. \A w \in Watchers : FetchBlock(w) => UNCHANGED storageVars
  BY DEF FetchBlock
<1>8. \A w \in Watchers : MoveCursor(w) => UNCHANGED storageVars
  BY DEF MoveCursor
<1>9. \A w \in Watchers : ListUncredited(w) => UNCHANGED storageVars
  BY DEF ListUncredited
<1>10. \A w \in Watchers : EndPoll(w) => UNCHANGED storageVars
  BY DEF EndPoll
<1>11. \A w \in Watchers : PollFails(w) => UNCHANGED storageVars
  BY DEF PollFails
<1>12. \A w \in Watchers : \A o \in Outputs : LookAtOutput(w, o) => UNCHANGED storageVars
  BY DEF LookAtOutput
<1>13. MoveChain \/ UNCHANGED vars => UNCHANGED storageVars
  BY DEF MoveChain, vars
<1> QED  BY <1>1, <1>2, <1>3, <1>4, <1>5, <1>6, <1>7, <1>8, <1>9,
         <1>10, <1>11, <1>12, <1>13 DEF WatcherNext, PollStep

LEMMA StepsKeepChain ==
  ASSUME NEW w \in Watchers, PollStep(w)
  PROVE  UNCHANGED chain
<1>1. StartPoll(w) => UNCHANGED chain
  BY DEF StartPoll
<1>2. ReadCursor(w) => UNCHANGED chain
  BY DEF ReadCursor
<1>3. Bootstrap(w) => UNCHANGED chain
  BY DEF Bootstrap
<1>4. CursorHolds(w) => UNCHANGED chain
  BY DEF CursorHolds
<1>5. CursorGone(w) => UNCHANGED chain
  BY DEF CursorGone
<1>6. EndVerify(w) => UNCHANGED chain
  BY DEF EndVerify
<1>7. FetchBlock(w) => UNCHANGED chain
  BY DEF FetchBlock
<1>8. WriteOutput(w) => UNCHANGED chain
  BY DEF WriteOutput
<1>9. MoveCursor(w) => UNCHANGED chain
  BY DEF MoveCursor
<1>10. ListUncredited(w) => UNCHANGED chain
  BY DEF ListUncredited
<1>11. EndPoll(w) => UNCHANGED chain
  BY DEF EndPoll
<1>12. \A o \in Outputs : VerifyDeposit(w, o) => UNCHANGED chain
  BY DEF VerifyDeposit
<1>13. \A o \in Outputs : LookAtOutput(w, o) => UNCHANGED chain
  BY DEF LookAtOutput
<1>14. \A o \in Outputs : CreditAtDepth(w, o) => UNCHANGED chain
  BY DEF CreditAtDepth
<1> QED  BY <1>1, <1>2, <1>3, <1>4, <1>5, <1>6, <1>7, <1>8, <1>9, <1>10, <1>11, <1>12, <1>13, <1>14
         DEF PollStep

\* A deposit that a step credits is on the chain and buried.
LEMMA StepBuries ==
  ASSUME WatcherInv, BookInv, [WatcherNext]_vars, NEW o \in Outputs
  PROVE  BuriedWhenCredited(o)
<1>1. SUFFICES ASSUME deposits'[o] # deposits[o], Credited(o)', deposits'[o].block # AdminBlock
               PROVE  OnChain(deposits[o].block) /\ Len(chain) - deposits[o].block.height >= MinConf
  BY DEF BuriedWhenCredited
<1>2. StorageTypeOK
  BY DEF WatcherInv, StorageInv
<1>3. ASSUME NEW w \in Watchers, NEW u \in Outputs, CreditAtDepth(w, u)
      PROVE  OnChain(deposits[o].block) /\ Len(chain) - deposits[o].block.height >= MinConf
  <2>1. /\ poll[w].step = "credit" /\ poll[w].listed[u] # NoRow
        /\ \/ poll[w].tip - poll[w].listed[u].height >= MinConf /\ CreditDeposit(u)
           \/ UNCHANGED storageVars
    BY <1>3, CreditingMoves
  <2>2. u = o /\ CreditDeposit(o) /\ poll[w].tip - poll[w].listed[o].height >= MinConf
    BY <1>1, <1>2, <2>1, DepositCredited DEF storageVars
  <2>3. CreditKnows(w)
    BY <2>1 DEF BookInv, PollBook
  <2>4. /\ Recorded(o) /\ deposits[o].block = poll[w].listed[o]
        /\ deposits[o].block = AdminBlock \/ On(chain, deposits[o].block)
    BY <2>1, <2>2, <2>3 DEF CreditKnows, RowsOn, At
  <2>5. deposits[o].block # AdminBlock
    BY <1>1, <1>2, <2>2, DepositCredited
  <2>6. /\ poll[w].tip \in Nat /\ poll[w].tip <= Len(chain) /\ Len(chain) \in Nat
        /\ DOMAIN chain = 1..Len(chain)
    BY PollRange
  <2> QED  BY <2>2, <2>4, <2>5, <2>6, WatcherAssumption, SMTT(30) DEF On, OnChain
<1>4. ASSUME NEW w \in Watchers, NEW u \in Outputs, VerifyDeposit(w, u) PROVE FALSE
  <2>1. UNCHANGED storageVars \/ MarkDepositReorged(u)
    BY <1>4, VerifyMoves
  <2> QED  BY <1>1, <1>2, <2>1, DepositMarked DEF storageVars, Credited, Recorded
<1>5. ASSUME NEW w \in Watchers, WriteOutput(w) PROVE FALSE
  <2> DEFINE u == poll[w].output
  <2>1. /\ u \in Outputs /\ \A v \in Outputs : v # u => deposits'[v] = deposits[v]
        /\ UNCHANGED storageVars \/ ~deposits'[u].credited
    BY <1>5, WriteRows
  <2> QED  BY <1>1, <2>1 DEF storageVars, Credited
<1>6. ASSUME NEW u \in ManualOutputs, NEW i \in Identities, ManualCredit(u, i) PROVE FALSE
  BY <1>1, <1>6, ManualRows, WatcherAssumption
<1>7. ~UNCHANGED storageVars
  BY <1>1 DEF storageVars
<1> QED  BY <1>3, <1>4, <1>5, <1>6, <1>7, StorageMoves

\* One watcher never credits a deposit that is not on the chain, under the depth
\* its rule asks for, when the credit is booked: what it read at the start of
\* the poll (the tip, the cursor's block, the list of rows) still holds.
THEOREM CreditsAreBuried == ASSUME Orderly PROVE WatcherSpec => CreditedOnlyWhenBuried
<1>1. WatcherInv /\ BookInv /\ [WatcherNext]_vars => [\A o \in Outputs : BuriedWhenCredited(o)]_vars
  BY StepBuries
<1> QED  BY <1>1, WatcherInvAlways, BookAlways, PTL DEF WatcherSpec, CreditedOnlyWhenBuried

-----------------------------------------------------------------------------
(* A deposit counts once.                                                  *)

LEMMA BookedLine ==
  ASSUME StorageTypeOK, NEW o \in Outputs, NEW i \in Identities, NEW reason \in Reasons,
         NEW amount \in Int, NEW after \in Int, AppendLedger(i, reason, amount, o, after)
  PROVE  \A u \in Outputs, j \in Identities :
           /\ SumFor(ledger[j], u) \in Int
           /\ SumFor(ledger'[j], u) = IF j = i /\ u = o THEN SumFor(ledger[j], u) + amount
                                                         ELSE SumFor(ledger[j], u)
<1> DEFINE line == [reason |-> reason, amount |-> amount, ref |-> o, balanceAfter |-> after]
<1>1. line \in LedgerEntry /\ \A j \in Identities : ledger[j] \in Seq(LedgerEntry)
  BY DEF LedgerEntry, StorageTypeOK
<1>2. \A j \in Identities : ledger'[j] = IF j = i THEN Append(ledger[j], line) ELSE ledger[j]
  BY DEF AppendLedger, StorageTypeOK
<1>3. line.ref = o /\ line.amount = amount
  OBVIOUS
<1> HIDE DEF line
<1> SUFFICES ASSUME NEW u \in Outputs, NEW j \in Identities
             PROVE  /\ SumFor(ledger[j], u) \in Int
                    /\ SumFor(ledger'[j], u) = IF j = i /\ u = o THEN SumFor(ledger[j], u) + amount
                                                                  ELSE SumFor(ledger[j], u)
  OBVIOUS
<1>4. /\ SumFor(ledger[j], u) \in Int
      /\ SumFor(Append(ledger[j], line), u) = IF line.ref = u THEN SumFor(ledger[j], u) + line.amount
                                                              ELSE SumFor(ledger[j], u)
  BY <1>1, SumForAppended
<1> QED  BY <1>2, <1>3, <1>4

\* What a row changes to, and what is booked for it meanwhile.
LEMMA CountsMove ==
  ASSUME StorageTypeOK, LedgerCounts, NEW o \in Outputs, NEW i \in Identities,
         NEW reason \in Reasons, NEW amount \in Int, NEW after \in Int,
         AppendLedger(i, reason, amount, o, after),
         \A u \in Outputs : u # o => deposits'[u] = deposits[u],
         deposits'[o].identity = i,
         \A j \in Identities : j # i => SumFor(ledger[j], o) = 0,
         SumFor(ledger[i], o) + amount = IF Credited(o)' THEN deposits'[o].amount ELSE 0
  PROVE  LedgerCounts'
<1>1. SUFFICES ASSUME NEW u \in Outputs, NEW j \in Identities
               PROVE  SumFor(ledger'[j], u) = IF Credited(u)' /\ deposits'[u].identity = j
                                              THEN deposits'[u].amount ELSE 0
  BY DEF LedgerCounts
<1>2. SumFor(ledger'[j], u) = IF j = i /\ u = o THEN SumFor(ledger[j], u) + amount
                                                ELSE SumFor(ledger[j], u)
  BY BookedLine
<1>3. CASE u = o
  BY <1>2, <1>3
<1>4. CASE u # o
  <2>1. SumFor(ledger[j], u) = IF Credited(u) /\ deposits[u].identity = j THEN deposits[u].amount ELSE 0
    BY DEF LedgerCounts
  <2>2. deposits'[u] = deposits[u] /\ (Credited(u)' <=> Credited(u))
    BY <1>4 DEF Credited, Recorded
  <2> QED  BY <1>2, <1>4, <2>1, <2>2
<1> QED  BY <1>3, <1>4

\* The scan writes to no row that is credited: the chain pays the output in the
\* block it scans, a row elsewhere on that chain would be paid twice, and one
\* without a block was credited by hand for an output no chain pays.
LEMMA RemineUncredited ==
  ASSUME ManualOffChain, WatcherInv, CreditsKnown, NEW w \in Watchers, PollBook(w), At(w, "remine")
  PROVE  ~Recorded(poll[w].output)
<1> DEFINE o == poll[w].output
           k == poll[w].next - 1
           b == deposits[o].block
<1> SUFFICES ASSUME Recorded(o) PROVE FALSE
  OBVIOUS
<1>1. /\ ScanKnows(w) /\ Scanning(w) /\ Writing(w) /\ o \in Outputs
  BY PollShape DEF PollBook, At, Scanning, Writing, PollOK
<1>2. /\ o \in chain[k].pays /\ poll[w].hash = chain[k].hash /\ poll[w].next >= 2
      /\ deposits[o] # NoRow /\ b.hash # chain[k].hash
  BY <1>1 DEF ScanKnows
<1>3. k \in DOMAIN chain /\ chain \in Chains /\ DOMAIN chain = 1..Len(chain)
  BY <1>1, <1>2, PollRange
<1>4. b # AdminBlock
  BY <1>1, <1>2, <1>3 DEF CreditsKnown, ManualOffChain
<1>5. On(chain, b) /\ Mined(o, b.height, b.hash)
  <2>1. On(chain, b)
    BY <1>1, <1>4 DEF ScanKnows, RowsOn
  <2> QED  BY <1>1, <1>2, <1>4, <2>1, RowBlocks
<1> HIDE DEF b, k, o
<1>6. PICK c \in Chains : b.height \in 1..Len(c) /\ c[b.height].hash = b.hash /\ o \in c[b.height].pays
  BY <1>5 DEF Mined
<1>7. b.height \in DOMAIN chain /\ b.height \in DOMAIN c /\ chain[b.height].hash = b.hash
  BY <1>3, <1>5, <1>6, ChainTypes DEF On
<1>8. b.height \in 1..b.height
  BY <1>3, <1>7, ChainTypes
<1>9. c[b.height] = chain[b.height]
  BY <1>3, <1>6, <1>7, <1>8, ChainAssumption
<1>10. b.height = k
  BY <1>2, <1>3, <1>6, <1>7, <1>9, ChainAssumption
<1> QED  BY <1>2, <1>7, <1>10

LEMMA CountNext ==
  ASSUME ManualOffChain, WatcherInv, BookInv, CountInv, [WatcherNext]_vars
  PROVE  CountInv'
<1>1. StorageTypeOK
  BY DEF WatcherInv, StorageInv
<1>2. \A o \in Outputs : deposits[o] # NoRow => deposits[o] \in DepositRow
  BY <1>1 DEF StorageTypeOK
<1>3. \A o \in Outputs : deposits[o] # NoRow => /\ deposits[o].identity \in Identities
                                               /\ deposits[o].amount \in Nat
  BY <1>2 DEF DepositRow
<1>4. \A o \in Outputs : \A j \in Identities :
        SumFor(ledger[j], o) = IF Credited(o) /\ deposits[o].identity = j THEN deposits[o].amount ELSE 0
  BY DEF CountInv, LedgerCounts
<1>5. CASE UNCHANGED storageVars
  BY <1>5 DEF storageVars, CountInv, LedgerCounts, CreditsKnown, Credited, Recorded
<1>6. ASSUME NEW w \in Watchers, WriteOutput(w) PROVE CountInv'
  <2> DEFINE block == [height |-> poll[w].next - 1, hash |-> poll[w].hash]
  <2>0. PICK o \in Outputs : o = poll[w].output
    BY <1>6, WriteMoves
  <2>1. /\ \A u \in Outputs : u # o => deposits'[u] = deposits[u]
        /\ \/ UNCHANGED storageVars
           \/ /\ UNCHANGED <<ledger, known>>
              /\ deposits'[o] # NoRow /\ ~deposits'[o].credited /\ deposits'[o].block = block
              /\ poll[w].step = "insert" => deposits[o] = NoRow
    BY <1>6, <2>0, WriteRows
  <2>2. poll[w].step \in {"remine", "insert"}
    BY <1>6 DEF WriteOutput, At
  <2>3. block # AdminBlock
    BY <2>2, BlocksMined, PollShape DEF PollOK, Writing, WatcherInv
  <2>4. CASE UNCHANGED storageVars
    BY <1>5, <2>4
  <2>5. CASE /\ UNCHANGED <<ledger, known>>
             /\ deposits'[o] # NoRow /\ ~deposits'[o].credited /\ deposits'[o].block = block
             /\ poll[w].step = "insert" => deposits[o] = NoRow
    <3>1. ~Recorded(o)
      BY <2>0, <2>2, <2>5, RemineUncredited DEF Recorded, BookInv, CountInv, At
    <3>2. ~Credited(o) /\ ~Credited(o)'
      BY <2>5, <3>1 DEF Credited
    <3>3. \A u \in Outputs : Credited(u)' <=> Credited(u)
      BY <2>1, <3>2 DEF Credited, Recorded
    <3>4. LedgerCounts'
      BY <1>4, <2>1, <2>5, <3>2, <3>3 DEF LedgerCounts
    <3>5. CreditsKnown'
      BY <2>1, <2>3, <2>5 DEF CountInv, CreditsKnown
    <3> QED  BY <3>4, <3>5 DEF CountInv
  <2> QED  BY <2>1, <2>4, <2>5
<1>7. ASSUME NEW w \in Watchers, NEW o \in Outputs, VerifyDeposit(w, o) PROVE CountInv'
  <2>1. CASE MarkDepositReorged(o)
    <3> DEFINE i == deposits[o].identity
               amount == deposits[o].amount
    <3>1. /\ deposits[o] # NoRow /\ ~deposits[o].reorged
          /\ deposits'[o] # NoRow /\ deposits'[o].reorged
          /\ deposits'[o].block = deposits[o].block
          /\ deposits'[o].credited = deposits[o].credited
          /\ deposits'[o].identity = i /\ deposits'[o].amount = amount
          /\ \A u \in Outputs : u # o => deposits'[u] = deposits[u]
      BY <1>1, <2>1, DepositMarked
    <3>2. /\ known' = known
          /\ IF deposits[o].credited /\ i \in known
             THEN AppendLedger(i, "reorg", -amount, o, balance[i] - amount)
             ELSE UNCHANGED ledger
      BY <2>1 DEF MarkDepositReorged
    <3>3. /\ i \in Identities /\ amount \in Nat
          /\ deposits[o].credited => i \in known
      BY <1>3, <3>1 DEF CountInv, CreditsKnown
    <3>4. ~Credited(o)'
      BY <3>1 DEF Credited, Recorded
    <3>5. CreditsKnown'
      BY <3>1, <3>2 DEF CountInv, CreditsKnown
    <3>6. CASE deposits[o].credited
      <4>1. AppendLedger(i, "reorg", -amount, o, balance[i] - amount)
        BY <3>2, <3>3, <3>6
      <4>2. Credited(o)
        BY <3>1, <3>6 DEF Credited, Recorded
      <4>3. /\ SumFor(ledger[i], o) = amount
            /\ \A j \in Identities : j # i => SumFor(ledger[j], o) = 0
        BY <1>4, <3>3, <4>2
      <4>4. balance[i] - amount \in Int /\ -amount \in Int /\ amount + -amount = 0 /\ "reorg" \in Reasons
        BY <1>1, <3>3 DEF StorageTypeOK, Reasons
      <4> HIDE DEF i, amount
      <4>5. LedgerCounts'
        BY <1>1, <3>1, <3>3, <3>4, <4>1, <4>3, <4>4, CountsMove DEF CountInv
      <4> QED  BY <3>5, <4>5 DEF CountInv
    <3>7. CASE ~deposits[o].credited
      <4>1. ledger' = ledger /\ ~Credited(o)
        BY <3>2, <3>7 DEF Credited
      <4>2. \A u \in Outputs : Credited(u)' <=> Credited(u)
        BY <3>1, <3>4, <4>1 DEF Credited, Recorded
      <4>3. LedgerCounts'
        BY <1>4, <3>1, <4>1, <4>2 DEF LedgerCounts
      <4> QED  BY <3>5, <4>3 DEF CountInv
    <3> QED  BY <3>6, <3>7
  <2> QED  BY <1>5, <1>7, <2>1, VerifyMoves
<1>8. ASSUME NEW w \in Watchers, NEW o \in Outputs, CreditAtDepth(w, o) PROVE CountInv'
  <2>1. CASE CreditDeposit(o)
    <3> DEFINE i == deposits[o].identity
               amount == deposits[o].amount
    <3>1. /\ deposits[o] # NoRow /\ ~deposits[o].credited
          /\ deposits'[o] # NoRow /\ ~deposits'[o].reorged /\ deposits'[o].credited
          /\ deposits'[o].block = deposits[o].block
          /\ deposits'[o].identity = i /\ deposits'[o].amount = amount
          /\ \A u \in Outputs : u # o => deposits'[u] = deposits[u]
      BY <1>1, <2>1, DepositCredited
    <3>2. known' = known \cup {i} /\ AppendLedger(i, "deposit_credited", amount, o, balance[i] + amount)
      BY <2>1 DEF CreditDeposit, Credit
    <3>3. i \in Identities /\ amount \in Nat
      BY <1>3, <3>1
    <3>4. Credited(o)' /\ ~Credited(o)
      BY <3>1 DEF Credited, Recorded
    <3>5. CreditsKnown'
      BY <3>1, <3>2 DEF CountInv, CreditsKnown
    <3>6. \A j \in Identities : SumFor(ledger[j], o) = 0
      BY <1>4, <3>4
    <3>7. balance[i] + amount \in Int /\ amount \in Int /\ 0 + amount = amount /\ "deposit_credited" \in Reasons
      BY <1>1, <3>3 DEF StorageTypeOK, Reasons
    <3> HIDE DEF i, amount
    <3>8. LedgerCounts'
      BY <1>1, <3>1, <3>2, <3>3, <3>4, <3>6, <3>7, CountsMove DEF CountInv
    <3> QED  BY <3>5, <3>8 DEF CountInv
  <2> QED  BY <1>5, <1>8, <2>1, CreditingMoves
<1>9. ASSUME NEW o \in ManualOutputs, NEW i \in Identities, ManualCredit(o, i) PROVE CountInv'
  <2> DEFINE amount == Value[o]
  <2>0. o \in Outputs /\ amount \in Nat
    BY WatcherAssumption
  <2>1. /\ InsertAndCreditDeposit(o, i, amount, AdminBlock)
        /\ deposits[o] = NoRow /\ deposits'[o] # NoRow
        /\ deposits'[o].block = AdminBlock /\ deposits'[o].credited /\ ~deposits'[o].reorged
        /\ deposits'[o].identity = i /\ deposits'[o].amount = amount
        /\ \A u \in Outputs : u # o => deposits'[u] = deposits[u]
    BY <1>9, <2>0, ManualRows
  <2>2. known' = known \cup {i} /\ AppendLedger(i, "deposit_credited", amount, o, balance[i] + amount)
    BY <2>1 DEF InsertAndCreditDeposit, Credit
  <2>3. Credited(o)' /\ ~Credited(o)
    BY <2>1 DEF Credited, Recorded
  <2>4. CreditsKnown'
    BY <2>1, <2>2 DEF CountInv, CreditsKnown
  <2>5. \A j \in Identities : SumFor(ledger[j], o) = 0
    BY <1>4, <2>0, <2>3
  <2>6. balance[i] + amount \in Int /\ amount \in Int /\ 0 + amount = amount /\ "deposit_credited" \in Reasons
    BY <1>1, <2>0 DEF StorageTypeOK, Reasons
  <2> HIDE DEF amount
  <2>7. LedgerCounts'
    BY <1>1, <2>0, <2>1, <2>2, <2>3, <2>5, <2>6, CountsMove DEF CountInv
  <2> QED  BY <2>4, <2>7 DEF CountInv
<1> QED  BY <1>5, <1>6, <1>7, <1>8, <1>9, StorageMoves

LEMMA CountInit == WatcherInit => CountInv
<1> SUFFICES ASSUME WatcherInit PROVE CountInv
  OBVIOUS
<1>1. \A o \in Outputs : \A i \in Identities : SumFor(ledger[i], o) = 0
  BY EmptyStatement DEF WatcherInit, StorageInit
<1> QED  BY <1>1 DEF WatcherInit, StorageInit, CountInv, LedgerCounts, CreditsKnown, Credited, Recorded

\* One watcher counts a deposit once, whatever is reorganised away, re-mined or
\* scanned again.
THEOREM DepositsCountOnce == ASSUME Orderly, ManualOffChain PROVE WatcherSpec => []CountedOnce
<1>1. WatcherInit => CountInv
  BY CountInit
<1>2. WatcherInv /\ BookInv /\ CountInv /\ [WatcherNext]_vars => CountInv'
  BY CountNext
<1>3. WatcherInv /\ CountInv => CountedOnce
  <2> SUFFICES ASSUME WatcherInv, CountInv, NEW o \in Outputs, deposits[o] # NoRow
               PROVE  Booked(o) = IF Credited(o) THEN deposits[o].amount ELSE 0
    BY DEF CountedOnce
  <2>1. deposits[o].identity \in Identities
    BY DEF WatcherInv, StorageInv, StorageTypeOK, DepositRow
  <2>2. Booked(o) = SumFor(ledger[deposits[o].identity], o)
    BY DEF Booked, SumFor, LinesFor
  <2> QED  BY <2>1, <2>2 DEF CountInv, LedgerCounts
<1> QED  BY <1>1, <1>2, <1>3, WatcherInvAlways, BookAlways, PTL DEF WatcherSpec

-----------------------------------------------------------------------------
(* Nothing skipped.                                                        *)

\* A reorganisation replaces only blocks that a rescan reads again, and a block
\* that was replaced does not come back.
Shallow ==
  \A c, d \in Chains : \A k \in DOMAIN c \cap DOMAIN d :
    k + Lookback < Smaller(Len(c), Len(d)) => c[k] = d[k]

NoReturn ==
  \A c, d, e \in Chains : Len(c) < Len(d) /\ Len(d) < Len(e) =>
    \A h \in DOMAIN c : c[h].hash = e[h].hash => d[h].hash = c[h].hash

\* Every payment the watcher answers for, up to height k of chain c and except
\* those pending, has its row.
BookedTo(c, k, pending) ==
  \A h \in 1..k : \A o \in c[h].pays \ pending : AnswersFor(h) /\ Sender[o] # NoRow =>
    Recorded(o) /\ deposits[o].block = [height |-> h, hash |-> c[h].hash]

\* A row marked reorged is on no chain there is or can be.
ReorgedGone ==
  \A o \in Outputs : deposits[o] # NoRow /\ deposits[o].reorged =>
    \A e \in Chains : e = chain \/ Len(e) > Len(chain) => ~On(e, deposits[o].block)

\* Between two polls the payments up to the cursor are booked, on the chain it was
\* set on.
ScanStands ==
  IF cursor = NoRow THEN bootstraps = {}
  ELSE \E c \in Chains : CursorIn(c) /\ BookedTo(c, cursor.height, {})

Pending(w) == poll[w].todo \cup {poll[w].output}

PollScan(w) ==
  LET p == poll[w] IN
  /\ poll[w].step \in {"idle", "start", "bootstrap", "check"} => ScanStands
  /\ At(w, "verify") => /\ BookedTo(chain, p.next - 1, {})
                        /\ p.next - 1 <= Len(chain)
                        /\ p.next > p.to => p.next - 1 = cursor.height
  /\ Scanning(w) => BookedTo(chain, p.next - 1, Pending(w))
  /\ At(w, "insert") => deposits[p.output] = NoRow
  /\ poll[w].step \in {"list", "credit"} => BookedTo(chain, cursor.height, {})

ScanInv == ReorgedGone /\ \A w \in Watchers : PollScan(w)

\* What is booked stays booked while its rows stand.
RowsKept ==
  \A u \in Outputs : Recorded(u) => Recorded(u)' /\ deposits'[u].block = deposits[u].block

LEMMA BookedStays ==
  ASSUME UNCHANGED bootstraps, RowsKept
  PROVE  \A c \in Chains : \A k, pending : k \in Nat /\ k <= Len(c) /\ BookedTo(c, k, pending)
                                            => BookedTo(c, k, pending)'
<1>1. SUFFICES ASSUME NEW c \in Chains, NEW k \in Nat, NEW pending, k <= Len(c), BookedTo(c, k, pending),
                      NEW h \in 1..k, NEW o \in c[h].pays \ pending, AnswersFor(h)', Sender[o] # NoRow
               PROVE  Recorded(o)' /\ deposits'[o].block = [height |-> h, hash |-> c[h].hash]
  BY DEF BookedTo
<1>2. h \in 1..Len(c) /\ o \in Outputs
  BY <1>1, ChainTypes
<1>3. AnswersFor(h)
  BY <1>1 DEF AnswersFor
<1>4. Recorded(o) /\ deposits[o].block = [height |-> h, hash |-> c[h].hash]
  BY <1>1, <1>3 DEF BookedTo
<1> QED  BY <1>2, <1>4 DEF RowsKept

\* What is booked on one chain is booked on every chain with the same blocks.
LEMMA BookedElsewhere ==
  ASSUME NEW c, NEW d, NEW j \in Int, NEW k \in Int, j <= k, \A h \in 1..j : c[h] = d[h],
         NEW P, NEW Q, P \subseteq Q, BookedTo(c, k, P)
  PROVE  BookedTo(d, j, Q)
<1>1. \A h \in 1..j : h \in 1..k
  OBVIOUS
<1> QED  BY <1>1 DEF BookedTo

\* The node pays an output in one block of its chain only.
LEMMA PaidOnce ==
  ASSUME NEW c \in Chains, NEW h \in 1..Len(c), NEW k \in 1..Len(c), NEW o, o \in c[h].pays, o \in c[k].pays
  PROVE  h = k
BY ChainTypes, ChainAssumption

\* A row with the hash of a block on the chain is on the chain.
LEMMA SameHash ==
  ASSUME WatcherInv, NEW o \in Outputs, deposits[o] # NoRow, deposits[o].block # AdminBlock,
         NEW h \in 1..Len(chain), deposits[o].block.hash = chain[h].hash
  PROVE  /\ deposits[o].block = [height |-> h, hash |-> chain[h].hash]
         /\ On(chain, deposits[o].block)
<1> DEFINE b == deposits[o].block
<1>1. b = [height |-> b.height, hash |-> b.hash] /\ Mined(o, b.height, b.hash)
  BY RowBlocks
<1> HIDE DEF b
<1>2. PICK c \in Chains : b.height \in 1..Len(c) /\ c[b.height].hash = b.hash
  BY <1>1 DEF Mined
<1>3. chain \in Chains /\ DOMAIN chain = 1..Len(chain) /\ DOMAIN c = 1..Len(c)
  BY ChainTypes DEF WatcherInv
<1>4. b.height = h
  BY <1>2, <1>3, ChainAssumption DEF b
<1> QED  BY <1>1, <1>4 DEF On, b

-----------------------------------------------------------------------------
LEMMA ScanSame ==
  ASSUME UNCHANGED <<deposits, chain, cursor, bootstraps>>
  PROVE  /\ ScanStands' <=> ScanStands
         /\ ReorgedGone' <=> ReorgedGone
         /\ \A k, P : BookedTo(chain, k, P)' <=> BookedTo(chain, k, P)
BY DEF ScanStands, ReorgedGone, BookedTo, AnswersFor, CursorIn, Recorded, On, HashIn

LEMMA StartScan ==
  ASSUME WatcherInv, NEW w \in Watchers, PollScan(w), StartPoll(w)
  PROVE  PollScan(w)'
<1>1. /\ poll[w].step = "idle" /\ poll'[w].step = "start"
      /\ UNCHANGED <<deposits, chain, cursor, bootstraps>>
  BY StartMoves DEF storageVars
<1> QED  BY <1>1, ScanSame DEF PollScan, At, Scanning

LEMMA ReadScan ==
  ASSUME WatcherInv, NEW w \in Watchers, PollScan(w), ReadCursor(w)
  PROVE  PollScan(w)'
<1>1. /\ poll[w].step = "start" /\ poll'[w].step \in {"bootstrap", "check"}
      /\ UNCHANGED <<deposits, chain, cursor, bootstraps>>
  BY ReadMoves DEF storageVars
<1> QED  BY <1>1, ScanSame DEF PollScan, At, Scanning

LEMMA BootstrapScan ==
  ASSUME WatcherInv, NEW w \in Watchers, PollBook(w), PollBook(w)', PollScan(w), Bootstrap(w)
  PROVE  PollScan(w)'
<1>1. /\ poll[w].step = "bootstrap" /\ poll'[w].step \in {"idle", "check"}
  BY BootstrapMoves DEF IdlePoll
<1>2. PICK height \in 0..Len(chain) : cursor' = BlockAt(height) /\ bootstraps' = bootstraps \cup {height}
  BY BootstrapMoves
<1>3. cursor = NoRow /\ bootstraps = {} /\ chain' = chain /\ chain \in Chains
  BY <1>1, BootstrapMoves DEF PollBook, PollScan, ScanStands, At, WatcherInv
<1>4. bootstraps' = {height} /\ height \in Int
  BY <1>2, <1>3
<1>5. Max({height}) = height
  BY <1>4 DEF Max
<1>6. \A h \in 1..height : ~AnswersFor(h)'
  BY <1>4, <1>5 DEF AnswersFor
<1>7. cursor'.height = height /\ cursor'.hash = HashIn(chain, height)
  BY <1>2 DEF BlockAt, HashAt, HashIn
<1>8. CursorIn(chain)' /\ BookedTo(chain, cursor.height, {})'
  BY <1>3, <1>6, <1>7 DEF CursorIn, BookedTo, HashIn
<1>9. ScanStands'
  <2>1. cursor' # NoRow
    <3>1. HashAt(height) \in Hashes /\ height \in Nat
      BY <1>3, <1>4, PollShape, BlockThere, BlocksHad
    <3> QED  BY <1>2, <3>1, CursorSet DEF BlockAt
  <2> QED  BY <1>3, <1>8, <2>1 DEF ScanStands, CursorIn, BookedTo, HashIn
<1> QED  BY <1>1, <1>9 DEF PollScan, At, Scanning

LEMMA RangeScan ==
  ASSUME Orderly, Shallow, WatcherInv, NEW w \in Watchers, PollBook(w), PollScan(w),
         CursorHolds(w) \/ CursorGone(w)
  PROVE  PollScan(w)'
<1>1. PICK from \in Nat \ {0} :
           /\ poll[w].step = "check" /\ poll'[w].step = "verify"
           /\ poll'[w].next = from /\ poll'[w].to = Smaller(poll[w].tip, from + MaxPerPoll - 1)
           /\ \/ CursorOnChain(w) /\ from = poll[w].cursor.height + 1
              \/ ~CursorOnChain(w) /\ from = Larger(1, poll[w].cursor.height - Lookback)
           /\ UNCHANGED <<storageVars, chain, cursor, bootstraps>>
  BY RangeMoves
<1> DEFINE H == cursor.height
           to == Smaller(poll[w].tip, from + MaxPerPoll - 1)
<1>2. /\ cursor # NoRow /\ poll[w].cursor = cursor
      /\ CursorIn(chain) \/ H <= poll[w].tip
  BY <1>1 DEF PollBook, At
<1>3. PICK c \in Chains : CursorIn(c) /\ BookedTo(c, H, {})
  BY <1>1, <1>2 DEF PollScan, ScanStands
<1>4. /\ H \in Nat /\ H <= Len(chain) /\ Len(chain) \in Nat /\ poll[w].tip \in Nat
      /\ poll[w].tip <= Len(chain) /\ chain \in Chains /\ DOMAIN chain = 1..Len(chain)
  BY <1>2, PollRange
<1>5. H \in 0..Len(c) /\ Len(c) \in Nat /\ DOMAIN c = 1..Len(c)
  BY <1>3, ChainTypes DEF CursorIn
<1>6. CursorOnChain(w) <=> CursorIn(chain)
  BY <1>2, <1>4 DEF CursorOnChain, CursorIn, HashAt, HashIn
<1>7. /\ from - 1 <= H /\ \A h \in 1..(from - 1) : c[h] = chain[h]
      /\ from > to => from - 1 = H
  <2>1. CASE CursorIn(chain)
    <3>1. \A h \in 1..H : c[h] = chain[h]
      BY <1>3, <1>4, <1>5, <2>1, Agree DEF CursorIn
    <3>2. from - 1 = H
      BY <1>1, <1>2, <1>4, <1>6, <2>1
    <3> HIDE DEF to
    <3> QED  BY <1>4, <3>1, <3>2
  <2>2. CASE ~CursorIn(chain)
    <3>1. H <= poll[w].tip /\ from = Larger(1, H - Lookback)
      BY <1>1, <1>2, <1>6, <2>2
    <3>2. H >= 1
      BY <1>3, <1>4, <2>2 DEF CursorIn, HashIn
    <3>3. H <= to /\ from <= to
      BY <1>4, <3>1, <3>2, RangeReaches, WatcherAssumption DEF Orderly
    <3>4. from - 1 <= H /\ \A h \in 1..(from - 1) : h + Lookback < H
      BY <1>4, <3>1, <3>2, WatcherAssumption DEF Larger
    <3>5. ASSUME NEW h \in 1..(from - 1) PROVE c[h] = chain[h]
      <4>1. h + Lookback < Smaller(Len(c), Len(chain)) /\ h \in DOMAIN c /\ h \in DOMAIN chain
        BY <1>4, <1>5, <3>4, WatcherAssumption DEF Smaller
      <4> QED  BY <1>4, <4>1 DEF Shallow
    <3>6. to \in Int
      BY <1>4, WatcherAssumption DEF Smaller
    <3> HIDE DEF to
    <3> QED  BY <3>3, <3>4, <3>5, <3>6
  <2> QED  BY <2>1, <2>2
<1> HIDE DEF H, to
<1>8. BookedTo(chain, from - 1, {})
  <2> DEFINE j == from - 1
  <2>1. j \in Int /\ H \in Int /\ j <= H /\ BookedTo(c, H, {}) /\ {} \subseteq {}
        /\ \A h \in 1..j : c[h] = chain[h]
    BY <1>3, <1>4, <1>7
  <2> HIDE DEF j
  <2>2. BookedTo(chain, j, {})
    BY <2>1, BookedElsewhere
  <2> QED  BY <2>2 DEF j
<1>9. BookedTo(chain, from - 1, {})' /\ cursor'.height = H
  BY <1>1, <1>8, ScanSame DEF storageVars, H
<1>10. from - 1 <= Len(chain')
  BY <1>1, <1>4, <1>7
<1> QED  BY <1>1, <1>7, <1>9, <1>10 DEF PollScan, At, Scanning, to

\* A deposit that is marked reorged is on no chain to come; what is booked on the
\* poll's chain is not marked.
LEMMA VerifyScan ==
  ASSUME NoReturn, WatcherInv, NEW w \in Watchers, PollBook(w), PollScan(w), ReorgedGone,
         NEW o \in Outputs, VerifyDeposit(w, o)
  PROVE  PollScan(w)' /\ ReorgedGone'
<1> DEFINE block == deposits[o].block
           hash == CachedHash(w, block.height)
<1>1. /\ poll[w].step = "verify" /\ poll'[w].step = "verify" /\ poll[w].listed[o] # NoRow
      /\ poll'[w].next = poll[w].next /\ poll'[w].to = poll[w].to
      /\ UNCHANGED <<chain, cursor, bootstraps>>
  BY VerifyMoves
<1>2. /\ VerifyKnows(w) /\ BookedTo(chain, poll[w].next - 1, {})
      /\ poll[w].next - 1 <= Len(chain) /\ poll[w].next \in Nat
  BY <1>1, PollRange DEF PollBook, PollScan, At
<1>3. deposits[o] # NoRow /\ poll[w].listed[o] = block /\ block # AdminBlock
  BY <1>1, <1>2, PollShape DEF VerifyKnows, PollOK, At
<1>4. UNCHANGED storageVars \/ (block.hash # hash /\ MarkDepositReorged(o))
  BY <1>3, VerifyMoves, ZenonT(30)
<1>5. /\ block.height \in 1..Len(chain) /\ chain \in Chains /\ DOMAIN chain = 1..Len(chain) /\ Len(chain) \in Nat
      /\ Mined(o, block.height, block.hash)
  BY <1>3, RowBlocks, PollShape, ChainTypes
<1>6. hash = chain[block.height].hash
  BY <1>2, <1>5 DEF CachedHash, HashAt, VerifyKnows
<1>7. CASE UNCHANGED storageVars
  <2>1. UNCHANGED <<deposits, chain, cursor, bootstraps>>
    BY <1>1, <1>7 DEF storageVars
  <2> QED  BY <1>1, <2>1, ScanSame DEF PollScan, At, Scanning
<1>8. CASE block.hash # hash /\ MarkDepositReorged(o)
  <2>1. /\ deposits'[o].reorged /\ deposits'[o].block = block
        /\ \A u \in Outputs : u # o => deposits'[u] = deposits[u]
    BY <1>8, DepositMarked DEF WatcherInv, StorageInv
  <2>2. ASSUME NEW e \in Chains, e = chain \/ Len(e) > Len(chain) PROVE ~On(e, block)
    <3>1. CASE e = chain
      BY <1>6, <1>8, <3>1 DEF On
    <3>2. CASE Len(e) > Len(chain)
      <4>1. PICK c \in Chains : /\ c = chain \/ Len(c) < Len(chain)
                                /\ block.height \in 1..Len(c) /\ c[block.height].hash = block.hash
        BY <1>5 DEF Mined, Seen
      <4>2. Len(c) < Len(chain) /\ DOMAIN c = 1..Len(c)
        BY <1>6, <1>8, <4>1, ChainTypes
      <4> HIDE DEF block, hash
      <4>3. c[block.height].hash = e[block.height].hash => chain[block.height].hash = c[block.height].hash
        BY <1>5, <3>2, <4>1, <4>2 DEF NoReturn
      <4> QED  BY <1>6, <1>8, <4>1, <4>3 DEF On
    <3> QED  BY <2>2, <3>1, <3>2
  <2>3. ReorgedGone'
    <3>1. \A e \in Chains : e = chain \/ Len(e) > Len(chain) => ~On(e, block)
      BY <2>2
    <3> HIDE DEF block, hash
    <3>2. \A u \in Outputs : deposits'[u] # NoRow /\ deposits'[u].reorged =>
            \A e \in Chains : e = chain \/ Len(e) > Len(chain) => ~On(e, deposits'[u].block)
      BY <2>1, <3>1 DEF ReorgedGone
    <3> QED  BY <1>1, <3>2 DEF ReorgedGone, On
  <2>4. BookedTo(chain, poll[w].next - 1, {})'
    <3>1. SUFFICES ASSUME NEW h \in 1..(poll[w].next - 1), NEW u \in chain[h].pays, AnswersFor(h), Sender[u] # NoRow
                   PROVE  Recorded(u)' /\ deposits'[u].block = [height |-> h, hash |-> chain[h].hash]
      BY <1>1 DEF BookedTo, AnswersFor
    <3>2. Recorded(u) /\ deposits[u].block = [height |-> h, hash |-> chain[h].hash]
      BY <1>2, <3>1 DEF BookedTo
    <3>3. u # o
      BY <1>6, <1>8, <3>2
    <3>4. u \in Outputs
      <4>1. h \in 1..Len(chain)
        BY <1>2, <1>5, <3>1
      <4> QED  BY <1>5, <3>1, <4>1, ChainTypes
    <3> QED  BY <2>1, <3>2, <3>3, <3>4 DEF Recorded
  <2> QED  BY <1>1, <2>3, <2>4 DEF PollScan, At, Scanning
<1> QED  BY <1>4, <1>7, <1>8

LEMMA EndVerifyScan ==
  ASSUME WatcherInv, NEW w \in Watchers, PollScan(w), EndVerify(w)
  PROVE  PollScan(w)'
<1>1. /\ poll[w].step = "verify"
      /\ poll'[w].step = IF poll[w].next <= poll[w].to THEN "scan" ELSE "list"
      /\ poll'[w].next = poll[w].next /\ UNCHANGED <<deposits, chain, cursor, bootstraps>>
  BY EndVerifyMoves DEF storageVars
<1>2. /\ BookedTo(chain, poll[w].next - 1, {})
      /\ poll[w].next > poll[w].to => poll[w].next - 1 = cursor.height
      /\ poll[w].next \in Nat /\ poll[w].to \in Int
  BY <1>1, PollRange DEF PollScan, At
<1>3. \A P : BookedTo(chain, poll[w].next - 1, P)
  BY <1>2 DEF BookedTo
<1>4. BookedTo(chain, poll[w].next - 1, Pending(w)')
  BY <1>3
<1>5. BookedTo(chain, poll[w].next - 1, Pending(w))'
  BY <1>1, <1>4 DEF BookedTo, AnswersFor, Recorded
<1>6. CASE poll[w].next <= poll[w].to
  BY <1>1, <1>5, <1>6 DEF PollScan, At, Scanning
<1>7. CASE ~(poll[w].next <= poll[w].to)
  <2>1. BookedTo(chain, cursor.height, {})
    BY <1>2, <1>7
  <2>2. BookedTo(chain, cursor.height, {})'
    BY <1>1, <2>1, ScanSame
  <2> QED  BY <1>1, <1>7, <2>2 DEF PollScan, At, Scanning
<1> QED  BY <1>6, <1>7

LEMMA FetchScan ==
  ASSUME WatcherInv, NEW w \in Watchers, PollScan(w), FetchBlock(w)
  PROVE  PollScan(w)'
<1>0. PICK h \in Nat : h = poll[w].next
  BY PollRange
<1>1. /\ poll[w].step = "scan" /\ poll'[w].step = "scan" /\ poll[w].todo = {}
      /\ h \in 1..Len(chain) /\ poll'[w].next = h + 1 /\ poll'[w].output = poll[w].output
      /\ poll'[w].todo = chain[h].pays /\ UNCHANGED <<deposits, chain, cursor, bootstraps>>
  BY <1>0, FetchMoves DEF storageVars
<1>2. BookedTo(chain, h - 1, Pending(w)) /\ Pending(w) \subseteq Pending(w)'
  BY <1>0, <1>1 DEF PollScan, Scanning, Pending
<1>3. chain[h].pays \subseteq Pending(w)'
  BY <1>1 DEF Pending
<1>4. BookedTo(chain, h, Pending(w)')
  <2>1. \A k \in 1..h : k \in 1..(h - 1) \/ k = h
    OBVIOUS
  <2> QED  BY <1>2, <1>3, <2>1 DEF BookedTo
<1>5. BookedTo(chain, h, Pending(w))'
  BY <1>1, <1>4 DEF BookedTo, AnswersFor, Recorded
<1>6. h + 1 - 1 = h
  OBVIOUS
<1> QED  BY <1>1, <1>5, <1>6 DEF PollScan, At, Scanning

\* Passing an output is right: no account to credit, or a row at this very block,
\* which then is not marked reorged.
LEMMA LookScan ==
  ASSUME ManualOffChain, WatcherInv, CreditsKnown, NEW w \in Watchers, PollBook(w), PollScan(w), ReorgedGone,
         NEW o \in Outputs, LookAtOutput(w, o)
  PROVE  PollScan(w)'
<1> DEFINE seen == deposits[o] # NoRow
           same == seen /\ deposits[o].block.hash = poll[w].hash
           pass == same \/ (~seen /\ Sender[o] = NoRow)
           k == poll[w].next - 1
<1>1. /\ poll[w].step = "scan" /\ o \in poll[w].todo
      /\ poll'[w].step = IF pass THEN "scan" ELSE IF seen THEN "remine" ELSE "insert"
      /\ poll'[w].output = IF pass THEN NoRow ELSE o
      /\ poll'[w].todo = poll[w].todo \ {o} /\ poll'[w].next = poll[w].next
      /\ UNCHANGED <<deposits, chain, cursor, bootstraps>>
  BY LookMoves DEF storageVars
<1>2. ScanKnows(w) /\ BookedTo(chain, k, Pending(w)) /\ poll[w].output = NoRow
  BY <1>1, PollShape DEF PollBook, PollScan, Scanning, PollOK, Writing
<1>3. /\ o \in chain[k].pays /\ k \in 1..Len(chain) /\ poll[w].hash = chain[k].hash /\ chain \in Chains
      /\ DOMAIN chain = 1..Len(chain) /\ Len(chain) \in Nat
  BY <1>1, <1>2, PollRange DEF ScanKnows, Scanning
<1>4. pass /\ Sender[o] # NoRow => Recorded(o) /\ deposits[o].block = [height |-> k, hash |-> chain[k].hash]
  <2>1. SUFFICES ASSUME same PROVE Recorded(o) /\ deposits[o].block = [height |-> k, hash |-> chain[k].hash]
    OBVIOUS
  <2>2. deposits[o].block # AdminBlock
    BY <1>3, <2>1 DEF CreditsKnown, ManualOffChain
  <2> HIDE DEF k
  <2>3. deposits[o].block = [height |-> k, hash |-> chain[k].hash] /\ On(chain, deposits[o].block)
    BY <1>3, <2>1, <2>2, SameHash
  <2> QED  BY <1>3, <2>1, <2>3 DEF ReorgedGone, Recorded
<1>5. BookedTo(chain, k, Pending(w)')
  <2>1. SUFFICES ASSUME NEW h \in 1..k, NEW u \in chain[h].pays \ Pending(w)', AnswersFor(h), Sender[u] # NoRow
                 PROVE  Recorded(u) /\ deposits[u].block = [height |-> h, hash |-> chain[h].hash]
    BY DEF BookedTo
  <2>2. h \in 1..Len(chain) /\ u \in Outputs
    BY <1>3, <2>1, ChainTypes
  <2>3. CASE u = o
    <3>1. pass
      BY <1>1, <2>1, <2>3 DEF Pending
    <3> HIDE DEF k, pass
    <3>2. h = k
      BY <1>3, <2>1, <2>2, <2>3, PaidOnce
    <3> QED  BY <1>4, <2>1, <2>3, <3>1, <3>2
  <2>4. CASE u # o
    <3>1. u \notin Pending(w)
      BY <1>1, <1>2, <2>1, <2>2, <2>4, WatcherAssumption DEF Pending
    <3> QED  BY <1>2, <2>1, <3>1 DEF BookedTo
  <2> QED  BY <2>3, <2>4
<1> HIDE DEF pass
<1>6. BookedTo(chain, k, Pending(w))'
  BY <1>1, <1>5 DEF BookedTo, AnswersFor, Recorded, k
<1>7. poll'[w].step = "insert" => deposits'[poll'[w].output] = NoRow
  BY <1>1 DEF pass
<1> QED  BY <1>1, <1>6, <1>7 DEF PollScan, At, Scanning, k

LEMMA WriteScan ==
  ASSUME WatcherInv, NEW w \in Watchers, PollBook(w), PollScan(w), ReorgedGone, WriteOutput(w)
  PROVE  PollScan(w)' /\ ReorgedGone'
<1> DEFINE k == poll[w].next - 1
           block == [height |-> k, hash |-> poll[w].hash]
<1>1. /\ poll[w].step \in {"remine", "insert"}
      /\ poll'[w].step = "scan" /\ poll'[w].output = NoRow
      /\ poll'[w].todo = poll[w].todo /\ poll'[w].next = poll[w].next
      /\ UNCHANGED <<chain, cursor, bootstraps>>
  BY WriteMoves
<1>2. PICK o \in Outputs : o = poll[w].output
  BY WriteMoves
<1>3. /\ ScanKnows(w) /\ BookedTo(chain, k, Pending(w))
      /\ poll[w].step = "insert" => deposits[o] = NoRow
  BY <1>1, <1>2 DEF PollBook, PollScan, Scanning, At
<1>4. /\ o \in chain[k].pays /\ k \in 1..Len(chain) /\ poll[w].hash = chain[k].hash /\ chain \in Chains
      /\ DOMAIN chain = 1..Len(chain) /\ Len(chain) \in Nat
  BY <1>1, <1>2, <1>3, PollRange DEF ScanKnows, Scanning, Writing
<1>5. /\ \A u \in Outputs : u # o => deposits'[u] = deposits[u]
      /\ deposits'[o] # NoRow /\ ~deposits'[o].reorged /\ deposits'[o].block = block
  BY <1>1, <1>2, <1>3, WriteRows
<1>6. ReorgedGone'
  BY <1>1, <1>5 DEF ReorgedGone, On
<1>7. ASSUME NEW h \in 1..k, NEW u \in chain[h].pays \ Pending(w)', AnswersFor(h), Sender[u] # NoRow
      PROVE  Recorded(u)' /\ deposits'[u].block = [height |-> h, hash |-> chain[h].hash]
  <2>1. h \in 1..Len(chain) /\ u \in Outputs
    BY <1>4, <1>7, ChainTypes
  <2>2. CASE u = o
    <3>1. h = k
      <4> HIDE DEF k
      <4> QED  BY <1>4, <1>7, <2>1, <2>2, PaidOnce
    <3> QED  BY <1>4, <1>5, <2>2, <3>1 DEF Recorded
  <2>3. CASE u # o
    <3>1. u \notin Pending(w)
      BY <1>1, <1>2, <1>7, <2>3 DEF Pending
    <3>2. Recorded(u) /\ deposits[u].block = [height |-> h, hash |-> chain[h].hash]
      BY <1>3, <1>7, <3>1 DEF BookedTo
    <3> QED  BY <1>5, <2>1, <2>3, <3>2 DEF Recorded
  <2> QED  BY <2>2, <2>3
<1>8. BookedTo(chain, k, Pending(w))'
  BY <1>1, <1>7 DEF BookedTo, AnswersFor
<1> QED  BY <1>1, <1>6, <1>8 DEF PollScan, At, Scanning

LEMMA MoveCursorScan ==
  ASSUME WatcherInv, NEW w \in Watchers, PollScan(w), MoveCursor(w)
  PROVE  PollScan(w)'
<1>1. /\ poll[w].step = "scan" /\ poll[w].todo = {} /\ poll[w].next = poll[w].to + 1
      /\ poll[w].output = NoRow /\ cursor' = [height |-> poll[w].to, hash |-> poll[w].hash]
      /\ poll'[w].step = "list" /\ UNCHANGED <<deposits, chain, bootstraps>>
  BY MoveCursorMoves DEF storageVars
<1>2. /\ BookedTo(chain, poll[w].next - 1, Pending(w)) /\ poll[w].to \in Int /\ poll[w].to <= Len(chain)
      /\ chain \in Chains
  BY <1>1, PollRange DEF PollScan, Scanning
<1>3. cursor'.height = poll[w].to /\ poll[w].next - 1 = poll[w].to
  BY <1>1, <1>2
<1>4. BookedTo(chain, poll[w].to, {})
  <2>1. \A h \in 1..poll[w].to : chain[h].pays \cap Pending(w) = {}
    <3>1. Pending(w) = {NoRow}
      BY <1>1 DEF Pending
    <3>2. \A h \in 1..poll[w].to : h \in 1..Len(chain)
      BY <1>2, ChainTypes
    <3> QED  BY <1>2, <3>1, <3>2, ChainTypes, WatcherAssumption
  <2> QED  BY <1>2, <1>3, <2>1 DEF BookedTo
<1>5. BookedTo(chain, cursor.height, {})'
  BY <1>1, <1>3, <1>4 DEF BookedTo, AnswersFor, Recorded
<1> QED  BY <1>1, <1>5 DEF PollScan, At, Scanning

LEMMA ListScan ==
  ASSUME WatcherInv, NEW w \in Watchers, PollScan(w), ListUncredited(w)
  PROVE  PollScan(w)'
<1>1. /\ poll[w].step = "list" /\ poll'[w].step = "credit"
      /\ UNCHANGED <<deposits, chain, cursor, bootstraps>>
  BY ListMoves DEF storageVars
<1> QED  BY <1>1, ScanSame DEF PollScan, At, Scanning

LEMMA CreditScan ==
  ASSUME WatcherInv, NEW w \in Watchers, PollBook(w), PollScan(w), ReorgedGone, NEW o \in Outputs, CreditAtDepth(w, o)
  PROVE  PollScan(w)' /\ ReorgedGone'
<1>1. /\ poll[w].step = "credit" /\ poll'[w].step = "credit"
      /\ CreditDeposit(o) \/ UNCHANGED storageVars
      /\ UNCHANGED <<chain, cursor, bootstraps>>
  BY CreditingMoves
<1>2. /\ \A u \in Outputs : deposits'[u] # NoRow /\ deposits'[u].reorged =>
                             deposits[u] # NoRow /\ deposits[u].reorged /\ deposits'[u].block = deposits[u].block
      /\ RowsKept
  <2>1. CASE CreditDeposit(o)
    BY <2>1, DepositCredited DEF WatcherInv, StorageInv, Recorded, RowsKept
  <2>2. CASE UNCHANGED storageVars
    BY <2>2 DEF storageVars, Recorded, RowsKept
  <2> QED  BY <1>1, <2>1, <2>2
<1>3. ReorgedGone'
  BY <1>1, <1>2 DEF ReorgedGone, On
<1>4. /\ BookedTo(chain, cursor.height, {}) /\ cursor.height \in Nat /\ cursor.height <= Len(chain)
      /\ chain \in Chains /\ Len(chain) \in Nat
  BY <1>1, PollRange DEF PollScan, PollBook, CreditKnows
<1>5. BookedTo(chain, cursor.height, {})'
  BY <1>1, <1>2, <1>4, BookedStays
<1> QED  BY <1>1, <1>3, <1>5 DEF PollScan, At, Scanning

LEMMA EndScan ==
  ASSUME WatcherInv, NEW w \in Watchers, PollBook(w), PollScan(w), EndPoll(w)
  PROVE  PollScan(w)'
<1>1. /\ poll[w].step = "credit" /\ poll'[w].step = "idle"
      /\ UNCHANGED <<deposits, chain, cursor, bootstraps>>
  BY EndMoves DEF storageVars, IdlePoll
<1>2. CreditKnows(w) /\ BookedTo(chain, cursor.height, {}) /\ chain \in Chains
  BY <1>1 DEF PollBook, PollScan, WatcherInv
<1>3. ScanStands
  BY <1>2 DEF CreditKnows, ScanStands
<1> QED  BY <1>1, <1>3, ScanSame DEF PollScan, At, Scanning

LEMMA ChainScan ==
  ASSUME Orderly, WatcherInv, NEW w \in Watchers, PollBook(w), PollScan(w), ReorgedGone, MoveChain
  PROVE  PollScan(w)' /\ ReorgedGone'
<1>1. /\ UNCHANGED <<deposits, cursor, poll, bootstraps>> /\ chain \in Chains /\ chain' \in Chains
      /\ Len(chain') > Len(chain)
      /\ IsPrefix(chain, chain') \/ poll[w].step = "idle"
  BY DEF MoveChain, WatcherInv, storageVars, Orderly, Idle, At
<1>2. Len(chain) \in Nat /\ Len(chain') \in Nat /\ \A e \in Chains : Len(e) \in Nat
  BY <1>1, ChainTypes
<1>3. ReorgedGone'
  <2>1. \A e \in Chains : e = chain' \/ Len(e) > Len(chain') => Len(e) > Len(chain)
    BY <1>1, <1>2
  <2> QED  BY <1>1, <2>1 DEF ReorgedGone, On
<1>4. ScanStands' <=> ScanStands
  BY <1>1 DEF ScanStands, CursorIn, BookedTo, AnswersFor, Recorded, HashIn
<1>5. CASE poll[w].step = "idle"
  BY <1>1, <1>3, <1>4, <1>5 DEF PollScan, At, Scanning
<1>6. CASE IsPrefix(chain, chain')
  <2>1. \A h \in 1..Len(chain) : chain'[h] = chain[h]
    BY <1>1, <1>6, Grown
  <2>2. ASSUME NEW k \in Int, NEW P, k <= Len(chain), BookedTo(chain, k, P)
        PROVE  BookedTo(chain', k, P)
    <3>1. \A h \in 1..k : chain[h] = chain'[h]
      BY <1>2, <2>1, <2>2
    <3> QED  BY <2>2, <3>1 DEF BookedTo
  <2>3. /\ poll[w].next \in Nat /\ poll[w].to \in Int
        /\ Scanning(w) => poll[w].next - 1 <= Len(chain)
        /\ cursor # NoRow => cursor.height \in 0..Len(chain)
    BY PollRange
  <2>4. At(w, "verify") => BookedTo(chain', poll[w].next - 1, {}) /\ poll[w].next - 1 <= Len(chain')
    BY <1>1, <1>2, <2>2, <2>3 DEF PollScan
  <2>5. Scanning(w) => BookedTo(chain', poll[w].next - 1, Pending(w))
    BY <2>2, <2>3 DEF PollScan
  <2>6. poll[w].step \in {"list", "credit"} => BookedTo(chain', cursor.height, {})
    <3>1. poll[w].step \in {"list", "credit"} => cursor # NoRow
      BY DEF PollBook, CreditKnows
    <3>2. cursor # NoRow => cursor.height \in Int /\ cursor.height <= Len(chain)
      BY <1>2, <2>3
    <3> QED  BY <2>2, <3>1, <3>2 DEF PollScan
  <2>7. \A k, P : BookedTo(chain', k, P) => BookedTo(chain, k, P)'
    BY <1>1 DEF BookedTo, AnswersFor, Recorded
  <2> QED  BY <1>1, <1>3, <1>4, <2>4, <2>5, <2>6, <2>7 DEF PollScan, At, Scanning, Pending
<1> QED  BY <1>1, <1>5, <1>6

LEMMA ManualScan ==
  ASSUME ManualOffChain, WatcherInv, NEW w \in Watchers, PollBook(w), PollScan(w), ReorgedGone,
         NEW o \in ManualOutputs, NEW i \in Identities, ManualCredit(o, i)
  PROVE  PollScan(w)' /\ ReorgedGone'
<1>1. /\ UNCHANGED <<chain, cursor, poll, bootstraps>> /\ o \in Outputs
      /\ deposits[o] = NoRow /\ ~deposits'[o].reorged
      /\ \A u \in Outputs : u # o => deposits'[u] = deposits[u]
  BY ManualRows, WatcherAssumption
<1>2. ReorgedGone'
  BY <1>1 DEF ReorgedGone, On
<1>3. RowsKept
  BY <1>1 DEF RowsKept, Recorded
<1>4. /\ \A c \in Chains : \A k, P : k \in Nat /\ k <= Len(c) /\ BookedTo(c, k, P) => BookedTo(c, k, P)'
      /\ \A k, P : k \in Nat /\ k <= Len(chain) /\ BookedTo(chain, k, P) => BookedTo(chain, k, P)'
  <2>1. \A c \in Chains : \A k, P : k \in Nat /\ k <= Len(c) /\ BookedTo(c, k, P) => BookedTo(c, k, P)'
    BY <1>1, <1>3, BookedStays
  <2>2. chain \in Chains
    BY DEF WatcherInv
  <2>3. ASSUME NEW k \in Nat, NEW P, k <= Len(chain), BookedTo(chain, k, P) PROVE BookedTo(chain, k, P)'
    <3>1. PICK c \in Chains : c = chain
      BY <2>2
    <3>2. BookedTo(c, k, P)'
      BY <2>1, <2>3, <3>1
    <3> QED  BY <1>1, <3>1, <3>2 DEF BookedTo
  <2> QED  BY <2>1, <2>3
<1>5. /\ poll[w].next \in Nat /\ poll[w].to \in Int /\ chain \in Chains /\ Len(chain) \in Nat
      /\ At(w, "verify") \/ Scanning(w) => poll[w].next - 1 \in Nat
      /\ Scanning(w) => poll[w].next - 1 <= Len(chain)
      /\ cursor # NoRow => cursor.height \in 0..Len(chain)
  BY PollRange
<1>6. ScanStands => ScanStands'
  <2>1. CASE cursor = NoRow
    BY <1>1, <2>1 DEF ScanStands
  <2>2. ASSUME cursor # NoRow, ScanStands PROVE ScanStands'
    <3>1. PICK c \in Chains : CursorIn(c) /\ BookedTo(c, cursor.height, {})
      BY <2>2 DEF ScanStands
    <3>2. cursor.height \in Nat /\ cursor.height <= Len(c)
      BY <3>1, ChainTypes DEF CursorIn
    <3>3. BookedTo(c, cursor.height, {})'
      BY <1>1, <1>4, <3>1, <3>2
    <3>4. CursorIn(c)'
      BY <1>1, <3>1 DEF CursorIn, HashIn
    <3> QED  BY <1>1, <2>2, <3>3, <3>4 DEF ScanStands
  <2> QED  BY <2>1, <2>2
<1>7. At(w, "verify") => BookedTo(chain, poll[w].next - 1, {})'
  BY <1>1, <1>4, <1>5 DEF PollScan
<1>8. Scanning(w) => BookedTo(chain, poll[w].next - 1, Pending(w))'
  <2>1. Scanning(w) => BookedTo(chain, poll[w].next - 1, Pending(w))
    BY DEF PollScan
  <2>2. Pending(w)' = Pending(w) /\ poll'[w].next = poll[w].next
    BY <1>1 DEF Pending
  <2> QED  BY <1>1, <1>4, <1>5, <2>1, <2>2
<1>9. At(w, "insert") => deposits'[poll[w].output] = NoRow
  <2>1. SUFFICES ASSUME At(w, "insert") PROVE poll[w].output \in Outputs /\ poll[w].output # o
    BY <1>1 DEF PollScan
  <2>2. /\ poll[w].output \in chain[poll[w].next - 1].pays /\ poll[w].output \in Outputs
        /\ poll[w].next - 1 \in 1..Len(chain)
    <3>1. Writing(w) /\ Scanning(w)
      BY <2>1 DEF At, Writing, Scanning
    <3>2. poll[w].next >= 2 /\ poll[w].output \in chain[poll[w].next - 1].pays
      BY <3>1 DEF PollBook, ScanKnows
    <3> QED  BY <1>5, <3>1, <3>2, PollShape DEF PollOK
  <2> QED  BY <1>5, <2>2, ChainTypes DEF ManualOffChain
<1>10. poll[w].step \in {"list", "credit"} => BookedTo(chain, cursor.height, {})'
  <2>1. poll[w].step \in {"list", "credit"} => cursor # NoRow
    BY DEF PollBook, CreditKnows
  <2> QED  BY <1>1, <1>4, <1>5, <2>1 DEF PollScan
<1> QED  BY <1>1, <1>2, <1>5, <1>6, <1>7, <1>8, <1>9, <1>10 DEF PollScan, At, Scanning

LEMMA ScanInit == WatcherInit => ScanInv
<1> SUFFICES ASSUME WatcherInit PROVE ScanInv
  OBVIOUS
<1>1. ReorgedGone
  BY DEF WatcherInit, StorageInit, ReorgedGone
<1>2. \A w \in Watchers : PollScan(w)
  BY DEF WatcherInit, PollScan, IdlePoll, ScanStands, At, Scanning
<1> QED  BY <1>1, <1>2 DEF ScanInv

LEMMA ScanNext ==
  ASSUME Orderly, ManualOffChain, Shallow, NoReturn,
         WatcherInv, BookInv, BookInv', CountInv, ScanInv, [WatcherNext]_vars
  PROVE  ScanInv'
<1>1. PICK w \in Watchers : Watchers = {w}
  BY DEF Orderly
<1>2. PollBook(w) /\ PollBook(w)' /\ PollScan(w) /\ ReorgedGone /\ CreditsKnown
  BY DEF BookInv, ScanInv, CountInv
<1>3. SUFFICES PollScan(w)' /\ ReorgedGone'
  BY <1>1 DEF ScanInv
<1>4. CASE MoveChain
  BY <1>2, <1>4, ChainScan
<1>5. ASSUME NEW o \in ManualOutputs, NEW i \in Identities, ManualCredit(o, i)
      PROVE  PollScan(w)' /\ ReorgedGone'
  BY <1>2, <1>5, ManualScan
<1>6. UNCHANGED <<deposits, chain>> => ReorgedGone'
  BY <1>2 DEF ReorgedGone, On
<1>7. CASE PollStep(w)
  <2>1. /\ StartPoll(w) => PollScan(w)'
        /\ ReadCursor(w) => PollScan(w)'
        /\ Bootstrap(w) => PollScan(w)'
        /\ CursorHolds(w) \/ CursorGone(w) => PollScan(w)'
        /\ EndVerify(w) => PollScan(w)'
        /\ FetchBlock(w) => PollScan(w)'
    BY <1>2, StartScan, ReadScan, BootstrapScan, RangeScan, EndVerifyScan, FetchScan
  <2>2. /\ MoveCursor(w) => PollScan(w)'
        /\ ListUncredited(w) => PollScan(w)'
        /\ EndPoll(w) => PollScan(w)'
        /\ \A o \in Outputs : LookAtOutput(w, o) => PollScan(w)'
    BY <1>2, MoveCursorScan, ListScan, EndScan, LookScan
  <2>3. /\ WriteOutput(w) => PollScan(w)' /\ ReorgedGone'
        /\ \A o \in Outputs : VerifyDeposit(w, o) \/ CreditAtDepth(w, o) => PollScan(w)' /\ ReorgedGone'
    BY <1>2, WriteScan, VerifyScan, CreditScan
  <2>4. PollScan(w)'
    BY <1>7, <2>1, <2>2, <2>3 DEF PollStep
  <2>5. ReorgedGone'
    <3>1. CASE UNCHANGED storageVars /\ UNCHANGED chain
      BY <1>6, <3>1 DEF storageVars
    <3>2. UNCHANGED chain
      BY <1>7, StepsKeepChain
    <3>3. CASE ~UNCHANGED storageVars
      <4>1. \/ WriteOutput(w) \/ \E o \in Outputs : VerifyDeposit(w, o) \/ CreditAtDepth(w, o)
            \/ \E o \in ManualOutputs, i \in Identities : ManualCredit(o, i)
        BY <1>1, <3>3, StorageMoves
      <4> QED  BY <1>5, <2>3, <4>1
    <3> QED  BY <3>1, <3>2, <3>3
  <2> QED  BY <2>4, <2>5
<1>8. ASSUME NEW v \in Watchers, PollFails(v) PROVE FALSE
  BY <1>8 DEF PollFails, Orderly, WatcherInv
<1>9. CASE UNCHANGED vars
  <2>1. UNCHANGED <<deposits, chain, cursor, poll, bootstraps>>
    BY <1>9 DEF vars, watcherVars, storageVars
  <2> QED  BY <1>2, <1>6, <2>1 DEF PollScan, ScanStands, BookedTo, AnswersFor, CursorIn, Recorded, HashIn,
           At, Scanning, Pending
<1> QED  BY <1>1, <1>4, <1>5, <1>7, <1>8, <1>9 DEF WatcherNext

\* One watcher whose node never replaces more than the lookback, nor goes back to
\* a block it replaced, skips no payment and keeps no row of a lost block: the
\* check of one block's hash, with which a poll begins, speaks for all of them.
THEOREM CursorSpeaksForBook ==
  ASSUME Orderly, ManualOffChain, Shallow, NoReturn
  PROVE  WatcherSpec => []CursorCertifies
<1>1. WatcherInit => CountInv
  BY CountInit
<1>2. WatcherInv /\ BookInv /\ BookInv' /\ CountInv /\ ScanInv /\ [WatcherNext]_vars => ScanInv'
  BY ScanNext
<1>3. WatcherInv /\ BookInv /\ CountInv /\ [WatcherNext]_vars => CountInv'
  BY CountNext
<1>4. WatcherInv /\ BookInv /\ ScanInv => CursorCertifies
  <2> SUFFICES ASSUME WatcherInv, BookInv, ScanInv, Idle, cursor # NoRow, HashAt(cursor.height) = cursor.hash
               PROVE  /\ \A o \in Outputs : Recorded(o) => deposits[o].block = AdminBlock \/ OnChain(deposits[o].block)
                      /\ \A h \in 1..cursor.height : \A o \in chain[h].pays :
                           AnswersFor(h) /\ Sender[o] # NoRow => Recorded(o) /\ deposits[o].block = BlockAt(h)
    BY DEF CursorCertifies
  <2>1. PICK w \in Watchers : PollBook(w) /\ PollScan(w) /\ poll[w].step = "idle"
    BY DEF Orderly, BookInv, ScanInv, Idle, At
  <2>2. BookStands /\ ScanStands
    BY <2>1 DEF PollBook, PollScan
  <2>3. /\ chain \in Chains /\ DOMAIN chain = 1..Len(chain) /\ Len(chain) \in Nat
        /\ cursor.height \in 0..Len(chain)
    BY <2>1, PollRange
  <2>4. CursorIn(chain)
    BY <2>3 DEF CursorIn, HashAt, HashIn
  <2>5. RowsOn(chain)
    BY <2>2, <2>4, BookOnCursor
  <2>6. PICK c \in Chains : CursorIn(c) /\ BookedTo(c, cursor.height, {})
    BY <2>2 DEF ScanStands
  <2>7. \A h \in 1..cursor.height : chain[h] = c[h]
    BY <2>3, <2>4, <2>6, Agree DEF CursorIn
  <2>8. BookedTo(chain, cursor.height, {})
    BY <2>6, <2>7 DEF BookedTo
  <2>9. \A h \in 1..cursor.height : BlockAt(h) = [height |-> h, hash |-> chain[h].hash]
    BY <2>3 DEF BlockAt, HashAt
  <2>10. \A o \in Outputs : Recorded(o) => deposits[o].block = AdminBlock \/ OnChain(deposits[o].block)
    BY <2>3, <2>5 DEF RowsOn, On, OnChain
  <2>11. \A h \in 1..cursor.height : \A o \in chain[h].pays :
           AnswersFor(h) /\ Sender[o] # NoRow => Recorded(o) /\ deposits[o].block = BlockAt(h)
    BY <2>8, <2>9 DEF BookedTo
  <2> QED  BY <2>10, <2>11
<1> QED  BY <1>1, <1>2, <1>3, <1>4, WatcherInvAlways, BookAlways, ScanInit, PTL DEF WatcherSpec

-----------------------------------------------------------------------------
(* Any number of watchers, whose polls may end anywhere, on a chain that   *)
(* only grows.                                                             *)

Grows == \A c, d \in Chains : Len(c) <= Len(d) => \A h \in 1..Len(c) : c[h] = d[h]

\* Some watcher bootstrapped at height k or below.
Reaches(k) == \E b \in bootstraps : b <= k

HistoryPoll(w) ==
  LET p == poll[w] IN
  /\ At(w, "check") => Reaches(p.cursor.height)
  /\ At(w, "verify") => p.listed = NothingListed /\ Reaches(p.next - 1)
  /\ Scanning(w) => Reaches(p.next - 1)
  /\ p.todo # {} \/ Writing(w) => Reaches(p.next - 2)

\* Cursors, scans and rows stay above the lowest height a watcher was started at.
HistoryInv ==
  /\ bootstraps # {} => \E m \in bootstraps : \A b \in bootstraps : m <= b
  /\ cursor # NoRow => Reaches(cursor.height)
  /\ \A o \in Outputs : deposits[o] # NoRow /\ deposits[o].block # AdminBlock => Reaches(deposits[o].block.height - 1)
  /\ \A w \in Watchers : HistoryPoll(w)

\* Bootstraps only add up.
LEMMA ReachesMore ==
  ASSUME bootstraps \subseteq Nat, bootstraps \subseteq bootstraps'
  PROVE  \A k : Reaches(k) => Reaches(k)'
BY DEF Reaches

\* What was a block once still is one.
LEMMA GrownHad ==
  ASSUME Grows, WatcherInv, NEW h, NEW x, HadBlock(h, x)
  PROVE  h \in 0..Len(chain) /\ HashAt(h) = x
<1>1. PICK c \in Chains : Seen(c) /\ h \in 0..Len(c) /\ HashIn(c, h) = x
  BY DEF HadBlock
<1>2. chain \in Chains /\ Len(chain) \in Nat /\ Len(c) \in Nat
  BY ChainTypes DEF WatcherInv
<1>3. Len(c) <= Len(chain) /\ \A k \in 1..Len(c) : c[k] = chain[k]
  BY <1>1, <1>2 DEF Grows, Seen
<1> QED  BY <1>1, <1>2, <1>3 DEF HashIn, HashAt

LEMMA OthersStay ==
  ASSUME WatcherInv, NEW w \in Watchers, PollStep(w) \/ PollFails(w), NEW v \in Watchers, v # w
  PROVE  poll'[v] = poll[v]
<1>0. poll = [u \in Watchers |-> poll[u]]
  BY DEF WatcherInv
<1>1. StartPoll(w) => poll'[v] = poll[v]
  BY <1>0 DEF StartPoll
<1>2. ReadCursor(w) => poll'[v] = poll[v]
  BY <1>0 DEF ReadCursor
<1>3. Bootstrap(w) => poll'[v] = poll[v]
  BY <1>0 DEF Bootstrap
<1>4. CursorHolds(w) => poll'[v] = poll[v]
  BY <1>0 DEF CursorHolds
<1>5. CursorGone(w) => poll'[v] = poll[v]
  BY <1>0 DEF CursorGone
<1>6. EndVerify(w) => poll'[v] = poll[v]
  BY <1>0 DEF EndVerify
<1>7. FetchBlock(w) => poll'[v] = poll[v]
  BY <1>0 DEF FetchBlock
<1>8. WriteOutput(w) => poll'[v] = poll[v]
  BY <1>0 DEF WriteOutput
<1>9. MoveCursor(w) => poll'[v] = poll[v]
  BY <1>0 DEF MoveCursor
<1>10. ListUncredited(w) => poll'[v] = poll[v]
  BY <1>0 DEF ListUncredited
<1>11. EndPoll(w) \/ PollFails(w) => poll'[v] = poll[v]
  BY <1>0 DEF EndPoll, PollFails
<1>12. \A o \in Outputs : VerifyDeposit(w, o) => poll'[v] = poll[v]
  BY <1>0 DEF VerifyDeposit
<1>13. \A o \in Outputs : LookAtOutput(w, o) => poll'[v] = poll[v]
  BY <1>0 DEF LookAtOutput
<1>14. \A o \in Outputs : CreditAtDepth(w, o) => poll'[v] = poll[v]
  BY <1>0 DEF CreditAtDepth
<1> QED  BY <1>1, <1>2, <1>3, <1>4, <1>5, <1>6, <1>7, <1>8, <1>9, <1>10, <1>11, <1>12, <1>13, <1>14
         DEF PollStep

\* The rows a step of a poll writes, apart from those it marks or credits.
RowAbove(o) == deposits[o] # NoRow /\ deposits[o].block # AdminBlock => Reaches(deposits[o].block.height - 1)

\* What a step of a poll has to leave behind.
HistoryMoves(w) ==
  /\ bootstraps \subseteq bootstraps'
  /\ bootstraps' # {} => \E m \in bootstraps' : \A b \in bootstraps' : m <= b
  /\ cursor' # NoRow => Reaches(cursor.height)'
  /\ \A o \in Outputs : RowAbove(o)'
  /\ HistoryPoll(w)'

\* A step that leaves cursor, bootstraps and rows' blocks alone.
LEMMA OnlyPollHistory ==
  ASSUME HistoryInv, NEW w \in Watchers, UNCHANGED <<cursor, bootstraps>>,
         \A o \in Outputs : deposits'[o] # NoRow /\ deposits'[o].block # AdminBlock =>
                              deposits[o] # NoRow /\ deposits'[o].block = deposits[o].block,
         HistoryPoll(w)'
  PROVE  HistoryMoves(w)
<1>1. \A k : Reaches(k)' <=> Reaches(k)
  BY DEF Reaches
<1>2. \A o \in Outputs : RowAbove(o)'
  BY <1>1 DEF HistoryInv, RowAbove
<1> QED  BY <1>1, <1>2 DEF HistoryInv, HistoryMoves

\* Outside the scan a poll knows nothing about heights.
LEMMA RestingHistory ==
  ASSUME WatcherInv', NEW w \in Watchers,
         poll'[w].step \in {"idle", "start", "bootstrap", "list", "credit"}
  PROVE  HistoryPoll(w)'
BY DEF WatcherInv, PollOK, HistoryPoll, Scanning, Writing, At

LEMMA QuietHistory ==
  ASSUME WatcherInv, WatcherInv', HistoryInv, NEW w \in Watchers,
         \/ StartPoll(w) \/ ReadCursor(w) \/ EndVerify(w) \/ ListUncredited(w)
         \/ EndPoll(w) \/ PollFails(w)
  PROVE  HistoryMoves(w)
<1>1. HistoryPoll(w) /\ PollOK(w)' /\ UNCHANGED <<cursor, bootstraps, deposits>>
  <2>1. StartPoll(w) => UNCHANGED <<cursor, bootstraps, deposits>>
    BY DEF StartPoll, storageVars
  <2>2. ReadCursor(w) => UNCHANGED <<cursor, bootstraps, deposits>>
    BY DEF ReadCursor, storageVars
  <2>3. EndVerify(w) => UNCHANGED <<cursor, bootstraps, deposits>>
    BY DEF EndVerify, storageVars
  <2>4. ListUncredited(w) => UNCHANGED <<cursor, bootstraps, deposits>>
    BY DEF ListUncredited, storageVars
  <2>5. EndPoll(w) \/ PollFails(w) => UNCHANGED <<cursor, bootstraps, deposits>>
    BY DEF EndPoll, PollFails, storageVars
  <2> QED  BY <2>1, <2>2, <2>3, <2>4, <2>5 DEF HistoryInv, WatcherInv
<1>2. \A k : Reaches(k)' <=> Reaches(k)
  BY <1>1 DEF Reaches
<1>3. HistoryPoll(w)'
  <2>1. CASE StartPoll(w)
    BY <2>1, StartMoves, RestingHistory
  <2>2. CASE ReadCursor(w)
    <3>1. CASE cursor = NoRow
      BY <2>2, <3>1, ReadMoves, RestingHistory
    <3>2. CASE cursor # NoRow
      <4>1. poll'[w].step = "check" /\ poll'[w].cursor = cursor /\ Reaches(cursor.height)
        BY <2>2, <3>2, ReadMoves DEF HistoryInv
      <4> QED  BY <1>1, <1>2, <4>1 DEF HistoryPoll, PollOK, Scanning, Writing, At
    <3> QED  BY <3>1, <3>2
  <2>3. CASE EndVerify(w)
    <3>1. /\ poll[w].step = "verify" /\ poll'[w].next = poll[w].next
          /\ poll'[w].step \in {"scan", "list"} /\ poll'[w].todo = {}
      BY <2>3, EndVerifyMoves
    <3> QED  BY <1>1, <1>2, <3>1 DEF HistoryPoll, Scanning, Writing, At
  <2>4. CASE ListUncredited(w)
    BY <2>4, ListMoves, RestingHistory
  <2>5. CASE EndPoll(w) \/ PollFails(w)
    <3>1. poll'[w] = IdlePoll
      BY <2>5, PollShape DEF EndPoll, PollFails
    <3> QED  BY <3>1, RestingHistory DEF IdlePoll
  <2> QED  BY <2>1, <2>2, <2>3, <2>4, <2>5
<1> QED  BY <1>1, <1>3, OnlyPollHistory

LEMMA BootstrapHistory ==
  ASSUME WatcherInv, WatcherInv', HistoryInv, NEW w \in Watchers, Bootstrap(w)
  PROVE  HistoryMoves(w)
<1>1. PICK height \in 0..Len(chain) :
        /\ cursor' = BlockAt(height) /\ bootstraps' = bootstraps \cup {height}
        /\ \/ poll'[w] = IdlePoll
           \/ poll'[w].step = "check" /\ poll'[w].cursor = cursor'
        /\ UNCHANGED storageVars
  BY BootstrapMoves
<1>2. /\ Len(chain) \in Nat /\ bootstraps \subseteq Nat /\ bootstraps' \subseteq Nat
      /\ height \in Nat /\ UNCHANGED deposits
  BY <1>1, PollShape DEF WatcherInv, storageVars
<1>3. \E m \in bootstraps' : \A b \in bootstraps' : m <= b
  <2>1. CASE bootstraps = {}
    BY <1>1, <1>2, <2>1
  <2>2. CASE bootstraps # {}
    <3>1. PICK m \in bootstraps : \A b \in bootstraps : m <= b
      BY <2>2 DEF HistoryInv
    <3>2. CASE m <= height
      BY <1>1, <1>2, <3>1, <3>2
    <3>3. CASE height < m
      BY <1>1, <1>2, <3>1, <3>3
    <3> QED  BY <1>2, <3>1, <3>2, <3>3
  <2> QED  BY <2>1, <2>2
<1>4. \A k : Reaches(k) => Reaches(k)'
  BY <1>1, <1>2, ReachesMore
<1>5. cursor'.height = height /\ Reaches(cursor.height)'
  BY <1>1, <1>2 DEF BlockAt, Reaches
<1>6. HistoryPoll(w)'
  <2>1. CASE poll'[w] = IdlePoll
    BY <2>1, RestingHistory DEF IdlePoll
  <2>2. CASE poll'[w].step = "check" /\ poll'[w].cursor = cursor'
    BY <1>5, <2>2 DEF WatcherInv, PollOK, HistoryPoll, Scanning, Writing, At
  <2> QED  BY <1>1, <2>1, <2>2
<1>7. \A o \in Outputs : RowAbove(o)'
  BY <1>2, <1>4 DEF HistoryInv, RowAbove
<1> QED  BY <1>1, <1>3, <1>5, <1>6, <1>7 DEF HistoryMoves

\* The cursor block is there: nothing is listed, the scan begins behind it.
LEMMA RangeHistory ==
  ASSUME Grows, WatcherInv, WatcherInv', HistoryInv, NEW w \in Watchers,
         CursorHolds(w) \/ CursorGone(w)
  PROVE  HistoryMoves(w)
<1>1. PICK from \in Nat \ {0} :
        /\ poll[w].step = "check" /\ poll'[w].step = "verify" /\ poll'[w].next = from
        /\ \/ /\ CursorOnChain(w) /\ from = poll[w].cursor.height + 1
              /\ poll'[w].listed = NothingListed
           \/ ~CursorOnChain(w)
        /\ UNCHANGED <<storageVars, chain, cursor, bootstraps>>
  BY RangeMoves
<1>2. HadBlock(poll[w].cursor.height, poll[w].cursor.hash)
  BY <1>1 DEF WatcherInv, PollOK, At
<1>3. CursorOnChain(w) /\ poll[w].cursor.height \in 0..Len(chain)
  BY <1>2, GrownHad DEF CursorOnChain
<1>4. from - 1 = poll[w].cursor.height /\ poll'[w].listed = NothingListed
  <2>1. Len(chain) \in Nat
    BY PollShape
  <2> QED  BY <1>1, <1>3, <2>1
<1>5. Reaches(from - 1)
  BY <1>1, <1>4 DEF HistoryInv, HistoryPoll, At
<1>6. HistoryPoll(w)'
  BY <1>1, <1>4, <1>5 DEF WatcherInv, PollOK, HistoryPoll, Scanning, Writing, At, Reaches
<1> QED  BY <1>1, <1>6, OnlyPollHistory DEF storageVars

LEMMA ScanHistory ==
  ASSUME WatcherInv, WatcherInv', HistoryInv, NEW w \in Watchers,
         FetchBlock(w) \/ \E o \in Outputs : LookAtOutput(w, o)
  PROVE  HistoryMoves(w)
<1>1. HistoryPoll(w) /\ PollOK(w)'
  BY DEF HistoryInv, WatcherInv
<1>2. CASE FetchBlock(w)
  <2>1. /\ poll[w].step = "scan" /\ poll'[w].step = "scan" /\ poll[w].next \in 1..Len(chain)
        /\ poll'[w].next = poll[w].next + 1
        /\ UNCHANGED <<storageVars, chain, cursor, bootstraps>>
    BY <1>2, FetchMoves
  <2>2. Reaches(poll[w].next - 1) /\ Reaches(poll[w].next)
    <3>1. PICK b \in bootstraps : b <= poll[w].next - 1
      BY <1>1, <2>1 DEF HistoryPoll, Scanning, Reaches
    <3>2. b \in Nat /\ poll[w].next \in Nat
      BY <2>1 DEF WatcherInv, PollOK
    <3> QED  BY <3>1, <3>2 DEF Reaches
  <2>3. poll'[w].next - 1 = poll[w].next /\ poll'[w].next - 2 = poll[w].next - 1
    BY <2>1, PollShape
  <2>4. HistoryPoll(w)'
    BY <2>1, <2>2, <2>3 DEF HistoryPoll, Scanning, Writing, At, Reaches
  <2> QED  BY <2>1, <2>4, OnlyPollHistory DEF storageVars
<1>3. ASSUME NEW o \in Outputs, LookAtOutput(w, o) PROVE HistoryMoves(w)
  <2>1. /\ poll[w].step = "scan" /\ poll'[w].step \in {"scan", "remine", "insert"}
        /\ poll[w].todo # {} /\ poll'[w].next = poll[w].next
        /\ UNCHANGED <<storageVars, chain, cursor, bootstraps>>
    BY <1>3, LookMoves
  <2>2. Reaches(poll[w].next - 1) /\ Reaches(poll[w].next - 2)
    BY <1>1, <2>1 DEF HistoryPoll, Scanning
  <2>3. HistoryPoll(w)'
    BY <2>1, <2>2 DEF HistoryPoll, Scanning, Writing, At, Reaches
  <2> QED  BY <2>1, <2>3, OnlyPollHistory DEF storageVars
<1> QED  BY <1>2, <1>3

LEMMA WriteHistory ==
  ASSUME WatcherInv, WatcherInv', HistoryInv, NEW w \in Watchers, WriteOutput(w)
  PROVE  HistoryMoves(w)
<1>1. PICK o \in Outputs :
        /\ \A u \in Outputs : u # o => deposits'[u] = deposits[u]
        /\ \/ UNCHANGED storageVars
           \/ deposits'[o].block = [height |-> poll[w].next - 1, hash |-> poll[w].hash]
  BY WriteRows
<1>2. /\ poll[w].step \in {"remine", "insert"} /\ poll'[w].step = "scan"
      /\ poll'[w].next = poll[w].next /\ UNCHANGED <<chain, cursor, bootstraps>>
  BY WriteMoves
<1>3. Reaches(poll[w].next - 1) /\ Reaches(poll[w].next - 2) /\ poll[w].next \in Nat
  BY <1>2 DEF HistoryInv, HistoryPoll, Scanning, Writing, WatcherInv, PollOK
<1>4. HistoryPoll(w)'
  BY <1>2, <1>3 DEF HistoryPoll, Scanning, Writing, At, Reaches
<1>5. \A k : Reaches(k)' <=> Reaches(k)
  BY <1>2 DEF Reaches
<1>6. \A u \in Outputs : RowAbove(u)'
  <2>1. ASSUME NEW u \in Outputs, deposits'[u] = deposits[u] PROVE RowAbove(u)'
    BY <1>5, <2>1 DEF HistoryInv, RowAbove
  <2>2. ASSUME deposits'[o].block = [height |-> poll[w].next - 1, hash |-> poll[w].hash]
        PROVE  RowAbove(o)'
    <3>1. deposits'[o].block.height = poll[w].next - 1
      BY <2>2
    <3>2. deposits'[o].block.height - 1 = poll[w].next - 2
      BY <1>3, <3>1
    <3> QED  BY <1>3, <1>5, <3>2 DEF RowAbove
  <2> QED  BY <1>1, <2>1, <2>2 DEF storageVars
<1>7. cursor' # NoRow => Reaches(cursor.height)'
  BY <1>2, <1>5 DEF HistoryInv
<1> QED  BY <1>2, <1>4, <1>6, <1>7 DEF HistoryInv, HistoryMoves

LEMMA MoveCursorHistory ==
  ASSUME WatcherInv, WatcherInv', HistoryInv, NEW w \in Watchers, MoveCursor(w)
  PROVE  HistoryMoves(w)
<1>1. /\ poll[w].step = "scan" /\ poll[w].next = poll[w].to + 1
      /\ cursor' = [height |-> poll[w].to, hash |-> poll[w].hash]
      /\ poll'[w].step = "list" /\ UNCHANGED <<storageVars, chain, bootstraps>>
  BY MoveCursorMoves
<1>2. poll[w].next - 1 = poll[w].to /\ cursor'.height = poll[w].to
  BY <1>1, PollRange
<1>3. Reaches(poll[w].to)
  BY <1>1, <1>2 DEF HistoryInv, HistoryPoll, Scanning
<1>4. HistoryPoll(w)'
  BY <1>1, RestingHistory
<1>5. \A k : Reaches(k)' <=> Reaches(k)
  BY <1>1 DEF Reaches
<1>6. \A o \in Outputs : RowAbove(o)'
  BY <1>1, <1>5 DEF HistoryInv, RowAbove, storageVars
<1>7. Reaches(cursor.height)'
  BY <1>2, <1>3, <1>5
<1> QED  BY <1>1, <1>4, <1>6, <1>7 DEF HistoryInv, HistoryMoves

LEMMA VerifyHistory ==
  ASSUME WatcherInv, HistoryInv, NEW w \in Watchers, NEW o \in Outputs
  PROVE  ~VerifyDeposit(w, o)
<1> SUFFICES ASSUME VerifyDeposit(w, o) PROVE FALSE
  OBVIOUS
<1>1. poll[w].step = "verify" /\ poll[w].listed[o] # NoRow
  BY DEF VerifyDeposit, At
<1>2. poll[w].listed = NothingListed
  BY <1>1 DEF HistoryInv, HistoryPoll, At
<1> QED  BY <1>1, <1>2 DEF NothingListed

LEMMA CreditHistory ==
  ASSUME WatcherInv, WatcherInv', HistoryInv, NEW w \in Watchers, NEW o \in Outputs,
         CreditAtDepth(w, o)
  PROVE  HistoryMoves(w)
<1>1. /\ poll'[w].step = "credit" /\ UNCHANGED <<chain, cursor, bootstraps>>
      /\ CreditDeposit(o) \/ UNCHANGED storageVars
  BY CreditingMoves
<1>2. HistoryPoll(w)'
  BY <1>1, RestingHistory
<1>3. StorageTypeOK
  BY PollShape
<1>4. \A u \in Outputs : deposits'[u] # NoRow /\ deposits'[u].block # AdminBlock =>
                           deposits[u] # NoRow /\ deposits'[u].block = deposits[u].block
  <2>1. CASE CreditDeposit(o)
    BY <1>3, <2>1, DepositCredited
  <2> QED  BY <1>1, <2>1 DEF storageVars
<1> QED  BY <1>1, <1>2, <1>4, OnlyPollHistory

LEMMA PollHistory ==
  ASSUME Grows, WatcherInv, WatcherInv', HistoryInv, NEW w \in Watchers,
         PollStep(w) \/ PollFails(w)
  PROVE  HistoryMoves(w)
BY QuietHistory, BootstrapHistory, RangeHistory, ScanHistory, WriteHistory, MoveCursorHistory,
   VerifyHistory, CreditHistory DEF PollStep

LEMMA HistoryNext ==
  ASSUME Grows, WatcherInv, WatcherInv', HistoryInv, [WatcherNext]_vars
  PROVE  HistoryInv'
<1>1. ASSUME NEW w \in Watchers, PollStep(w) \/ PollFails(w) PROVE HistoryInv'
  <2>1. HistoryMoves(w)
    BY <1>1, PollHistory
  <2>2. \A k : Reaches(k) => Reaches(k)'
    BY <2>1, ReachesMore DEF HistoryMoves, WatcherInv
  <2>3. ASSUME NEW v \in Watchers, v # w PROVE HistoryPoll(v)'
    <3>1. poll'[v] = poll[v] /\ HistoryPoll(v)
      BY <1>1, <2>3, OthersStay DEF HistoryInv
    <3> QED  BY <2>2, <3>1 DEF HistoryPoll, Scanning, Writing, At
  <2>4. \A v \in Watchers : HistoryPoll(v)'
    BY <2>1, <2>3 DEF HistoryMoves
  <2> QED  BY <2>1, <2>4 DEF HistoryMoves, HistoryInv, RowAbove
<1>2. ASSUME UNCHANGED <<cursor, poll, bootstraps>>,
             \A o \in Outputs : deposits'[o] # NoRow /\ deposits'[o].block # AdminBlock =>
                                  deposits[o] # NoRow /\ deposits'[o].block = deposits[o].block
      PROVE  HistoryInv'
  <2>1. \A k : Reaches(k)' <=> Reaches(k)
    BY <1>2 DEF Reaches
  <2>2. \A v \in Watchers : HistoryPoll(v)'
    BY <1>2, <2>1 DEF HistoryInv, HistoryPoll, Scanning, Writing, At
  <2>3. \A o \in Outputs : RowAbove(o)'
    BY <1>2, <2>1 DEF HistoryInv, RowAbove
  <2> QED  BY <1>2, <2>1, <2>2, <2>3 DEF HistoryInv, RowAbove
<1>3. CASE MoveChain \/ UNCHANGED vars
  BY <1>2, <1>3 DEF MoveChain, vars, watcherVars, storageVars
<1>4. ASSUME NEW o \in ManualOutputs, NEW i \in Identities, ManualCredit(o, i) PROVE HistoryInv'
  BY <1>2, <1>4, ManualRows, WatcherAssumption
<1> QED  BY <1>1, <1>3, <1>4 DEF WatcherNext

\* A watcher without startHeight leaves alone what was paid before it was first
\* started: whatever number of watchers run, wherever their polls end, on a
\* chain that only grows.
THEOREM HistoryStaysIgnored == ASSUME Grows PROVE WatcherSpec => []HistoryIgnored
<1>1. WatcherInit => HistoryInv
  BY DEF WatcherInit, StorageInit, HistoryInv, HistoryPoll, IdlePoll, At, Scanning, Writing
<1>2. WatcherInv /\ WatcherInv' /\ HistoryInv /\ [WatcherNext]_vars => HistoryInv'
  BY HistoryNext
<1>3. WatcherInv /\ HistoryInv => HistoryIgnored
  <2> SUFFICES ASSUME WatcherInv, HistoryInv, NEW o \in Outputs, deposits[o] # NoRow,
                      deposits[o].block # AdminBlock
               PROVE  deposits[o].block.height > Min(bootstraps)
    BY DEF HistoryIgnored
  <2>1. PICK b \in bootstraps : b <= deposits[o].block.height - 1
    BY DEF HistoryInv, Reaches
  <2>2. PICK m \in bootstraps : \A k \in bootstraps : m <= k
    BY <2>1 DEF HistoryInv
  <2>3. deposits[o].block.height \in 1..Len(chain) /\ Len(chain) \in Nat /\ bootstraps \subseteq Nat
    BY RowBlocks, ChainTypes DEF WatcherInv
  <2>4. Min(bootstraps) \in bootstraps /\ \A k \in bootstraps : Min(bootstraps) <= k
    BY <2>2 DEF Min
  <2> DEFINE first == Min(bootstraps)
             height == deposits[o].block.height
  <2> HIDE DEF first, height
  <2>5. height \in 1..Len(chain) /\ b <= height - 1
    BY <2>1, <2>3 DEF height
  <2>6. first \in bootstraps /\ first <= b
    BY <2>4 DEF first
  <2>7. first \in Nat /\ b \in Nat /\ height \in Nat
    BY <2>3, <2>5, <2>6
  <2>8. height > first
    BY <2>5, <2>6, <2>7
  <2> QED  BY <2>8 DEF first, height
<1> QED  BY <1>1, <1>2, <1>3, WatcherInvAlways, PTL DEF WatcherSpec
=============================================================================
