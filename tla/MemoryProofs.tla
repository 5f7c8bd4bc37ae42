---------------------------- MODULE MemoryProofs ----------------------------
(***************************************************************************)
(* Proofs about MemoryStorage, for any identities, requests, deposits and  *)
(* amounts: the Maps and the ledger array are the tables of Storage.       *)
(***************************************************************************)
EXTENDS MemoryStorage, SumProofs

-----------------------------------------------------------------------------
(* Array.filter: RowsBehind follows the array as it grows.                 *)

\* f collects the chosen rows among the first k, as RowsBehind does.
Collects(f, k, rows, i, afterId, shown) ==
  f = [n \in 0..k |->
         IF n = 0 THEN << >>
         ELSE IF rows[n].identity = i /\ rows[n].id > afterId
              THEN Append(f[n - 1], shown[n])
         ELSE f[n - 1]]

LEMMA CollectsExists ==
  ASSUME NEW rows, NEW i, NEW afterId, NEW shown, NEW k \in Nat
  PROVE  \E f : Collects(f, k, rows, i, afterId, shown)
<1> DEFINE C(f, n) == Collects(f, n, rows, i, afterId, shown)
           S == {n \in Nat : ~ \E f : C(f, n)}
<1> SUFFICES ASSUME S # {} PROVE FALSE
  OBVIOUS
<1>1. PICK n \in S : \A m \in S : n <= m
  <2>1. S \in SUBSET Nat
    OBVIOUS
  <2> HIDE DEF S
  <2> QED  BY <2>1, SmallestNumber
<1>2. CASE n = 0
  <2>1. C([m \in 0..0 |-> << >>], 0)
    BY DEF Collects
  <2> QED  BY <1>1, <1>2, <2>1
<1>3. CASE n # 0
  <2>1. n - 1 \in Nat /\ n - 1 \notin S
    BY <1>1, <1>3
  <2>2. PICK g : C(g, n - 1)
    BY <2>1
  <2> DEFINE h == [m \in 0..n |->
                     IF m = 0 THEN << >>
                     ELSE IF rows[m].identity = i /\ rows[m].id > afterId
                          THEN Append(g[m - 1], shown[m])
                     ELSE g[m - 1]]
  <2>3. \A m \in 0..n - 1 : m \in 0..n
    BY <2>1
  <2>4. \A m \in 0..n - 1 : h[m] = g[m]
    <3>1. g = [m \in 0..n - 1 |->
                IF m = 0 THEN << >>
                ELSE IF rows[m].identity = i /\ rows[m].id > afterId
                     THEN Append(g[m - 1], shown[m])
                ELSE g[m - 1]]
      BY <2>2 DEF Collects
    <3> QED  BY <2>3, <3>1
  <2>5. \A m \in 0..n : m # 0 => h[m - 1] = g[m - 1]
    <3>1. \A m \in 0..n : m # 0 => m - 1 \in 0..n - 1
      BY <2>1
    <3> HIDE DEF h
    <3> QED  BY <2>4, <3>1
  <2>6. C(h, n)
    <3>1. h = [m \in 0..n |->
                IF m = 0 THEN << >>
                ELSE IF rows[m].identity = i /\ rows[m].id > afterId
                     THEN Append(h[m - 1], shown[m])
                ELSE h[m - 1]]
      BY <2>5
    <3> QED  BY <3>1 DEF Collects
  <2> QED  BY <1>1, <2>6
<1> QED  BY <1>2, <1>3

\* Two arrays with the same first k rows, shown the same.
StartAlike(k, rows, shown, more, others) ==
  \A n \in 1..k : rows[n] = more[n] /\ shown[n] = others[n]

\* What is collected depends on the rows passed, not on those to come.
LEMMA CollectsAgree ==
  ASSUME NEW rows, NEW more, NEW i, NEW afterId, NEW shown, NEW others,
         NEW k \in Nat, NEW l \in Nat, k <= l,
         StartAlike(k, rows, shown, more, others),
         NEW f, Collects(f, k, rows, i, afterId, shown),
         NEW g, Collects(g, l, more, i, afterId, others)
  PROVE  \A n \in 0..k : f[n] = g[n]
<1> DEFINE S == {n \in 0..k : f[n] # g[n]}
<1> SUFFICES ASSUME S # {} PROVE FALSE
  OBVIOUS
<1>1. PICK n \in S : \A m \in S : n <= m
  <2>1. S \in SUBSET Nat
    OBVIOUS
  <2> HIDE DEF S
  <2> QED  BY <2>1, SmallestNumber
<1>2. n \in 0..l /\ n \in 0..k /\ (n # 0 => n - 1 \in 0..k)
  BY <1>1
<1>3. CASE n = 0
  BY <1>1, <1>2, <1>3 DEF Collects
<1>4. CASE n # 0
  <2>1. f[n - 1] = g[n - 1]
    BY <1>1, <1>2, <1>4
  <2>2. n \in 1..k
    BY <1>1, <1>4
  <2>3. rows[n] = more[n] /\ shown[n] = others[n]
    BY <2>2 DEF StartAlike
  <2>4. f[n] = IF rows[n].identity = i /\ rows[n].id > afterId
               THEN Append(f[n - 1], shown[n]) ELSE f[n - 1]
    BY <1>2, <1>4 DEF Collects
  <2>5. g[n] = IF more[n].identity = i /\ more[n].id > afterId
               THEN Append(g[n - 1], others[n]) ELSE g[n - 1]
    BY <1>2, <1>4 DEF Collects
  <2>6. f[n] = g[n]
    BY <2>1, <2>3, <2>4, <2>5
  <2> QED  BY <1>1, <2>6
<1> QED  BY <1>3, <1>4

LEMMA RowsBehindCollects ==
  ASSUME NEW rows, Len(rows) \in Nat, NEW i, NEW afterId, NEW shown
  PROVE  \E f : /\ Collects(f, Len(rows), rows, i, afterId, shown)
                /\ RowsBehind(rows, i, afterId, shown) = f[Len(rows)]
<1> DEFINE f == CHOOSE f : Collects(f, Len(rows), rows, i, afterId, shown)
<1>1. Collects(f, Len(rows), rows, i, afterId, shown)
  BY CollectsExists
<1>2. RowsBehind(rows, i, afterId, shown) = f[Len(rows)]
  BY DEF RowsBehind, Collects
<1> QED  BY <1>1, <1>2

LEMMA NoRowsBehind ==
  \A i, afterId, shown : RowsBehind(<< >>, i, afterId, shown) = << >>
<1> SUFFICES ASSUME NEW i, NEW afterId, NEW shown
             PROVE  RowsBehind(<< >>, i, afterId, shown) = << >>
  OBVIOUS
<1>1. Len(<< >>) = 0
  OBVIOUS
<1>2. PICK f : /\ Collects(f, Len(<< >>), << >>, i, afterId, shown)
               /\ RowsBehind(<< >>, i, afterId, shown) = f[Len(<< >>)]
  BY <1>1, RowsBehindCollects
<1> QED  BY <1>1, <1>2 DEF Collects

\* The same rows, shown the same.
LEMMA SameRowsBehind ==
  ASSUME NEW rows, Len(rows) \in Nat, NEW i, NEW afterId, NEW shown, NEW others,
         \A n \in 1..Len(rows) : shown[n] = others[n]
  PROVE  RowsBehind(rows, i, afterId, shown) = RowsBehind(rows, i, afterId, others)
<1>1. PICK f : /\ Collects(f, Len(rows), rows, i, afterId, shown)
               /\ RowsBehind(rows, i, afterId, shown) = f[Len(rows)]
  BY RowsBehindCollects
<1>2. PICK g : /\ Collects(g, Len(rows), rows, i, afterId, others)
               /\ RowsBehind(rows, i, afterId, others) = g[Len(rows)]
  BY RowsBehindCollects
<1> DEFINE l == Len(rows)
<1>3. l \in Nat /\ l <= l /\ StartAlike(l, rows, shown, rows, others)
  BY DEF StartAlike
<1>4. \A n \in 0..l : f[n] = g[n]
  <2>1. Collects(f, l, rows, i, afterId, shown) /\ Collects(g, l, rows, i, afterId, others)
    BY <1>1, <1>2
  <2> HIDE DEF l
  <2> QED  BY <1>3, <2>1, CollectsAgree
<1> QED  BY <1>1, <1>2, <1>3, <1>4

\* A row that is appended is a new last one, if it is chosen.
LEMMA RowBehindAppended ==
  ASSUME NEW E, NEW rows \in Seq(E), NEW e \in E, NEW i, NEW afterId, NEW shown, NEW others,
         \A n \in 1..Len(rows) : shown[n] = others[n]
  PROVE  RowsBehind(Append(rows, e), i, afterId, others) =
           IF e.identity = i /\ e.id > afterId
           THEN Append(RowsBehind(rows, i, afterId, shown), others[Len(rows) + 1])
           ELSE RowsBehind(rows, i, afterId, shown)
<1> DEFINE longer == Append(rows, e)
           l == Len(rows)
<1>1. /\ l \in Nat /\ Len(longer) = l + 1 /\ longer[l + 1] = e
      /\ \A n \in 1..l : longer[n] = rows[n]
  OBVIOUS
<1>2. PICK f : /\ Collects(f, l, rows, i, afterId, shown)
               /\ RowsBehind(rows, i, afterId, shown) = f[l]
  BY <1>1, RowsBehindCollects
<1> HIDE DEF longer, l
<1>3. PICK g : /\ Collects(g, l + 1, longer, i, afterId, others)
               /\ RowsBehind(longer, i, afterId, others) = g[l + 1]
  <2>1. Len(longer) \in Nat
    BY <1>1
  <2> QED  BY <1>1, <2>1, RowsBehindCollects
<1>4. \A n \in 0..l : f[n] = g[n]
  <2>1. l + 1 \in Nat /\ l <= l + 1
    BY <1>1
  <2>2. StartAlike(l, rows, shown, longer, others)
    BY <1>1 DEF StartAlike, l
  <2> QED  BY <1>1, <1>2, <1>3, <2>1, <2>2, CollectsAgree
<1>5. g[l + 1] = IF e.identity = i /\ e.id > afterId
                 THEN Append(g[l], others[l + 1]) ELSE g[l]
  <2>1. l + 1 \in 0..l + 1 /\ l + 1 # 0 /\ (l + 1) - 1 = l
    BY <1>1
  <2> QED  BY <1>1, <1>3, <2>1 DEF Collects
<1>6. f[l] = g[l]
  BY <1>1, <1>4
<1> QED  BY <1>2, <1>3, <1>5, <1>6 DEF longer, l

-----------------------------------------------------------------------------
(* The invariant the tables are read off with.                             *)

DepositRow == [id: Nat, identity: Identities, amount: Nat, block: Blocks,
               credited: BOOLEAN, reorged: BOOLEAN]

Reference == ({"request"} \X RequestIds) \cup ({"deposit"} \X Nat)

Entry == [id: Nat \ {0}, identity: Identities, reason: Tables!Reasons, amount: Int, ref: Reference,
          balanceAfter: Int]

MapsOK ==
  /\ DOMAIN identities \subseteq Identities
  /\ identities \in [DOMAIN identities -> Int]
  /\ DOMAIN spentRequests \subseteq RequestIds
  /\ spentRequests \in [DOMAIN spentRequests -> Row]
  /\ DOMAIN depositsByKey \subseteq Outputs
  /\ depositsByKey \in [DOMAIN depositsByKey -> DepositRow]
  /\ entries \in Seq(Entry)
  /\ nextDepositId \in Nat
  /\ reaping \in [cutoff: Int, left: SUBSET RequestIds]

\* A deposit is addressed by its id alone, and ids are given out in order.
IdsAddress ==
  \A o \in DOMAIN depositsByKey :
    /\ depositsByKey[o].id < nextDepositId
    /\ \A p \in DOMAIN depositsByKey : depositsByKey[p].id = depositsByKey[o].id => p = o

\* The ledger refers to deposits that were there when it was written.
OldRef(ref) == ref[1] # "request" => ref[2] < nextDepositId

RefsOld == \A n \in 1..Len(entries) : OldRef(entries[n].ref)

\* The reaper's loop visits rows that are there.
LoopOK == reaping.left \subseteq DOMAIN spentRequests

MemoryInv == MapsOK /\ IdsAddress /\ RefsOld /\ LoopOK

-----------------------------------------------------------------------------
(* The tables, as the Maps and the array change.                           *)

\* A row that is set.
LEMMA RowSet ==
  ASSUME MapsOK, NEW r \in RequestIds, NEW row \in Row,
         spentRequests' = Put(spentRequests, r, row)
  PROVE  /\ Requests' = [Requests EXCEPT ![r] = row]
         /\ DOMAIN spentRequests' = DOMAIN spentRequests \cup {r}
         /\ spentRequests' \in [DOMAIN spentRequests' -> Row]
<1>1. /\ DOMAIN spentRequests' = DOMAIN spentRequests \cup {r}
      /\ spentRequests' \in [DOMAIN spentRequests \cup {r} -> Row]
      /\ spentRequests'[r] = row
      /\ \A x \in DOMAIN spentRequests : x # r => spentRequests'[x] = spentRequests[x]
  <2>1. spentRequests \in [DOMAIN spentRequests -> Row]
    BY DEF MapsOK
  <2> HIDE DEF Row
  <2> QED  BY <2>1 DEF Put
<1> QED  BY <1>1 DEF Requests, Has

\* A row whose status changes.
LEMMA StatusSet ==
  ASSUME MapsOK, NEW r \in RequestIds, NEW from, NEW to,
         to \in {"reserved", "committed", "error", "insufficient"}, Transition(r, from, to)
  PROVE  /\ Requests' = [Requests EXCEPT ![r].status = to]
         /\ DOMAIN spentRequests' = DOMAIN spentRequests
         /\ spentRequests' \in [DOMAIN spentRequests' -> Row]
         /\ Requests[r] # NoRow /\ Requests[r].status = from
         /\ Requests[r] = spentRequests[r] /\ Requests[r] \in Row
<1>1. /\ r \in DOMAIN spentRequests /\ spentRequests[r].status = from
      /\ spentRequests' = [spentRequests EXCEPT ![r].status = to]
      /\ spentRequests[r] \in Row
  BY DEF Transition, Has, MapsOK
<1>2. [spentRequests[r] EXCEPT !.status = to] \in Row
  BY <1>1 DEF Row
<1>3. DOMAIN spentRequests' = DOMAIN spentRequests
  BY <1>1
<1>4. spentRequests' \in [DOMAIN spentRequests' -> Row]
  BY <1>1, <1>2, <1>3 DEF MapsOK
<1>5. Requests[r] = spentRequests[r]
  BY <1>1 DEF Requests, Has
<1>6. Requests' = [Requests EXCEPT ![r].status = to]
  BY <1>1, <1>3 DEF Requests, Has
<1>7. Requests[r] # NoRow
  BY <1>1, <1>5, RowAssumption
<1> QED  BY <1>1, <1>3, <1>4, <1>5, <1>6, <1>7

\* While no reaper runs, nothing is left to refund.
LEMMA NothingToRefund ==
  ASSUME Running
  PROVE  ToRefund = {} /\ Tables!WriteTx
BY DEF Running, ToRefund, Tables!WriteTx

LEMMA StillNothingToRefund ==
  ASSUME Running, reaping' = reaping
  PROVE  ToRefund' = ToRefund
BY DEF Running, ToRefund

\* Deposits the ledger refers to are still found, under the same key.
KeysKept == \A id \in Nat : id < nextDepositId => KeyOf(id)' = KeyOf(id)

LEMMA ReferredKept ==
  ASSUME KeysKept, NEW ref \in Reference, OldRef(ref)
  PROVE  Referred(ref)' = Referred(ref)
<1>1. CASE ref[1] = "request"
  BY <1>1 DEF Referred
<1>2. CASE ref[1] # "request"
  <2>1. ref[2] \in Nat /\ ref[2] < nextDepositId
    BY <1>2 DEF Reference, OldRef
  <2>2. KeyOf(ref[2])' = KeyOf(ref[2])
    BY <2>1 DEF KeysKept
  <2> QED  BY <1>2, <2>2 DEF Referred
<1> QED  BY <1>1, <1>2

LEMMA EntriesKept ==
  ASSUME MapsOK, RefsOld, KeysKept, NEW n \in 1..Len(entries), NEW e, e = entries[n]
  PROVE  TableEntry(e)' = TableEntry(entries[n])
<1>1. e \in Entry /\ OldRef(e.ref)
  BY DEF MapsOK, RefsOld
<1>2. e.ref \in Reference
  BY <1>1 DEF Entry
<1>3. Referred(e.ref)' = Referred(e.ref)
  BY <1>1, <1>2, ReferredKept
<1> QED  BY <1>3 DEF TableEntry

\* No line is added.
LEMMA StatementsKept ==
  ASSUME MapsOK, RefsOld, KeysKept, entries' = entries
  PROVE  Statements' = Statements
<1> DEFINE shown == [n \in DOMAIN entries |-> TableEntry(entries[n])]
           after == [n \in DOMAIN entries' |-> TableEntry(entries[n])']
<1>1. entries \in Seq(Entry)
  BY DEF MapsOK
<1>2. Len(entries) \in Nat /\ DOMAIN entries = 1..Len(entries)
  BY <1>1
<1>3. ASSUME NEW n \in 1..Len(entries) PROVE after[n] = shown[n]
  <2>1. PICK e : e = entries[n]
    OBVIOUS
  <2>2. TableEntry(e)' = TableEntry(entries[n])
    BY <2>1, EntriesKept
  <2>3. after[n] = TableEntry(e)'
    BY <1>2, <2>1 DEF TableEntry
  <2> QED  BY <1>2, <2>2, <2>3
<1>4. Statements = [i \in Identities |-> RowsBehind(entries, i, 0, shown)]
  BY DEF Statements
<1>5. Statements' = [i \in Identities |-> RowsBehind(entries, i, 0, after)]
  BY DEF Statements
<1> HIDE DEF shown, after
<1>6. \A i \in Identities : RowsBehind(entries, i, 0, after) = RowsBehind(entries, i, 0, shown)
  BY <1>2, <1>3, SameRowsBehind
<1> QED  BY <1>4, <1>5, <1>6

\* One line is added, to the statement of its identity.
LEMMA LineAdded ==
  ASSUME MapsOK, RefsOld, KeysKept, NEW e \in Entry, entries' = Append(entries, e),
         NEW line, line = TableEntry(e)'
  PROVE  Statements' = [Statements EXCEPT ![e.identity] = Append(@, line)]
<1> DEFINE shown == [n \in DOMAIN entries |-> TableEntry(entries[n])]
           after == [n \in DOMAIN entries' |-> TableEntry(entries[n])']
           l == Len(entries)
<1>1. entries \in Seq(Entry)
  BY DEF MapsOK
<1>2. /\ l \in Nat /\ DOMAIN entries = 1..l
      /\ DOMAIN entries' = 1..l + 1
      /\ entries'[l + 1] = e
      /\ \A n \in 1..l : entries'[n] = entries[n]
  BY <1>1
<1>3. ASSUME NEW n \in 1..Len(entries) PROVE after[n] = shown[n]
  <2>1. PICK x : x = entries[n]
    OBVIOUS
  <2>2. TableEntry(x)' = TableEntry(entries[n])
    BY <2>1, EntriesKept
  <2>3. after[n] = TableEntry(x)'
    BY <1>2, <2>1 DEF TableEntry
  <2> QED  BY <1>2, <2>2, <2>3
<1>4. after[l + 1] = line
  BY <1>2 DEF TableEntry
<1>5. Statements = [i \in Identities |-> RowsBehind(entries, i, 0, shown)]
  BY DEF Statements
<1>6. Statements' = [i \in Identities |-> RowsBehind(Append(entries, e), i, 0, after)]
  BY DEF Statements
<1> HIDE DEF shown, after
<1>7. e.id > 0 /\ e.identity \in Identities
  BY DEF Entry
<1>8. ASSUME NEW i \in Identities
      PROVE  RowsBehind(Append(entries, e), i, 0, after) =
               IF e.identity = i THEN Append(RowsBehind(entries, i, 0, shown), line)
               ELSE RowsBehind(entries, i, 0, shown)
  <2>1. \A n \in 1..Len(entries) : shown[n] = after[n]
    BY <1>3
  <2>2. RowsBehind(Append(entries, e), i, 0, after) =
          IF e.identity = i /\ e.id > 0
          THEN Append(RowsBehind(entries, i, 0, shown), after[Len(entries) + 1])
          ELSE RowsBehind(entries, i, 0, shown)
    BY <1>1, <2>1, RowBehindAppended
  <2> QED  BY <1>4, <1>7, <2>2
<1> QED  BY <1>5, <1>6, <1>7, <1>8

\* What Move writes.
Moved(i, reason, amount, ref) ==
  /\ identities' = [identities EXCEPT ![i] = @ + amount]
  /\ entries' = Append(entries, [id |-> Len(entries) + 1, identity |-> i, reason |-> reason,
                                 amount |-> amount, ref |-> ref,
                                 balanceAfter |-> identities[i] + amount])

\* A movement of a balance with its line, in the tables.
LEMMA MoveShown ==
  ASSUME MapsOK, RefsOld, KeysKept,
         NEW i \in DOMAIN identities, NEW reason \in Tables!Reasons, NEW amount \in Int,
         NEW ref \in Reference, NEW target, target = Referred(ref)',
         Moved(i, reason, amount, ref)
  PROVE  /\ DOMAIN identities' = DOMAIN identities
         /\ identities' \in [DOMAIN identities' -> Int]
         /\ Balances[i] \in Int
         /\ Balances' = [Balances EXCEPT ![i] = @ + amount]
         /\ Statements' = [Statements EXCEPT ![i] =
              Append(@, [reason |-> reason, amount |-> amount, ref |-> target,
                         balanceAfter |-> Balances[i] + amount])]
         /\ \E e \in Entry : entries' = Append(entries, e) /\ e.ref = ref
<1>1. /\ DOMAIN identities \subseteq Identities /\ identities \in [DOMAIN identities -> Int]
      /\ entries \in Seq(Entry)
  BY DEF MapsOK
<1>2. /\ identities' = [identities EXCEPT ![i] = @ + amount]
      /\ entries' = Append(entries, [id |-> Len(entries) + 1, identity |-> i, reason |-> reason,
                                     amount |-> amount, ref |-> ref,
                                     balanceAfter |-> identities[i] + amount])
  BY DEF Moved
<1>3. PICK e : e = [id |-> Len(entries) + 1, identity |-> i, reason |-> reason,
                    amount |-> amount, ref |-> ref, balanceAfter |-> identities[i] + amount]
  OBVIOUS
<1>4. Len(entries) + 1 \in Nat \ {0} /\ identities[i] + amount \in Int /\ i \in Identities
  BY <1>1
<1>5. e \in Entry
  BY <1>3, <1>4 DEF Entry
<1>6. entries' = Append(entries, e)
  BY <1>2, <1>3
<1>7. Balances[i] = identities[i]
  BY <1>1 DEF Balances, Has
<1>8. [reason |-> reason, amount |-> amount, ref |-> target,
       balanceAfter |-> Balances[i] + amount] = TableEntry(e)'
  BY <1>3, <1>7 DEF TableEntry
<1>9. Statements' = [Statements EXCEPT ![i] =
        Append(@, [reason |-> reason, amount |-> amount, ref |-> target,
                   balanceAfter |-> Balances[i] + amount])]
  <2>1. PICK line : line = [reason |-> reason, amount |-> amount, ref |-> target,
                            balanceAfter |-> Balances[i] + amount]
    OBVIOUS
  <2>2. line = TableEntry(e)'
    BY <1>8, <2>1
  <2>3. Statements' = [Statements EXCEPT ![e.identity] = Append(@, line)]
    BY <1>5, <1>6, <2>2, LineAdded
  <2>4. e.identity = i
    BY <1>3
  <2> QED  BY <2>1, <2>3, <2>4
<1>10. DOMAIN identities' = DOMAIN identities /\ identities' \in [DOMAIN identities' -> Int]
  BY <1>1, <1>2, <1>4
<1>11. Balances' = [Balances EXCEPT ![i] = @ + amount]
  BY <1>1, <1>2, <1>10 DEF Balances, Has
<1>12. e.ref = ref
  BY <1>3
<1> QED  BY <1>4, <1>5, <1>6, <1>7, <1>9, <1>10, <1>11, <1>12, <1>1

-----------------------------------------------------------------------------
(* Payments.                                                               *)

\* What a step that leaves the deposits alone leaves as it is.
LEMMA DepositsAlone ==
  ASSUME MemoryInv, depositsByKey' = depositsByKey, nextDepositId' = nextDepositId
  PROVE  /\ KeysKept /\ IdsAddress' /\ Deposits' = Deposits
         /\ DOMAIN depositsByKey' \subseteq Outputs
         /\ depositsByKey' \in [DOMAIN depositsByKey' -> DepositRow] /\ nextDepositId' \in Nat
BY DEF MemoryInv, MapsOK, IdsAddress, KeysKept, KeyOf, Deposits, Has, TableRow

\* The ledger keeps referring to deposits that are there.
LEMMA RefsStay ==
  ASSUME MemoryInv, nextDepositId' \in Nat, nextDepositId <= nextDepositId',
         \/ entries' = entries
         \/ \E e \in Entry : entries' = Append(entries, e) /\ OldRef(e.ref)'
  PROVE  RefsOld' /\ entries' \in Seq(Entry)
<1>1. entries \in Seq(Entry) /\ nextDepositId \in Nat
  BY DEF MemoryInv, MapsOK
<1>2. ASSUME NEW n \in 1..Len(entries) PROVE OldRef(entries[n].ref)'  \/ entries'[n] # entries[n]
  <2>1. entries[n] \in Entry /\ OldRef(entries[n].ref)
    BY <1>1 DEF MemoryInv, RefsOld
  <2>2. entries[n].ref \in Reference
    BY <2>1 DEF Entry
  <2> QED  BY <1>1, <2>1, <2>2 DEF OldRef, Reference
<1>3. CASE entries' = entries
  BY <1>1, <1>2, <1>3 DEF RefsOld
<1>4. CASE \E e \in Entry : entries' = Append(entries, e) /\ OldRef(e.ref)'
  <2>1. PICK e \in Entry : entries' = Append(entries, e) /\ OldRef(e.ref)'
    BY <1>4
  <2>2. /\ entries' \in Seq(Entry) /\ Len(entries') = Len(entries) + 1
        /\ entries'[Len(entries) + 1] = e
        /\ \A n \in 1..Len(entries) : entries'[n] = entries[n]
    BY <1>1, <2>1
  <2>3. ASSUME NEW n \in 1..Len(entries') PROVE OldRef(entries[n].ref)'
    <3>1. n \in 1..Len(entries) \/ n = Len(entries) + 1
      BY <1>1, <2>2
    <3> QED  BY <1>2, <2>1, <2>2, <3>1 DEF OldRef
  <2> QED  BY <2>2, <2>3 DEF RefsOld
<1> QED  BY <1>3, <1>4

\* A movement for a request, in the tables; the other deposits and rows stay.
LEMMA RequestMoveShown ==
  ASSUME MemoryInv, depositsByKey' = depositsByKey, nextDepositId' = nextDepositId,
         NEW i \in DOMAIN identities, NEW reason \in Tables!Reasons, NEW amount \in Int,
         NEW r \in RequestIds, Moved(i, reason, amount, <<"request", r>>)
  PROVE  /\ DOMAIN identities' = DOMAIN identities
         /\ identities' \in [DOMAIN identities' -> Int]
         /\ Balances[i] \in Int
         /\ Balances' = [Balances EXCEPT ![i] = @ + amount]
         /\ Statements' = [Statements EXCEPT ![i] =
              Append(@, [reason |-> reason, amount |-> amount, ref |-> r,
                         balanceAfter |-> Balances[i] + amount])]
         /\ RefsOld' /\ entries' \in Seq(Entry)
<1>1. MapsOK /\ RefsOld /\ KeysKept /\ nextDepositId \in Nat
  BY DepositsAlone DEF MemoryInv, MapsOK
<1>2. PICK ref : ref = <<"request", r>>
  OBVIOUS
<1>3. /\ ref \in Reference /\ OldRef(ref)' /\ r = Referred(ref)'
      /\ Moved(i, reason, amount, ref)
  BY <1>2 DEF Reference, OldRef, Referred, Moved
<1>4. /\ DOMAIN identities' = DOMAIN identities
      /\ identities' \in [DOMAIN identities' -> Int]
      /\ Balances[i] \in Int
      /\ Balances' = [Balances EXCEPT ![i] = @ + amount]
      /\ Statements' = [Statements EXCEPT ![i] =
           Append(@, [reason |-> reason, amount |-> amount, ref |-> r,
                      balanceAfter |-> Balances[i] + amount])]
      /\ \E e \in Entry : entries' = Append(entries, e) /\ e.ref = ref
  BY <1>1, <1>3, MoveShown
<1>5. PICK e \in Entry : entries' = Append(entries, e) /\ e.ref = ref
  BY <1>4
<1>6. OldRef(e.ref)'
  BY <1>3, <1>5 DEF OldRef
<1>7. RefsOld' /\ entries' \in Seq(Entry)
  BY <1>1, <1>5, <1>6, RefsStay
<1> QED  BY <1>4, <1>7

LEMMA ReserveShown ==
  ASSUME MemoryInv, NEW r \in RequestIds, NEW i \in Identities, NEW issuedAt \in Times,
         NEW receivedAt \in Times, NEW amount \in Amounts,
         ReservePayment(r, i, issuedAt, receivedAt, amount)
  PROVE  /\ MemoryInv'
         /\ \/ Tables!ReserveRefused(r, i, issuedAt, receivedAt, amount)
            \/ Tables!ReserveGranted(r, i, issuedAt, receivedAt, amount)
<1> DEFINE row(status) == [identity |-> i, issuedAt |-> issuedAt, receivedAt |-> receivedAt,
                           amount |-> amount, status |-> status]
<1>1. /\ Running /\ ~Has(spentRequests, r)
      /\ depositsByKey' = depositsByKey /\ nextDepositId' = nextDepositId /\ reaping' = reaping
  BY DEF ReservePayment
<1>2. /\ MapsOK /\ RefsOld /\ reaping.left = {} /\ amount \in Nat
      /\ row("reserved") \in Row /\ row("insufficient") \in Row
  BY <1>1, RowAssumption DEF MemoryInv, Running, Row
<1>3. /\ ToRefund = {} /\ Tables!WriteTx /\ ToRefund' = ToRefund /\ Requests[r] = NoRow
  BY <1>1, NothingToRefund, StillNothingToRefund DEF Requests, Has
<1>4. KeysKept /\ IdsAddress' /\ Deposits' = Deposits
  BY <1>1, DepositsAlone
<1>5. CASE Has(identities, i) /\ identities[i] >= amount
  <2>1. /\ spentRequests' = Put(spentRequests, r, row("reserved"))
        /\ Move(i, "reserve", -amount, <<"request", r>>)
    BY <1>5 DEF ReservePayment, NewRow
  <2>2. i \in DOMAIN identities /\ Balances[i] = identities[i] /\ -amount \in Int
    BY <1>2, <1>5 DEF Has, Balances
  <2>3. /\ Requests' = [Requests EXCEPT ![r] = row("reserved")]
        /\ DOMAIN spentRequests' = DOMAIN spentRequests \cup {r}
        /\ spentRequests' \in [DOMAIN spentRequests' -> Row]
    BY <1>2, <2>1, RowSet
  <2>4. /\ DOMAIN identities' = DOMAIN identities
        /\ identities' \in [DOMAIN identities' -> Int]
        /\ Balances[i] \in Int
        /\ Balances' = [Balances EXCEPT ![i] = @ + -amount]
        /\ Statements' = [Statements EXCEPT ![i] =
             Append(@, [reason |-> "reserve", amount |-> -amount, ref |-> r,
                        balanceAfter |-> Balances[i] + -amount])]
        /\ RefsOld' /\ entries' \in Seq(Entry)
    <3>1. PICK reason, change : reason = "reserve" /\ change = -amount
      OBVIOUS
    <3>2. /\ reason \in Tables!Reasons /\ change \in Int
          /\ Moved(i, reason, change, <<"request", r>>)
      BY <2>1, <2>2, <3>1 DEF Moved, Move, Appended, Tables!Reasons
    <3>3. /\ DOMAIN identities' = DOMAIN identities
          /\ identities' \in [DOMAIN identities' -> Int]
          /\ Balances[i] \in Int
          /\ Balances' = [Balances EXCEPT ![i] = @ + change]
          /\ Statements' = [Statements EXCEPT ![i] =
               Append(@, [reason |-> reason, amount |-> change, ref |-> r,
                          balanceAfter |-> Balances[i] + change])]
          /\ RefsOld' /\ entries' \in Seq(Entry)
      BY <1>1, <2>2, <3>2, RequestMoveShown
    <3> QED  BY <3>1, <3>3
  <2>5. Balances[i] + -amount = Balances[i] - amount
    BY <1>2, <2>4
  <2>6. Tables!ReserveGranted(r, i, issuedAt, receivedAt, amount)
    BY <1>2, <1>3, <1>4, <1>5, <2>2, <2>3, <2>4, <2>5
    DEF Tables!ReserveGranted, Tables!InsertSpent, Tables!AppendLedger
  <2> QED  BY <1>1, <1>2, <1>4, <2>3, <2>4, <2>6 DEF MemoryInv, MapsOK, LoopOK
<1>6. CASE ~(Has(identities, i) /\ identities[i] >= amount)
  <2>1. /\ spentRequests' = Put(spentRequests, r, row("insufficient"))
        /\ identities' = identities /\ entries' = entries
    BY <1>6 DEF ReservePayment, NewRow
  <2>2. /\ Requests' = [Requests EXCEPT ![r] = row("insufficient")]
        /\ DOMAIN spentRequests' = DOMAIN spentRequests \cup {r}
        /\ spentRequests' \in [DOMAIN spentRequests' -> Row]
    BY <1>2, <2>1, RowSet
  <2>3. Statements' = Statements /\ Balances' = Balances
    BY <1>2, <1>4, <2>1, StatementsKept DEF Balances, Has
  <2>4. i \notin DOMAIN identities \/ Balances[i] < amount
    BY <1>2, <1>6 DEF Has, Balances, MapsOK
  <2>5. Tables!ReserveRefused(r, i, issuedAt, receivedAt, amount)
    BY <1>3, <1>4, <2>1, <2>2, <2>3, <2>4 DEF Tables!ReserveRefused, Tables!InsertSpent
  <2> QED  BY <1>1, <1>2, <1>4, <2>1, <2>2, <2>5, RefsStay DEF MemoryInv, MapsOK, LoopOK
<1> QED  BY <1>5, <1>6

LEMMA QueryShown ==
  ASSUME MemoryInv, NEW r \in RequestIds, NEW i \in Identities, NEW issuedAt \in Times,
         NEW receivedAt \in Times, RecordBalanceQuery(r, i, issuedAt, receivedAt)
  PROVE  MemoryInv' /\ Tables!RecordBalanceQuery(r, i, issuedAt, receivedAt)
<1> DEFINE row == [identity |-> i, issuedAt |-> issuedAt, receivedAt |-> receivedAt,
                   amount |-> 0, status |-> "committed"]
<1>1. /\ Running /\ ~Has(spentRequests, r) /\ spentRequests' = Put(spentRequests, r, row)
      /\ identities' = identities /\ entries' = entries
      /\ depositsByKey' = depositsByKey /\ nextDepositId' = nextDepositId /\ reaping' = reaping
  BY DEF RecordBalanceQuery, NewRow
<1>2. MapsOK /\ RefsOld /\ reaping.left = {} /\ row \in Row
  BY <1>1, RowAssumption DEF MemoryInv, Running, Row
<1>3. Tables!WriteTx /\ ToRefund' = ToRefund /\ Requests[r] = NoRow
  BY <1>1, NothingToRefund, StillNothingToRefund DEF Requests, Has
<1>4. KeysKept /\ IdsAddress' /\ Deposits' = Deposits
  BY <1>1, DepositsAlone
<1>5. /\ Requests' = [Requests EXCEPT ![r] = row]
      /\ DOMAIN spentRequests' = DOMAIN spentRequests \cup {r}
      /\ spentRequests' \in [DOMAIN spentRequests' -> Row]
  BY <1>1, <1>2, RowSet
<1>6. Statements' = Statements /\ Balances' = Balances
  BY <1>1, <1>2, <1>4, StatementsKept DEF Balances, Has
<1>7. Tables!RecordBalanceQuery(r, i, issuedAt, receivedAt)
  BY <1>1, <1>3, <1>4, <1>5, <1>6 DEF Tables!RecordBalanceQuery, Tables!InsertSpent
<1> QED  BY <1>1, <1>2, <1>4, <1>5, <1>7, RefsStay DEF MemoryInv, MapsOK, LoopOK

LEMMA CommitShown ==
  ASSUME MemoryInv, NEW r \in RequestIds, CommitPayment(r)
  PROVE  MemoryInv' /\ Tables!CommitPayment(r)
<1>1. /\ Running /\ Transition(r, "reserved", "committed")
      /\ identities' = identities /\ entries' = entries
      /\ depositsByKey' = depositsByKey /\ nextDepositId' = nextDepositId /\ reaping' = reaping
  BY DEF CommitPayment
<1>2. MapsOK /\ RefsOld /\ reaping.left = {}
  BY <1>1 DEF MemoryInv, Running
<1>3. Tables!WriteTx /\ ToRefund' = ToRefund
  BY <1>1, NothingToRefund, StillNothingToRefund
<1>4. KeysKept /\ IdsAddress' /\ Deposits' = Deposits
  BY <1>1, DepositsAlone
<1>5. /\ Requests' = [Requests EXCEPT ![r].status = "committed"]
      /\ DOMAIN spentRequests' = DOMAIN spentRequests
      /\ spentRequests' \in [DOMAIN spentRequests' -> Row]
      /\ Requests[r] # NoRow /\ Requests[r].status = "reserved"
  BY <1>1, <1>2, StatusSet
<1>6. Statements' = Statements /\ Balances' = Balances
  BY <1>1, <1>2, <1>4, StatementsKept DEF Balances, Has
<1>7. Tables!CommitPayment(r)
  BY <1>1, <1>3, <1>4, <1>5, <1>6
  DEF Tables!CommitPayment, Tables!HasStatus, Tables!SetStatus
<1> QED  BY <1>1, <1>2, <1>4, <1>5, <1>7, RefsStay DEF MemoryInv, MapsOK, LoopOK

\* A transition that moves the identity's balance.
LEMMA SettleShown ==
  ASSUME MemoryInv, depositsByKey' = depositsByKey, nextDepositId' = nextDepositId,
         NEW r \in RequestIds, NEW from, NEW to,
         to \in {"reserved", "committed", "error", "insufficient"}, Transition(r, from, to),
         NEW row, row = spentRequests[r], row.identity \in DOMAIN identities,
         NEW reason \in Tables!Reasons, NEW change \in Int,
         Moved(row.identity, reason, change, <<"request", r>>),
         reaping' \in [cutoff: Int, left: SUBSET RequestIds],
         reaping'.left \subseteq DOMAIN spentRequests
  PROVE  /\ MemoryInv'
         /\ DOMAIN identities' = DOMAIN identities /\ DOMAIN spentRequests' = DOMAIN spentRequests
         /\ Deposits' = Deposits
         /\ Requests[r] = row /\ row # NoRow /\ row \in Row /\ row.status = from
         /\ Requests' = [Requests EXCEPT ![r].status = to]
         /\ Balances[row.identity] \in Int
         /\ Balances' = [Balances EXCEPT ![row.identity] = @ + change]
         /\ Statements' = [Statements EXCEPT ![row.identity] =
              Append(@, [reason |-> reason, amount |-> change, ref |-> r,
                         balanceAfter |-> Balances[row.identity] + change])]
<1>1. MapsOK
  BY DEF MemoryInv
<1>2. /\ Requests' = [Requests EXCEPT ![r].status = to]
      /\ DOMAIN spentRequests' = DOMAIN spentRequests
      /\ spentRequests' \in [DOMAIN spentRequests' -> Row]
      /\ Requests[r] # NoRow /\ Requests[r].status = from
      /\ Requests[r] = spentRequests[r] /\ Requests[r] \in Row
  BY <1>1, StatusSet
<1>3. /\ IdsAddress' /\ Deposits' = Deposits
      /\ DOMAIN depositsByKey' \subseteq Outputs
      /\ depositsByKey' \in [DOMAIN depositsByKey' -> DepositRow] /\ nextDepositId' \in Nat
  BY DepositsAlone
<1>4. /\ DOMAIN identities' = DOMAIN identities
      /\ identities' \in [DOMAIN identities' -> Int]
      /\ Balances[row.identity] \in Int
      /\ Balances' = [Balances EXCEPT ![row.identity] = @ + change]
      /\ Statements' = [Statements EXCEPT ![row.identity] =
           Append(@, [reason |-> reason, amount |-> change, ref |-> r,
                      balanceAfter |-> Balances[row.identity] + change])]
      /\ RefsOld' /\ entries' \in Seq(Entry)
  <2>1. PICK i : i = row.identity
    OBVIOUS
  <2>2. i \in DOMAIN identities /\ Moved(i, reason, change, <<"request", r>>)
    BY <2>1
  <2>3. /\ DOMAIN identities' = DOMAIN identities
        /\ identities' \in [DOMAIN identities' -> Int]
        /\ Balances[i] \in Int
        /\ Balances' = [Balances EXCEPT ![i] = @ + change]
        /\ Statements' = [Statements EXCEPT ![i] =
             Append(@, [reason |-> reason, amount |-> change, ref |-> r,
                        balanceAfter |-> Balances[i] + change])]
        /\ RefsOld' /\ entries' \in Seq(Entry)
    BY <2>2, RequestMoveShown, SMTT(30)
  <2> QED  BY <2>1, <2>3
<1>5. MemoryInv'
  BY <1>1, <1>2, <1>3, <1>4 DEF MemoryInv, MapsOK, LoopOK
<1> QED  BY <1>2, <1>3, <1>4, <1>5

\* A refund, by a rollback or by the reaper.
LEMMA RefundShown ==
  ASSUME MemoryInv, depositsByKey' = depositsByKey, nextDepositId' = nextDepositId,
         NEW r \in RequestIds, Transition(r, "reserved", "error"),
         NEW row, row = spentRequests[r], row.identity \in DOMAIN identities,
         NEW reason \in Tables!Reasons, Move(row.identity, reason, row.amount, <<"request", r>>),
         reaping' \in [cutoff: Int, left: SUBSET RequestIds],
         reaping'.left \subseteq DOMAIN spentRequests
  PROVE  /\ MemoryInv'
         /\ DOMAIN identities' = DOMAIN identities /\ DOMAIN spentRequests' = DOMAIN spentRequests
         /\ Deposits' = Deposits
         /\ Requests[r] = row /\ row # NoRow /\ row.status = "reserved"
         /\ Tables!Refund(r, reason)
<1>1. row \in Row
  BY DEF MemoryInv, MapsOK, Transition, Has
<1>2. PICK change : change = row.amount
  OBVIOUS
<1>3. change \in Int /\ Moved(row.identity, reason, change, <<"request", r>>)
  BY <1>1, <1>2 DEF Row, Move, Moved, Appended
<1>4. PICK from, to : from = "reserved" /\ to = "error"
  OBVIOUS
<1>5. /\ to \in {"reserved", "committed", "error", "insufficient"}
      /\ Transition(r, from, to)
  BY <1>4 DEF Transition
<1>6. /\ MemoryInv'
      /\ DOMAIN identities' = DOMAIN identities /\ DOMAIN spentRequests' = DOMAIN spentRequests
      /\ Deposits' = Deposits
      /\ Requests[r] = row /\ row # NoRow /\ row.status = from
      /\ Requests' = [Requests EXCEPT ![r].status = to]
      /\ Balances' = [Balances EXCEPT ![row.identity] = @ + change]
      /\ Statements' = [Statements EXCEPT ![row.identity] =
           Append(@, [reason |-> reason, amount |-> change, ref |-> r,
                      balanceAfter |-> Balances[row.identity] + change])]
  BY <1>3, <1>5, SettleShown, SMTT(30)
<1>7. Tables!Refund(r, reason)
  BY <1>2, <1>4, <1>6 DEF Tables!Refund, Tables!SetStatus, Tables!AppendLedger
<1> QED  BY <1>4, <1>6, <1>7

LEMMA RollbackShown ==
  ASSUME MemoryInv, NEW r \in RequestIds, RollbackPayment(r)
  PROVE  MemoryInv' /\ Tables!RollbackPayment(r)
<1>1. PICK row : row = spentRequests[r]
  OBVIOUS
<1>2. PICK reason : reason = "rollback"
  OBVIOUS
<1>3. /\ Running /\ Transition(r, "reserved", "error")
      /\ row.identity \in DOMAIN identities
      /\ Move(row.identity, reason, row.amount, <<"request", r>>)
      /\ depositsByKey' = depositsByKey /\ nextDepositId' = nextDepositId /\ reaping' = reaping
  BY <1>1, <1>2 DEF RollbackPayment, Has, Move, Appended
<1>4. /\ reaping' \in [cutoff: Int, left: SUBSET RequestIds]
      /\ reaping'.left \subseteq DOMAIN spentRequests
  BY <1>3 DEF MemoryInv, MapsOK, LoopOK
<1>5. Tables!WriteTx /\ ToRefund' = ToRefund
  BY <1>3, NothingToRefund, StillNothingToRefund
<1>6. /\ MemoryInv'
      /\ DOMAIN identities' = DOMAIN identities /\ Deposits' = Deposits
      /\ Requests[r] = row /\ row # NoRow /\ row.status = "reserved"
      /\ Tables!Refund(r, reason)
  <2>1. reason \in Tables!Reasons
    BY <1>2 DEF Tables!Reasons
  <2> QED  BY <1>1, <1>3, <1>4, <2>1, RefundShown
<1> QED  BY <1>2, <1>3, <1>5, <1>6 DEF Tables!RollbackPayment, Tables!HasStatus, Tables!Refund

LEMMA LateCommitShown ==
  ASSUME MemoryInv, NEW r \in RequestIds, LateCommitPayment(r)
  PROVE  MemoryInv' /\ Tables!LateCommitPayment(r)
<1>1. PICK row : row = spentRequests[r]
  OBVIOUS
<1>2. PICK reason, change, from, to :
        reason = "late_commit" /\ change = -row.amount /\ from = "error" /\ to = "committed"
  OBVIOUS
<1>3. /\ Running /\ Transition(r, from, to) /\ Has(spentRequests, r)
      /\ row.identity \in DOMAIN identities
      /\ Moved(row.identity, reason, change, <<"request", r>>)
      /\ depositsByKey' = depositsByKey /\ nextDepositId' = nextDepositId /\ reaping' = reaping
  BY <1>1, <1>2 DEF LateCommitPayment, Transition, Has, Move, Moved, Appended
<1>4. /\ reaping' \in [cutoff: Int, left: SUBSET RequestIds]
      /\ reaping'.left \subseteq DOMAIN spentRequests
  BY <1>3 DEF MemoryInv, MapsOK, LoopOK
<1>5. Tables!WriteTx /\ ToRefund' = ToRefund
  BY <1>3, NothingToRefund, StillNothingToRefund
<1>6. /\ to \in {"reserved", "committed", "error", "insufficient"}
      /\ reason \in Tables!Reasons /\ change \in Int
  <2>1. row \in Row
    BY <1>1, <1>3 DEF MemoryInv, MapsOK, Has
  <2> QED  BY <1>2, <2>1 DEF Row, Tables!Reasons
<1>7. /\ MemoryInv'
      /\ DOMAIN identities' = DOMAIN identities /\ Deposits' = Deposits
      /\ Requests[r] = row /\ row # NoRow /\ row \in Row /\ row.status = from
      /\ Requests' = [Requests EXCEPT ![r].status = to]
      /\ Balances[row.identity] \in Int
      /\ Balances' = [Balances EXCEPT ![row.identity] = @ + change]
      /\ Statements' = [Statements EXCEPT ![row.identity] =
           Append(@, [reason |-> reason, amount |-> change, ref |-> r,
                      balanceAfter |-> Balances[row.identity] + change])]
  <2>1. row.identity \in DOMAIN identities /\ row = spentRequests[r] /\ Transition(r, from, to)
    BY <1>1, <1>3
  <2> QED  BY <1>3, <1>4, <1>6, <2>1, SettleShown, SMTT(60)
<1>8. Balances[row.identity] + change = Balances[row.identity] - row.amount
  BY <1>2, <1>7 DEF Row
<1>9. Tables!LateCommitPayment(r)
  BY <1>2, <1>3, <1>5, <1>7, <1>8
  DEF Tables!LateCommitPayment, Tables!HasStatus, Tables!SetStatus, Tables!AppendLedger
<1> QED  BY <1>7, <1>9

-----------------------------------------------------------------------------
(* Maintenance.                                                            *)

LEMMA ReapShown ==
  ASSUME MemoryInv, NEW cutoff \in Times, ReapExpiredReservations(cutoff)
  PROVE  MemoryInv' /\ Tables!ReapExpiredReservations(cutoff)
<1>1. /\ Running /\ reaping' = [cutoff |-> cutoff, left |-> DOMAIN spentRequests]
      /\ identities' = identities /\ spentRequests' = spentRequests /\ entries' = entries
      /\ depositsByKey' = depositsByKey /\ nextDepositId' = nextDepositId
  BY DEF ReapExpiredReservations
<1>2. MapsOK /\ RefsOld /\ cutoff \in Int
  BY RowAssumption DEF MemoryInv
<1>3. KeysKept /\ IdsAddress' /\ Deposits' = Deposits
  BY <1>1, DepositsAlone
<1>4. Statements' = Statements /\ Balances' = Balances /\ Requests' = Requests
  BY <1>1, <1>2, <1>3, StatementsKept DEF Balances, Requests, Has
<1>5. ToRefund' = {r \in RequestIds : /\ Requests[r] # NoRow /\ Requests[r].status = "reserved"
                                      /\ Requests[r].receivedAt < cutoff
                                      /\ Requests[r].identity \in DOMAIN identities}
  <2>1. \A r \in DOMAIN spentRequests : spentRequests[r] # NoRow
    BY <1>2, RowAssumption DEF MapsOK
  <2>2. DOMAIN spentRequests \subseteq RequestIds
    BY <1>2 DEF MapsOK
  <2>3. reaping'.left = DOMAIN spentRequests /\ reaping'.cutoff = cutoff
    BY <1>1
  <2> QED  BY <1>1, <2>1, <2>2, <2>3 DEF ToRefund, Expired, Requests, Has
<1>6. Tables!ReapExpiredReservations(cutoff)
  BY <1>1, <1>3, <1>4, <1>5, NothingToRefund
  DEF Tables!ReapExpiredReservations, Tables!HasStatus
<1>7. MapsOK' /\ LoopOK'
  BY <1>1, <1>2 DEF MapsOK, LoopOK
<1>8. RefsOld'
  BY <1>1, <1>2, RefsStay DEF MapsOK
<1> QED  BY <1>3, <1>6, <1>7, <1>8 DEF MemoryInv

\* The loop refunds a row, or passes over it and the tables stay.
LEMMA VisitShown ==
  ASSUME MemoryInv, NEW r \in RequestIds, VisitRow(r)
  PROVE  MemoryInv' /\ (Tables!ReapRow(r) \/ UNCHANGED Tables!storageVars)
<1>1. /\ r \in reaping.left /\ reaping' = [reaping EXCEPT !.left = @ \ {r}]
      /\ depositsByKey' = depositsByKey /\ nextDepositId' = nextDepositId
  BY DEF VisitRow
<1>2. /\ MapsOK /\ RefsOld
      /\ reaping' \in [cutoff: Int, left: SUBSET RequestIds]
      /\ reaping'.left = reaping.left \ {r} /\ reaping'.cutoff = reaping.cutoff
      /\ reaping'.left \subseteq DOMAIN spentRequests
  BY <1>1 DEF MemoryInv, MapsOK, LoopOK
<1>3. CASE Expired(r)
  <2>1. PICK row, reason : row = spentRequests[r] /\ reason = "reaper_expired"
    OBVIOUS
  <2>2. /\ Transition(r, "reserved", "error") /\ row.identity \in DOMAIN identities
        /\ Move(row.identity, reason, row.amount, <<"request", r>>)
        /\ reason \in Tables!Reasons
    BY <1>3, <2>1 DEF VisitRow, Expired, Has, Move, Appended, Tables!Reasons
  <2>3. /\ MemoryInv'
        /\ DOMAIN identities' = DOMAIN identities /\ DOMAIN spentRequests' = DOMAIN spentRequests
        /\ Deposits' = Deposits
        /\ Tables!Refund(r, reason)
    BY <1>1, <1>2, <2>1, <2>2, RefundShown
  <2>4. r \in ToRefund
    BY <1>1, <1>3 DEF ToRefund
  <2>5. ToRefund' = ToRefund \ {r}
    <3>1. spentRequests' = [spentRequests EXCEPT ![r].status = "error"]
      BY <2>2 DEF Transition
    <3> QED  BY <1>2, <2>3, <3>1 DEF ToRefund, Expired, Has
  <2>6. Tables!ReapRow(r)
    BY <2>1, <2>3, <2>4, <2>5 DEF Tables!ReapRow, Tables!Refund
  <2> QED  BY <2>3, <2>6
<1>4. CASE ~Expired(r)
  <2>1. identities' = identities /\ spentRequests' = spentRequests /\ entries' = entries
    BY <1>4 DEF VisitRow
  <2>2. KeysKept /\ IdsAddress' /\ Deposits' = Deposits
    BY <1>1, DepositsAlone
  <2>3. Statements' = Statements /\ Balances' = Balances /\ Requests' = Requests
    BY <1>1, <1>2, <2>1, <2>2, StatementsKept DEF Balances, Requests, Has
  <2>4. ToRefund' = ToRefund
    BY <1>2, <1>4, <2>1 DEF ToRefund, Expired, Has
  <2>5. MapsOK' /\ LoopOK'
    BY <1>1, <1>2, <2>1 DEF MapsOK, LoopOK
  <2>6. RefsOld'
    BY <1>1, <1>2, <2>1, RefsStay DEF MapsOK
  <2>7. UNCHANGED Tables!storageVars
    BY <2>1, <2>2, <2>3, <2>4 DEF Tables!storageVars
  <2> QED  BY <2>2, <2>5, <2>6, <2>7 DEF MemoryInv
<1> QED  BY <1>3, <1>4

LEMMA CleanupShown ==
  ASSUME MemoryInv, NEW cutoff \in Times, CleanupSpentRequests(cutoff)
  PROVE  MemoryInv' /\ Tables!CleanupSpentRequests(cutoff)
<1> DEFINE old == {r \in DOMAIN spentRequests : spentRequests[r].issuedAt < cutoff}
<1>1. /\ Running /\ reaping' = reaping
      /\ spentRequests' = Without(spentRequests, old)
      /\ identities' = identities /\ entries' = entries
      /\ depositsByKey' = depositsByKey /\ nextDepositId' = nextDepositId
  BY DEF CleanupSpentRequests
<1>2. MapsOK /\ RefsOld /\ reaping.left = {}
  BY <1>1 DEF MemoryInv, Running
<1>3. KeysKept /\ IdsAddress' /\ Deposits' = Deposits
  BY <1>1, DepositsAlone
<1>4. Statements' = Statements /\ Balances' = Balances
  BY <1>1, <1>2, <1>3, StatementsKept DEF Balances, Has
<1>5. Tables!WriteTx /\ ToRefund' = ToRefund
  BY <1>1, NothingToRefund, StillNothingToRefund
<1>6. /\ DOMAIN spentRequests' = DOMAIN spentRequests \ old
      /\ spentRequests' \in [DOMAIN spentRequests' -> Row]
      /\ \A r \in DOMAIN spentRequests' : spentRequests'[r] = spentRequests[r]
  BY <1>1, <1>2 DEF Without, Restrict, MapsOK
<1>7. \A r \in DOMAIN spentRequests : spentRequests[r] # NoRow
  BY <1>2, RowAssumption DEF MapsOK
<1>8. Requests' = [r \in RequestIds |->
                    IF Requests[r] # NoRow /\ Requests[r].issuedAt < cutoff
                    THEN NoRow ELSE Requests[r]]
  BY <1>6, <1>7 DEF Requests, Has
<1>9. Tables!CleanupSpentRequests(cutoff)
  BY <1>1, <1>3, <1>4, <1>5, <1>8 DEF Tables!CleanupSpentRequests
<1>10. MapsOK' /\ LoopOK'
  BY <1>1, <1>2, <1>6 DEF MapsOK, LoopOK
<1>11. RefsOld'
  BY <1>1, <1>2, RefsStay DEF MapsOK
<1> QED  BY <1>3, <1>9, <1>10, <1>11 DEF MemoryInv

-----------------------------------------------------------------------------
(* Deposits.                                                               *)

\* A deposit that is new gets an id no line refers to yet.
LEMMA DepositAdded ==
  ASSUME MapsOK, IdsAddress, NEW o \in Outputs, ~Has(depositsByKey, o),
         NEW row \in DepositRow, row.id = nextDepositId,
         depositsByKey' = Put(depositsByKey, o, row), nextDepositId' = nextDepositId + 1
  PROVE  /\ KeysKept /\ IdsAddress'
         /\ KeyOf(row.id)' = {o}
         /\ Deposits[o] = NoRow /\ Deposits' = [Deposits EXCEPT ![o] = TableRow(row)]
         /\ DOMAIN depositsByKey' \subseteq Outputs
         /\ depositsByKey' \in [DOMAIN depositsByKey' -> DepositRow]
         /\ nextDepositId' \in Nat /\ nextDepositId <= nextDepositId'
<1>1. /\ DOMAIN depositsByKey \subseteq Outputs
      /\ depositsByKey \in [DOMAIN depositsByKey -> DepositRow]
      /\ nextDepositId \in Nat /\ o \notin DOMAIN depositsByKey
  BY DEF MapsOK, Has
<1>2. /\ DOMAIN depositsByKey' = DOMAIN depositsByKey \cup {o}
      /\ depositsByKey' \in [DOMAIN depositsByKey' -> DepositRow]
      /\ depositsByKey'[o] = row
      /\ \A p \in DOMAIN depositsByKey : depositsByKey'[p] = depositsByKey[p]
  <2> HIDE DEF DepositRow
  <2> QED  BY <1>1 DEF Put
<1>3. \A p \in DOMAIN depositsByKey :
        /\ depositsByKey[p].id \in Nat /\ depositsByKey[p].id < nextDepositId
        /\ \A q \in DOMAIN depositsByKey : depositsByKey[p].id = depositsByKey[q].id => p = q
  BY <1>1 DEF IdsAddress, DepositRow
<1>4. KeysKept
  BY <1>1, <1>2 DEF KeysKept, KeyOf
<1>5. IdsAddress'
  BY <1>1, <1>2, <1>3 DEF IdsAddress
<1>6. KeyOf(row.id)' = {o}
  BY <1>1, <1>2, <1>3 DEF KeyOf
<1>7. Deposits[o] = NoRow /\ Deposits' = [Deposits EXCEPT ![o] = TableRow(row)]
  BY <1>1, <1>2 DEF Deposits, Has, TableRow
<1> QED  BY <1>1, <1>2, <1>4, <1>5, <1>6, <1>7

\* A deposit that changes keeps its id.
LEMMA DepositChanged ==
  ASSUME MapsOK, IdsAddress, NEW o \in DOMAIN depositsByKey, NEW row \in DepositRow,
         row.id = depositsByKey[o].id,
         depositsByKey' = [depositsByKey EXCEPT ![o] = row], nextDepositId' = nextDepositId
  PROVE  /\ KeysKept /\ IdsAddress'
         /\ KeyOf(row.id)' = {o}
         /\ Deposits[o] = TableRow(depositsByKey[o]) /\ Deposits[o] # NoRow
         /\ Deposits' = [Deposits EXCEPT ![o] = TableRow(row)]
         /\ DOMAIN depositsByKey' \subseteq Outputs
         /\ depositsByKey' \in [DOMAIN depositsByKey' -> DepositRow]
         /\ nextDepositId' \in Nat /\ nextDepositId <= nextDepositId'
<1>1. /\ DOMAIN depositsByKey \subseteq Outputs
      /\ depositsByKey \in [DOMAIN depositsByKey -> DepositRow]
      /\ nextDepositId \in Nat
  BY DEF MapsOK
<1>2. /\ DOMAIN depositsByKey' = DOMAIN depositsByKey
      /\ depositsByKey' \in [DOMAIN depositsByKey' -> DepositRow]
      /\ depositsByKey'[o] = row
      /\ \A p \in DOMAIN depositsByKey : depositsByKey'[p].id = depositsByKey[p].id
      /\ \A p \in DOMAIN depositsByKey : p # o => depositsByKey'[p] = depositsByKey[p]
  <2> HIDE DEF DepositRow
  <2> QED  BY <1>1
<1>3. KeysKept
  BY <1>2 DEF KeysKept, KeyOf
<1>4. IdsAddress'
  BY <1>1, <1>2 DEF IdsAddress
<1>5. KeyOf(row.id)' = {o}
  BY <1>1, <1>2 DEF KeyOf, IdsAddress
<1>6. Deposits[o] = TableRow(depositsByKey[o]) /\ Deposits[o] # NoRow
  <2>1. Deposits[o] = TableRow(depositsByKey[o])
    BY <1>1 DEF Deposits, Has
  <2>2. depositsByKey[o] \in DepositRow
    BY <1>1
  <2>3. TableRow(depositsByKey[o]) \in [identity: Identities, amount: Nat, block: Blocks,
                                       credited: BOOLEAN, reorged: BOOLEAN]
    BY <2>2 DEF TableRow, DepositRow
  <2> QED  BY <2>1, <2>3, RowAssumption
<1>7. Deposits' = [Deposits EXCEPT ![o] = TableRow(row)]
  BY <1>1, <1>2 DEF Deposits, Has, TableRow
<1> QED  BY <1>1, <1>2, <1>3, <1>4, <1>5, <1>6, <1>7

\* A row of the table has the fields of the deposit, and no more.
LEMMA FieldsShown ==
  ASSUME NEW row \in DepositRow, NEW u \in Tables!DepositRow,
         u.identity = row.identity, u.amount = row.amount, u.block = row.block,
         u.credited = row.credited, u.reorged = row.reorged
  PROVE  u = TableRow(row)
<1>1. PICK v : v = TableRow(row)
  OBVIOUS
<1>2. /\ v \in Tables!DepositRow
      /\ v.identity = row.identity /\ v.amount = row.amount /\ v.block = row.block
      /\ v.credited = row.credited /\ v.reorged = row.reorged
  BY <1>1 DEF TableRow, Tables!DepositRow, DepositRow
<1>3. u = v
  BY <1>2 DEF Tables!DepositRow
<1> QED  BY <1>1, <1>3

LEMMA ChangesShown ==
  ASSUME NEW d \in DepositRow, NEW block \in Blocks
  PROVE  /\ TableRow([d EXCEPT !.credited = TRUE]) = [TableRow(d) EXCEPT !.credited = TRUE]
         /\ TableRow([d EXCEPT !.reorged = TRUE]) = [TableRow(d) EXCEPT !.reorged = TRUE]
         /\ TableRow([d EXCEPT !.block = block, !.reorged = FALSE, !.credited = FALSE]) =
              [TableRow(d) EXCEPT !.block = block, !.reorged = FALSE, !.credited = FALSE]
<1>1. PICK t : t = TableRow(d)
  OBVIOUS
<1>2. /\ t \in Tables!DepositRow
      /\ t.identity = d.identity /\ t.amount = d.amount /\ t.block = d.block
      /\ t.credited = d.credited /\ t.reorged = d.reorged
  BY <1>1 DEF TableRow, Tables!DepositRow, DepositRow
<1>3. TableRow([d EXCEPT !.credited = TRUE]) = [t EXCEPT !.credited = TRUE]
  <2>1. PICK row, u : row = [d EXCEPT !.credited = TRUE] /\ u = [t EXCEPT !.credited = TRUE]
    OBVIOUS
  <2>2. /\ row \in DepositRow
        /\ row.identity = d.identity /\ row.amount = d.amount /\ row.block = d.block
        /\ row.credited = TRUE /\ row.reorged = d.reorged
    BY <2>1 DEF DepositRow
  <2>3. /\ u \in Tables!DepositRow
        /\ u.identity = t.identity /\ u.amount = t.amount /\ u.block = t.block
        /\ u.credited = TRUE /\ u.reorged = t.reorged
    BY <1>2, <2>1 DEF Tables!DepositRow
  <2>4. u = TableRow(row)
    BY <1>2, <2>2, <2>3, FieldsShown
  <2> QED  BY <2>1, <2>4
<1>4. TableRow([d EXCEPT !.reorged = TRUE]) = [t EXCEPT !.reorged = TRUE]
  <2>1. PICK row, u : row = [d EXCEPT !.reorged = TRUE] /\ u = [t EXCEPT !.reorged = TRUE]
    OBVIOUS
  <2>2. /\ row \in DepositRow
        /\ row.identity = d.identity /\ row.amount = d.amount /\ row.block = d.block
        /\ row.credited = d.credited /\ row.reorged = TRUE
    BY <2>1 DEF DepositRow
  <2>3. /\ u \in Tables!DepositRow
        /\ u.identity = t.identity /\ u.amount = t.amount /\ u.block = t.block
        /\ u.credited = t.credited /\ u.reorged = TRUE
    BY <1>2, <2>1 DEF Tables!DepositRow
  <2>4. u = TableRow(row)
    BY <1>2, <2>2, <2>3, FieldsShown
  <2> QED  BY <2>1, <2>4
<1>5. TableRow([d EXCEPT !.block = block, !.reorged = FALSE, !.credited = FALSE]) =
        [t EXCEPT !.block = block, !.reorged = FALSE, !.credited = FALSE]
  <2>1. PICK row, u :
          /\ row = [d EXCEPT !.block = block, !.reorged = FALSE, !.credited = FALSE]
          /\ u = [t EXCEPT !.block = block, !.reorged = FALSE, !.credited = FALSE]
    OBVIOUS
  <2>2. /\ row \in DepositRow
        /\ row.identity = d.identity /\ row.amount = d.amount /\ row.block = block
        /\ row.credited = FALSE /\ row.reorged = FALSE
    BY <2>1 DEF DepositRow
  <2>3. /\ u \in Tables!DepositRow
        /\ u.identity = t.identity /\ u.amount = t.amount /\ u.block = block
        /\ u.credited = FALSE /\ u.reorged = FALSE
    BY <1>2, <2>1 DEF Tables!DepositRow
  <2>4. u = TableRow(row)
    BY <1>2, <2>2, <2>3, FieldsShown
  <2> QED  BY <2>1, <2>4
<1> QED  BY <1>1, <1>3, <1>4, <1>5

\* What a step that leaves the requests alone leaves as it is.
LEMMA RequestsAlone ==
  ASSUME MemoryInv, Running, spentRequests' = spentRequests, reaping' = reaping
  PROVE  /\ Tables!WriteTx /\ ToRefund' = ToRefund /\ Requests' = Requests /\ LoopOK'
         /\ DOMAIN spentRequests' \subseteq RequestIds
         /\ spentRequests' \in [DOMAIN spentRequests' -> Row]
         /\ reaping' \in [cutoff: Int, left: SUBSET RequestIds]
BY NothingToRefund, StillNothingToRefund DEF MemoryInv, MapsOK, LoopOK, Requests, Has

LEMMA InsertDepositShown ==
  ASSUME MemoryInv, NEW o \in Outputs, NEW i \in Identities, NEW amount \in Amounts,
         NEW block \in Blocks, InsertDeposit(o, i, amount, block)
  PROVE  MemoryInv' /\ Tables!InsertDeposit(o, i, amount, block)
<1>1. PICK row : row = NewDeposit(i, amount, block)
  OBVIOUS
<1>2. /\ Running /\ ~Has(depositsByKey, o)
      /\ depositsByKey' = Put(depositsByKey, o, row) /\ nextDepositId' = nextDepositId + 1
      /\ identities' = identities /\ spentRequests' = spentRequests /\ entries' = entries
      /\ reaping' = reaping
  BY <1>1 DEF InsertDeposit
<1>3. MapsOK /\ IdsAddress /\ RefsOld
  BY DEF MemoryInv
<1>4. row \in DepositRow /\ row.id = nextDepositId
  BY <1>1, <1>3, RowAssumption DEF NewDeposit, DepositRow, MapsOK
<1>5. /\ KeysKept /\ IdsAddress'
      /\ Deposits[o] = NoRow /\ Deposits' = [Deposits EXCEPT ![o] = TableRow(row)]
      /\ DOMAIN depositsByKey' \subseteq Outputs
      /\ depositsByKey' \in [DOMAIN depositsByKey' -> DepositRow]
      /\ nextDepositId' \in Nat /\ nextDepositId <= nextDepositId'
  BY <1>2, <1>3, <1>4, DepositAdded
<1>6. /\ Tables!WriteTx /\ ToRefund' = ToRefund /\ Requests' = Requests /\ LoopOK'
      /\ DOMAIN spentRequests' \subseteq RequestIds
      /\ spentRequests' \in [DOMAIN spentRequests' -> Row]
      /\ reaping' \in [cutoff: Int, left: SUBSET RequestIds]
  BY <1>2, RequestsAlone
<1>7. Statements' = Statements /\ Balances' = Balances
  BY <1>2, <1>3, <1>5, StatementsKept DEF Balances, Has
<1>8. TableRow(row) = [identity |-> i, amount |-> amount, block |-> block,
                       credited |-> FALSE, reorged |-> FALSE]
  BY <1>1 DEF TableRow, NewDeposit
<1>9. Tables!InsertDeposit(o, i, amount, block)
  BY <1>2, <1>5, <1>6, <1>7, <1>8 DEF Tables!InsertDeposit
<1>10. RefsOld'
  BY <1>2, <1>5, RefsStay
<1> QED  BY <1>2, <1>3, <1>5, <1>6, <1>9, <1>10 DEF MemoryInv, MapsOK

LEMMA RemineShown ==
  ASSUME MemoryInv, NEW o \in Outputs, NEW block \in Blocks, RemineDeposit(o, block)
  PROVE  MemoryInv' /\ Tables!RemineDeposit(o, block)
<1>1. PICK row : row = [depositsByKey[o] EXCEPT !.block = block, !.reorged = FALSE,
                                               !.credited = FALSE]
  OBVIOUS
<1>2. MapsOK /\ IdsAddress /\ RefsOld
  BY DEF MemoryInv
<1>3. /\ Running /\ o \in DOMAIN depositsByKey
      /\ depositsByKey' = [depositsByKey EXCEPT ![o] = row] /\ nextDepositId' = nextDepositId
      /\ identities' = identities /\ spentRequests' = spentRequests /\ entries' = entries
      /\ reaping' = reaping
  BY <1>1, <1>2 DEF RemineDeposit, Has, MapsOK
<1>4. depositsByKey[o] \in DepositRow
  BY <1>2, <1>3 DEF MapsOK
<1>5. row \in DepositRow /\ row.id = depositsByKey[o].id
  BY <1>1, <1>4 DEF DepositRow
<1>6. /\ KeysKept /\ IdsAddress'
      /\ Deposits[o] = TableRow(depositsByKey[o]) /\ Deposits[o] # NoRow
      /\ Deposits' = [Deposits EXCEPT ![o] = TableRow(row)]
      /\ DOMAIN depositsByKey' \subseteq Outputs
      /\ depositsByKey' \in [DOMAIN depositsByKey' -> DepositRow]
      /\ nextDepositId' \in Nat /\ nextDepositId <= nextDepositId'
  BY <1>2, <1>3, <1>5, DepositChanged
<1>7. /\ Tables!WriteTx /\ ToRefund' = ToRefund /\ Requests' = Requests /\ LoopOK'
      /\ DOMAIN spentRequests' \subseteq RequestIds
      /\ spentRequests' \in [DOMAIN spentRequests' -> Row]
      /\ reaping' \in [cutoff: Int, left: SUBSET RequestIds]
  BY <1>3, RequestsAlone
<1>8. Statements' = Statements /\ Balances' = Balances
  BY <1>2, <1>3, <1>6, StatementsKept DEF Balances, Has
<1>9. TableRow(row) = [TableRow(depositsByKey[o]) EXCEPT !.block = block, !.reorged = FALSE,
                                                        !.credited = FALSE]
  BY <1>1, <1>4, ChangesShown
<1>10. Deposits' = [Deposits EXCEPT ![o].block = block, ![o].reorged = FALSE,
                                   ![o].credited = FALSE]
  BY <1>6, <1>9 DEF Deposits
<1>11. Tables!RemineDeposit(o, block)
  BY <1>3, <1>6, <1>7, <1>8, <1>10 DEF Tables!RemineDeposit
<1>12. RefsOld'
  BY <1>3, <1>6, RefsStay
<1> QED  BY <1>2, <1>3, <1>6, <1>7, <1>11, <1>12 DEF MemoryInv, MapsOK

\* A credit with its line, in the tables.
LEMMA CreditShown ==
  ASSUME MapsOK, RefsOld, KeysKept, nextDepositId' \in Nat, nextDepositId <= nextDepositId',
         NEW i \in Identities, NEW amount \in Nat, NEW o \in Outputs,
         NEW id \in Nat, id < nextDepositId', KeyOf(id)' = {o},
         CreditTo(i, amount, id)
  PROVE  /\ DOMAIN identities' \subseteq Identities
         /\ identities' \in [DOMAIN identities' -> Int]
         /\ entries' \in Seq(Entry)
         /\ \E e \in Entry : entries' = Append(entries, e) /\ OldRef(e.ref)'
         /\ DOMAIN identities' = DOMAIN identities \cup {i}
         /\ Balances' = [Balances EXCEPT ![i] = @ + amount]
         /\ Statements' = [Statements EXCEPT ![i] =
              Append(@, [reason |-> "deposit_credited", amount |-> amount, ref |-> o,
                         balanceAfter |-> Balances[i] + amount])]
<1>1. /\ DOMAIN identities \subseteq Identities /\ identities \in [DOMAIN identities -> Int]
      /\ entries \in Seq(Entry)
  BY DEF MapsOK
<1>2. PICK before : before = IF Has(identities, i) THEN identities[i] ELSE 0
  OBVIOUS
<1>3. PICK ref : ref = <<"deposit", id>>
  OBVIOUS
<1>4. PICK e : e = [id |-> Len(entries) + 1, identity |-> i, reason |-> "deposit_credited",
                    amount |-> amount, ref |-> ref, balanceAfter |-> before + amount]
  OBVIOUS
<1>5. /\ identities' = Put(identities, i, before + amount)
      /\ entries' = Append(entries, e)
  BY <1>2, <1>3, <1>4 DEF CreditTo, Appended
<1>6. before = Balances[i] /\ before \in Int
  BY <1>1, <1>2 DEF Balances, Has
<1>7. ref \in Reference /\ OldRef(ref)' /\ ref[1] # "request" /\ ref[2] = id
  BY <1>3 DEF Reference, OldRef
<1>8. Referred(ref)' = o
  <2>1. Referred(ref)' = CHOOSE p \in KeyOf(id)' : TRUE
    BY <1>3 DEF Referred
  <2> QED  BY <2>1
<1>9. e \in Entry
  <2>1. Len(entries) + 1 \in Nat \ {0} /\ before + amount \in Int
    BY <1>1, <1>6
  <2> QED  BY <1>4, <1>7, <2>1 DEF Entry, Tables!Reasons
<1>10. PICK line : line = [reason |-> "deposit_credited", amount |-> amount, ref |-> o,
                           balanceAfter |-> Balances[i] + amount]
  OBVIOUS
<1>11. line = TableEntry(e)'
  BY <1>4, <1>6, <1>8, <1>10 DEF TableEntry
<1>12. Statements' = [Statements EXCEPT ![i] = Append(@, line)]
  <2>1. Statements' = [Statements EXCEPT ![e.identity] = Append(@, line)]
    BY <1>5, <1>9, <1>11, LineAdded
  <2> QED  BY <1>4, <2>1
<1>13. /\ DOMAIN identities' = DOMAIN identities \cup {i}
       /\ identities' \in [DOMAIN identities' -> Int]
       /\ identities'[i] = before + amount
       /\ \A j \in DOMAIN identities : j # i => identities'[j] = identities[j]
  BY <1>1, <1>5, <1>6 DEF Put
<1>14. Balances' = [Balances EXCEPT ![i] = @ + amount]
  BY <1>1, <1>6, <1>13 DEF Balances, Has
<1>15. OldRef(e.ref)' /\ entries' \in Seq(Entry)
  BY <1>1, <1>4, <1>5, <1>7, <1>9 DEF OldRef
<1> QED  BY <1>1, <1>5, <1>9, <1>10, <1>12, <1>13, <1>14, <1>15

LEMMA CreditDepositShown ==
  ASSUME MemoryInv, NEW id \in Nat, CreditDeposit(id)
  PROVE  MemoryInv' /\ \E o \in Outputs : Tables!CreditDeposit(o)
<1>1. MapsOK /\ IdsAddress /\ RefsOld
  BY DEF MemoryInv
<1>2. PICK o \in KeyOf(id) :
        /\ ~depositsByKey[o].reorged /\ ~depositsByKey[o].credited
        /\ depositsByKey' = [depositsByKey EXCEPT ![o].credited = TRUE]
        /\ CreditTo(depositsByKey[o].identity, depositsByKey[o].amount, id)
  BY DEF CreditDeposit
<1>3. PICK d, row, i, amount :
        /\ d = depositsByKey[o] /\ row = [d EXCEPT !.credited = TRUE]
        /\ i = d.identity /\ amount = d.amount
  OBVIOUS
<1>4. /\ Running /\ spentRequests' = spentRequests /\ reaping' = reaping
      /\ nextDepositId' = nextDepositId
  BY DEF CreditDeposit
<1>5. /\ o \in DOMAIN depositsByKey /\ o \in Outputs /\ d.id = id /\ d \in DepositRow
  BY <1>1, <1>3 DEF KeyOf, MapsOK
<1>6. /\ row \in DepositRow /\ row.id = depositsByKey[o].id /\ i \in Identities /\ amount \in Nat
      /\ depositsByKey' = [depositsByKey EXCEPT ![o] = row]
  BY <1>1, <1>2, <1>3, <1>5 DEF DepositRow
<1>7. /\ KeysKept /\ IdsAddress' /\ KeyOf(row.id)' = {o}
      /\ Deposits[o] = TableRow(d) /\ Deposits[o] # NoRow
      /\ Deposits' = [Deposits EXCEPT ![o] = TableRow(row)]
      /\ DOMAIN depositsByKey' \subseteq Outputs
      /\ depositsByKey' \in [DOMAIN depositsByKey' -> DepositRow]
      /\ nextDepositId' \in Nat /\ nextDepositId <= nextDepositId'
  BY <1>1, <1>3, <1>4, <1>5, <1>6, DepositChanged
<1>8. /\ Tables!WriteTx /\ ToRefund' = ToRefund /\ Requests' = Requests /\ LoopOK'
      /\ DOMAIN spentRequests' \subseteq RequestIds
      /\ spentRequests' \in [DOMAIN spentRequests' -> Row]
      /\ reaping' \in [cutoff: Int, left: SUBSET RequestIds]
  BY <1>4, RequestsAlone
<1>9. /\ DOMAIN identities' \subseteq Identities
      /\ identities' \in [DOMAIN identities' -> Int]
      /\ entries' \in Seq(Entry)
      /\ \E e \in Entry : entries' = Append(entries, e) /\ OldRef(e.ref)'
      /\ DOMAIN identities' = DOMAIN identities \cup {i}
      /\ Balances' = [Balances EXCEPT ![i] = @ + amount]
      /\ Statements' = [Statements EXCEPT ![i] =
           Append(@, [reason |-> "deposit_credited", amount |-> amount, ref |-> o,
                      balanceAfter |-> Balances[i] + amount])]
  <2>1. CreditTo(i, amount, id)
    BY <1>2, <1>3 DEF CreditTo, BalanceAsserted, Appended
  <2>2. row.id = id /\ id < nextDepositId' /\ KeyOf(id)' = {o}
    BY <1>1, <1>3, <1>4, <1>5, <1>6, <1>7 DEF IdsAddress
  <2> QED  BY <1>1, <1>5, <1>6, <1>7, <2>1, <2>2, CreditShown
<1>10. /\ Deposits[o].reorged = d.reorged /\ Deposits[o].credited = d.credited
       /\ Deposits[o].identity = i /\ Deposits[o].amount = amount
  BY <1>3, <1>7 DEF TableRow
<1>11. Deposits' = [Deposits EXCEPT ![o].credited = TRUE]
  <2>1. d.block \in Blocks
    BY <1>5 DEF DepositRow
  <2>2. TableRow(row) = [TableRow(d) EXCEPT !.credited = TRUE]
    BY <1>3, <1>5, <2>1, ChangesShown
  <2> QED  BY <1>7, <2>2 DEF Deposits
<1>12. Tables!CreditDeposit(o)
  BY <1>2, <1>3, <1>7, <1>8, <1>9, <1>10, <1>11
  DEF Tables!CreditDeposit, Tables!Credit, Tables!AppendLedger
<1>13. RefsOld'
  BY <1>7, <1>9, RefsStay
<1> QED  BY <1>5, <1>7, <1>8, <1>9, <1>12, <1>13 DEF MemoryInv, MapsOK

LEMMA InsertAndCreditShown ==
  ASSUME MemoryInv, NEW o \in Outputs, NEW i \in Identities, NEW amount \in Amounts,
         NEW block \in Blocks, InsertAndCreditDeposit(o, i, amount, block)
  PROVE  MemoryInv' /\ Tables!InsertAndCreditDeposit(o, i, amount, block)
<1>1. PICK row, id : /\ row = [NewDeposit(i, amount, block) EXCEPT !.credited = TRUE]
                     /\ id = nextDepositId
  OBVIOUS
<1>2. /\ Running /\ ~Has(depositsByKey, o)
      /\ depositsByKey' = Put(depositsByKey, o, row) /\ nextDepositId' = nextDepositId + 1
      /\ CreditTo(i, amount, id)
      /\ spentRequests' = spentRequests /\ reaping' = reaping
  BY <1>1 DEF InsertAndCreditDeposit, CreditTo, BalanceAsserted, Appended
<1>3. MapsOK /\ IdsAddress /\ RefsOld /\ amount \in Nat
  BY RowAssumption DEF MemoryInv
<1>4. PICK d : d = NewDeposit(i, amount, block)
  OBVIOUS
<1>5. d \in DepositRow /\ d.id = id /\ id \in Nat
  BY <1>1, <1>3, <1>4 DEF NewDeposit, DepositRow, MapsOK
<1>6. row \in DepositRow /\ row.id = id /\ row = [d EXCEPT !.credited = TRUE]
  BY <1>1, <1>4, <1>5 DEF DepositRow
<1>7. /\ KeysKept /\ IdsAddress' /\ KeyOf(row.id)' = {o}
      /\ Deposits[o] = NoRow /\ Deposits' = [Deposits EXCEPT ![o] = TableRow(row)]
      /\ DOMAIN depositsByKey' \subseteq Outputs
      /\ depositsByKey' \in [DOMAIN depositsByKey' -> DepositRow]
      /\ nextDepositId' \in Nat /\ nextDepositId <= nextDepositId'
  BY <1>1, <1>2, <1>3, <1>6, DepositAdded
<1>8. /\ Tables!WriteTx /\ ToRefund' = ToRefund /\ Requests' = Requests /\ LoopOK'
      /\ DOMAIN spentRequests' \subseteq RequestIds
      /\ spentRequests' \in [DOMAIN spentRequests' -> Row]
      /\ reaping' \in [cutoff: Int, left: SUBSET RequestIds]
  BY <1>2, RequestsAlone
<1>9. /\ DOMAIN identities' \subseteq Identities
      /\ identities' \in [DOMAIN identities' -> Int]
      /\ entries' \in Seq(Entry)
      /\ \E e \in Entry : entries' = Append(entries, e) /\ OldRef(e.ref)'
      /\ DOMAIN identities' = DOMAIN identities \cup {i}
      /\ Balances' = [Balances EXCEPT ![i] = @ + amount]
      /\ Statements' = [Statements EXCEPT ![i] =
           Append(@, [reason |-> "deposit_credited", amount |-> amount, ref |-> o,
                      balanceAfter |-> Balances[i] + amount])]
  <2>1. id < nextDepositId' /\ KeyOf(id)' = {o}
    BY <1>1, <1>2, <1>5, <1>6, <1>7
  <2> QED  BY <1>2, <1>3, <1>5, <1>7, <2>1, CreditShown
<1>10. TableRow(row) = [identity |-> i, amount |-> amount, block |-> block,
                        credited |-> TRUE, reorged |-> FALSE]
  <2>1. /\ row.identity = i /\ row.amount = amount /\ row.block = block
        /\ row.credited = TRUE /\ row.reorged = FALSE
    BY <1>4, <1>5, <1>6 DEF NewDeposit, DepositRow
  <2> QED  BY <2>1 DEF TableRow
<1>11. Tables!InsertAndCreditDeposit(o, i, amount, block)
  BY <1>2, <1>7, <1>8, <1>9, <1>10
  DEF Tables!InsertAndCreditDeposit, Tables!Credit, Tables!AppendLedger
<1>12. RefsOld'
  BY <1>7, <1>9, RefsStay
<1> QED  BY <1>7, <1>8, <1>9, <1>11, <1>12 DEF MemoryInv, MapsOK

LEMMA MarkReorgedShown ==
  ASSUME MemoryInv, NEW id \in Nat, MarkDepositReorged(id)
  PROVE  MemoryInv' /\ \E o \in Outputs : Tables!MarkDepositReorged(o)
<1>1. MapsOK /\ IdsAddress /\ RefsOld
  BY DEF MemoryInv
<1>2. PICK o \in KeyOf(id) :
        /\ ~depositsByKey[o].reorged
        /\ depositsByKey' = [depositsByKey EXCEPT ![o].reorged = TRUE]
        /\ IF depositsByKey[o].credited /\ Has(identities, depositsByKey[o].identity)
           THEN Move(depositsByKey[o].identity, "reorg", -depositsByKey[o].amount,
                     <<"deposit", id>>)
           ELSE UNCHANGED <<identities, entries>>
  BY DEF MarkDepositReorged
<1>3. PICK d, row, i, change, ref, reason :
        /\ d = depositsByKey[o] /\ row = [d EXCEPT !.reorged = TRUE]
        /\ i = d.identity /\ change = -d.amount /\ ref = <<"deposit", id>> /\ reason = "reorg"
  OBVIOUS
<1>4. /\ Running /\ spentRequests' = spentRequests /\ reaping' = reaping
      /\ nextDepositId' = nextDepositId
  BY DEF MarkDepositReorged
<1>5. /\ o \in DOMAIN depositsByKey /\ o \in Outputs /\ d.id = id /\ d \in DepositRow
  BY <1>1, <1>3 DEF KeyOf, MapsOK
<1>6. /\ row \in DepositRow /\ row.id = depositsByKey[o].id /\ i \in Identities
      /\ change \in Int /\ d.amount \in Nat
      /\ depositsByKey' = [depositsByKey EXCEPT ![o] = row]
  <2>1. row \in DepositRow /\ row.id = d.id
    BY <1>3, <1>5 DEF DepositRow
  <2>2. i \in Identities /\ d.amount \in Nat
    BY <1>3, <1>5 DEF DepositRow
  <2>3. change \in Int
    BY <1>3, <2>2
  <2>4. depositsByKey' = [depositsByKey EXCEPT ![o] = row]
    BY <1>2, <1>3
  <2> QED  BY <1>3, <2>1, <2>2, <2>3, <2>4
<1>7. /\ KeysKept /\ IdsAddress' /\ KeyOf(row.id)' = {o}
      /\ Deposits[o] = TableRow(d) /\ Deposits[o] # NoRow
      /\ Deposits' = [Deposits EXCEPT ![o] = TableRow(row)]
      /\ DOMAIN depositsByKey' \subseteq Outputs
      /\ depositsByKey' \in [DOMAIN depositsByKey' -> DepositRow]
      /\ nextDepositId' \in Nat /\ nextDepositId <= nextDepositId'
  BY <1>1, <1>3, <1>4, <1>5, <1>6, DepositChanged
<1>8. /\ Tables!WriteTx /\ ToRefund' = ToRefund /\ Requests' = Requests /\ LoopOK'
      /\ DOMAIN spentRequests' \subseteq RequestIds
      /\ spentRequests' \in [DOMAIN spentRequests' -> Row]
      /\ reaping' \in [cutoff: Int, left: SUBSET RequestIds]
  BY <1>4, RequestsAlone
<1>9. /\ Deposits[o].reorged = d.reorged /\ Deposits[o].credited = d.credited
      /\ Deposits[o].identity = i /\ Deposits[o].amount = d.amount
  BY <1>3, <1>7 DEF TableRow
<1>10. Deposits' = [Deposits EXCEPT ![o].reorged = TRUE]
  <2>1. d.block \in Blocks
    BY <1>5 DEF DepositRow
  <2>2. TableRow(row) = [TableRow(d) EXCEPT !.reorged = TRUE]
    BY <1>3, <1>5, <2>1, ChangesShown
  <2> QED  BY <1>7, <2>2 DEF Deposits
<1>11. CASE d.credited /\ Has(identities, i)
  <2>1. i \in DOMAIN identities /\ Moved(i, reason, change, ref)
    BY <1>2, <1>3, <1>11 DEF Has, Move, Moved, Appended
  <2>2. reason \in Tables!Reasons /\ ref \in Reference
    BY <1>3 DEF Tables!Reasons, Reference
  <2>3. id < nextDepositId /\ KeyOf(id)' = {o}
    BY <1>1, <1>3, <1>5, <1>6, <1>7 DEF IdsAddress
  <2>4. OldRef(ref)'
    BY <1>3, <1>4, <2>3 DEF OldRef
  <2>5. o = Referred(ref)'
    <3>1. ref[1] # "request" /\ ref[2] = id
      BY <1>3
    <3>2. Referred(ref)' = CHOOSE p \in KeyOf(id)' : TRUE
      BY <3>1 DEF Referred
    <3> QED  BY <2>3, <3>2
  <2>6. /\ DOMAIN identities' = DOMAIN identities
        /\ identities' \in [DOMAIN identities' -> Int]
        /\ Balances[i] \in Int
        /\ Balances' = [Balances EXCEPT ![i] = @ + change]
        /\ Statements' = [Statements EXCEPT ![i] =
             Append(@, [reason |-> reason, amount |-> change, ref |-> o,
                        balanceAfter |-> Balances[i] + change])]
        /\ \E e \in Entry : entries' = Append(entries, e) /\ e.ref = ref
    BY <1>1, <1>6, <1>7, <2>1, <2>2, <2>5, MoveShown
  <2>7. PICK e \in Entry : entries' = Append(entries, e) /\ e.ref = ref
    BY <2>6
  <2>8. OldRef(e.ref)'
    BY <2>4, <2>7 DEF OldRef
  <2>9. RefsOld' /\ entries' \in Seq(Entry)
    BY <1>7, <2>7, <2>8, RefsStay
  <2>10. Balances[i] + change = Balances[i] - d.amount
    BY <1>3, <1>6, <2>6
  <2>11. Tables!MarkDepositReorged(o)
    BY <1>2, <1>3, <1>4, <1>7, <1>8, <1>9, <1>10, <1>11, <2>1, <2>6, <2>10
    DEF Tables!MarkDepositReorged, Tables!AppendLedger
  <2> QED  BY <1>1, <1>5, <1>7, <1>8, <2>6, <2>9, <2>11 DEF MemoryInv, MapsOK
<1>12. CASE ~(d.credited /\ Has(identities, i))
  <2>1. identities' = identities /\ entries' = entries
    BY <1>2, <1>3, <1>12
  <2>2. Statements' = Statements /\ Balances' = Balances
    BY <1>1, <1>7, <2>1, StatementsKept DEF Balances, Has
  <2>3. Tables!MarkDepositReorged(o)
    BY <1>2, <1>3, <1>7, <1>8, <1>9, <1>10, <1>12, <2>1, <2>2
    DEF Tables!MarkDepositReorged, Has
  <2>4. RefsOld' /\ entries' \in Seq(Entry)
    BY <1>7, <2>1, RefsStay
  <2> QED  BY <1>1, <1>5, <1>7, <1>8, <2>1, <2>3, <2>4 DEF MemoryInv, MapsOK
<1> QED  BY <1>11, <1>12

-----------------------------------------------------------------------------
(* Every step is one of the tables.                                        *)

LEMMA InitShown == MemoryInit => MemoryInv /\ Tables!StorageInit
<1> SUFFICES ASSUME MemoryInit PROVE MemoryInv /\ Tables!StorageInit
  OBVIOUS
<1>1. /\ DOMAIN identities = {} /\ DOMAIN spentRequests = {} /\ DOMAIN depositsByKey = {}
      /\ identities = [k \in {} |-> NoRow] /\ spentRequests = [k \in {} |-> NoRow]
      /\ depositsByKey = [k \in {} |-> NoRow]
      /\ entries = << >> /\ nextDepositId = 1 /\ reaping = [cutoff |-> 0, left |-> {}]
  BY DEF MemoryInit, EmptyMap, NotReaping
<1>2. MapsOK
  <2>1. identities \in [{} -> Int] /\ spentRequests \in [{} -> Row]
        /\ depositsByKey \in [{} -> DepositRow]
    BY <1>1
  <2>2. entries \in Seq(Entry)
    BY <1>1
  <2> QED  BY <1>1, <2>1, <2>2 DEF MapsOK
<1>3. IdsAddress /\ LoopOK
  BY <1>1 DEF IdsAddress, LoopOK
<1>4. RefsOld
  BY <1>1 DEF RefsOld
<1>5. Statements = [i \in Identities |-> << >>]
  BY <1>1, NoRowsBehind DEF Statements
<1>6. /\ Balances = [i \in Identities |-> 0] /\ Requests = [r \in RequestIds |-> NoRow]
      /\ Deposits = [o \in Outputs |-> NoRow] /\ ToRefund = {}
  BY <1>1 DEF Balances, Requests, Deposits, ToRefund, Has
<1> QED  BY <1>1, <1>2, <1>3, <1>4, <1>5, <1>6 DEF MemoryInv, Tables!StorageInit

\* Reading changes no table.
LEMMA ReadsShown ==
  ASSUME MemoryInv, UNCHANGED memoryVars
  PROVE  MemoryInv' /\ UNCHANGED Tables!storageVars
<1>1. /\ identities' = identities /\ spentRequests' = spentRequests /\ entries' = entries
      /\ depositsByKey' = depositsByKey /\ nextDepositId' = nextDepositId /\ reaping' = reaping
  BY DEF memoryVars
<1>2. KeysKept /\ IdsAddress' /\ Deposits' = Deposits
  BY <1>1, DepositsAlone
<1>3. Statements' = Statements
  BY <1>1, <1>2, StatementsKept DEF MemoryInv
<1>4. Balances' = Balances /\ Requests' = Requests /\ ToRefund' = ToRefund
  BY <1>1 DEF Balances, Requests, ToRefund, Expired, Has
<1>5. MapsOK' /\ LoopOK' /\ RefsOld'
  BY <1>1 DEF MemoryInv, MapsOK, LoopOK, RefsOld, OldRef
<1> QED  BY <1>1, <1>2, <1>3, <1>4, <1>5 DEF MemoryInv, Tables!storageVars

LEMMA NextShown ==
  MemoryInv /\ [MemoryNext]_vars => MemoryInv' /\ [Tables!StorageNext]_Tables!storageVars
<1> SUFFICES ASSUME MemoryInv, [MemoryNext]_vars
             PROVE  MemoryInv' /\ [Tables!StorageNext]_Tables!storageVars
  OBVIOUS
<1>1. ASSUME NEW r \in RequestIds, NEW i \in Identities, NEW issuedAt \in Times,
             NEW receivedAt \in Times, RecordBalanceQuery(r, i, issuedAt, receivedAt)
      PROVE  MemoryInv' /\ Tables!StorageNext
  BY <1>1, QueryShown DEF Tables!StorageNext, Tables!PaymentStep
<1>2. ASSUME NEW r \in RequestIds, NEW i \in Identities, NEW issuedAt \in Times,
             NEW receivedAt \in Times, NEW amount \in Amounts,
             ReservePayment(r, i, issuedAt, receivedAt, amount)
      PROVE  MemoryInv' /\ Tables!StorageNext
  BY <1>2, ReserveShown DEF Tables!StorageNext, Tables!PaymentStep
<1>3. ASSUME NEW r \in RequestIds, CommitPayment(r)
      PROVE  MemoryInv' /\ Tables!StorageNext
  BY <1>3, CommitShown DEF Tables!StorageNext, Tables!PaymentStep
<1>4. ASSUME NEW r \in RequestIds, RollbackPayment(r)
      PROVE  MemoryInv' /\ Tables!StorageNext
  BY <1>4, RollbackShown DEF Tables!StorageNext, Tables!PaymentStep
<1>5. ASSUME NEW r \in RequestIds, LateCommitPayment(r)
      PROVE  MemoryInv' /\ Tables!StorageNext
  BY <1>5, LateCommitShown DEF Tables!StorageNext, Tables!PaymentStep
<1>6. ASSUME NEW r \in RequestIds, VisitRow(r)
      PROVE  MemoryInv' /\ [Tables!StorageNext]_Tables!storageVars
  BY <1>6, VisitShown DEF Tables!StorageNext, Tables!MaintenanceStep
<1>7. ASSUME NEW cutoff \in Times, ReapExpiredReservations(cutoff)
      PROVE  MemoryInv' /\ Tables!StorageNext
  BY <1>7, ReapShown DEF Tables!StorageNext, Tables!MaintenanceStep
<1>8. ASSUME NEW cutoff \in Times, CleanupSpentRequests(cutoff)
      PROVE  MemoryInv' /\ Tables!StorageNext
  BY <1>8, CleanupShown DEF Tables!StorageNext, Tables!MaintenanceStep
<1>9. ASSUME NEW o \in Outputs, NEW block \in Blocks, RemineDeposit(o, block)
      PROVE  MemoryInv' /\ Tables!StorageNext
  BY <1>9, RemineShown DEF Tables!StorageNext, Tables!DepositStep
<1>10. ASSUME NEW o \in Outputs, NEW block \in Blocks, NEW i \in Identities,
              NEW amount \in Amounts,
              InsertDeposit(o, i, amount, block) \/ InsertAndCreditDeposit(o, i, amount, block)
       PROVE  MemoryInv' /\ Tables!StorageNext
  BY <1>10, InsertDepositShown, InsertAndCreditShown DEF Tables!StorageNext, Tables!DepositStep
<1>11. ASSUME NEW id \in 1..(nextDepositId - 1), CreditDeposit(id) \/ MarkDepositReorged(id)
       PROVE  MemoryInv' /\ Tables!StorageNext
  <2>1. id \in Nat
    BY DEF MemoryInv, MapsOK
  <2> QED  BY <1>11, <2>1, CreditDepositShown, MarkReorgedShown
           DEF Tables!StorageNext, Tables!DepositStep
<1>12. CASE ReadPage \/ Reconcile \/ UNCHANGED vars
  <2>1. UNCHANGED memoryVars
    BY <1>12 DEF ReadPage, Reconcile, vars
  <2> QED  BY <2>1, ReadsShown
<1> QED
  BY <1>1, <1>2, <1>3, <1>4, <1>5, <1>6, <1>7, <1>8, <1>9, <1>10, <1>11, <1>12 DEF MemoryNext

\* The in-memory backend implements the tables of SQLite (memory.ts:27): each of
\* its steps is some transaction of Storage or changes nothing there.  Which one it
\* is, the lemmas above say: ReserveShown and so on up to MarkReorgedShown.
THEOREM MemoryImplemented == MemorySpec => ImplementsStorage
<1>1. MemorySpec => []MemoryInv
  BY InitShown, NextShown, PTL DEF MemorySpec
<1>2. MemoryInit => Tables!StorageInit
  BY InitShown
<1>3. MemoryInv /\ [MemoryNext]_vars => [Tables!StorageNext]_Tables!storageVars
  BY NextShown
<1> QED  BY <1>1, <1>2, <1>3, PTL DEF MemorySpec, ImplementsStorage, Tables!StorageSpec
=============================================================================
