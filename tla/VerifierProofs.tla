--------------------------- MODULE VerifierProofs ---------------------------
(***************************************************************************)
(* Proofs about Signing and Verifier, for any identities, states, requests,*)
(* slots and times: who is served has signed for it, with keys the chain   *)
(* held a moment ago.                                                      *)
(***************************************************************************)
EXTENDS Verifier, SequenceTheorems, SumProofs

-----------------------------------------------------------------------------
(* Extension blocks.                                                       *)

\* A block that is parsed ascends from each field to each later one.
LEMMA ParsedAscends ==
  ASSUME NEW b, b \in Seq(Range(b)), ParseExtensionBlock(b),
         \A n \in DOMAIN b : b[n][1] \in Int
  PROVE  \A m, n \in DOMAIN b : m < n => b[m][1] < b[n][1]
<1>1. Len(b) \in Nat /\ DOMAIN b = 1..Len(b)
  OBVIOUS
<1> DEFINE S == {n \in 1..Len(b) : \E m \in 1..Len(b) : m < n /\ ~(b[m][1] < b[n][1])}
<1> SUFFICES ASSUME S # {} PROVE FALSE
  BY <1>1
<1>2. PICK n \in S : \A k \in S : n <= k
  <2>1. S \in SUBSET Nat
    BY <1>1
  <2> HIDE DEF S
  <2> QED  BY <2>1, SmallestNumber
<1>3. PICK m \in 1..Len(b) : m < n /\ ~(b[m][1] < b[n][1])
  BY <1>2
<1> DEFINE k == n - 1
<1>4. k \in 1..Len(b) - 1 /\ k \in 1..Len(b) /\ k + 1 = n /\ k < n
  BY <1>1, <1>2, <1>3
<1>5. b[k][1] < b[n][1]
  BY <1>4 DEF ParseExtensionBlock
<1>6. m # k
  BY <1>3, <1>5
<1>7. m < k
  BY <1>1, <1>3, <1>4, <1>6
<1>8. b[m][1] < b[k][1]
  BY <1>1, <1>2, <1>4, <1>7
<1>9. b[m][1] \in Int /\ b[n][1] \in Int /\ b[k][1] \in Int
  BY <1>1, <1>2, <1>4
<1> HIDE DEF k
<1> QED  BY <1>3, <1>5, <1>8, <1>9

\* A permutation of places that keeps their order moves none.
LEMMA OrderedPermutation ==
  ASSUME NEW N \in Nat, NEW p \in Bijection(1..N, 1..N),
         \A m, n \in 1..N : m < n => p[m] <= p[n]
  PROVE  \A n \in 1..N : p[n] = n
<1> DEFINE S == {n \in 1..N : p[n] # n}
<1> SUFFICES ASSUME S # {} PROVE FALSE
  OBVIOUS
<1>1. /\ \A n \in 1..N : p[n] \in 1..N
      /\ \A m, n \in 1..N : p[m] = p[n] => m = n
      /\ \A n \in 1..N : \E m \in 1..N : p[m] = n
  BY DEF Bijection, Injection, Surjection, IsInjective
<1>2. PICK n \in S : \A k \in S : n <= k
  <2>1. S \in SUBSET Nat
    OBVIOUS
  <2> HIDE DEF S
  <2> QED  BY <2>1, SmallestNumber
<1>3. \A k \in 1..N : k < n => p[k] = k
  BY <1>2
<1>4. PICK k \in 1..N : p[k] = n
  BY <1>1, <1>2
<1>5. p[n] \in 1..N /\ n \in 1..N /\ p[n] # n
  BY <1>1, <1>2
<1>6. CASE p[n] < n
  <2>1. p[p[n]] = p[n]
    BY <1>3, <1>5, <1>6
  <2> QED  BY <1>1, <1>5, <2>1
<1>7. CASE p[n] > n
  <2>1. k > n
    BY <1>3, <1>4, <1>5
  <2>2. p[n] <= p[k]
    BY <1>4, <1>5, <2>1
  <2> QED  BY <1>4, <1>5, <1>7, <2>2
<1> QED  BY <1>5, <1>6, <1>7

\* What was signed in the order of its keys is bound as it stands.
LEMMA SerializedParsed ==
  ASSUME NEW b, b \in Seq(Range(b)), ParseExtensionBlock(b),
         \A n \in DOMAIN b : b[n][1] \in Int
  PROVE  Serialize(b) = b
<1> DEFINE places == 1..Len(b)
           sorted(c) == c \in {[n \in places |-> b[p[n]]] : p \in Bijection(places, places)}
<1>1. Len(b) \in Nat /\ DOMAIN b = places /\ b = [n \in places |-> b[n]]
  OBVIOUS
<1>2. \A m, n \in places : m < n => b[m][1] < b[n][1]
  BY <1>1, ParsedAscends
<1>3. sorted(b) /\ Ascending(b)
  <2> DEFINE id == [n \in places |-> n]
  <2>1. id \in Bijection(places, places)
    BY DEF Bijection, Injection, Surjection, IsInjective
  <2>2. b = [n \in places |-> b[id[n]]]
    BY <1>1
  <2>3. Ascending(b)
    BY <1>1, <1>2 DEF Ascending
  <2> HIDE DEF id
  <2> QED  BY <2>1, <2>2, <2>3
<1>4. ASSUME NEW c, sorted(c), Ascending(c) PROVE c = b
  <2>1. PICK p \in Bijection(places, places) : c = [n \in places |-> b[p[n]]]
    BY <1>4
  <2>2. \A n \in places : p[n] \in places
    BY DEF Bijection, Injection
  <2>3. ASSUME NEW m \in places, NEW n \in places, m < n PROVE p[m] <= p[n]
    <3>1. c[m][1] <= c[n][1] /\ c[m] = b[p[m]] /\ c[n] = b[p[n]]
      BY <1>4, <2>1, <2>3 DEF Ascending
    <3>2. b[p[m]][1] \in Int /\ b[p[n]][1] \in Int
      BY <1>1, <2>2
    <3>3. ~(b[p[n]][1] < b[p[m]][1])
      BY <3>1, <3>2
    <3>4. ~(p[n] < p[m])
      BY <1>2, <2>2, <3>3
    <3> QED  BY <2>2, <3>4
  <2>4. \A n \in places : p[n] = n
    BY <1>1, <2>3, OrderedPermutation
  <2> QED  BY <1>1, <2>1, <2>4
<1>5. Serialize(b) = CHOOSE c \in {[n \in places |-> b[p[n]]] : p \in Bijection(places, places)} :
                       Ascending(c)
  BY <1>1 DEF Serialize
<1> QED  BY <1>3, <1>4, <1>5

-----------------------------------------------------------------------------
(* A signature that verifies has been made for what is served.             *)

\* A payment that fails no check has its extensions in order and its body bound.
LEMMA PaymentPasses ==
  ASSUME NEW q, q.kind = "payment", Failed(q) = {}
  PROVE  DecodeExtensions(q)
<1>1. 5 \notin Failed(q)
  OBVIOUS
<1>2. 5 \in DOMAIN PaymentChecks(q) /\ PaymentChecks(q)[5][1] = DecodeExtensions(q)
  BY DEF PaymentChecks
<1>3. ChecksOf(q) = PaymentChecks(q)
  BY DEF ChecksOf
<1> QED  BY <1>1, <1>2, <1>3 DEF Failed

\* The server's payload is what the payer must have meant.
LEMMA PayloadMeant ==
  ASSUME NEW c \in Checks, NEW q \in Requests[c], Failed(q) = {}
  PROVE  Expected(q) = Meant(q) /\ BodyBound(q)
<1>1. CASE q.kind = "payment"
  <2>1. DecodeExtensions(q)
    BY <1>1, PaymentPasses
  <2>2. q.extensions \in Seq(Range(q.extensions)) /\ \A n \in DOMAIN q.extensions : q.extensions[n][1] \in Int
    BY RequestAssumption, SigningAssumption
  <2>3. Serialize(q.extensions) = q.extensions
    BY <2>1, <2>2, SerializedParsed DEF DecodeExtensions
  <2>4. Expected(q) = Meant(q)
    BY <1>1, <2>3 DEF Expected, Meant, Canonicalize, Terms
  <2>5. BodyBound(q)
    BY <2>1 DEF DecodeExtensions, BodyHashFits, BodyHashes, BodyBound
  <2> QED  BY <2>4, <2>5
<1>2. CASE q.kind = "balance"
  BY <1>2 DEF Expected, Meant, CanonicalizeBalanceQuery, Terms, BodyBound
<1>3. CASE q.kind = "ledger"
  BY <1>3 DEF Expected, Meant, CanonicalizeLedgerQuery, Terms, BodyBound
<1> QED  BY <1>1, <1>2, <1>3, RequestAssumption

\* A signature verifies in a state exactly if the state's keys have signed.
LEMMA VerifiedIfSigned ==
  ASSUME NEW c \in Checks, NEW q \in Requests[c], Failed(q) = {}, NEW s \in States
  PROVE  VerifyIdentitySignature(Expected(q), q.signature, Server.system, IdentityOf[q.payer], s)
           <=> Signed(q, s)
<1> DEFINE digest == <<Server.system, q.signature[2], IdentityOf[q.payer], Meant(q)>>
           signers == s.primary \cap Signers(q)
<1>1. Expected(q) = Meant(q) /\ BodyBound(q)
  BY PayloadMeant
<1>2. s.primary \subseteq Keys /\ None \notin s.primary /\ s.required \in Nat
  BY VerifierAssumption, SigningAssumption
<1>3. IdentityDigest(Expected(q), Server.system, q.signature[2], IdentityOf[q.payer]) = digest
  BY <1>1 DEF IdentityDigest
<1>4. Matched(digest, q.signature, s.primary) = signers
  BY <1>2 DEF Matched, Recover, Signers
<1>5. q.signature[3] = << >> => Cardinality(signers) = 0
  <2>1. q.signature[3] = << >> => signers = {}
    BY DEF Signers
  <2> HIDE DEF signers
  <2> QED  BY <2>1, FS_EmptySet
<1>6. Larger(1, s.required) \in Nat /\ Larger(1, s.required) >= 1
  BY <1>2 DEF Larger
<1>7. Cardinality(signers) >= Larger(1, s.required) => q.signature[3] # << >>
  BY <1>5, <1>6
<1> HIDE DEF digest, signers
<1>8. Signed(q, s) <=> /\ ~s.revoked /\ q.signature[1] = "identity"
                       /\ Cardinality(signers) >= Larger(1, s.required)
  BY <1>1 DEF Signed, signers
<1>9. VerifyIdentitySignature(Expected(q), q.signature, Server.system, IdentityOf[q.payer], s)
        <=> /\ ~s.revoked /\ q.signature[1] = "identity" /\ q.signature[3] # << >>
            /\ Cardinality(signers) >= Larger(1, s.required)
  BY <1>3, <1>4 DEF VerifyIdentitySignature, ParseIdentitySignature
<1> QED  BY <1>7, <1>8, <1>9

-----------------------------------------------------------------------------
(* The inductive invariant.                                                *)

CallSteps == {"none", "sent", "queued", "test"}

Steps == {"idle", "verifying", "fetching", "refreshing"}

\* The identity a call is about, and the call a check waits for.
About(k) == IF k \in Checks THEN Payer(k) ELSE k

Awaited(c) == IF check[c].step = "verifying" THEN c ELSE Payer(c)

\* The chain holds the state it is in.
ChainKnown ==
  /\ mode \in Modes /\ up \in BOOLEAN
  /\ state \in [Identities -> States]
  /\ lastHeld \in [Identities -> [States -> 0..Horizon]]
  /\ \A i \in Identities : lastHeld[i][state[i]] = 0

\* What the node has answered, the chain has held since the call was made.
CallsAge ==
  /\ rpc \in [Subjects -> [step : CallSteps, answer : States \cup {None}, age : 0..RpcMax]]
  /\ \A k \in Subjects : rpc[k].step = "none" => rpc[k] = NoCall
  /\ \A k \in Subjects : rpc[k].answer # None =>
       Flying(k) /\ lastHeld[About(k)][rpc[k].answer] <= rpc[k].age

\* A half-open breaker has one call under test, and only then others are queued.
OneTest ==
  /\ breaker \in [state : {"closed", "open", "half-open"}, failures : 0..Failures, age : 0..Recovery]
  /\ breaker.state = "half-open" <=> \E k \in Subjects : rpc[k].step = "test"
  /\ \A j, k \in Subjects : rpc[j].step = "test" /\ rpc[k].step = "test" => j = k
  /\ \A k \in Subjects : rpc[k].step = "queued" => breaker.state = "half-open"

\* A check that runs has passed what comes before the signature, and its call is made.
ChecksWait ==
  /\ check = [c \in Checks |-> [step |-> check[c].step, request |-> check[c].request]]
  /\ \A c \in Checks : check[c].step \in Steps
  /\ \A c \in Checks : Running(c) =>
       /\ check[c].request \in Requests[c] /\ Failed(check[c].request) = {}
       /\ rpc[Awaited(c)] # NoCall
  /\ \A c \in Checks : rpc[c] # NoCall => check[c].step = "verifying"

CacheEntry == [identity : Identities, state : States, age : 0..Larger(Ttl, MinRefreshAge)]

\* The chain has held what an entry says when the call was made that fetched it.
CacheAges ==
  /\ cache \in Seq(CacheEntry) /\ Len(cache) <= MaxEntries
  /\ \A m, n \in 1..Len(cache) : cache[m].identity = cache[n].identity => m = n
  /\ \A n \in 1..Len(cache) :
       lastHeld[cache[n].identity][cache[n].state] <= RpcMax + cache[n].age

\* A fetch that began a moment ago is under way or has left an entry as young.
FetchesKnown ==
  /\ asked \in [Identities -> 0..RefreshGap]
  /\ \A i \in Identities : asked[i] < RefreshGap =>
       rpc[i] # NoCall \/ \E n \in Entries(i) : cache[n].age <= asked[i]

VerifierInv ==
  ChainKnown /\ CallsAge /\ OneTest /\ ChecksWait /\ CacheAges /\ FetchesKnown

-----------------------------------------------------------------------------
(* What the parts of a step do.                                            *)

Id(q) == IdentityOf[q.payer]

LEMMA PayerKnown ==
  ASSUME NEW c \in Checks, NEW q \in Requests[c]
  PROVE  Id(q) \in Identities /\ Id(q) \in Subjects /\ Id(q) \notin Checks /\ c \in Subjects
BY RequestAssumption, SigningAssumption, VerifierAssumption DEF Id, Subjects

LEMMA Numbers ==
  /\ Ttl \in Nat /\ Ttl >= 1 /\ MinRefreshAge \in Nat /\ MinRefreshAge >= 1
  /\ RpcMax \in Nat /\ Recovery \in Nat /\ Failures \in Nat /\ Failures >= 1
  /\ MaxEntries \in Nat /\ MaxEntries >= 1
  /\ Larger(Ttl, MinRefreshAge) \in Nat
  /\ Larger(Ttl, MinRefreshAge) >= Ttl /\ Larger(Ttl, MinRefreshAge) >= MinRefreshAge
  /\ RefreshGap \in Nat /\ RefreshGap <= Ttl /\ RefreshGap <= MinRefreshAge
  /\ Horizon = Larger(Ttl, MinRefreshAge) + RpcMax /\ Horizon \in Nat
BY VerifierAssumption DEF Larger, Lesser, RefreshGap, Horizon

\* A call to the node is made: it goes out, tests the node or waits for the test.
CallMade(k) ==
  /\ DOMAIN rpc' = Subjects
  /\ \A j \in Subjects : j # k => rpc'[j] = rpc[j]
  /\ rpc'[k] = [step |-> rpc'[k].step, answer |-> None, age |-> 0]
  /\ \/ rpc'[k].step = "sent" /\ breaker.state = "closed" /\ breaker' = breaker
     \/ rpc'[k].step = "queued" /\ breaker.state = "half-open" /\ breaker' = breaker
     \/ rpc'[k].step = "test" /\ breaker.state = "open" /\ breaker'.state = "half-open"

LEMMA CallMakes ==
  ASSUME CallsAge, OneTest, NEW k \in Subjects, Call(k)
  PROVE  /\ CallMade(k)
         /\ breaker' \in [state : {"closed", "open", "half-open"}, failures : 0..Failures, age : 0..Recovery]
<1> DEFINE st == CASE breaker.state = "closed" -> "sent"
                   [] breaker.state = "open" -> "test"
                   [] breaker.state = "half-open" -> "queued"
<1>1. /\ rpc' = [rpc EXCEPT ![k] = [NoCall EXCEPT !.step = st]]
      /\ breaker' = IF breaker.state = "open" THEN [breaker EXCEPT !.state = "half-open"] ELSE breaker
  BY DEF Call
<1>2. breaker.state \in {"closed", "open", "half-open"}
  BY DEF OneTest
<1>3. \/ breaker.state = "closed" /\ st = "sent"
      \/ breaker.state = "open" /\ st = "test"
      \/ breaker.state = "half-open" /\ st = "queued"
  BY <1>2
<1>4. breaker' \in [state : {"closed", "open", "half-open"}, failures : 0..Failures, age : 0..Recovery]
      /\ (breaker.state = "open" => breaker'.state = "half-open")
      /\ (breaker.state # "open" => breaker' = breaker)
  BY <1>1 DEF OneTest
<1> HIDE DEF st
<1>5. DOMAIN rpc = Subjects
  BY DEF CallsAge
<1>6. DOMAIN rpc' = Subjects /\ \A j \in Subjects : j # k => rpc'[j] = rpc[j]
  BY <1>1, <1>5
<1>7. rpc'[k] = [step |-> st, answer |-> None, age |-> 0]
  BY <1>1, <1>5 DEF NoCall
<1> QED  BY <1>3, <1>4, <1>6, <1>7 DEF CallMade

BreakerRow == [state : {"closed", "open", "half-open"}, failures : 0..Failures, age : 0..Recovery]

\* A call ends: its place is free, and if it was the test, those who waited for it
\* go out or are refused.
CallEnded(k) ==
  /\ rpc' = [j \in Subjects |-> rpc'[j]]
  /\ rpc'[k] = NoCall
  /\ \A j \in Subjects : j # k /\ ~(rpc[k].step = "test" /\ rpc[j].step = "queued") => rpc'[j] = rpc[j]
  /\ \A j \in Subjects : j # k /\ rpc[k].step = "test" /\ rpc[j].step = "queued" =>
       rpc'[j] = IF breaker'.state = "closed" THEN Sent ELSE NoCall
  /\ breaker' \in BreakerRow
  /\ rpc[k].step = "test" => breaker'.state \in {"closed", "open"}
  /\ rpc[k].step # "test" => (breaker'.state = "half-open" <=> breaker.state = "half-open")

LEMMA BreakerCounts ==
  ASSUME OneTest, NEW k \in Subjects, Flying(k), NEW reason, Succeed(k) \/ CountFailure(k, reason)
  PROVE  /\ breaker' \in BreakerRow
         /\ rpc[k].step = "test" => breaker'.state \in {"closed", "open"}
         /\ rpc[k].step # "test" => (breaker'.state = "half-open" <=> breaker.state = "half-open")
<1>1. breaker \in BreakerRow
  BY DEF OneTest, BreakerRow
<1>2. 0 \in 0..Failures /\ Failures \in 0..Failures /\ 0 \in 0..Recovery /\ Failures \in Nat
  BY Numbers
<1>3. Closed \in BreakerRow /\ Opened \in BreakerRow /\ Closed.state = "closed" /\ Opened.state = "open"
  BY <1>2 DEF Closed, Opened, BreakerRow
<1>4. CASE Succeed(k)
  <2>1. [breaker EXCEPT !.failures = 0] \in BreakerRow
        /\ [breaker EXCEPT !.failures = 0].state = breaker.state
    BY <1>1, <1>2 DEF BreakerRow
  <2> QED  BY <1>3, <1>4, <2>1 DEF Succeed
<1>5. CASE CountFailure(k, reason)
  <2>1. [breaker EXCEPT !.state = "closed"] \in BreakerRow
        /\ [breaker EXCEPT !.state = "closed"].state = "closed"
    BY <1>1 DEF BreakerRow
  <2>2. breaker.failures + 1 < Failures =>
          /\ [breaker EXCEPT !.failures = breaker.failures + 1] \in BreakerRow
          /\ [breaker EXCEPT !.failures = breaker.failures + 1].state = breaker.state
    BY <1>1, <1>2 DEF BreakerRow
  <2>3. breaker.failures \in Nat
    BY <1>1 DEF BreakerRow
  <2>4. CASE rpc[k].step = "test"
    <3>1. breaker' = IF IsUnavailability(reason) THEN Opened ELSE [breaker EXCEPT !.state = "closed"]
      <4>1. breaker.state = "half-open"
        BY <2>4 DEF OneTest
      <4> QED  BY <1>5, <2>4, <4>1 DEF CountFailure
    <3> QED  BY <1>3, <2>1, <2>4, <3>1
  <2>5. CASE rpc[k].step # "test"
    <3>1. \/ breaker' = breaker
          \/ breaker.state = "closed" /\ breaker' = Opened
          \/ breaker.failures + 1 < Failures /\ breaker' = [breaker EXCEPT !.failures = breaker.failures + 1]
      BY <1>2, <1>5, <2>3, <2>5 DEF CountFailure
    <3> QED  BY <1>1, <1>3, <2>2, <2>5, <3>1
  <2> QED  BY <2>4, <2>5
<1> QED  BY <1>4, <1>5

LEMMA CallEnds ==
  ASSUME OneTest, NEW k \in Subjects, Flying(k), NEW reason,
         Succeed(k) \/ CountFailure(k, reason), EndCall(k)
  PROVE  CallEnded(k)
<1>1. rpc' = [j \in Subjects |->
                CASE j = k -> NoCall
                  [] j # k /\ j \in Released(k) -> IF breaker'.state = "closed" THEN Sent ELSE NoCall
                  [] OTHER -> rpc[j]]
  BY DEF EndCall
<1>2. \A j \in Subjects : j \in Released(k) <=> rpc[k].step = "test" /\ rpc[j].step = "queued"
  BY DEF Released
<1> QED  BY <1>1, <1>2, BreakerCounts DEF CallEnded

\* A check is answered at once: for what precedes the signature, because the
\* breaker refuses, or with the verdict of a cached state.
Decided(q) ==
  /\ UNCHANGED <<check, rpc, breaker, asked>>
  /\ \E verdict : /\ answers' = {[request |-> q, verdict |-> verdict, erred |-> FALSE]}
                  /\ verdict \in {"accepted", "invalid-signature"} =>
                       /\ Failed(q) = {} /\ mode = "offline" /\ q.kind = "payment"
                       /\ Fresh(Id(q), Ttl)
                       /\ verdict = SignatureVerdict(q, EntryOf(Id(q)).state)
                       /\ verdict = "invalid-signature" => Fresh(Id(q), MinRefreshAge)

\* A check waits for a call: one under way, one it makes for an identity no
\* young entry speaks for, or its own.
Waits(c, q, step) ==
  /\ Failed(q) = {} /\ step \in Steps \ {"idle"}
  /\ check' = [check EXCEPT ![c] = [step |-> step, request |-> q]]
  /\ answers' = {}
  /\ \/ step # "verifying" /\ rpc[Id(q)] # NoCall /\ UNCHANGED <<rpc, breaker, asked>>
     \/ /\ step # "verifying" /\ rpc[Id(q)] = NoCall /\ Call(Id(q))
        /\ ~(Fresh(Id(q), Ttl) /\ Fresh(Id(q), MinRefreshAge))
        /\ asked' = [asked EXCEPT ![Id(q)] = 0]
     \/ step = "verifying" /\ Call(c) /\ UNCHANGED asked

\* No reason from before the signature is a verdict on it.
LEMMA RefusalsDiffer ==
  ASSUME NEW q, Failed(q) # {}
  PROVE  Refusal(q) \notin {"accepted", "invalid-signature"}
<1>1. Failed(q) \in SUBSET Nat /\ Failed(q) \subseteq DOMAIN ChecksOf(q)
  BY DEF Failed, ChecksOf, PaymentChecks, QueryChecks
<1>2. Min(Failed(q)) \in Failed(q)
  BY <1>1, SmallestNumber DEF Min
<1>3. \A n \in DOMAIN ChecksOf(q) : ChecksOf(q)[n][2] \notin {"accepted", "invalid-signature"}
  BY DEF ChecksOf, PaymentChecks, QueryChecks
<1> QED  BY <1>1, <1>2, <1>3 DEF Refusal

LEMMA VerdictsTwo ==
  ASSUME NEW q, NEW s
  PROVE  SignatureVerdict(q, s) \in {"accepted", "invalid-signature"}
BY DEF SignatureVerdict

LEMMA FetchWaits ==
  ASSUME NEW c, NEW q, NEW step \in Steps \ {"idle", "verifying"}, Failed(q) = {}, Fetch(c, q, step),
         ~(Fresh(Id(q), Ttl) /\ Fresh(Id(q), MinRefreshAge))
  PROVE  Decided(q) \/ Waits(c, q, step)
<1>1. CASE rpc[Id(q)] # NoCall
  BY <1>1 DEF Fetch, Id, Await, Waits
<1>2. CASE rpc[Id(q)] = NoCall /\ ~Refuses
  BY <1>2 DEF Fetch, Id, Await, Waits
<1>3. CASE rpc[Id(q)] = NoCall /\ Refuses
  BY <1>3 DEF Fetch, Id, Decide, Decided
<1> QED  BY <1>1, <1>2, <1>3

LEMMA MessageWaits ==
  ASSUME NEW c, NEW q, Failed(q) = {}, VerifyMessage(c, q)
  PROVE  Decided(q) \/ Waits(c, q, "verifying")
<1>1. CASE Refuses
  BY <1>1 DEF VerifyMessage, Decide, Decided
<1>2. CASE ~Refuses
  BY <1>2 DEF VerifyMessage, Await, Waits, Steps
<1> QED  BY <1>1, <1>2

LEMMA OfflineWaits ==
  ASSUME NEW c, NEW q, Failed(q) = {}, mode = "offline", q.kind = "payment", VerifyOffline(c, q)
  PROVE  Decided(q) \/ \E step \in Steps : Waits(c, q, step)
<1> DEFINE verdict == SignatureVerdict(q, EntryOf(Id(q)).state)
<1>1. CASE ~Fresh(Id(q), Ttl)
  BY <1>1, FetchWaits DEF VerifyOffline, Id, Steps
<1>2. CASE Fresh(Id(q), Ttl)
  <2>1. VerifyCached(c, q)
    BY <1>2 DEF VerifyOffline, Id
  <2>2. CASE verdict = "accepted" \/ Fresh(Id(q), MinRefreshAge)
    <3>1. Decide(c, q, verdict)
      BY <2>1, <2>2 DEF VerifyCached, RefreshSuppressed, Id
    <3>2. verdict \in {"accepted", "invalid-signature"}
      BY VerdictsTwo
    <3>3. verdict = "invalid-signature" => Fresh(Id(q), MinRefreshAge)
      BY <2>2
    <3> HIDE DEF verdict
    <3>4. UNCHANGED <<check, rpc, breaker, asked>> /\ answers' = {[request |-> q, verdict |-> verdict, erred |-> FALSE]}
      BY <3>1 DEF Decide
    <3> QED  BY <1>2, <3>2, <3>3, <3>4 DEF Decided, verdict
  <2>3. CASE ~(verdict = "accepted" \/ Fresh(Id(q), MinRefreshAge))
    <3>1. Fetch(c, q, "refreshing")
      BY <2>1, <2>3 DEF VerifyCached, RefreshSuppressed, Id
    <3> QED  BY <2>3, <3>1, FetchWaits DEF Steps
  <2> QED  BY <2>2, <2>3
<1> QED  BY <1>1, <1>2

\* A request is taken up.
LEMMA TakenUp ==
  ASSUME NEW c \in Checks, NEW q \in Requests[c], RunChecks(c, q) \/ RunQuery(c, q)
  PROVE  /\ ~Running(c) /\ UNCHANGED <<mode, state, lastHeld, cache, up>>
         /\ Decided(q) \/ \E step \in Steps : Waits(c, q, step)
<1>1. ~Running(c) /\ UNCHANGED <<mode, state, lastHeld, cache, up>>
  BY DEF RunChecks, RunQuery, chainVars
<1>2. CASE Failed(q) # {}
  <2>1. Decide(c, q, Refusal(q))
    BY <1>2 DEF RunChecks, RunQuery
  <2> QED  BY <1>1, <1>2, <2>1, RefusalsDiffer DEF Decide, Decided
<1>3. CASE Failed(q) = {}
  <2>1. \/ mode = "offline" /\ q.kind = "payment" /\ VerifyOffline(c, q)
        \/ VerifyMessage(c, q)
    BY <1>3 DEF RunChecks, RunQuery
  <2> QED  BY <1>1, <1>3, <2>1, OfflineWaits, MessageWaits DEF Steps
<1> QED  BY <1>2, <1>3

-----------------------------------------------------------------------------
(* The invariant, step by step.                                            *)

\* Initially no call is made, nothing cached and nothing asked.
LEMMA InvInit == VerifierInit => VerifierInv
<1> SUFFICES ASSUME VerifierInit PROVE VerifierInv
  OBVIOUS
<1>1. ChainKnown
  <2>1. mode \in Modes /\ up \in BOOLEAN /\ state \in [Identities -> States]
    BY DEF VerifierInit
  <2>2. 0 \in 0..Horizon /\ Horizon \in 0..Horizon
    BY Numbers
  <2>3. lastHeld = [i \in Identities |-> [s \in States |-> IF s = state[i] THEN 0 ELSE Horizon]]
    BY DEF VerifierInit
  <2> QED  BY <2>1, <2>2, <2>3 DEF ChainKnown
<1>2. CallsAge
  <2>1. NoCall \in [step : CallSteps, answer : States \cup {None}, age : 0..RpcMax]
    BY Numbers DEF NoCall, CallSteps
  <2>2. rpc = [k \in Subjects |-> NoCall] /\ NoCall.answer = None
    BY DEF VerifierInit, NoCall
  <2> QED  BY <2>1, <2>2 DEF CallsAge
<1>3. OneTest
  <2>1. Closed \in [state : {"closed", "open", "half-open"}, failures : 0..Failures, age : 0..Recovery]
    BY Numbers DEF Closed
  <2>2. breaker = Closed /\ Closed.state = "closed" /\ \A k \in Subjects : rpc[k].step = "none"
    BY DEF VerifierInit, Closed, NoCall
  <2> QED  BY <2>1, <2>2 DEF OneTest
<1>4. ChecksWait
  BY VerifierAssumption DEF VerifierInit, ChecksWait, Idle, Running, Steps, Subjects, NoCall
<1>5. CacheAges
  BY Numbers DEF VerifierInit, CacheAges
<1>6. FetchesKnown
  BY Numbers DEF VerifierInit, FetchesKnown
<1> QED  BY <1>1, <1>2, <1>3, <1>4, <1>5, <1>6 DEF VerifierInv

LEMMA InvStands ==
  ASSUME VerifierInv, UNCHANGED <<mode, state, lastHeld, cache, rpc, breaker, check, asked>>,
         up' \in BOOLEAN
  PROVE  VerifierInv'
<1>1. ChainKnown'
  BY DEF VerifierInv, ChainKnown
<1>2. CallsAge'
  BY DEF VerifierInv, CallsAge, Flying, About, Payer
<1>3. OneTest'
  BY DEF VerifierInv, OneTest
<1>4. ChecksWait'
  BY DEF VerifierInv, ChecksWait, Running, Awaited, Payer
<1>5. CacheAges'
  BY DEF VerifierInv, CacheAges
<1>6. FetchesKnown'
  BY DEF VerifierInv, FetchesKnown, Entries
<1> QED  BY <1>1, <1>2, <1>3, <1>4, <1>5, <1>6 DEF VerifierInv

\* A check starts to wait: its call is there.
LEMMA CheckStarts ==
  ASSUME ChecksWait, NEW c \in Checks, NEW q \in Requests[c], NEW step \in Steps \ {"idle"},
         Failed(q) = {}, ~Running(c),
         check' = [check EXCEPT ![c] = [step |-> step, request |-> q]],
         \A j \in Subjects : rpc[j] # NoCall => rpc'[j] # NoCall,
         rpc'[IF step = "verifying" THEN c ELSE Id(q)] # NoCall,
         \A d \in Checks : rpc'[d] # rpc[d] => d = c /\ step = "verifying"
  PROVE  ChecksWait' /\ \A d \in Checks : d # c => check'[d] = check[d]
<1>1. check'[c] = [step |-> step, request |-> q] /\ \A d \in Checks : d # c => check'[d] = check[d]
  BY DEF ChecksWait
<1>2. check' = [d \in Checks |-> [step |-> check'[d].step, request |-> check'[d].request]]
  BY <1>1 DEF ChecksWait
<1>3. \A d \in Checks : check'[d].step \in Steps
  BY <1>1 DEF ChecksWait
<1>4. Awaited(c)' = (IF step = "verifying" THEN c ELSE Id(q)) /\ \A d \in Checks : d # c => Awaited(d)' = Awaited(d)
  BY <1>1 DEF Awaited, Payer, Id
<1>5. \A d \in Checks : Running(d) => Awaited(d) \in Subjects
  BY PayerKnown DEF ChecksWait, Awaited, Payer, Id
<1>6. \A d \in Checks : Running(d)' =>
        /\ check'[d].request \in Requests[d] /\ Failed(check'[d].request) = {}
        /\ rpc'[Awaited(d)'] # NoCall
  BY <1>1, <1>4, <1>5, ZenonT(30) DEF ChecksWait, Running
<1>7. \A d \in Checks : rpc'[d] # NoCall => check'[d].step = "verifying"
  BY <1>1 DEF ChecksWait, Running, Steps
<1> QED  BY <1>1, <1>2, <1>3, <1>6, <1>7 DEF ChecksWait

LEMMA CallsStart ==
  ASSUME CallsAge, OneTest, ChecksWait, NEW c \in Checks, ~Running(c), UNCHANGED lastHeld,
         \A d \in Checks : d # c => check'[d] = check[d],
         NEW k \in Subjects, rpc[k] = NoCall, Call(k)
  PROVE  CallsAge' /\ OneTest' /\ rpc'[k] # NoCall /\ \A j \in Subjects : j # k => rpc'[j] = rpc[j]
<1>1. CallMade(k) /\ breaker' \in BreakerRow
  BY CallMakes DEF BreakerRow
<1>2. rpc'[k].step \in {"sent", "queued", "test"} /\ rpc'[k].answer = None /\ rpc'[k].age = 0
  BY <1>1 DEF CallMade
<1>3. NoCall.step = "none" /\ NoCall.answer = None
  BY DEF NoCall
<1>4. rpc' \in [Subjects -> [step : CallSteps, answer : States \cup {None}, age : 0..RpcMax]]
  <2>1. rpc'[k] \in [step : CallSteps, answer : States \cup {None}, age : 0..RpcMax]
    BY <1>1, <1>2, Numbers DEF CallMade, CallSteps
  <2>2. \A j \in Subjects : rpc'[j] \in [step : CallSteps, answer : States \cup {None}, age : 0..RpcMax]
    BY <1>1, <2>1 DEF CallMade, CallsAge
  <2>3. rpc' = [j \in Subjects |-> rpc'[j]]
    <3>1. DOMAIN rpc' = Subjects /\ rpc' = [j \in DOMAIN rpc' |-> rpc'[j]]
      BY <1>1 DEF CallMade, Call, CallsAge
    <3> QED  BY <3>1
  <2> HIDE DEF Subjects
  <2> QED  BY <2>2, <2>3
<1>5. rpc[c] = NoCall
  BY DEF ChecksWait, Running
<1>6. ASSUME NEW j \in Subjects, rpc'[j].answer # None
      PROVE  Flying(j)' /\ lastHeld'[About(j)'][rpc'[j].answer] <= rpc'[j].age
  <2>1. j # k /\ rpc'[j] = rpc[j] /\ j # c
    BY <1>1, <1>2, <1>3, <1>5, <1>6 DEF CallMade
  <2>2. About(j)' = About(j)
    BY <2>1 DEF About, Payer
  <2> QED  BY <1>6, <2>1, <2>2 DEF CallsAge, Flying
<1>7. CallsAge'
  BY <1>1, <1>2, <1>4, <1>6 DEF CallsAge, CallMade
<1>8. OneTest'
  <2>1. \A j \in Subjects : j # k => rpc'[j] = rpc[j]
    BY <1>1 DEF CallMade
  <2>2. \/ rpc'[k].step = "sent" /\ breaker.state = "closed" /\ breaker' = breaker
        \/ rpc'[k].step = "queued" /\ breaker.state = "half-open" /\ breaker' = breaker
        \/ rpc'[k].step = "test" /\ breaker.state = "open" /\ breaker'.state = "half-open"
    BY <1>1 DEF CallMade
  <2>3. rpc[k].step = "none"
    BY <1>3
  <2> QED  BY <1>1, <2>1, <2>2, <2>3 DEF OneTest, BreakerRow
<1> QED  BY <1>1, <1>2, <1>3, <1>7, <1>8 DEF CallMade

\* An identity has one entry at most.
LEMMA TheEntry ==
  ASSUME CacheAges, NEW i, NEW n \in Entries(i)
  PROVE  PlaceOf(i) = n /\ EntryOf(i) = cache[n] /\ cache[n] \in CacheEntry /\ cache[n].identity = i
         /\ lastHeld[i][cache[n].state] <= RpcMax + cache[n].age
<1>1. PlaceOf(i) \in Entries(i)
  BY DEF PlaceOf
<1>2. Len(cache) \in Nat /\ \A m \in 1..Len(cache) : cache[m] \in CacheEntry
  BY DEF CacheAges
<1> QED  BY <1>1, <1>2 DEF CacheAges, Entries, EntryOf

\* A fetch is made only when the last one was long enough ago.
LEMMA FetchIsDue ==
  ASSUME CacheAges, FetchesKnown, NEW i \in Identities, rpc[i] = NoCall,
         ~(Fresh(i, Ttl) /\ Fresh(i, MinRefreshAge))
  PROVE  asked[i] >= RefreshGap
<1>1. asked[i] \in 0..RefreshGap
  BY DEF FetchesKnown
<1> SUFFICES ASSUME asked[i] < RefreshGap PROVE FALSE
  BY <1>1, Numbers
<1>2. PICK n \in Entries(i) : cache[n].age <= asked[i]
  BY DEF FetchesKnown
<1>3. EntryOf(i) = cache[n] /\ cache[n].age \in 0..Larger(Ttl, MinRefreshAge)
  BY TheEntry DEF CacheEntry
<1>4. cache[n].age < Ttl /\ cache[n].age < MinRefreshAge
  BY <1>1, <1>2, <1>3, Numbers
<1> QED  BY <1>2, <1>3, <1>4 DEF Fresh

LEMMA TakeUpKeeps ==
  ASSUME VerifierInv, NEW c \in Checks, NEW q \in Requests[c], RunChecks(c, q) \/ RunQuery(c, q)
  PROVE  VerifierInv'
<1>1. ~Running(c) /\ UNCHANGED <<mode, state, lastHeld, cache, up>>
  BY TakenUp
<1>2. CASE Decided(q)
  BY <1>1, <1>2, InvStands DEF Decided, VerifierInv, ChainKnown
<1>3. ASSUME NEW step \in Steps, Waits(c, q, step) PROVE VerifierInv'
  <2> DEFINE k == IF step = "verifying" THEN c ELSE Id(q)
  <2>1. /\ ChainKnown /\ CallsAge /\ OneTest /\ ChecksWait /\ CacheAges /\ FetchesKnown
        /\ step \in Steps \ {"idle"} /\ Failed(q) = {} /\ k \in Subjects
        /\ check' = [check EXCEPT ![c] = [step |-> step, request |-> q]]
    BY <1>3, PayerKnown DEF VerifierInv, Waits
  <2>2. \A d \in Checks : d # c => check'[d] = check[d]
    BY <2>1
  <2>3. rpc[c] = NoCall
    BY <1>1, <2>1 DEF ChecksWait, Running
  <2>4. ChainKnown' /\ CacheAges'
    BY <1>1, <2>1 DEF ChainKnown, CacheAges
  <2>5. CASE rpc[k] # NoCall /\ UNCHANGED <<rpc, breaker, asked>>
    <3>1. ChecksWait'
      BY <1>1, <2>1, <2>5, CheckStarts
    <3>2. CallsAge'
      <4>1. \A j \in Subjects : rpc[j].answer # None => j # c
        BY <2>3 DEF NoCall
      <4>2. \A j \in Subjects : j # c => About(j)' = About(j)
        BY <2>2 DEF About, Payer
      <4> QED  BY <1>1, <2>1, <2>5, <4>1, <4>2 DEF CallsAge, Flying
    <3>3. OneTest' /\ FetchesKnown'
      BY <1>1, <2>1, <2>5 DEF OneTest, FetchesKnown, Entries
    <3> QED  BY <2>4, <3>1, <3>2, <3>3 DEF VerifierInv
  <2>6. CASE /\ rpc[k] = NoCall /\ Call(k)
             /\ asked' = IF step = "verifying" THEN asked ELSE [asked EXCEPT ![Id(q)] = 0]
    <3>1. /\ CallsAge' /\ OneTest' /\ rpc'[k] # NoCall
          /\ \A j \in Subjects : j # k => rpc'[j] = rpc[j]
      <4> HIDE DEF k
      <4> QED  BY <1>1, <2>1, <2>2, <2>6, CallsStart
    <3>2. \A d \in Checks : rpc'[d] # rpc[d] => d = c /\ step = "verifying"
      BY <3>1, PayerKnown DEF Subjects
    <3>3. ChecksWait'
      BY <1>1, <2>1, <2>6, <3>1, <3>2, CheckStarts
    <3>4. FetchesKnown'
      <4>1. asked' \in [Identities -> 0..RefreshGap]
        <5>1. 0 \in 0..RefreshGap /\ asked \in [Identities -> 0..RefreshGap]
          BY <2>1, Numbers DEF FetchesKnown
        <5>2. asked' = asked \/ asked' = [asked EXCEPT ![Id(q)] = 0]
          BY <2>6
        <5> QED  BY <5>1, <5>2
      <4>2. ASSUME NEW i \in Identities, asked'[i] < RefreshGap
            PROVE  rpc'[i] # NoCall \/ \E n \in Entries(i)' : cache'[n].age <= asked'[i]
        <5>1. i \in Subjects /\ Entries(i)' = Entries(i) /\ cache' = cache
          BY <1>1 DEF Subjects, Entries
        <5>2. CASE i = k
          BY <3>1, <5>2
        <5>3. CASE i # k
          <6>1. asked'[i] = asked[i] /\ rpc'[i] = rpc[i]
            BY <2>1, <2>6, <3>1, <5>1, <5>3 DEF FetchesKnown
          <6> QED  BY <2>1, <4>2, <5>1, <6>1 DEF FetchesKnown
        <5> QED  BY <5>2, <5>3
      <4> QED  BY <4>1, <4>2 DEF FetchesKnown
    <3> QED  BY <2>4, <3>1, <3>3, <3>4 DEF VerifierInv
  <2>7. \/ rpc[k] # NoCall /\ UNCHANGED <<rpc, breaker, asked>>
        \/ /\ rpc[k] = NoCall /\ Call(k)
           /\ asked' = IF step = "verifying" THEN asked ELSE [asked EXCEPT ![Id(q)] = 0]
    BY <1>3, <2>3 DEF Waits
  <2> QED  BY <2>5, <2>6, <2>7
<1> QED  BY <1>2, <1>3, TakenUp

\* The node answers with what the chain holds now.
LEMMA NodeReadsKeeps ==
  ASSUME VerifierInv, NEW k \in Subjects, NodeReads(k)
  PROVE  VerifierInv'
<1> DEFINE s == state[About(k)]
<1>1. /\ Flying(k) /\ rpc[k].answer = None
      /\ rpc' = [rpc EXCEPT ![k].answer = s]
      /\ UNCHANGED <<mode, state, lastHeld, cache, up, breaker, check, asked>>
  BY DEF NodeReads, chainVars, About
<1>2. ChainKnown /\ CallsAge /\ OneTest /\ ChecksWait /\ CacheAges /\ FetchesKnown
  BY DEF VerifierInv
<1>3. rpc[k] # NoCall /\ rpc[k].step # "none" /\ rpc[k].age \in 0..RpcMax
  BY <1>1, <1>2 DEF Flying, NoCall, CallsAge
<1>4. About(k) \in Identities
  BY <1>2, <1>3, PayerKnown DEF About, ChecksWait, Payer, Id, Running, Subjects
<1>5. s \in States /\ s # None /\ lastHeld[About(k)][s] = 0
  BY <1>2, <1>4, VerifierAssumption DEF ChainKnown
<1> HIDE DEF s
<1>6. /\ \A j \in Subjects : j # k => rpc'[j] = rpc[j]
      /\ rpc'[k].step = rpc[k].step /\ rpc'[k].age = rpc[k].age /\ rpc'[k].answer = s
      /\ rpc' \in [Subjects -> [step : CallSteps, answer : States \cup {None}, age : 0..RpcMax]]
  BY <1>1, <1>2, <1>5 DEF CallsAge
<1>7. rpc'[k] # NoCall
  BY <1>3, <1>6 DEF NoCall
<1>8. ChainKnown' /\ CacheAges'
  BY <1>1, <1>2 DEF ChainKnown, CacheAges
<1>9. CallsAge'
  <2>1. \A j \in Subjects : About(j)' = About(j)
    BY <1>1 DEF About, Payer
  <2>2. ASSUME NEW j \in Subjects, rpc'[j].answer # None
        PROVE  Flying(j)' /\ lastHeld'[About(j)'][rpc'[j].answer] <= rpc'[j].age
    <3>1. CASE j = k
      BY <1>1, <1>3, <1>5, <1>6, <2>1, <3>1 DEF Flying
    <3>2. CASE j # k
      BY <1>1, <1>2, <1>6, <2>1, <2>2, <3>2 DEF CallsAge, Flying
    <3> QED  BY <3>1, <3>2
  <2>3. \A j \in Subjects : rpc'[j].step = "none" => rpc'[j] = NoCall
    BY <1>2, <1>3, <1>6 DEF CallsAge
  <2> QED  BY <1>6, <2>2, <2>3 DEF CallsAge
<1>10. OneTest'
  <2>1. \A j \in Subjects : rpc'[j].step = rpc[j].step
    BY <1>6
  <2> QED  BY <1>1, <1>2, <2>1 DEF OneTest
<1>11. \A j \in Subjects : rpc'[j] = NoCall <=> rpc[j] = NoCall
  BY <1>3, <1>6, <1>7
<1>12. ChecksWait'
  <2>1. \A c \in Checks : Running(c) => Awaited(c) \in Subjects
    BY <1>2, PayerKnown DEF ChecksWait, Awaited, Payer, Id
  <2>2. \A c \in Checks : Awaited(c)' = Awaited(c) /\ Running(c)' = Running(c) /\ c \in Subjects
    BY <1>1 DEF Awaited, Payer, Running, Subjects
  <2> QED  BY <1>1, <1>2, <1>11, <2>1, <2>2 DEF ChecksWait
<1>13. FetchesKnown'
  BY <1>1, <1>2, <1>11 DEF FetchesKnown, Entries, Subjects
<1> QED  BY <1>8, <1>9, <1>10, <1>12, <1>13 DEF VerifierInv

-----------------------------------------------------------------------------
(* Calls end.                                                              *)

\* The calls that end with k: those it releases to a breaker that has opened.
Lost(k) == {k} \cup IF breaker'.state = "open" THEN Released(k) ELSE {}

LEMMA WaitingAwaits ==
  ASSUME ChecksWait, NEW j, NEW c
  PROVE  c \in Waiting(j) <=> c \in Checks /\ Running(c) /\ Awaited(c) = j
BY DEF Waiting, Awaited, Running, ChecksWait, Steps

LEMMA LostCalls ==
  ASSUME CallsAge, NEW k \in Subjects, Flying(k), CallEnded(k), NEW j \in Subjects
  PROVE  /\ (rpc[j] # NoCall /\ rpc'[j] = NoCall) <=> j \in Lost(k)
         /\ rpc'[j] # NoCall => rpc'[j] = rpc[j] \/ (rpc'[j] = Sent /\ rpc[j].step = "queued")
         /\ rpc'[j] # NoCall => rpc[j] # NoCall
<1>1. NoCall.step = "none" /\ Sent # NoCall
  BY DEF NoCall, Sent
<1>2. rpc[k] # NoCall
  BY <1>1 DEF Flying
<1>3. j \in Released(k) <=> rpc[k].step = "test" /\ rpc[j].step = "queued"
  BY DEF Released
<1>4. CASE j = k
  BY <1>2, <1>4 DEF CallEnded, Lost
<1>5. CASE j # k /\ ~(rpc[k].step = "test" /\ rpc[j].step = "queued")
  BY <1>3, <1>5 DEF CallEnded, Lost
<1>6. CASE j # k /\ rpc[k].step = "test" /\ rpc[j].step = "queued"
  <2>1. breaker'.state \in {"closed", "open"}
        /\ rpc'[j] = IF breaker'.state = "closed" THEN Sent ELSE NoCall
    BY <1>6 DEF CallEnded
  <2> QED  BY <1>1, <1>3, <1>6, <2>1 DEF Lost
<1> QED  BY <1>4, <1>5, <1>6

\* The slots of those who waited for a lost call are free again.
LEMMA ChecksEnd ==
  ASSUME ChecksWait, CallsAge, OneTest, NEW k \in Subjects, Flying(k), CallEnded(k),
         check' = [c \in Checks |-> IF c \in UNION {Waiting(j) : j \in Lost(k)} THEN Idle ELSE check[c]],
         UNCHANGED lastHeld
  PROVE  ChecksWait' /\ CallsAge' /\ OneTest'
<1> DEFINE S == UNION {Waiting(j) : j \in Lost(k)}
<1>1. \A c \in Checks : check'[c] = IF c \in S THEN Idle ELSE check[c]
  OBVIOUS
<1>2. \A c \in Checks : c \in S <=> Running(c) /\ Awaited(c) \in Lost(k)
  BY WaitingAwaits
<1>3. \A c \in Checks : c \in Subjects /\ (Running(c) => Awaited(c) \in Subjects)
  BY PayerKnown DEF ChecksWait, Awaited, Payer, Id, Subjects
<1> HIDE DEF S
<1>4. \A c \in Checks : c \notin S => check'[c] = check[c] /\ Awaited(c)' = Awaited(c) /\ Running(c)' = Running(c)
  BY <1>1 DEF Awaited, Payer, Running
<1>5. \A c \in Checks : c \in S => check'[c] = Idle /\ ~Running(c)' /\ check'[c].step = "idle"
  BY <1>1 DEF Running, Idle
<1>6. \A c \in Checks : rpc'[c] # NoCall => rpc[c] # NoCall /\ c \notin S
  <2> SUFFICES ASSUME NEW c \in Checks, rpc'[c] # NoCall PROVE rpc[c] # NoCall /\ c \notin S
    OBVIOUS
  <2>1. rpc[c] # NoCall /\ c \notin Lost(k)
    BY <1>3, LostCalls
  <2>2. Awaited(c) = c
    BY <2>1 DEF ChecksWait, Awaited
  <2> QED  BY <1>2, <2>1, <2>2
<1>7. ChecksWait'
  <2>1. check' = [c \in Checks |-> [step |-> check'[c].step, request |-> check'[c].request]]
    <3>1. \A c \in Checks : check'[c] = [step |-> check'[c].step, request |-> check'[c].request]
      BY <1>1 DEF ChecksWait, Idle
    <3> QED  BY <3>1
  <2>2. \A c \in Checks : check'[c].step \in Steps
    BY <1>4, <1>5 DEF ChecksWait, Steps
  <2>3. ASSUME NEW c \in Checks, Running(c)'
        PROVE  /\ check'[c].request \in Requests[c] /\ Failed(check'[c].request) = {}
               /\ rpc'[Awaited(c)'] # NoCall
    <3>1. c \notin S /\ check'[c] = check[c] /\ Awaited(c)' = Awaited(c) /\ Running(c)
      BY <1>4, <1>5, <2>3
    <3>2. Awaited(c) \notin Lost(k) /\ rpc[Awaited(c)] # NoCall /\ Awaited(c) \in Subjects
      BY <1>2, <1>3, <3>1 DEF ChecksWait
    <3> QED  BY <3>1, <3>2, LostCalls DEF ChecksWait
  <2>4. \A c \in Checks : rpc'[c] # NoCall => check'[c].step = "verifying"
    BY <1>4, <1>6 DEF ChecksWait
  <2> QED  BY <2>1, <2>2, <2>3, <2>4 DEF ChecksWait
<1>8. CallsAge'
  <2>1. NoCall \in [step : CallSteps, answer : States \cup {None}, age : 0..RpcMax]
        /\ Sent \in [step : CallSteps, answer : States \cup {None}, age : 0..RpcMax]
    BY Numbers DEF NoCall, Sent, CallSteps
  <2>2. NoCall.answer = None /\ Sent.answer = None /\ Sent.step # "none"
    BY DEF NoCall, Sent
  <2>3. \A j \in Subjects : rpc'[j] \in {NoCall, Sent, rpc[j]}
    BY LostCalls
  <2>4. rpc' \in [Subjects -> [step : CallSteps, answer : States \cup {None}, age : 0..RpcMax]]
    <3>1. \A j \in Subjects : rpc'[j] \in [step : CallSteps, answer : States \cup {None}, age : 0..RpcMax]
      BY <2>1, <2>3 DEF CallsAge
    <3>2. rpc' = [j \in Subjects |-> rpc'[j]]
      BY DEF CallEnded
    <3> HIDE DEF Subjects
    <3> QED  BY <3>1, <3>2
  <2>5. \A j \in Subjects : rpc'[j].step = "none" => rpc'[j] = NoCall
    BY <2>2, <2>3 DEF CallsAge
  <2>6. ASSUME NEW j \in Subjects, rpc'[j].answer # None
        PROVE  Flying(j)' /\ lastHeld'[About(j)'][rpc'[j].answer] <= rpc'[j].age
    <3>1. rpc'[j] = rpc[j] /\ rpc'[j] # NoCall
      BY <2>2, <2>3, <2>6
    <3>2. About(j)' = About(j)
      BY <1>4, <1>6, <3>1 DEF About, Payer
    <3> QED  BY <2>6, <3>1, <3>2 DEF CallsAge, Flying
  <2> QED  BY <2>4, <2>5, <2>6 DEF CallsAge
<1>9. OneTest'
  <2>1. breaker' \in [state : {"closed", "open", "half-open"}, failures : 0..Failures, age : 0..Recovery]
    BY DEF CallEnded, BreakerRow
  <2>2. NoCall.step = "none" /\ Sent.step = "sent"
    BY DEF NoCall, Sent
  <2>3. CASE rpc[k].step = "test"
    <3>1. \A j \in Subjects : j # k => rpc[j].step # "test"
      BY <2>3 DEF OneTest
    <3>2. \A j \in Subjects : rpc'[j].step \notin {"test", "queued"}
      BY <2>2, <2>3, <3>1 DEF CallEnded
    <3>3. breaker'.state # "half-open"
      BY <2>3 DEF CallEnded
    <3> QED  BY <2>1, <3>2, <3>3 DEF OneTest
  <2>4. CASE rpc[k].step # "test"
    <3>1. rpc[k].step = "sent" /\ rpc'[k].step = "none"
      BY <2>2, <2>4 DEF Flying, CallEnded
    <3>2. \A j \in Subjects : j # k => rpc'[j] = rpc[j]
      BY <2>4 DEF CallEnded
    <3>3. breaker'.state = "half-open" <=> breaker.state = "half-open"
      BY <2>4 DEF CallEnded
    <3> QED  BY <2>1, <3>1, <3>2, <3>3 DEF OneTest
  <2> QED  BY <2>3, <2>4
<1> QED  BY <1>7, <1>8, <1>9

-----------------------------------------------------------------------------
(* The cache.                                                              *)

LEMMA Removed ==
  ASSUME NEW S, NEW e \in Seq(S), NEW i \in 1..Len(e)
  PROVE  /\ RemoveAt(e, i) \in Seq(S) /\ Len(RemoveAt(e, i)) = Len(e) - 1
         /\ \A n \in 1..Len(e) - 1 : RemoveAt(e, i)[n] = e[IF n < i THEN n ELSE n + 1]
<1> DEFINE before == SubSeq(e, 1, i - 1)
           after == SubSeq(e, i + 1, Len(e))
<1>1. Len(e) \in Nat
  OBVIOUS
<1>2. before \in Seq(S) /\ Len(before) = i - 1 /\ \A n \in 1..i - 1 : before[n] = e[n]
  BY <1>1
<1>3. after \in Seq(S) /\ Len(after) = Len(e) - i /\ \A n \in 1..Len(e) - i : after[n] = e[n + i]
  BY <1>1
<1>4. RemoveAt(e, i) = before \o after
  BY DEF RemoveAt
<1> HIDE DEF before, after
<1>5. before \o after \in Seq(S) /\ Len(before \o after) = Len(e) - 1
  <2>1. before \o after \in Seq(S) /\ Len(before \o after) = Len(before) + Len(after)
    BY <1>2, <1>3, ConcatProperties
  <2> QED  BY <1>1, <1>2, <1>3, <2>1
<1>6. ASSUME NEW n \in 1..Len(e) - 1
      PROVE  (before \o after)[n] = e[IF n < i THEN n ELSE n + 1]
  <2>1. n \in Int /\ i \in Int /\ n \in 1..Len(before) + Len(after)
    BY <1>1, <1>2, <1>3
  <2>2. (before \o after)[n] = IF n <= Len(before) THEN before[n] ELSE after[n - Len(before)]
    BY <1>2, <1>3, <2>1, ConcatProperties
  <2>3. CASE n < i
    <3>1. n <= Len(before) /\ n \in 1..i - 1
      BY <1>2, <2>1, <2>3
    <3> QED  BY <1>2, <2>2, <2>3, <3>1
  <2>4. CASE ~(n < i)
    <3>1. ~(n <= Len(before)) /\ n - Len(before) \in 1..Len(e) - i /\ n - Len(before) + i = n + 1
      BY <1>1, <1>2, <2>1, <2>4
    <3> QED  BY <1>3, <2>2, <2>4, <3>1
  <2> QED  BY <2>3, <2>4
<1> QED  BY <1>4, <1>5, <1>6

\* c holds what e held in different places, except of identity i.
Keeps(c, e, i) ==
  /\ c \in Seq(CacheEntry)
  /\ \A n \in 1..Len(c) : \E m \in 1..Len(e) : c[n] = e[m] /\ e[m].identity # i
  /\ \A m, n \in 1..Len(c) : c[m].identity = c[n].identity => m = n

\* An answer is stored: in place of the old entry, and in that of the oldest when
\* the cache is full.
LEMMA Stored ==
  ASSUME CacheAges, NEW i \in Identities, NEW s \in States, Store(i, s)
  PROVE  \E room : /\ Keeps(room, cache, i) /\ Len(room) < MaxEntries
                   /\ cache' = Append(room, [identity |-> i, state |-> s, age |-> 0])
<1> DEFINE others == IF Entries(i) = {} THEN cache ELSE RemoveAt(cache, PlaceOf(i))
           room == IF Len(others) >= MaxEntries THEN Tail(others) ELSE others
<1>1. cache' = Append(room, [identity |-> i, state |-> s, age |-> 0])
  BY DEF Store
<1>2. /\ cache \in Seq(CacheEntry) /\ Len(cache) \in Nat /\ Len(cache) <= MaxEntries
      /\ \A m, n \in 1..Len(cache) : cache[m].identity = cache[n].identity => m = n
      /\ MaxEntries \in Nat /\ MaxEntries >= 1
  BY Numbers DEF CacheAges
<1>3. Keeps(others, cache, i) /\ Len(others) <= MaxEntries
  <2>1. CASE Entries(i) = {}
    BY <1>2, <2>1 DEF Keeps, Entries
  <2>2. CASE Entries(i) # {}
    <3> DEFINE p == PlaceOf(i)
    <3>1. p \in 1..Len(cache) /\ cache[p].identity = i
      BY <2>2 DEF PlaceOf, Entries
    <3>2. others = RemoveAt(cache, p)
      BY <2>2
    <3> HIDE DEF p, others
    <3>3. /\ others \in Seq(CacheEntry) /\ Len(others) = Len(cache) - 1
          /\ \A n \in 1..Len(cache) - 1 : others[n] = cache[IF n < p THEN n ELSE n + 1]
      BY <1>2, <3>1, <3>2, Removed
    <3>4. \A n \in 1..Len(others) : \E m \in 1..Len(cache) :
            others[n] = cache[m] /\ m # p /\ m = IF n < p THEN n ELSE n + 1
      BY <1>2, <3>1, <3>3
    <3>5. \A n \in 1..Len(others) : \E m \in 1..Len(cache) : others[n] = cache[m] /\ cache[m].identity # i
      BY <1>2, <3>1, <3>4
    <3>6. ASSUME NEW m \in 1..Len(others), NEW n \in 1..Len(others),
                 others[m].identity = others[n].identity
          PROVE  m = n
      <4>1. PICK k \in 1..Len(cache) : others[m] = cache[k] /\ k = IF m < p THEN m ELSE m + 1
        BY <3>4
      <4>2. PICK l \in 1..Len(cache) : others[n] = cache[l] /\ l = IF n < p THEN n ELSE n + 1
        BY <3>4
      <4>3. k = l
        BY <1>2, <3>6, <4>1, <4>2
      <4> QED  BY <1>2, <3>1, <3>3, <4>1, <4>2, <4>3
    <3> QED  BY <1>2, <3>3, <3>5, <3>6 DEF Keeps
  <2> QED  BY <2>1, <2>2
<1> HIDE DEF others
<1>4. Len(others) \in Nat /\ others \in Seq(CacheEntry)
  BY <1>3 DEF Keeps
<1>5. Keeps(room, cache, i) /\ Len(room) < MaxEntries
  <2>1. CASE Len(others) < MaxEntries
    BY <1>2, <1>3, <1>4, <2>1
  <2>2. CASE Len(others) >= MaxEntries
    <3>1. /\ room = Tail(others) /\ others # << >>
      BY <1>2, <1>4, <2>2
    <3>2. /\ room \in Seq(CacheEntry) /\ Len(room) = Len(others) - 1
          /\ \A n \in 1..Len(room) : room[n] = others[n + 1] /\ n + 1 \in 1..Len(others)
      BY <1>4, <3>1
    <3> HIDE DEF room
    <3>3. Len(room) \in Nat /\ Len(room) < MaxEntries
      BY <1>2, <1>3, <1>4, <3>2
    <3>4. \A n \in 1..Len(room) : \E m \in 1..Len(cache) : room[n] = cache[m] /\ cache[m].identity # i
      BY <1>3, <3>2, SMTT(30) DEF Keeps
    <3>5. ASSUME NEW m \in 1..Len(room), NEW n \in 1..Len(room), room[m].identity = room[n].identity
          PROVE  m = n
      <4>1. m + 1 = n + 1
        <5>1. /\ m + 1 \in 1..Len(others) /\ n + 1 \in 1..Len(others)
              /\ others[m + 1].identity = others[n + 1].identity
          BY <3>2, <3>5
        <5> QED  BY <1>3, <5>1 DEF Keeps
      <4> QED  BY <3>3, <4>1
    <3> QED  BY <3>2, <3>3, <3>4, <3>5 DEF Keeps
  <2> QED  BY <1>2, <1>4, <2>1, <2>2
<1> QED  BY <1>1, <1>5

LEMMA CacheStores ==
  ASSUME CacheAges, UNCHANGED lastHeld, NEW i \in Identities, NEW s \in States, Store(i, s),
         lastHeld[i][s] <= RpcMax, RpcMax \in Nat
  PROVE  /\ CacheAges'
         /\ \E n \in Entries(i)' : cache'[n].age = 0
         /\ \A j \in Identities \ {i} : \A n \in Entries(j)' : \E m \in Entries(j) : cache'[n] = cache[m]
<1> DEFINE new == [identity |-> i, state |-> s, age |-> 0]
<1>1. PICK room : Keeps(room, cache, i) /\ Len(room) < MaxEntries /\ cache' = Append(room, new)
  BY Stored
<1>2. new \in CacheEntry /\ new.identity = i /\ new.state = s /\ new.age = 0
  BY Numbers DEF CacheEntry
<1>3. room \in Seq(CacheEntry) /\ Len(room) \in Nat /\ MaxEntries \in Nat
  BY <1>1, Numbers DEF Keeps
<1> HIDE DEF new
<1>4. /\ cache' \in Seq(CacheEntry) /\ Len(cache') = Len(room) + 1
      /\ cache'[Len(room) + 1] = new
      /\ \A n \in 1..Len(room) : cache'[n] = room[n]
  BY <1>1, <1>2, <1>3
<1>5. Len(cache') <= MaxEntries
  BY <1>1, <1>3, <1>4
<1>6. \A n \in 1..Len(room) : \E m \in 1..Len(cache) : cache'[n] = cache[m] /\ cache[m].identity # i
  <2>1. \A n \in 1..Len(room) : \E m \in 1..Len(cache) : room[n] = cache[m] /\ cache[m].identity # i
    BY <1>1 DEF Keeps
  <2> QED  BY <1>4, <2>1
<1>7. \A n \in 1..Len(cache') : n = Len(room) + 1 \/ n \in 1..Len(room)
  BY <1>3, <1>4
<1>8. ASSUME NEW m \in 1..Len(cache'), NEW n \in 1..Len(cache'),
             cache'[m].identity = cache'[n].identity
      PROVE  m = n
  <2>1. CASE m \in 1..Len(room) /\ n \in 1..Len(room)
    BY <1>1, <1>4, <1>8, <2>1 DEF Keeps
  <2>2. CASE m \in 1..Len(room) /\ n = Len(room) + 1
    BY <1>2, <1>4, <1>6, <1>8, <2>2
  <2>3. CASE m = Len(room) + 1 /\ n \in 1..Len(room)
    BY <1>2, <1>4, <1>6, <1>8, <2>3
  <2>4. CASE m = Len(room) + 1 /\ n = Len(room) + 1
    BY <2>4
  <2> QED  BY <1>7, <2>1, <2>2, <2>3, <2>4
<1>9. ASSUME NEW n \in 1..Len(cache')
      PROVE  lastHeld'[cache'[n].identity][cache'[n].state] <= RpcMax + cache'[n].age
  <2>1. CASE n \in 1..Len(room)
    BY <1>6, <2>1 DEF CacheAges
  <2>2. CASE n = Len(room) + 1
    BY <1>2, <1>4, <2>2
  <2> QED  BY <1>7, <2>1, <2>2
<1>10. CacheAges'
  BY <1>4, <1>5, <1>8, <1>9 DEF CacheAges, CacheEntry
<1>11. Len(room) + 1 \in Entries(i)' /\ cache'[Len(room) + 1].age = 0
  BY <1>2, <1>3, <1>4 DEF Entries
<1>12. ASSUME NEW j \in Identities \ {i}, NEW n \in Entries(j)'
       PROVE  \E m \in Entries(j) : cache'[n] = cache[m]
  <2>1. n \in 1..Len(cache') /\ cache'[n].identity = j
    BY <1>12 DEF Entries
  <2>2. n \in 1..Len(room)
    BY <1>2, <1>4, <1>7, <1>12, <2>1
  <2> QED  BY <1>6, <2>1, <2>2 DEF Entries
<1> QED  BY <1>10, <1>11, <1>12

\* An answer leaves nobody behind a test.
LEMMA DeliverEnds ==
  ASSUME OneTest, NEW k \in Subjects, Deliver(k)
  PROVE  Flying(k) /\ CallEnded(k) /\ Lost(k) = {k}
<1>1. /\ Flying(k) /\ EndCall(k)
      /\ Succeed(k) \/ CountFailure(k, "answer")
  BY DEF Deliver
<1>2. CallEnded(k)
  BY <1>1, CallEnds
<1>3. ASSUME rpc[k].step = "test" PROVE breaker'.state = "closed"
  <2>1. breaker.state = "half-open"
    BY <1>3 DEF OneTest
  <2>2. CASE Succeed(k)
    BY <1>3, <2>2 DEF Succeed, Closed
  <2>3. CASE CountFailure(k, "answer")
    <3>1. ~IsUnavailability("answer")
      BY DEF IsUnavailability
    <3>2. breaker' = [breaker EXCEPT !.state = "closed"]
      BY <1>3, <2>1, <2>3, <3>1 DEF CountFailure
    <3>3. breaker \in [state : {"closed", "open", "half-open"}, failures : 0..Failures, age : 0..Recovery]
      BY DEF OneTest
    <3> QED  BY <3>2, <3>3
  <2> QED  BY <1>1, <2>2, <2>3
<1>4. rpc[k].step # "test" => Released(k) = {}
  BY DEF Released
<1>5. Lost(k) = {k}
  BY <1>3, <1>4 DEF Lost
<1> QED  BY <1>1, <1>2, <1>5

LEMMA DeliverKeeps ==
  ASSUME VerifierInv, NEW k \in Subjects, Deliver(k)
  PROVE  VerifierInv'
<1> DEFINE s == rpc[k].answer
<1>1. ChainKnown /\ CallsAge /\ OneTest /\ ChecksWait /\ CacheAges /\ FetchesKnown
  BY DEF VerifierInv
<1>2. Flying(k) /\ CallEnded(k) /\ Lost(k) = {k}
  BY <1>1, DeliverEnds
<1>3. UNCHANGED <<mode, state, lastHeld, up>> /\ s # None
  BY DEF Deliver, chainVars
<1>4. check' = [c \in Checks |-> IF c \in UNION {Waiting(j) : j \in Lost(k)} THEN Idle ELSE check[c]]
  <2>1. UNION {Waiting(j) : j \in {k}} = Waiting(k)
    OBVIOUS
  <2> QED  BY <1>2, <2>1 DEF Deliver, Judge
<1>5. ChecksWait' /\ CallsAge' /\ OneTest'
  BY <1>1, <1>2, <1>3, <1>4, ChecksEnd
<1>6. ChainKnown'
  BY <1>1, <1>3 DEF ChainKnown
<1>7. rpc[k].age \in 0..RpcMax /\ s \in States /\ lastHeld[About(k)][s] <= rpc[k].age
  BY <1>1, <1>3 DEF CallsAge
<1>8. CASE k \in Identities /\ s # Unregistered
  <2>1. /\ Store(k, s)
        /\ asked' = [i \in Identities |-> IF \E n \in 1..Len(cache') : cache'[n].identity = i THEN asked[i] ELSE RefreshGap]
    BY <1>8 DEF Deliver
  <2>2. About(k) = k
    BY <1>8, VerifierAssumption DEF About
  <2>3. lastHeld[k][s] <= RpcMax
    <3>1. lastHeld[k][s] \in Int /\ RpcMax \in Int
      BY <1>1, <1>7, <1>8, Numbers DEF ChainKnown
    <3> QED  BY <1>7, <2>2, <3>1
  <2> HIDE DEF s
  <2>4. /\ CacheAges'
        /\ \E n \in Entries(k)' : cache'[n].age = 0
        /\ \A j \in Identities \ {k} : \A n \in Entries(j)' : \E m \in Entries(j) : cache'[n] = cache[m]
    BY <1>1, <1>3, <1>7, <1>8, <2>1, <2>3, CacheStores, Numbers
  <2>5. asked' \in [Identities -> 0..RefreshGap]
    <3>1. RefreshGap \in 0..RefreshGap /\ asked \in [Identities -> 0..RefreshGap]
      BY <1>1, Numbers DEF FetchesKnown
    <3> QED  BY <2>1, <3>1
  <2>6. ASSUME NEW i \in Identities, asked'[i] < RefreshGap
        PROVE  rpc'[i] # NoCall \/ \E n \in Entries(i)' : cache'[n].age <= asked'[i]
    <3>1. PICK n \in Entries(i)' : asked'[i] = asked[i]
      <4>1. RefreshGap \in Int
        BY Numbers
      <4>2. asked'[i] # RefreshGap
        BY <2>6, <4>1
      <4> QED  BY <2>1, <4>2 DEF Entries
    <3>2. CASE i = k
      <4>1. asked'[i] \in Nat
        BY <2>5
      <4> QED  BY <2>4, <3>2, <4>1
    <3>3. CASE i # k
      <4>1. PICK m \in Entries(i) : cache'[n] = cache[m]
        BY <2>4, <3>3
      <4>2. rpc[i] # NoCall => rpc'[i] # NoCall
        BY <1>1, <1>2, <3>3, LostCalls DEF Subjects
      <4>3. ASSUME NEW l \in Entries(i) PROVE l = m
        BY <1>1, <4>1, TheEntry
      <4> QED  BY <1>1, <2>6, <3>1, <4>1, <4>2, <4>3 DEF FetchesKnown
    <3> QED  BY <3>2, <3>3
  <2>7. FetchesKnown'
    BY <2>5, <2>6 DEF FetchesKnown
  <2> QED  BY <1>5, <1>6, <2>4, <2>7 DEF VerifierInv
<1>9. CASE ~(k \in Identities /\ s # Unregistered)
  <2>1. /\ asked' = IF k \in Identities THEN [asked EXCEPT ![k] = RefreshGap] ELSE asked
        /\ cache' = cache
    BY <1>9 DEF Deliver
  <2>2. CacheAges'
    BY <1>1, <1>3, <2>1 DEF CacheAges
  <2>3. FetchesKnown'
    <3>1. asked \in [Identities -> 0..RefreshGap] /\ RefreshGap \in 0..RefreshGap /\ RefreshGap \in Int
      BY <1>1, Numbers DEF FetchesKnown
    <3>2. asked' \in [Identities -> 0..RefreshGap]
      BY <2>1, <3>1
    <3>3. ASSUME NEW i \in Identities, asked'[i] < RefreshGap
          PROVE  rpc'[i] # NoCall \/ \E n \in Entries(i)' : cache'[n].age <= asked'[i]
      <4>1. i # k /\ asked'[i] = asked[i]
        BY <2>1, <3>1, <3>3
      <4>2. rpc[i] # NoCall => rpc'[i] # NoCall
        BY <1>1, <1>2, <4>1, LostCalls DEF Subjects
      <4>3. Entries(i)' = Entries(i)
        BY <2>1 DEF Entries
      <4> QED  BY <1>1, <2>1, <3>3, <4>1, <4>2, <4>3 DEF FetchesKnown
    <3> QED  BY <3>2, <3>3 DEF FetchesKnown
  <2> QED  BY <1>5, <1>6, <2>2, <2>3 DEF VerifierInv
<1> QED  BY <1>8, <1>9

\* A call that fails, or that ends in an error of another kind: what all who await
\* it are told does not matter here.
LEMMA CallLost ==
  ASSUME VerifierInv, NEW k \in Subjects, NEW reason, CountFailure(k, reason),
         Flying(k), EndCall(k), UNCHANGED <<mode, state, lastHeld, cache, up>>,
         check' = [c \in Checks |-> IF c \in UNION {Waiting(j) : j \in Lost(k)} THEN Idle ELSE check[c]],
         asked' = [i \in Identities |-> IF i \in Lost(k) THEN RefreshGap ELSE asked[i]]
  PROVE  VerifierInv'
<1>1. ChainKnown /\ CallsAge /\ OneTest /\ ChecksWait /\ CacheAges /\ FetchesKnown
  BY DEF VerifierInv
<1>2. CallEnded(k)
  BY <1>1, CallEnds
<1>3. ChecksWait' /\ CallsAge' /\ OneTest'
  BY <1>1, <1>2, ChecksEnd
<1>4. ChainKnown' /\ CacheAges'
  BY <1>1 DEF ChainKnown, CacheAges
<1>5. FetchesKnown'
  <2>1. asked \in [Identities -> 0..RefreshGap] /\ RefreshGap \in 0..RefreshGap /\ RefreshGap \in Int
    BY <1>1, Numbers DEF FetchesKnown
  <2>2. asked' \in [Identities -> 0..RefreshGap]
    BY <2>1
  <2>3. ASSUME NEW i \in Identities, asked'[i] < RefreshGap
        PROVE  rpc'[i] # NoCall \/ \E n \in Entries(i)' : cache'[n].age <= asked'[i]
    <3>1. i \notin Lost(k) /\ asked'[i] = asked[i]
      BY <2>1, <2>3
    <3>2. rpc[i] # NoCall => rpc'[i] # NoCall
      BY <1>1, <1>2, <3>1, LostCalls DEF Subjects
    <3>3. Entries(i)' = Entries(i) /\ cache' = cache
      BY DEF Entries
    <3> QED  BY <1>1, <2>3, <3>1, <3>2, <3>3 DEF FetchesKnown
  <2> QED  BY <2>2, <2>3 DEF FetchesKnown
<1> QED  BY <1>3, <1>4, <1>5 DEF VerifierInv

LEMMA CallFailsKeeps ==
  ASSUME VerifierInv, NEW k \in Subjects, CallFails(k)
  PROVE  VerifierInv'
<1>1. PICK reason : CountFailure(k, reason)
  BY DEF CallFails
<1>2. /\ Flying(k) /\ EndCall(k) /\ UNCHANGED <<mode, state, lastHeld, cache, up>>
      /\ check' = [c \in Checks |-> IF c \in UNION {Waiting(j) : j \in Lost(k)} THEN Idle ELSE check[c]]
      /\ asked' = [i \in Identities |-> IF i \in Lost(k) THEN RefreshGap ELSE asked[i]]
  BY DEF CallFails, chainVars, Judge, Lost
<1> QED  BY <1>1, <1>2, CallLost

\* An error that says that the node is there opens no breaker: only this call ends.
LEMMA CallErrsAlone ==
  ASSUME VerifierInv, NEW k \in Subjects, CallErrs(k)
  PROVE  Lost(k) = {k}
<1>1. OneTest /\ CallsAge /\ Flying(k)
  BY DEF VerifierInv, CallErrs
<1>2. breaker' = CASE rpc[k].step = "test" -> [breaker EXCEPT !.state = "closed"]
                   [] rpc[k].step # "test" -> breaker
  BY DEF CallErrs, CountFailure, IsUnavailability
<1>3. CASE rpc[k].step = "test"
  <2>1. breaker'.state = "closed"
    BY <1>1, <1>2, <1>3 DEF OneTest
  <2> QED  BY <2>1 DEF Lost
<1>4. CASE rpc[k].step # "test"
  BY <1>4 DEF Lost, Released
<1> QED  BY <1>3, <1>4

LEMMA CallErrsKeeps ==
  ASSUME VerifierInv, NEW k \in Subjects, CallErrs(k)
  PROVE  VerifierInv'
<1>1. Lost(k) = {k}
  BY CallErrsAlone
<1>2. Flying(k) /\ EndCall(k) /\ CountFailure(k, "answer") /\ UNCHANGED <<mode, state, lastHeld, cache, up>>
  BY DEF CallErrs, chainVars
<1>3. check' = [c \in Checks |-> IF c \in UNION {Waiting(j) : j \in Lost(k)} THEN Idle ELSE check[c]]
  <2>1. UNION {Waiting(j) : j \in {k}} = Waiting(k)
    OBVIOUS
  <2> QED  BY <1>1, <2>1 DEF CallErrs, Judge
<1>4. asked' = [i \in Identities |-> IF i \in Lost(k) THEN RefreshGap ELSE asked[i]]
  <2>1. asked = [i \in Identities |-> asked[i]]
    BY DEF VerifierInv, FetchesKnown
  <2>2. asked' = IF k \in Identities THEN [asked EXCEPT ![k] = RefreshGap] ELSE asked
    BY DEF CallErrs
  <2> QED  BY <1>1, <2>1, <2>2
<1> QED  BY <1>2, <1>3, <1>4, CallLost

-----------------------------------------------------------------------------
(* The chain and the clock.                                                *)

LEMMA AboutKnown ==
  ASSUME CallsAge, ChecksWait, NEW k \in Subjects, rpc[k].answer # None
  PROVE  About(k) \in Identities /\ rpc[k].answer \in States /\ rpc[k].age \in 0..RpcMax
<1>1. rpc[k] # NoCall
  BY DEF NoCall
<1>2. About(k) \in Identities
  BY <1>1, PayerKnown DEF About, ChecksWait, Payer, Id, Running, Subjects
<1> QED  BY <1>2 DEF CallsAge

LEMMA UpdateKeeps ==
  ASSUME VerifierInv, NEW i \in Identities, NEW s \in Later[i], UpdateIdentity(i, s)
  PROVE  VerifierInv'
<1>1. ChainKnown /\ CallsAge /\ OneTest /\ ChecksWait /\ CacheAges /\ FetchesKnown
  BY DEF VerifierInv
<1>2. s \in States
  BY VerifierAssumption
<1>3. /\ state' = [state EXCEPT ![i] = s]
      /\ lastHeld' = [lastHeld EXCEPT ![i][s] = 0]
      /\ UNCHANGED <<mode, cache, rpc, up, breaker, check, asked>>
  BY DEF UpdateIdentity
<1>4. /\ \A j \in Identities : lastHeld[j] \in [States -> 0..Horizon]
      /\ 0 \in 0..Horizon /\ Horizon \in Nat
  BY <1>1, Numbers DEF ChainKnown
<1>5. lastHeld' = [lastHeld EXCEPT ![i] = [lastHeld[i] EXCEPT ![s] = 0]]
  BY <1>3
<1>6. /\ lastHeld'[i] = [lastHeld[i] EXCEPT ![s] = 0]
      /\ \A j \in Identities : j # i => lastHeld'[j] = lastHeld[j]
      /\ lastHeld' = [j \in Identities |-> lastHeld'[j]]
  BY <1>1, <1>5 DEF ChainKnown
<1>7. \A t \in States : lastHeld'[i][t] = IF t = s THEN 0 ELSE lastHeld[i][t]
  BY <1>2, <1>4, <1>6
<1>8. \A j \in Identities : lastHeld'[j] \in [States -> 0..Horizon]
  BY <1>2, <1>4, <1>6
<1>9. \A j \in Identities : \A t \in States :
        lastHeld'[j][t] <= lastHeld[j][t] /\ lastHeld[j][t] \in Nat /\ lastHeld'[j][t] \in Nat
  BY <1>4, <1>6, <1>7, <1>8
<1>10. ChainKnown'
  <2>1. state' \in [Identities -> States]
    BY <1>1, <1>2, <1>3 DEF ChainKnown
  <2>2. \A j \in Identities : lastHeld'[j][state'[j]] = 0
    BY <1>1, <1>2, <1>3, <1>6, <1>7 DEF ChainKnown
  <2> QED  BY <1>1, <1>3, <1>6, <1>8, <2>1, <2>2 DEF ChainKnown
<1>11. CallsAge'
  <2>1. \A k \in Subjects : About(k)' = About(k)
    BY <1>3 DEF About, Payer
  <2>2. ASSUME NEW k \in Subjects, rpc[k].answer # None
        PROVE  lastHeld'[About(k)][rpc[k].answer] <= rpc[k].age
    <3>1. lastHeld[About(k)][rpc[k].answer] <= rpc[k].age
      BY <1>1, <2>2 DEF CallsAge
    <3> DEFINE old == lastHeld[About(k)][rpc[k].answer]
               new == lastHeld'[About(k)][rpc[k].answer]
    <3>2. new <= old /\ old \in Nat /\ new \in Nat /\ rpc[k].age \in Int
      BY <1>1, <1>9, <2>2, AboutKnown
    <3> HIDE DEF new, old
    <3>3. new <= rpc[k].age
      BY <3>1, <3>2 DEF old
    <3> QED  BY <3>3 DEF new
  <2> QED  BY <1>1, <1>3, <2>1, <2>2 DEF CallsAge, Flying
<1>12. OneTest'
  BY <1>1, <1>3 DEF OneTest
<1>13. ChecksWait'
  BY <1>1, <1>3 DEF ChecksWait, Running, Awaited, Payer
<1>14. CacheAges'
  <2>1. ASSUME NEW n \in 1..Len(cache)
        PROVE  lastHeld'[cache[n].identity][cache[n].state] <= RpcMax + cache[n].age
    <3> DEFINE old == lastHeld[cache[n].identity][cache[n].state]
               new == lastHeld'[cache[n].identity][cache[n].state]
    <3>1. cache[n] \in CacheEntry
      BY <1>1 DEF CacheAges
    <3>2. cache[n].identity \in Identities /\ cache[n].state \in States /\ cache[n].age \in Nat
      BY <3>1 DEF CacheEntry
    <3>3. new <= old /\ old \in Nat /\ new \in Nat
      BY <1>9, <3>2
    <3>6. RpcMax + cache[n].age \in Int
      BY <3>2, Numbers
    <3>4. old <= RpcMax + cache[n].age
      BY <1>1 DEF CacheAges
    <3> HIDE DEF new, old
    <3>5. new <= RpcMax + cache[n].age
      BY <3>3, <3>4, <3>6
    <3> QED  BY <3>5 DEF new
  <2> QED  BY <1>1, <1>3, <2>1 DEF CacheAges
<1>15. FetchesKnown'
  BY <1>1, <1>3 DEF FetchesKnown, Entries
<1> QED  BY <1>10, <1>11, <1>12, <1>13, <1>14, <1>15 DEF VerifierInv

LEMMA NodeGoesKeeps ==
  ASSUME VerifierInv, NodeGoes
  PROVE  VerifierInv'
<1>1. UNCHANGED <<mode, state, lastHeld, cache, rpc, breaker, check, asked>> /\ up' \in BOOLEAN
  BY DEF NodeGoes, chainVars
<1> QED  BY <1>1, InvStands

LEMMA OlderBy ==
  ASSUME NEW limit \in Nat, NEW a \in 0..limit
  PROVE  Older(a, limit) \in 0..limit /\ Older(a, limit) <= a + 1 /\ (Older(a, limit) < limit => Older(a, limit) = a + 1)
BY DEF Older, Lesser

\* Everything grows older together.
LEMMA TickKeeps ==
  ASSUME VerifierInv, Tick
  PROVE  VerifierInv'
<1> DEFINE M == Larger(Ttl, MinRefreshAge)
<1>1. ChainKnown /\ CallsAge /\ OneTest /\ ChecksWait /\ CacheAges /\ FetchesKnown
  BY DEF VerifierInv
<1>2. /\ \A k \in Subjects : Flying(k) => rpc[k].age < RpcMax
      /\ lastHeld' = [i \in Identities |-> [s \in States |-> IF s = state[i] THEN 0 ELSE Older(lastHeld[i][s], Horizon)]]
      /\ cache' = [n \in DOMAIN cache |-> [cache[n] EXCEPT !.age = Older(cache[n].age, M)]]
      /\ rpc' = [k \in Subjects |-> IF Flying(k) THEN [rpc[k] EXCEPT !.age = rpc[k].age + 1] ELSE rpc[k]]
      /\ breaker' = IF breaker.state = "open" THEN [breaker EXCEPT !.age = Older(breaker.age, Recovery)] ELSE breaker
      /\ asked' = [i \in Identities |-> Older(asked[i], RefreshGap)]
      /\ UNCHANGED <<mode, state, up, check>>
  BY DEF Tick
<1>3. /\ M \in Nat /\ RpcMax \in Nat /\ Horizon = M + RpcMax /\ Horizon \in Nat
      /\ Recovery \in Nat /\ RefreshGap \in Nat
  BY Numbers
<1> HIDE DEF M
<1>4. ASSUME NEW i \in Identities, NEW s \in States
      PROVE  /\ lastHeld[i][s] \in 0..Horizon /\ lastHeld'[i][s] \in 0..Horizon
             /\ lastHeld'[i][s] <= lastHeld[i][s] + 1
             /\ s = state[i] => lastHeld'[i][s] = 0
  <2>1. lastHeld[i][s] \in 0..Horizon
    BY <1>1 DEF ChainKnown
  <2>2. lastHeld'[i][s] = IF s = state[i] THEN 0 ELSE Older(lastHeld[i][s], Horizon)
    BY <1>2
  <2>3. Older(lastHeld[i][s], Horizon) \in 0..Horizon /\ Older(lastHeld[i][s], Horizon) <= lastHeld[i][s] + 1
    BY <1>3, <2>1, OlderBy
  <2> QED  BY <1>3, <2>1, <2>2, <2>3
<1>5. ChainKnown'
  <2>1. lastHeld' \in [Identities -> [States -> 0..Horizon]]
    BY <1>2, <1>4
  <2> QED  BY <1>1, <1>2, <1>4, <2>1 DEF ChainKnown
<1>6. ASSUME NEW k \in Subjects
      PROVE  /\ rpc'[k] \in [step : CallSteps, answer : States \cup {None}, age : 0..RpcMax]
             /\ rpc'[k].step = rpc[k].step /\ rpc'[k].answer = rpc[k].answer
             /\ rpc'[k].age = IF Flying(k) THEN rpc[k].age + 1 ELSE rpc[k].age
             /\ rpc'[k] = NoCall <=> rpc[k] = NoCall
  <2>1. rpc[k] \in [step : CallSteps, answer : States \cup {None}, age : 0..RpcMax]
    BY <1>1 DEF CallsAge
  <2>2. CASE Flying(k)
    <3>1. rpc'[k] = [rpc[k] EXCEPT !.age = rpc[k].age + 1] /\ rpc[k].age + 1 \in 0..RpcMax
      BY <1>2, <1>3, <2>1, <2>2
    <3>2. rpc[k].step # "none"
      BY <2>2 DEF Flying
    <3> QED  BY <2>1, <2>2, <3>1, <3>2 DEF NoCall
  <2>3. CASE ~Flying(k)
    BY <1>2, <2>1, <2>3
  <2> QED  BY <2>2, <2>3
<1>7. rpc' = [k \in Subjects |-> rpc'[k]]
  BY <1>2
<1>8. CallsAge'
  <2>1. rpc' \in [Subjects -> [step : CallSteps, answer : States \cup {None}, age : 0..RpcMax]]
    <3> HIDE DEF Subjects
    <3> QED  BY <1>6, <1>7
  <2>2. \A k \in Subjects : rpc'[k].step = "none" => rpc'[k] = NoCall
    BY <1>1, <1>6 DEF CallsAge
  <2>3. ASSUME NEW k \in Subjects, rpc'[k].answer # None
        PROVE  Flying(k)' /\ lastHeld'[About(k)'][rpc'[k].answer] <= rpc'[k].age
    <3> DEFINE a == rpc[k].answer
               old == lastHeld[About(k)][a]
               new == lastHeld'[About(k)][a]
    <3>1. a # None /\ rpc'[k].answer = a /\ About(k)' = About(k)
      BY <1>2, <1>6, <2>3 DEF About, Payer
    <3>2. Flying(k) /\ old <= rpc[k].age /\ rpc'[k].age = rpc[k].age + 1
      BY <1>1, <1>6, <3>1 DEF CallsAge
    <3>3. old \in Nat /\ new \in Nat /\ new <= old + 1 /\ rpc[k].age \in Int
      BY <1>1, <1>4, <3>1, AboutKnown
    <3>4. Flying(k)'
      BY <1>6, <3>2 DEF Flying
    <3> HIDE DEF old, new
    <3>5. new <= rpc'[k].age
      BY <3>2, <3>3
    <3> QED  BY <3>1, <3>4, <3>5 DEF new
  <2> QED  BY <2>1, <2>2, <2>3 DEF CallsAge
<1>9. OneTest'
  <2>1. breaker' \in [state : {"closed", "open", "half-open"}, failures : 0..Failures, age : 0..Recovery]
        /\ breaker'.state = breaker.state
    <3>1. breaker \in [state : {"closed", "open", "half-open"}, failures : 0..Failures, age : 0..Recovery]
      BY <1>1 DEF OneTest
    <3>2. Older(breaker.age, Recovery) \in 0..Recovery
      BY <1>3, <3>1, OlderBy
    <3> QED  BY <1>2, <3>1, <3>2
  <2> QED  BY <1>1, <1>6, <2>1 DEF OneTest
<1>10. ChecksWait'
  <2>1. \A c \in Checks : Running(c) => Awaited(c) \in Subjects
    BY <1>1, PayerKnown DEF ChecksWait, Awaited, Payer, Id
  <2>2. \A c \in Checks : Awaited(c)' = Awaited(c) /\ Running(c)' = Running(c) /\ c \in Subjects
    BY <1>2 DEF Awaited, Payer, Running, Subjects
  <2> QED  BY <1>1, <1>2, <1>6, <2>1, <2>2, ZenonT(30) DEF ChecksWait
<1>11. Len(cache) \in Nat /\ DOMAIN cache = 1..Len(cache) /\ cache \in Seq(CacheEntry)
  BY <1>1 DEF CacheAges
<1>12. ASSUME NEW n \in 1..Len(cache)
       PROVE  /\ cache[n] \in CacheEntry /\ cache'[n] \in CacheEntry
              /\ cache'[n].identity = cache[n].identity /\ cache'[n].state = cache[n].state
              /\ cache'[n].age = Older(cache[n].age, M)
  <2>0. cache[n] \in CacheEntry
    BY <1>11
  <2>1. cache[n] \in [identity : Identities, state : States, age : 0..M]
    BY <2>0 DEF CacheEntry, M
  <2>2. Older(cache[n].age, M) \in 0..M
    BY <1>3, <2>1, OlderBy
  <2>3. cache'[n] = [cache[n] EXCEPT !.age = Older(cache[n].age, M)]
    BY <1>2, <1>11
  <2>4. cache'[n] \in [identity : Identities, state : States, age : 0..M]
    BY <2>1, <2>2, <2>3
  <2> QED  BY <2>1, <2>3, <2>4 DEF CacheEntry, M
<1>13. Len(cache') = Len(cache) /\ cache' \in Seq(CacheEntry)
  <2> DEFINE N == Len(cache)
  <2>1. cache' = [n \in 1..N |-> cache'[n]] /\ N \in Nat
    BY <1>2, <1>11
  <2>2. \A n \in 1..N : cache'[n] \in CacheEntry
    BY <1>12
  <2> HIDE DEF N
  <2>3. cache' \in Seq(CacheEntry)
    BY <2>1, <2>2, IsASeq
  <2>4. Len(cache') = N
    BY <2>1, <2>3, LenProperties
  <2> QED  BY <2>3, <2>4 DEF N
<1>14. CacheAges'
  <2>1. ASSUME NEW n \in 1..Len(cache)
        PROVE  lastHeld'[cache'[n].identity][cache'[n].state] <= RpcMax + cache'[n].age
    <3> DEFINE old == lastHeld[cache[n].identity][cache[n].state]
               new == lastHeld'[cache[n].identity][cache[n].state]
               age == cache[n].age
    <3>1. cache[n] \in [identity : Identities, state : States, age : 0..M]
      BY <1>12 DEF CacheEntry, M
    <3>2. age \in 0..M /\ old \in 0..Horizon /\ new \in 0..Horizon /\ new <= old + 1
      BY <1>4, <3>1
    <3>3. old <= RpcMax + age
      BY <1>1 DEF CacheAges
    <3>4. cache'[n].age = Older(age, M)
      BY <1>12
    <3>5. new <= RpcMax + Older(age, M)
      <4>1. Older(age, M) \in 0..M /\ (Older(age, M) < M => Older(age, M) = age + 1)
        BY <1>3, <3>2, OlderBy
      <4> HIDE DEF old, new, age
      <4> QED  BY <1>3, <3>2, <3>3, <4>1
    <3> QED  BY <1>12, <3>4, <3>5
  <2> QED  BY <1>1, <1>12, <1>13, <2>1 DEF CacheAges
<1>15. FetchesKnown'
  <2>1. \A i \in Identities : /\ asked[i] \in 0..RefreshGap /\ asked'[i] \in 0..RefreshGap
                              /\ asked'[i] < RefreshGap => asked'[i] = asked[i] + 1
    BY <1>1, <1>2, <1>3, OlderBy DEF FetchesKnown
  <2>2. asked' \in [Identities -> 0..RefreshGap]
    BY <1>2, <2>1
  <2>3. ASSUME NEW i \in Identities, asked'[i] < RefreshGap
        PROVE  rpc'[i] # NoCall \/ \E n \in Entries(i)' : cache'[n].age <= asked'[i]
    <3>1. asked'[i] = asked[i] + 1 /\ asked[i] < RefreshGap /\ asked[i] \in Nat
      BY <1>3, <2>1, <2>3
    <3>2. CASE rpc[i] # NoCall
      BY <1>6, <3>2 DEF Subjects
    <3>3. CASE rpc[i] = NoCall
      <4>1. PICK n \in Entries(i) : cache[n].age <= asked[i]
        BY <1>1, <3>1, <3>3 DEF FetchesKnown
      <4>2. n \in 1..Len(cache) /\ n \in Entries(i)'
        BY <1>12, <1>13, <4>1 DEF Entries
      <4>3. cache[n].age \in 0..M /\ cache'[n].age = Older(cache[n].age, M)
        BY <1>12, <4>2 DEF CacheEntry, M
      <4>4. Older(cache[n].age, M) <= cache[n].age + 1 /\ Older(cache[n].age, M) \in 0..M
        BY <1>3, <4>3, OlderBy
      <4>5. cache'[n].age <= asked'[i]
        BY <3>1, <4>1, <4>3, <4>4
      <4> QED  BY <4>2, <4>5
    <3> QED  BY <3>2, <3>3
  <2> QED  BY <2>2, <2>3 DEF FetchesKnown
<1> QED  BY <1>5, <1>8, <1>9, <1>10, <1>14, <1>15 DEF VerifierInv

LEMMA InvStep ==
  ASSUME VerifierInv, [VerifierNext]_vars
  PROVE  VerifierInv'
<1>1. CASE \E c \in Checks : \E q \in Requests[c] : RunChecks(c, q) \/ RunQuery(c, q)
  BY <1>1, TakeUpKeeps
<1>2. CASE \E k \in Subjects : CallStep(k)
  BY <1>2, NodeReadsKeeps, DeliverKeeps, CallFailsKeeps, CallErrsKeeps DEF CallStep
<1>3. CASE \E i \in Identities : \E s \in Later[i] : UpdateIdentity(i, s)
  BY <1>3, UpdateKeeps
<1>4. CASE NodeGoes
  BY <1>4, NodeGoesKeeps
<1>5. CASE Tick
  BY <1>5, TickKeeps
<1>6. CASE UNCHANGED vars
  <2>1. UNCHANGED <<mode, state, lastHeld, cache, rpc, breaker, check, asked>> /\ up' \in BOOLEAN
    BY <1>6 DEF vars, VerifierInv, ChainKnown
  <2> QED  BY <2>1, InvStands
<1> QED  BY <1>1, <1>2, <1>3, <1>4, <1>5, <1>6 DEF VerifierNext

LEMMA InvAlways == VerifierSpec => []VerifierInv
  BY InvInit, InvStep, PTL DEF VerifierSpec

-----------------------------------------------------------------------------
(* What follows.                                                           *)

\* Calls, checks, cache and breaker fit together (VerifierTypeOK), whatever the
\* requests and the answers of the node.
THEOREM VerifierTypes == VerifierSpec => []VerifierTypeOK
<1>1. ASSUME VerifierInv PROVE VerifierTypeOK
  <2>1. ChainKnown /\ CallsAge /\ OneTest /\ ChecksWait /\ CacheAges
    BY <1>1 DEF VerifierInv
  <2>2. ASSUME NEW i \in Identities PROVE Cardinality(Entries(i)) <= 1
    <3>1. CASE Entries(i) = {}
      BY <3>1, FS_EmptySet
    <3>2. CASE Entries(i) # {}
      <4>1. PICK n \in Entries(i) : TRUE
        BY <3>2
      <4>2. Entries(i) = {n}
        BY <2>1, <4>1 DEF Entries, CacheAges
      <4> QED  BY <4>2, FS_Singleton
    <3> QED  BY <3>1, <3>2
  <2>3. ASSUME NEW c \in Checks, Running(c)
        PROVE  \E k \in Subjects : c \in Waiting(k) /\ rpc[k] # NoCall
    <3>1. Awaited(c) \in Subjects /\ rpc[Awaited(c)] # NoCall
      BY <2>1, <2>3, PayerKnown DEF ChecksWait, Awaited, Payer, Id
    <3>2. c \in Waiting(Awaited(c))
      BY <2>1, <2>3, WaitingAwaits
    <3> QED  BY <3>1, <3>2
  <2>4. /\ (\E k \in Subjects : rpc[k].step = "test") <=> breaker.state = "half-open"
        /\ (\E k \in Subjects : rpc[k].step = "queued") => breaker.state = "half-open"
    BY <2>1 DEF OneTest
  <2>5. breaker.state \in {"closed", "open", "half-open"} /\ breaker.failures \in 0..Failures
    BY <2>1 DEF OneTest
  <2>6. mode \in Modes /\ up \in BOOLEAN /\ state \in [Identities -> States] /\ Len(cache) <= MaxEntries
    BY <2>1 DEF ChainKnown, CacheAges
  <2> QED  BY <2>2, <2>3, <2>4, <2>5, <2>6 DEF VerifierTypeOK
<1> QED  BY <1>1, InvAlways, PTL

\* A fetch begins only when a check starts to wait for it.
LEMMA FetchesStart ==
  ASSUME VerifierInv, VerifierNext, NEW i \in Identities, rpc[i] = NoCall, rpc'[i] # NoCall
  PROVE  asked[i] >= RefreshGap
<1>1. ChainKnown /\ CallsAge /\ OneTest /\ ChecksWait /\ CacheAges /\ FetchesKnown
  BY DEF VerifierInv
<1>2. i \in Subjects /\ i \notin Checks
  BY VerifierAssumption DEF Subjects
<1>3. ASSUME NEW c \in Checks, NEW q \in Requests[c], RunChecks(c, q) \/ RunQuery(c, q)
      PROVE  asked[i] >= RefreshGap
  <2>1. PICK step \in Steps : Waits(c, q, step)
    BY <1>3, TakenUp DEF Decided
  <2>2. Id(q) \in Subjects /\ c \in Subjects
    BY PayerKnown
  <2>3. CASE step = "verifying"
    <3>1. Call(c)
      BY <2>1, <2>3 DEF Waits
    <3>2. CallMade(c)
      BY <1>1, <2>2, <3>1, CallMakes
    <3> QED  BY <1>2, <3>2 DEF CallMade
  <2>4. CASE step # "verifying"
    <3>1. rpc[Id(q)] = NoCall /\ Call(Id(q)) /\ ~(Fresh(Id(q), Ttl) /\ Fresh(Id(q), MinRefreshAge))
      BY <2>1, <2>4 DEF Waits
    <3>2. CallMade(Id(q))
      BY <1>1, <2>2, <3>1, CallMakes
    <3>3. i = Id(q)
      BY <1>2, <3>2 DEF CallMade
    <3> QED  BY <1>1, <3>1, <3>3, FetchIsDue
  <2> QED  BY <2>3, <2>4
<1>4. ASSUME NEW k \in Subjects, CallStep(k) PROVE FALSE
  <2>1. CASE NodeReads(k)
    <3>1. Flying(k) /\ rpc' = [rpc EXCEPT ![k].answer = state[About(k)]]
      BY <2>1 DEF NodeReads, About
    <3>2. i # k
      BY <3>1 DEF Flying, NoCall
    <3> QED  BY <1>1, <3>1, <3>2 DEF CallsAge
  <2>2. CASE Deliver(k)
    <3>1. Flying(k) /\ CallEnded(k)
      BY <1>1, <2>2, DeliverEnds
    <3> QED  BY <1>1, <1>2, <3>1, LostCalls
  <2>3. CASE CallFails(k)
    <3>1. PICK reason : CountFailure(k, reason)
      BY <2>3 DEF CallFails
    <3>2. Flying(k) /\ EndCall(k)
      BY <2>3 DEF CallFails
    <3>3. CallEnded(k)
      BY <1>1, <3>1, <3>2, CallEnds
    <3> QED  BY <1>1, <1>2, <3>2, <3>3, LostCalls
  <2>4. CASE CallErrs(k)
    <3>1. Flying(k) /\ EndCall(k) /\ CountFailure(k, "answer")
      BY <2>4 DEF CallErrs
    <3>2. CallEnded(k)
      BY <1>1, <3>1, CallEnds
    <3> QED  BY <1>1, <1>2, <3>1, <3>2, LostCalls
  <2> QED  BY <1>4, <2>1, <2>2, <2>3, <2>4 DEF CallStep
<1>5. ASSUME Tick PROVE FALSE
  <2>1. rpc'[i] = IF Flying(i) THEN [rpc[i] EXCEPT !.age = @ + 1] ELSE rpc[i]
    BY <1>2, <1>5 DEF Tick
  <2> QED  BY <2>1 DEF Flying, NoCall
<1>6. ~(\E j \in Identities : \E s \in Later[j] : UpdateIdentity(j, s)) /\ ~NodeGoes
  BY DEF UpdateIdentity, NodeGoes
<1> QED  BY <1>3, <1>4, <1>5, <1>6 DEF VerifierNext

\* Bad signatures are not turned into calls (RefreshRateLimited): between two
\* fetches of an identity that is still known lie MinRefreshAge or the TTL.
THEOREM RefreshesAreLimited == VerifierSpec => RefreshRateLimited
<1>1. ASSUME VerifierInv, [VerifierNext]_vars
      PROVE  [\A i \in Identities : rpc[i] = NoCall /\ rpc'[i] # NoCall => asked[i] >= RefreshGap]_vars
  BY <1>1, FetchesStart
<1> QED  BY <1>1, InvAlways, PTL DEF VerifierSpec, RefreshRateLimited

-----------------------------------------------------------------------------
(* Whom a step answers, and on which state of the chain.                   *)

\* A verdict on the signature is about a state the chain held a moment ago, unless
\* an error has stood in for it.
Grounded(a) ==
  /\ a.verdict = "accepted" => \E s \in States :
       lastHeld[Id(a.request)][s] <= Stale(a.request, Ttl - 1) /\ Signed(a.request, s)
  /\ a.verdict = "invalid-signature" /\ ~a.erred => \E s \in States :
       lastHeld[Id(a.request)][s] <= Stale(a.request, MinRefreshAge - 1) /\ ~Signed(a.request, s)

LEMMA VerdictSigned ==
  ASSUME NEW c \in Checks, NEW q \in Requests[c], Failed(q) = {}, NEW s \in States
  PROVE  /\ SignatureVerdict(q, s) = "accepted" => Signed(q, s)
         /\ SignatureVerdict(q, s) = "invalid-signature" => ~Signed(q, s)
BY VerifiedIfSigned DEF SignatureVerdict

LEMMA StaleAges ==
  ASSUME NEW q, NEW age \in Nat
  PROVE  /\ Stale(q, age) \in Nat /\ RpcMax <= Stale(q, age)
         /\ mode = "offline" /\ q.kind = "payment" => Stale(q, age) = RpcMax + age
<1>1. RpcMax \in Nat
  BY Numbers
<1>2. CASE mode = "rpc" \/ q.kind # "payment"
  <2>1. Stale(q, age) = RpcMax + 0
    BY <1>2 DEF Stale
  <2> QED  BY <1>1, <1>2, <2>1
<1>3. CASE ~(mode = "rpc" \/ q.kind # "payment")
  <2>1. Stale(q, age) = RpcMax + age
    BY <1>3 DEF Stale
  <2> QED  BY <1>1, <2>1
<1> QED  BY <1>2, <1>3

\* What is decided at once rests on an entry that is young enough.
LEMMA DecidedGrounded ==
  ASSUME VerifierInv, NEW c \in Checks, NEW q \in Requests[c], Decided(q), UNCHANGED <<mode, lastHeld>>,
         NEW a \in answers'
  PROVE  Grounded(a)'
<1>1. PICK verdict :
        /\ answers' = {[request |-> q, verdict |-> verdict, erred |-> FALSE]}
        /\ verdict \in {"accepted", "invalid-signature"} =>
             /\ Failed(q) = {} /\ mode = "offline" /\ q.kind = "payment"
             /\ Fresh(Id(q), Ttl)
             /\ verdict = SignatureVerdict(q, EntryOf(Id(q)).state)
             /\ verdict = "invalid-signature" => Fresh(Id(q), MinRefreshAge)
  BY DEF Decided
<1>2. a = [request |-> q, verdict |-> verdict, erred |-> FALSE]
  BY <1>1
<1>3. ASSUME verdict \in {"accepted", "invalid-signature"} PROVE Grounded(a)
  <2> DEFINE e == EntryOf(Id(q))
             held == lastHeld[Id(q)][e.state]
  <2>1. CacheAges /\ ChainKnown
    BY DEF VerifierInv
  <2>2. PICK n \in Entries(Id(q)) : TRUE
    BY <1>1, <1>3 DEF Fresh
  <2>3. e \in CacheEntry /\ held <= RpcMax + e.age
    BY <2>1, <2>2, TheEntry
  <2>4. e.state \in States /\ e.age \in Nat
    BY <2>3, Numbers DEF CacheEntry
  <2>5. held \in Nat
    <3>1. Id(q) \in Identities
      BY PayerKnown
    <3> HIDE DEF e
    <3> QED  BY <2>1, <2>4, <3>1, Numbers DEF ChainKnown
  <2>6. e.age < Ttl /\ (verdict = "invalid-signature" => e.age < MinRefreshAge)
    BY <1>1, <1>3 DEF Fresh
  <2>7. verdict = SignatureVerdict(q, e.state) /\ Failed(q) = {} /\ mode = "offline" /\ q.kind = "payment"
    BY <1>1, <1>3
  <2> HIDE DEF e
  <2>8. verdict = "accepted" => held <= Stale(q, Ttl - 1) /\ Signed(q, e.state)
    <3>1. Ttl - 1 \in Nat
      BY Numbers
    <3>2. Stale(q, Ttl - 1) = RpcMax + (Ttl - 1)
      BY <2>7, <3>1, StaleAges
    <3>3. held <= RpcMax + (Ttl - 1)
      <4> HIDE DEF held
      <4> QED  BY <2>3, <2>4, <2>5, <2>6, Numbers
    <3> QED  BY <2>4, <2>7, <3>2, <3>3, VerdictSigned
  <2>9. verdict = "invalid-signature" => held <= Stale(q, MinRefreshAge - 1) /\ ~Signed(q, e.state)
    <3>1. MinRefreshAge - 1 \in Nat
      BY Numbers
    <3>2. Stale(q, MinRefreshAge - 1) = RpcMax + (MinRefreshAge - 1)
      BY <2>7, <3>1, StaleAges
    <3>3. verdict = "invalid-signature" => held <= RpcMax + (MinRefreshAge - 1)
      <4> HIDE DEF held
      <4> QED  BY <2>3, <2>4, <2>5, <2>6, Numbers
    <3> QED  BY <2>4, <2>7, <3>2, <3>3, VerdictSigned
  <2> QED  BY <1>2, <2>4, <2>8, <2>9 DEF Grounded
<1>4. verdict \notin {"accepted", "invalid-signature"} => Grounded(a)
  BY <1>2 DEF Grounded
<1> QED  BY <1>3, <1>4 DEF Grounded, Stale

\* What the node has answered, the chain held within the time of the call.
LEMMA DeliverGrounded ==
  ASSUME VerifierInv, NEW k \in Subjects, Deliver(k), NEW a \in answers'
  PROVE  Grounded(a)'
<1> DEFINE s == rpc[k].answer
<1>1. CallsAge /\ ChecksWait /\ ChainKnown
  BY DEF VerifierInv
<1>2. /\ s # None /\ UNCHANGED <<mode, lastHeld>>
      /\ answers' = {[request |-> check[c].request, verdict |-> SignatureVerdict(check[c].request, s), erred |-> FALSE] : c \in Waiting(k)}
  BY DEF Deliver, Judge, chainVars
<1>3. PICK c \in Waiting(k) :
        a = [request |-> check[c].request, verdict |-> SignatureVerdict(check[c].request, s), erred |-> FALSE]
  BY <1>2
<1> DEFINE q == check[c].request
<1>4. c \in Checks /\ Running(c) /\ Awaited(c) = k
  BY <1>1, WaitingAwaits
<1>5. q \in Requests[c] /\ Failed(q) = {}
  BY <1>1, <1>4 DEF ChecksWait
<1>6. About(k) = Id(q)
  <2>1. Payer(c) = Id(q) /\ Id(q) \notin Checks
    BY <1>4, <1>5, PayerKnown DEF Payer, Id
  <2> QED  BY <1>4, <2>1 DEF About, Awaited
<1>7. s \in States /\ Id(q) \in Identities /\ rpc[k].age \in 0..RpcMax /\ lastHeld[Id(q)][s] <= rpc[k].age
  BY <1>1, <1>2, <1>6, AboutKnown DEF CallsAge
<1>8. lastHeld[Id(q)][s] \in Nat /\ lastHeld[Id(q)][s] <= RpcMax
  <2>1. lastHeld[Id(q)][s] \in 0..Horizon
    BY <1>1, <1>7 DEF ChainKnown
  <2> DEFINE held == lastHeld[Id(q)][s]
  <2>2. held \in Nat /\ held <= rpc[k].age
    BY <1>7, <2>1
  <2> HIDE DEF held
  <2>3. held <= RpcMax
    BY <1>7, <2>2, Numbers
  <2> QED  BY <2>2, <2>3 DEF held
<1> HIDE DEF s, q
<1>9. /\ SignatureVerdict(q, s) = "accepted" => Signed(q, s)
      /\ SignatureVerdict(q, s) = "invalid-signature" => ~Signed(q, s)
  BY <1>4, <1>5, <1>7, VerdictSigned
<1>10. lastHeld[Id(q)][s] <= Stale(q, Ttl - 1) /\ lastHeld[Id(q)][s] <= Stale(q, MinRefreshAge - 1)
  <2>1. Ttl - 1 \in Nat /\ MinRefreshAge - 1 \in Nat /\ RpcMax \in Nat
    BY Numbers
  <2>2. /\ Stale(q, Ttl - 1) \in Nat /\ RpcMax <= Stale(q, Ttl - 1)
        /\ Stale(q, MinRefreshAge - 1) \in Nat /\ RpcMax <= Stale(q, MinRefreshAge - 1)
    BY <2>1, StaleAges
  <2> DEFINE held == lastHeld[Id(q)][s]
             t == Stale(q, Ttl - 1)
             m == Stale(q, MinRefreshAge - 1)
  <2>3. held \in Nat /\ held <= RpcMax /\ t \in Nat /\ m \in Nat /\ RpcMax <= t /\ RpcMax <= m
    BY <1>8, <2>2
  <2> HIDE DEF held, t, m
  <2>4. held <= t /\ held <= m
    BY <2>1, <2>3
  <2> QED  BY <2>4 DEF held, t, m
<1>11. a = [request |-> q, verdict |-> SignatureVerdict(q, s), erred |-> FALSE]
  BY <1>3 DEF q, s
<1>12. Grounded(a)
  BY <1>7, <1>9, <1>10, <1>11 DEF Grounded
<1> QED  BY <1>2, <1>12 DEF Grounded, Stale

\* Every answer of a step is grounded.
LEMMA StepGrounded ==
  ASSUME VerifierInv, VerifierNext, NEW a \in answers'
  PROVE  Grounded(a)'
<1>1. ASSUME NEW c \in Checks, NEW q \in Requests[c], RunChecks(c, q) \/ RunQuery(c, q)
      PROVE  Grounded(a)'
  <2>1. UNCHANGED <<mode, lastHeld>> /\ (Decided(q) \/ answers' = {})
    BY <1>1, TakenUp DEF Waits
  <2> QED  BY <2>1, DecidedGrounded
<1>2. ASSUME NEW k \in Subjects, CallStep(k) PROVE Grounded(a)'
  <2>1. CASE NodeReads(k)
    BY <2>1 DEF NodeReads
  <2>2. CASE CallFails(k)
    <3>1. a.verdict = "verify-unavailable"
      BY <2>2 DEF CallFails, Judge
    <3> QED  BY <3>1 DEF Grounded
  <2>3. CASE CallErrs(k)
    <3>1. a.verdict = "invalid-signature" /\ a.erred
      BY <2>3 DEF CallErrs, Judge
    <3> QED  BY <3>1 DEF Grounded
  <2> QED  BY <1>2, <2>1, <2>2, <2>3, DeliverGrounded DEF CallStep
<1>3. ~(\E j \in Identities : \E s \in Later[j] : UpdateIdentity(j, s)) /\ ~NodeGoes /\ ~Tick
  BY DEF UpdateIdentity, NodeGoes, Tick
<1> QED  BY <1>1, <1>2, <1>3 DEF VerifierNext

AllGrounded == \A a \in answers : Grounded(a)

LEMMA AlwaysGrounded == VerifierSpec => []AllGrounded
<1>1. VerifierInit => AllGrounded
  BY DEF VerifierInit, AllGrounded
<1>2. ASSUME VerifierInv, AllGrounded, [VerifierNext]_vars PROVE AllGrounded'
  <2>1. CASE VerifierNext
    BY <1>2, <2>1, StepGrounded DEF AllGrounded
  <2>2. CASE UNCHANGED vars
    <3>1. UNCHANGED <<answers, lastHeld, mode>>
      BY <2>2 DEF vars
    <3> QED  BY <1>2, <3>1 DEF AllGrounded, Grounded, Stale
  <2> QED  BY <1>2, <2>1, <2>2
<1> QED  BY <1>1, <1>2, InvAlways, PTL DEF VerifierSpec

\* Whoever is served has signed for it with keys the chain held when the node was
\* asked; in offline mode, for the TTL of an entry after that (AcceptedAsSigned).
THEOREM AcceptedOnlyAsSigned == VerifierSpec => []AcceptedAsSigned
<1>1. AllGrounded => AcceptedAsSigned
  BY DEF AllGrounded, Grounded, AcceptedAsSigned, Answered, Id
<1> QED  BY <1>1, AlwaysGrounded, PTL

\* A good signature with new keys that is judged is not turned away for longer than
\* MinRefreshAge and the time of a call (FreshKeysHeal).  One whose call to the node
\* ends in an error is not judged, and the theorem says nothing of it.
THEOREM FreshKeysAccepted == VerifierSpec => []FreshKeysHeal
<1>1. AllGrounded => FreshKeysHeal
  BY DEF AllGrounded, Grounded, FreshKeysHeal, Id
<1> QED  BY <1>1, AlwaysGrounded, PTL

=============================================================================
