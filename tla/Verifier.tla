-------------------------------- MODULE Verifier --------------------------------
(***************************************************************************)
(* What a signed request passes before its payment is reserved: the        *)
(* checks of VerusPrepaidSigVerifier.runChecks (verifier/src/prepaid-sig)  *)
(* on its headers, price, extensions and window, and then the signature:   *)
(* by verifymessage on the Verus node ("rpc" mode), or against the         *)
(* identity states that CachedIdentityProvider keeps ("offline" mode).     *)
(* Both go through VerusRpcClient (packages/verus-rpc): a time-out per     *)
(* call and one circuit breaker for all of them.                           *)
(*                                                                         *)
(* Time is relative: every record carries its age in ticks, cut off where  *)
(* no comparison tells it from an older one.  Checks are handled           *)
(* concurrently, and their slots are used again for ever.                  *)
(*                                                                         *)
(* Queries of the balance and of the ledger (BalanceController,            *)
(* LedgerController) are always checked by the node.                       *)
(*                                                                         *)
(* Replay, blocklist and balance are Facilitator's.                        *)
(***************************************************************************)
EXTENDS Signing

CONSTANTS Checks,        \* slots of requests handled concurrently
          States,        \* identity states the chain may hold
          Initially,     \* the states each identity may be in at first
          Later,         \* those it may move to
          Requests,      \* the requests that may come in for each slot
          Policy,        \* the route: its price and its bodyHashPolicy
          MaxExtensions, \* the size limit of an extension block
          Modes,         \* verificationMode: "rpc", "offline"
          Ttl,           \* identityCacheTtlSec
          MinRefreshAge, \* minRefreshAgeSec
          MaxEntries,    \* identityCacheMaxSize
          RpcMax,        \* timeoutMs of a call
          Failures,      \* failuresBeforeOpen
          Recovery       \* recoveryMs

ASSUME VerifierAssumption ==
  /\ \A s \in States : s.primary \subseteq Keys /\ s.required \in Nat /\ s.revoked \in BOOLEAN
  /\ \A i \in Identities : Initially[i] \cup Later[i] \subseteq States
  /\ Policy.bodyHashPolicy \in {"required", "optional", "ignored"}
  /\ Modes \subseteq {"rpc", "offline"}
  /\ Ttl \in Nat \ {0} /\ MinRefreshAge \in Nat \ {0}
  /\ MaxEntries \in Nat \ {0} /\ Failures \in Nat \ {0}
  /\ RpcMax \in Nat /\ Recovery \in Nat /\ RpcMax < Recovery
  /\ None \notin States
  /\ Checks \cap Identities = {}

\* Extensions are a list of fields; a payer has a name.
ASSUME RequestAssumption ==
  \A c \in Checks : \A q \in Requests[c] :
    /\ q.kind \in {"payment", "balance", "ledger"}
    /\ q.payer \in DOMAIN IdentityOf
    /\ q.extensions \in Seq(Range(q.extensions))
    /\ \A n \in DOMAIN q.extensions : q.extensions[n][1] \in DOMAIN ExtensionKind

VARIABLES mode,       \* verificationMode of this process
          state,      \* the chain's latest state of each identity
          lastHeld,   \* how long ago the chain last held each state of each identity
          cache,      \* entries in the order of their insertion
          rpc,        \* calls to the node, by the identity or the check they are for
          up,         \* whether the node answers in time
          breaker,    \* the circuit breaker: state, failures in a row, open for how long
          check,      \* the request in each slot and the step it is at
          answers,    \* what the last step has answered, and to which requests; erred (history):
                      \* on an error of the call that says nothing of the identity
          asked       \* history: how long ago the last fetch of an identity began, up to RefreshGap

vars == <<mode, state, lastHeld, cache, rpc, up, breaker, check, answers, asked>>

chainVars == <<state, lastHeld>>

Lesser(m, n) == IF m <= n THEN m ELSE n

\* Older than any comparison looks.
Horizon == Larger(Ttl, MinRefreshAge) + RpcMax

\* Two fetches of an identity are at least this far apart.
RefreshGap == Lesser(MinRefreshAge, Ttl)

Older(age, limit) == Lesser(age + 1, limit)

\* What the 402 answers and the discovery document say.
Terms == [scheme |-> Server.scheme, version |-> Server.version, domain |-> Server.domain,
          network |-> Server.network, asset |-> Server.asset, payTo |-> Server.payTo]

\* An identity nobody has registered: the node answers with an error.
Unregistered == [primary |-> {}, required |-> 0, revoked |-> FALSE]

-----------------------------------------------------------------------------
(* What is checked before the signature.                                   *)

\* Each header exactly once; extensions at most once.
ParsePaymentHeaders(q) == PaymentHeaders \subseteq q.sent /\ q.repeated = {}

ParseQueryHeaders(q) == QueryHeaders \subseteq q.sent /\ q.repeated \cap QueryHeaders = {}

\* X-V402-Scheme names the scheme and, or else the default is meant, its version.
KnownScheme(q) == q.scheme[1] = Server.scheme

KnownVersion(q) == q.scheme[2] \in {Server.version, None}

BodyHashes(q) == {n \in DOMAIN q.extensions : KindOf(q.extensions[n]) = "bodyHash"}

BodyHashFits(q) ==
  CASE Policy.bodyHashPolicy = "ignored" -> TRUE
    [] BodyHashes(q) = {} -> Policy.bodyHashPolicy = "required" => q.body = None
    [] OTHER -> \A n \in BodyHashes(q) : q.extensions[n][2] = q.body

DecodeExtensions(q) ==
  /\ Len(q.extensions) <= MaxExtensions
  /\ ParseExtensionBlock(q.extensions)
  /\ \A n \in DOMAIN q.extensions : KindOf(q.extensions[n]) \in {"bodyHash", "vendor"}
  /\ BodyHashFits(q)

\* The checks before the signature, in the order they are made.
PaymentChecks(q) ==
  << <<ParsePaymentHeaders(q), "invalid-headers">>,
     <<KnownScheme(q), "unsupported-scheme">>,
     <<KnownVersion(q), "unsupported-scheme-version">>,
     <<q.amount = Policy.price, "price-mismatch">>,
     <<DecodeExtensions(q), "invalid-extensions">>,
     <<q.inWindow, "timestamp-out-of-window">>,
     <<Canonicalizable(q), "invalid-request">> >>

QueryChecks(q) ==
  << <<ParseQueryHeaders(q), "invalid-headers">>,
     <<q.inWindow, "timestamp-out-of-window">> >>

ChecksOf(q) == IF q.kind = "payment" THEN PaymentChecks(q) ELSE QueryChecks(q)

Failed(q) == LET checks == ChecksOf(q) IN {n \in DOMAIN checks : ~checks[n][1]}

\* The first reason counts.
Refusal(q) == ChecksOf(q)[Min(Failed(q))][2]

\* What the payer must have signed: built from what the server knows and the
\* request line, whatever was signed.
Expected(q) ==
  CASE q.kind = "payment" -> Canonicalize(Terms, Policy.price, q)
    [] q.kind = "balance" -> CanonicalizeBalanceQuery(Terms, q)
    [] q.kind = "ledger" -> CanonicalizeLedgerQuery(Terms, q)

-----------------------------------------------------------------------------
(* The client of the Verus node and its breaker.                           *)

Subjects == Identities \cup Checks

NoCall == [step |-> "none", answer |-> None, age |-> 0]

Sent == [NoCall EXCEPT !.step = "sent"]

Flying(k) == rpc[k].step \in {"sent", "test"}

Closed == [state |-> "closed", failures |-> 0, age |-> 0]

Opened == [state |-> "open", failures |-> Failures, age |-> 0]

\* While the breaker is open calls are refused at once ...
Refuses == breaker.state = "open" /\ breaker.age < Recovery

\* ... until the first one after Recovery tests the node, which others wait for.
Call(k) ==
  /\ rpc' = [rpc EXCEPT ![k] = [NoCall EXCEPT !.step =
               CASE breaker.state = "closed" -> "sent"
                 [] breaker.state = "open" -> "test"
                 [] breaker.state = "half-open" -> "queued"]]
  /\ breaker' = IF breaker.state = "open" THEN [breaker EXCEPT !.state = "half-open"] ELSE breaker

\* A good answer ends a row of failures; a half-open breaker closes.
Succeed(k) ==
  breaker' = IF rpc[k].step = "test" THEN Closed ELSE [breaker EXCEPT !.failures = 0]

\* Mutant: an error the node answers with counts as a failure of the node.
IsUnavailabilityToo(reason) == reason \in {"network", "timeout", "answer"}

\* Transport errors and time-outs; an error the node answers with is none.
IsUnavailability(reason) == reason \in {"network", "timeout"}

\* A failure counts, and opens the breaker when it is the last of a row or of
\* the test call.  Any other error says that the node is there.
CountFailure(k, reason) ==
  breaker' = CASE rpc[k].step = "test" /\ IsUnavailability(reason) -> Opened
               [] rpc[k].step = "test" /\ ~IsUnavailability(reason) -> [breaker EXCEPT !.state = "closed"]
               [] breaker.state = "closed" /\ IsUnavailability(reason) ->
                    IF breaker.failures + 1 >= Failures THEN Opened
                    ELSE [breaker EXCEPT !.failures = @ + 1]
               [] OTHER -> breaker

\* Calls that waited for the test now go out, or are refused.
Released(k) == IF rpc[k].step = "test" THEN {j \in Subjects : rpc[j].step = "queued"} ELSE {}

EndCall(k) ==
  rpc' = [j \in Subjects |->
            CASE j = k -> NoCall
              [] j # k /\ j \in Released(k) -> IF breaker'.state = "closed" THEN Sent ELSE NoCall
              [] OTHER -> rpc[j]]

-----------------------------------------------------------------------------
(* The identity cache.                                                     *)

Entries(i) == {n \in 1..Len(cache) : cache[n].identity = i}

PlaceOf(i) == CHOOSE n \in Entries(i) : TRUE

EntryOf(i) == cache[PlaceOf(i)]

\* Mutant: an entry is served at the age of its TTL still.
FreshAtTtl(i, limit) == Entries(i) # {} /\ EntryOf(i).age <= limit

Fresh(i, limit) == Entries(i) # {} /\ EntryOf(i).age < limit

\* Mutants: the refresh after a failed verification is served from any entry
\* within the TTL; it always goes to the node.
SuppressedWithinTtl(i) == Fresh(i, Ttl)

NeverSuppressed(i) == FALSE

RefreshSuppressed(i) == Fresh(i, MinRefreshAge)

\* Mutant: the oldest entry stays.
StoreBeside(i, s) ==
  cache' = Append(cache, [identity |-> i, state |-> s, age |-> 0])

\* Reinserted at the end; when full, the oldest other entry goes.
Store(i, s) ==
  LET others == IF Entries(i) = {} THEN cache ELSE RemoveAt(cache, PlaceOf(i))
      room == IF Len(others) >= MaxEntries THEN Tail(others) ELSE others
  IN cache' = Append(room, [identity |-> i, state |-> s, age |-> 0])

-----------------------------------------------------------------------------
(* The handlers.                                                           *)

Idle == [step |-> "idle", request |-> None]

VerifierInit ==
  /\ mode \in Modes
  /\ state \in {f \in [Identities -> States] : \A i \in Identities : f[i] \in Initially[i]}
  /\ lastHeld = [i \in Identities |-> [s \in States |-> IF s = state[i] THEN 0 ELSE Horizon]]
  /\ cache = << >>
  /\ rpc = [k \in Subjects |-> NoCall]
  /\ up = TRUE
  /\ breaker = Closed
  /\ check = [c \in Checks |-> Idle]
  /\ answers = {}
  /\ asked = [i \in Identities |-> RefreshGap]

Payer(c) == IdentityOf[check[c].request.payer]

Running(c) == check[c].step # "idle"

\* The checks that await the answer to call k.
Waiting(k) == {c \in Checks : \/ check[c].step = "verifying" /\ c = k
                              \/ check[c].step \in {"fetching", "refreshing"} /\ Payer(c) = k}

Await(c, q, step) ==
  /\ check' = [check EXCEPT ![c] = [step |-> step, request |-> q]]
  /\ answers' = {}

Decide(c, q, verdict) ==
  /\ answers' = {[request |-> q, verdict |-> verdict, erred |-> FALSE]}
  /\ UNCHANGED <<check, rpc, breaker, asked>>

\* The checks in a set are answered, each with its verdict, and their slots free.
Judge(S, verdict(_), erred) ==
  /\ check' = [c \in Checks |-> IF c \in S THEN Idle ELSE check[c]]
  /\ answers' = {[request |-> check[c].request, verdict |-> verdict(check[c].request), erred |-> erred] : c \in S}

SignatureVerdict(q, s) ==
  IF VerifyIdentitySignature(Expected(q), q.signature, Server.system, IdentityOf[q.payer], s)
  THEN "accepted" ELSE "invalid-signature"

\* CachedIdentityProvider.fetch: join the call under way, or make one.
Fetch(c, q, step) ==
  LET i == IdentityOf[q.payer]
  IN \/ /\ rpc[i] # NoCall
        /\ Await(c, q, step)
        /\ UNCHANGED <<rpc, breaker, asked>>
     \/ /\ rpc[i] = NoCall
        /\ ~Refuses
        /\ Await(c, q, step)
        /\ Call(i)
        /\ asked' = [asked EXCEPT ![i] = 0]
     \/ /\ rpc[i] = NoCall
        /\ Refuses
        /\ Decide(c, q, "verify-unavailable")

\* On a hit: verify, and when that fails refresh once.  A suppressed refresh
\* answers with the same state, hence with the same verdict.
VerifyCached(c, q) ==
  LET i == IdentityOf[q.payer]
      verdict == SignatureVerdict(q, EntryOf(i).state)
  IN IF verdict = "accepted" \/ RefreshSuppressed(i) THEN Decide(c, q, verdict)
     ELSE Fetch(c, q, "refreshing")

VerifyOffline(c, q) ==
  IF Fresh(IdentityOf[q.payer], Ttl) THEN VerifyCached(c, q) ELSE Fetch(c, q, "fetching")

\* verifymessage with checklatest.
VerifyMessage(c, q) ==
  IF Refuses THEN Decide(c, q, "verify-unavailable")
  ELSE Await(c, q, "verifying") /\ Call(c) /\ UNCHANGED asked

\* A payment is taken up: the local checks, then the signature.
RunChecks(c, q) ==
  /\ ~Running(c)
  /\ q.kind = "payment"
  /\ \/ Failed(q) # {} /\ Decide(c, q, Refusal(q))
     \/ Failed(q) = {} /\ mode = "offline" /\ VerifyOffline(c, q)
     \/ Failed(q) = {} /\ mode = "rpc" /\ VerifyMessage(c, q)
  /\ UNCHANGED <<mode, chainVars, cache, up>>

\* A query is taken up: always by the node.
RunQuery(c, q) ==
  /\ ~Running(c)
  /\ q.kind # "payment"
  /\ \/ Failed(q) # {} /\ Decide(c, q, Refusal(q))
     \/ Failed(q) = {} /\ VerifyMessage(c, q)
  /\ UNCHANGED <<mode, chainVars, cache, up>>

\* The node looks up the latest state of the identity it is asked about.
NodeReads(k) ==
  /\ Flying(k)
  /\ rpc[k].answer = None
  /\ up
  /\ rpc' = [rpc EXCEPT ![k].answer = state[IF k \in Checks THEN Payer(k) ELSE k]]
  /\ answers' = {}
  /\ UNCHANGED <<mode, chainVars, cache, up, breaker, check, asked>>

\* The answer arrives, and every check that awaits it is judged on it: after a
\* fetch a refresh would find the entry just stored.
Deliver(k) ==
  LET s == rpc[k].answer
  IN /\ Flying(k)
     /\ s # None
     /\ IF s = Unregistered THEN CountFailure(k, "answer") ELSE Succeed(k)
     /\ EndCall(k)
     /\ IF k \in Identities /\ s # Unregistered
        THEN /\ Store(k, s)
             /\ asked' = [i \in Identities |->
                            IF \E n \in 1..Len(cache') : cache'[n].identity = i THEN asked[i] ELSE RefreshGap]
        ELSE /\ asked' = IF k \in Identities THEN [asked EXCEPT ![k] = RefreshGap] ELSE asked
             /\ UNCHANGED cache
     /\ UNCHANGED <<mode, chainVars, up>>
     /\ Judge(Waiting(k), LAMBDA q : SignatureVerdict(q, s), FALSE)

\* The node cannot be reached, or not in time.  Those who await the call, or one
\* that its failure makes the breaker refuse, are answered 503; nothing is cached.
CallFails(k) ==
  LET lost == {k} \cup IF breaker'.state = "open" THEN Released(k) ELSE {}
  IN /\ Flying(k)
     /\ ~up
     /\ CountFailure(k, IF rpc[k].age = RpcMax THEN "timeout" ELSE "network")
     /\ EndCall(k)
     /\ Judge(UNION {Waiting(j) : j \in lost}, LAMBDA q : "verify-unavailable", FALSE)
     /\ asked' = [i \in Identities |-> IF i \in lost THEN RefreshGap ELSE asked[i]]
     /\ UNCHANGED <<mode, chainVars, cache, up>>

\* The call ends in any other error: a JSON-RPC error that says nothing of the
\* identity (a node that warms up), or a body that breaks off while it is read.  For
\* the breaker the node is there, and those who await the call have signed badly.
CallErrs(k) ==
  /\ Flying(k)
  /\ CountFailure(k, "answer")
  /\ EndCall(k)
  /\ Judge(Waiting(k), LAMBDA q : "invalid-signature", TRUE)
  /\ asked' = IF k \in Identities THEN [asked EXCEPT ![k] = RefreshGap] ELSE asked
  /\ UNCHANGED <<mode, chainVars, cache, up>>

-----------------------------------------------------------------------------
(* The chain, the node and the clock.                                      *)

\* An identity is registered, rotates its keys, is revoked or recovered.
UpdateIdentity(i, s) ==
  /\ s # state[i]
  /\ s # Unregistered
  /\ state' = [state EXCEPT ![i] = s]
  /\ lastHeld' = [lastHeld EXCEPT ![i][s] = 0]
  /\ answers' = {}
  /\ UNCHANGED <<mode, cache, rpc, up, breaker, check, asked>>

NodeGoes ==
  /\ up' = ~up
  /\ answers' = {}
  /\ UNCHANGED <<mode, chainVars, cache, rpc, breaker, check, asked>>

\* Time passes up to the time-out of a call.
Tick ==
  /\ \A k \in Subjects : Flying(k) => rpc[k].age < RpcMax
  /\ lastHeld' = [i \in Identities |-> [s \in States |->
                    IF s = state[i] THEN 0 ELSE Older(lastHeld[i][s], Horizon)]]
  /\ cache' = [n \in DOMAIN cache |-> [cache[n] EXCEPT !.age = Older(@, Larger(Ttl, MinRefreshAge))]]
  /\ rpc' = [k \in Subjects |-> IF Flying(k) THEN [rpc[k] EXCEPT !.age = @ + 1] ELSE rpc[k]]
  /\ breaker' = IF breaker.state = "open" THEN [breaker EXCEPT !.age = Older(@, Recovery)] ELSE breaker
  /\ asked' = [i \in Identities |-> Older(asked[i], RefreshGap)]
  /\ answers' = {}
  /\ UNCHANGED <<mode, state, up, check>>

CallStep(k) == NodeReads(k) \/ CallErrs(k) \/ CallFails(k) \/ Deliver(k)

VerifierNext ==
  \/ \E c \in Checks : \E q \in Requests[c] : RunChecks(c, q) \/ RunQuery(c, q)
  \/ \E k \in Subjects : CallStep(k)
  \/ \E i \in Identities : \E s \in Later[i] : UpdateIdentity(i, s)
  \/ NodeGoes
  \/ Tick

\* Time passes, and a call that has been made is answered or fails.
VerifierSpec ==
  /\ VerifierInit /\ [][VerifierNext]_vars
  /\ WF_vars(Tick)
  /\ \A k \in Subjects : WF_vars(CallStep(k))

-----------------------------------------------------------------------------
(* Properties.                                                             *)

\* Calls, checks, cache and breaker fit together: the cache keeps to its size and
\* holds each identity once, a check that runs has a call it waits for, the breaker
\* is half-open while a call tests the node, and calls are queued behind that only.
VerifierTypeOK ==
  /\ mode \in Modes /\ up \in BOOLEAN
  /\ state \in [Identities -> States]
  /\ Len(cache) <= MaxEntries /\ \A i \in Identities : Cardinality(Entries(i)) <= 1
  /\ breaker.state \in {"closed", "open", "half-open"} /\ breaker.failures \in 0..Failures
  /\ \A c \in Checks : Running(c) => \E k \in Subjects : c \in Waiting(k) /\ rpc[k] # NoCall
  /\ (\E k \in Subjects : rpc[k].step = "test") <=> breaker.state = "half-open"
  /\ (\E k \in Subjects : rpc[k].step = "queued") => breaker.state = "half-open"

Answered(verdict) == {a.request : a \in {b \in answers : b.verdict = verdict}}

\* What is about to be served: a request at the server's price, on its terms and,
\* where the route binds it, with this body; or the payer's own account.
Meant(q) ==
  CASE q.kind = "payment" ->
         <<Server.scheme, Server.version, Server.domain, q.method, q.path, Server.network, Server.asset,
           Policy.price, q.payer, Server.payTo, q.id, q.extensions>>
    [] q.kind = "balance" ->
         <<"v402-balance-query", "0.1", Server.domain, Server.network, q.payer, q.id>>
    [] q.kind = "ledger" ->
         <<"v402-ledger-query", "0.1", Server.domain, Server.network, q.payer, q.id>>

BodyBound(q) ==
  Policy.bodyHashPolicy = "required" /\ q.kind = "payment" /\ q.body # None =>
    \E n \in DOMAIN q.extensions : KindOf(q.extensions[n]) = "bodyHash" /\ q.extensions[n][2] = q.body

\* The payer's keys in this state have signed it, for this chain and as this payer.
Signers(q) ==
  LET compacts == q.signature[3]
  IN {compacts[n][1] : n \in {m \in DOMAIN compacts :
       compacts[m][2] = <<Server.system, q.signature[2], IdentityOf[q.payer], Meant(q)>>}}

Signed(q, s) ==
  /\ ~s.revoked
  /\ q.signature[1] = "identity"
  /\ Cardinality(s.primary \cap Signers(q)) >= Larger(1, s.required)
  /\ BodyBound(q)

\* How long after the chain has dropped a state it may still decide: queries are
\* never judged from the cache.
Stale(q, age) == RpcMax + (IF mode = "rpc" \/ q.kind # "payment" THEN 0 ELSE age)

\* Whoever is served has signed for it with keys that the chain holds, or held when
\* the node was asked: in rpc mode and for queries the latest state decides, as
\* spec/0.1/prepaid-sig-scheme.md:106-113 demands (balance.controller.ts:72-75).  In
\* offline mode a rotated or revoked key goes on working for the TTL of a cached
\* entry, which that page forbids and identity-provider.ts:39-42 allows: what is
\* stated for this mode is the code's own bound, and no more.
AcceptedAsSigned ==
  \A q \in Answered("accepted") : \E s \in States :
    lastHeld[IdentityOf[q.payer]][s] <= Stale(q, Ttl - 1) /\ Signed(q, s)

\* A payer who signs with new keys is not turned away for the rest of the TTL: a
\* good signature that is judged is rejected only if the keys changed within
\* MinRefreshAge and the time of a call (prepaid-sig.ts:288-292).  Not so one whose
\* call to the node ends in an error (CallErrs): it is answered invalid-signature
\* without having been looked at, whatever the keys (prepaid-sig.ts:279-280).
FreshKeysHeal ==
  \A a \in answers : a.verdict = "invalid-signature" /\ ~a.erred =>
    \E s \in States :
      /\ lastHeld[IdentityOf[a.request.payer]][s] <= Stale(a.request, MinRefreshAge - 1)
      /\ ~Signed(a.request, s)

\* Bad signatures are not turned into calls: between two fetches of an identity
\* that is neither unknown nor evicted, and whose fetch did not fail, lie
\* MinRefreshAge or the TTL (identity-provider.ts:22-25).
RefreshRateLimited ==
  [][\A i \in Identities : rpc[i] = NoCall /\ rpc'[i] # NoCall =>
       asked[i] >= RefreshGap]_vars

\* Every check ends, and when the node has come back for good, so have the
\* signature checks: in the end nobody is answered 503, whatever identities,
\* unknown ones too, requests name.
OutagesPass ==
  /\ \A c \in Checks : Running(c) ~> ~Running(c)
  /\ <>[]up => <>[](Answered("verify-unavailable") = {})
=============================================================================
