------------------------------ MODULE PaidRequest ------------------------------
(***************************************************************************)
(* One paid request from end to end: a tool call of the MCP server         *)
(* (packages/mcp/src/server.ts) pays through the client                    *)
(* (packages/client-fetch) at a resource server, which is the reverse      *)
(* proxy (packages/proxy/src/server.ts) or the NestJS guard and            *)
(* interceptor (packages/adapter-nestjs), and reserves, commits and rolls  *)
(* back over HTTP (verifier/src/http-facilitator-verifier.ts) at the       *)
(* facilitator's storage.                                                  *)
(*                                                                         *)
(* Every message can be lost: a request before it arrives, an answer on    *)
(* its way back, the answer of a reserve, a whole commit or rollback.  A   *)
(* client that sees its connection fail does not know how far its request  *)
(* got, and its retry can overtake it.  A handler can die at any step; the *)
(* reserve it has sent to the facilitator runs on.                         *)
(*                                                                         *)
(* Abstracted: one payer, who asks for one route; its price, if it has     *)
(* one, follows from the rules of the resource server, which a restart may *)
(* replace.  Signatures and time stamps are good (Verifier and Facilitator *)
(* have the checks); the reaper comes at any time, before a slow upstream  *)
(* has answered too; the two transactions of a late commit are one step    *)
(* (Facilitator has both).                                                 *)
(***************************************************************************)
EXTENDS Storage, FiniteSetsExt

CONSTANTS Tools,          \* tool calls of the agent
          Payer,          \* the identity the agent pays as
          Route,          \* the route the agent asks for
          RuleSets,       \* rules the resource server may run with, sequences of
                          \* [routes |-> those it matches, price |-> price or NoRow]
          MaxRetries,     \* transient retries with the same requestId
          PriceRetries,   \* priceMismatchRetries
          MaxPerRequest,  \* maxPerRequestSats of the operator
          MaxTotal,       \* maxTotalSats of the operator
          Earlier,        \* spent and counted by calls before the first of Tools
          MaxOpen,        \* bound on tool calls running at once
          Outcomes,       \* how the upstream service may answer
          Adapters,       \* the resource servers in use
          MaxDeploys      \* bound on restarts of the resource server

ASSUME PaidAssumption ==
  /\ Payer \in Identities
  /\ MaxRetries \in Nat /\ PriceRetries \in Nat
  /\ MaxPerRequest \in Nat /\ MaxTotal \in Nat /\ Earlier \in 0..MaxTotal
  /\ MaxOpen \in Nat /\ MaxDeploys \in Nat
  /\ Outcomes \subseteq {"ok", "throttled", "payment", "failed", "unavailable"}
  /\ Adapters \subseteq {"proxy", "nestjs"}

VARIABLES rules,     \* the rules of the running resource server
          deploys,   \* how often the resource server was restarted
          accepts,   \* the client's cached requirement (its price), or NoRow
          counted,   \* spentSats of the MCP server
          call,      \* what each tool call has got to
          signed,    \* history: the call and the price each requestId was signed for
          handlers,  \* requests under way to the resource server or in it
          served     \* history: what the upstream answered to each requestId

clientVars == <<accepts, counted, call, signed>>
serverVars == <<rules, deploys, handlers, served>>
vars == <<storageVars, clientVars, serverVars>>

\* Upstream: "ok" is any answer below 500 but 402 and 429, "failed" any from
\* 500 on but 503, an unreachable origin included.
Definitive == {"ok", "throttled", "payment"}

\* The 402 answers; only those of the resource server itself carry `accepts'.
PaymentRequired == {"mismatch", "refused", "payment"}

NoCall == [step |-> "idle", probed |-> 0, price |-> 0, fromCache |-> FALSE,
           recovery |-> 0, request |-> NoRow, attempt |-> 0, status |-> "none",
           offered |-> 0, moved |-> FALSE]

Ended == {"returned", "thrown", "declined"}

\* The rules that match the route, the one that counts first.
MatchRule(rs) == SelectSeq(rs, LAMBDA rule : Route \in rule.routes)

\* The price of the route; a route of a free rule, or of none, has none.
PriceUnder(rs) == IF MatchRule(rs) = << >> THEN NoRow ELSE Head(MatchRule(rs)).price

Price == PriceUnder(rules)

Prices == {PriceUnder(rs) : rs \in RuleSets} \ {NoRow}

SignedRow == [tool: Tools, price: Nat]

ASSUME PriceAssumption == Prices \subseteq Nat /\ NoRow \notin SignedRow

\* Earlier calls may have left a requirement in the cache, current or not.
PaidInit ==
  /\ StorageInit
  /\ rules \in RuleSets
  /\ deploys = 0
  /\ accepts \in Prices \cup {NoRow}
  /\ counted = Earlier
  /\ call = [t \in Tools |-> NoCall]
  /\ signed = [r \in RequestIds |-> NoRow]
  /\ handlers = {}
  /\ served = [r \in RequestIds |-> << >>]

In(t, step) == call[t].step = step

Open(t) == call[t].step \notin {"idle"} \cup Ended

-----------------------------------------------------------------------------
(* The MCP tool v402_paid_fetch.                                           *)

\* An unpaid probe answers 402 with the price; other calls may be running.
Probe(t) ==
  /\ In(t, "idle")
  /\ Price # NoRow
  /\ Cardinality({s \in Tools : Open(s)}) < MaxOpen
  /\ call' = [call EXCEPT ![t] = [NoCall EXCEPT !.step = "probed", !.probed = Price]]
  /\ UNCHANGED <<storageVars, accepts, counted, signed, serverVars>>

\* The host is not in the allowlist, the probe finds nothing to pay for, or no
\* scheme it could pay by.
NothingToPay(t) ==
  /\ In(t, "idle")
  /\ \E end \in {"declined", "returned"} : call' = [call EXCEPT ![t].step = end]
  /\ UNCHANGED <<storageVars, accepts, counted, signed, serverVars>>

Affordable(t) == call[t].probed <= MaxPerRequest /\ counted + call[t].probed <= MaxTotal

Decline(t) ==
  /\ In(t, "probed")
  /\ ~Affordable(t)
  /\ call' = [call EXCEPT ![t].step = "declined"]
  /\ UNCHANGED <<storageVars, accepts, counted, signed, serverVars>>

\* Within the caps: client.fetch, which looks into the accepts cache at once.
Admit(t) ==
  /\ In(t, "probed")
  /\ Affordable(t)
  /\ call' = [call EXCEPT ![t].step = IF accepts = NoRow THEN "challenge" ELSE "sign",
                          ![t].fromCache = accepts # NoRow,
                          ![t].price = IF accepts = NoRow THEN 0 ELSE accepts]
  /\ UNCHANGED <<storageVars, accepts, counted, signed, serverVars>>

\* The body is read, then the probed price is counted unless the answer is a 402.
CountSpend(t) ==
  /\ In(t, "read")
  /\ counted' = IF call[t].status \in PaymentRequired THEN counted ELSE counted + call[t].probed
  /\ call' = [call EXCEPT ![t].step = "returned"]
  /\ UNCHANGED <<storageVars, accepts, signed, serverVars>>

-----------------------------------------------------------------------------
(* paidFetch and sendPaid.                                                 *)

\* A cached requirement is no longer used: its TTL is over or it was evicted.
ForgetAccepts ==
  /\ accepts # NoRow
  /\ accepts' = NoRow
  /\ UNCHANGED <<storageVars, counted, call, signed, serverVars>>

\* The plain request is answered 402 with the requirement to sign for, or by
\* something else, which is the answer: always so if the route has become free.
Challenge(t) ==
  /\ In(t, "challenge")
  /\ \/ /\ Price # NoRow
        /\ call' = [call EXCEPT ![t].step = "sign", ![t].price = Price]
     \/ call' = [call EXCEPT ![t].step = "read", ![t].status = "unpriced"]
  /\ UNCHANGED <<storageVars, accepts, counted, signed, serverVars>>

Arriving(r, n) == [request |-> r, attempt |-> n, step |-> "arriving", price |-> 0,
                   outcome |-> "none", answered |-> FALSE]

\* ulid().
Fresh == CHOOSE r \in RequestIds : signed[r] = NoRow

\* Sign the payload under a fresh requestId and send it.
SignAndSend(t) ==
  /\ In(t, "sign")
  /\ \E r \in RequestIds : signed[r] = NoRow
  /\ LET r == Fresh
     IN /\ signed' = [signed EXCEPT ![r] = [tool |-> t, price |-> call[t].price]]
        /\ call' = [call EXCEPT ![t].step = "wait", ![t].request = r, ![t].attempt = 0]
        /\ handlers' = handlers \cup {Arriving(r, 0)}
  /\ UNCHANGED <<storageVars, accepts, counted, rules, deploys, served>>

\* Mutants: a transient retry under a fresh requestId; one retry too many.
ResendFresh(t) ==
  /\ call[t].attempt < MaxRetries
  /\ \E r \in RequestIds : signed[r] = NoRow
  /\ LET r == Fresh
     IN /\ signed' = [signed EXCEPT ![r] = [tool |-> t, price |-> call[t].price]]
        /\ call' = [call EXCEPT ![t].step = "wait", ![t].request = r, ![t].attempt = @ + 1]
        /\ handlers' = handlers \cup {Arriving(r, call[t].attempt + 1)}

ResendOnceMore(t) ==
  /\ call[t].attempt <= MaxRetries
  /\ call' = [call EXCEPT ![t].step = "wait", ![t].attempt = @ + 1]
  /\ handlers' = handlers \cup {Arriving(call[t].request, call[t].attempt + 1)}
  /\ UNCHANGED signed

\* The same requestId and the same signature once more.
Resend(t) ==
  /\ call[t].attempt < MaxRetries
  /\ call' = [call EXCEPT ![t].step = "wait", ![t].attempt = @ + 1]
  /\ handlers' = handlers \cup {Arriving(call[t].request, call[t].attempt + 1)}
  /\ UNCHANGED signed

\* The connection fails.  The client cannot tell how far its request got.
NetworkError(t) ==
  /\ In(t, "wait")
  /\ \/ Resend(t)
     \/ /\ call[t].attempt >= MaxRetries
        /\ call' = [call EXCEPT ![t].step = "thrown"]
        /\ UNCHANGED <<signed, handlers>>
  /\ UNCHANGED <<storageVars, accepts, counted, rules, deploys, served>>

\* A plain request fails, or the body of the answer cannot be read.
Throw(t) ==
  /\ In(t, "challenge") \/ In(t, "read")
  /\ call' = [call EXCEPT ![t].step = "thrown"]
  /\ UNCHANGED <<storageVars, accepts, counted, signed, serverVars>>

\* 503 and 429 are retried, whoever answered them.
RetryTransient(t) ==
  /\ In(t, "answered")
  /\ call[t].status \in {"unavailable", "throttled"}
  /\ Resend(t)
  /\ UNCHANGED <<storageVars, accepts, counted, rules, deploys, served>>

\* Any other answer but a 402 proves the requirement current.
ReturnAnswer(t) ==
  /\ In(t, "answered")
  /\ call[t].status \notin PaymentRequired
  /\ call[t].status \in {"unavailable", "throttled"} => call[t].attempt >= MaxRetries
  /\ accepts' = call[t].price
  /\ call' = [call EXCEPT ![t].step = "read"]
  /\ UNCHANGED <<storageVars, counted, signed, serverVars>>

\* A 402 on a cached requirement, or a price-mismatch within the budget.
Recoverable(t) ==
  call[t].fromCache \/ (call[t].recovery < PriceRetries /\ call[t].status = "mismatch")

\* Mutants: the old requirement is signed again; the requirement goes on to be
\* taken for a cached one.
SignStale(t) ==
  call' = [call EXCEPT ![t].step = "sign", ![t].fromCache = FALSE, ![t].recovery = @ + 1]

SignStillCached(t) ==
  call' = [call EXCEPT ![t].step = "sign", ![t].price = call[t].offered,
                       ![t].recovery = @ + 1]

\* Sign the offered price under a fresh requestId.  The loop's counter moves on
\* in both cases.
SignAgain(t) ==
  call' = [call EXCEPT ![t].step = "sign", ![t].price = call[t].offered,
                       ![t].fromCache = FALSE, ![t].recovery = @ + 1]

\* parse402 is needed and the upstream's own 402 is not a v402 challenge.
Unparsable(t) ==
  /\ call[t].status = "payment"
  /\ call[t].fromCache \/ call[t].recovery < PriceRetries

Handle402(t) ==
  /\ In(t, "answered")
  /\ call[t].status \in PaymentRequired
  /\ accepts' = NoRow
  /\ \/ /\ Unparsable(t)
        /\ call' = [call EXCEPT ![t].step = "thrown"]
     \/ /\ ~Unparsable(t)
        /\ Recoverable(t)
        /\ SignAgain(t)
     \/ /\ ~Unparsable(t)
        /\ ~Recoverable(t)
        /\ call' = [call EXCEPT ![t].step = "read"]
  /\ UNCHANGED <<storageVars, counted, signed, serverVars>>

-----------------------------------------------------------------------------
(* The resource server and the facilitator behind it.                      *)

\* An answer reaches the call that still waits on this attempt, or nobody.
Answer(h, status, offered) ==
  call' = [t \in Tools |->
             IF In(t, "wait") /\ call[t].request = h.request /\ call[t].attempt = h.attempt
             THEN [call[t] EXCEPT !.step = "answered", !.status = status, !.offered = offered]
             ELSE call[t]]

Reply(h, status) ==
  /\ Answer(h, status, h.price)
  /\ handlers' = handlers \ {h}

Advance(h, step) == handlers' = (handlers \ {h}) \cup {[h EXCEPT !.step = step]}

\* The request is lost on its way, or its handler dies before it can answer or
\* settle.  A reserve the facilitator was sent already is worked on without it.
Orphaned(h) == IF h.step = "reserving" THEN {[h EXCEPT !.step = "orphaned"]} ELSE {}

HandlerDies(h) ==
  /\ h.step # "orphaned"
  /\ handlers' = (handlers \ {h}) \cup Orphaned(h)
  /\ UNCHANGED <<storageVars, clientVars, rules, deploys, served>>

\* Mutant: the facilitator goes by the price in the payer's header, and the policy
\* of the route is not looked at.
CheckPaymentAsSigned(h) ==
  /\ h.step = "arriving"
  /\ Price # NoRow
  /\ LET r == h.request
     IN \/ /\ spent[r] # NoRow
           /\ Reply(h, "replay")
        \/ /\ spent[r] = NoRow
           /\ handlers' = (handlers \ {h}) \cup
                {[h EXCEPT !.step = "reserving", !.price = signed[r].price]}
           /\ UNCHANGED call
  /\ UNCHANGED <<storageVars, accepts, counted, signed, rules, deploys, served>>

\* verifyAndReserve: the facilitator's checks, under the price of the running
\* server's policy, up to the signature check they wait for.
CheckPayment(h) ==
  /\ h.step = "arriving"
  /\ Price # NoRow
  /\ LET r == h.request
     IN \/ /\ spent[r] # NoRow
           /\ Reply(h, "replay")
        \/ /\ spent[r] = NoRow
           /\ signed[r].price # Price
           /\ Answer(h, "mismatch", Price)
           /\ handlers' = handlers \ {h}
        \/ /\ spent[r] = NoRow
           /\ signed[r].price = Price
           /\ handlers' = (handlers \ {h}) \cup {[h EXCEPT !.step = "reserving", !.price = Price]}
           /\ UNCHANGED call
  /\ UNCHANGED <<storageVars, accepts, counted, signed, rules, deploys, served>>

\* 413: the route binds the body, and it is too long to be buffered.
BodyTooLarge(h) ==
  /\ h.step = "arriving"
  /\ Price # NoRow
  /\ Reply(h, "too-large")
  /\ UNCHANGED <<storageVars, accepts, counted, signed, rules, deploys, served>>

\* The facilitator does not know the resource server's token: 401, to the client
\* as well.
Unauthorized(h) ==
  /\ h.step = "arriving"
  /\ Price # NoRow
  /\ Reply(h, "unauthorized")
  /\ UNCHANGED <<storageVars, accepts, counted, signed, rules, deploys, served>>

\* The route is free now: nothing is checked, reserved or charged.
PassThrough(h) ==
  /\ h.step = "arriving"
  /\ Price = NoRow
  /\ \E outcome \in Outcomes : Reply(h, outcome)
  /\ UNCHANGED <<storageVars, accepts, counted, signed, rules, deploys, served>>

\* The facilitator is unreachable, or the node behind it: 503, nothing reserved.
VerifyUnavailable(h) ==
  /\ h.step \in {"arriving", "reserving", "orphaned"}
  /\ h.step = "arriving" => Price # NoRow
  /\ Reply(h, "unavailable")
  /\ UNCHANGED <<storageVars, accepts, counted, signed, rules, deploys, served>>

\* Mutant: reserve is taken to be idempotent, a replay is let through.
ReserveReplayed(h) ==
  /\ h.step = "reserving"
  /\ \/ ReserveReplay(h.request) /\ Advance(h, "forwarding") /\ UNCHANGED call
     \/ ReserveRefused(h.request, Payer, 0, 0, h.price) /\ Reply(h, "refused")
     \/ ReserveGranted(h.request, Payer, 0, 0, h.price) /\ Advance(h, "forwarding") /\ UNCHANGED call
  /\ UNCHANGED <<accepts, counted, signed, rules, deploys, served>>

\* reservePayment, and its answer: 409, 402 or on to the service.
Reserve(h) ==
  /\ h.step = "reserving"
  /\ \/ ReserveReplay(h.request) /\ Reply(h, "replay")
     \/ ReserveRefused(h.request, Payer, 0, 0, h.price) /\ Reply(h, "refused")
     \/ ReserveGranted(h.request, Payer, 0, 0, h.price) /\ Advance(h, "forwarding") /\ UNCHANGED call
  /\ UNCHANGED <<accepts, counted, signed, rules, deploys, served>>

\* The facilitator's answer is lost: 503 to a client, although a row was written;
\* nobody hears of it when the handler died.
ReserveUnheard(h) ==
  /\ h.step \in {"reserving", "orphaned"}
  /\ \/ ReserveReplay(h.request)
     \/ ReserveRefused(h.request, Payer, 0, 0, h.price)
     \/ ReserveGranted(h.request, Payer, 0, 0, h.price)
  /\ Reply(h, "unavailable")
  /\ UNCHANGED <<accepts, counted, signed, rules, deploys, served>>

\* The service runs.  The proxy pipes its answer through before it settles, the
\* interceptor holds it back until it has.
Forward(h) ==
  /\ h.step = "forwarding"
  /\ \E outcome \in Outcomes, adapter \in Adapters :
       /\ served' = [served EXCEPT ![h.request] = Append(@, outcome)]
       /\ handlers' = (handlers \ {h}) \cup
            {[h EXCEPT !.step = "settling", !.outcome = outcome, !.answered = adapter = "proxy"]}
       /\ IF adapter = "proxy" THEN Answer(h, outcome, h.price) ELSE UNCHANGED call
  /\ UNCHANGED <<storageVars, accepts, counted, signed, rules, deploys>>

\* Mutant: any answer of the service is taken for a definitive one.
SettleAnswered(h) ==
  \/ CommitPayment(h.request) \/ LateCommitPayment(h.request)
  \/ HasStatus(h.request, "committed") /\ UNCHANGED storageVars

\* Phase 2 at the facilitator: commit below 500, also after the reaper has
\* refunded; roll back otherwise, unless the reaper has.
SettleAt(h) ==
  IF h.outcome \in Definitive
  THEN CommitPayment(h.request) \/ LateCommitPayment(h.request)
  ELSE \/ RollbackPayment(h.request)
       \/ HasStatus(h.request, "error") /\ WriteTx /\ UNCHANGED storageVars

\* Its answer, or that it was not reached, is ignored.
Settle(h) ==
  /\ h.step = "settling"
  /\ SettleAt(h) \/ UNCHANGED storageVars
  /\ IF h.answered THEN handlers' = handlers \ {h} /\ UNCHANGED call
     ELSE Reply(h, h.outcome)
  /\ UNCHANGED <<accepts, counted, signed, rules, deploys, served>>

-----------------------------------------------------------------------------
(* The operator, the payer's deposit and the reaper.                       *)

\* The resource server is restarted with other rules: what it was working on, and
\* the connections to it, are gone.
Deploy(rs) ==
  /\ deploys < MaxDeploys
  /\ rs # rules
  /\ rules' = rs
  /\ deploys' = deploys + 1
  /\ handlers' = (UNION {Orphaned(h) : h \in handlers}) \cup {h \in handlers : h.step = "orphaned"}
  /\ call' = [t \in Tools |-> IF Open(t) THEN [call[t] EXCEPT !.moved = TRUE] ELSE call[t]]
  /\ UNCHANGED <<storageVars, accepts, counted, signed, served>>

TopUp ==
  /\ \E o \in Outputs, amount \in Amounts, block \in Blocks :
       InsertAndCreditDeposit(o, Payer, amount, block)
  /\ UNCHANGED <<clientVars, serverVars>>

Reap ==
  /\ \/ ReapExpiredReservations(1)
     \/ \E r \in RequestIds : ReapRow(r)
  /\ UNCHANGED <<clientVars, serverVars>>

-----------------------------------------------------------------------------
ToolStep(t) ==
  \/ Probe(t) \/ NothingToPay(t) \/ Decline(t) \/ Admit(t) \/ CountSpend(t)
  \/ Challenge(t) \/ SignAndSend(t) \/ NetworkError(t) \/ Throw(t)
  \/ RetryTransient(t) \/ ReturnAnswer(t) \/ Handle402(t)

HandlerStep(h) ==
  \/ HandlerDies(h) \/ PassThrough(h) \/ BodyTooLarge(h) \/ Unauthorized(h)
  \/ CheckPayment(h) \/ VerifyUnavailable(h) \/ Reserve(h) \/ ReserveUnheard(h) \/ Forward(h) \/ Settle(h)

PaidNext ==
  \/ \E t \in Tools : ToolStep(t)
  \/ \E h \in handlers : HandlerStep(h)
  \/ ForgetAccepts
  \/ \E rs \in RuleSets : Deploy(rs)
  \/ TopUp
  \/ Reap

PaidSpec == PaidInit /\ [][PaidNext]_vars

\* A tool call goes on by itself; what it waits for answers or its connection
\* ends.
LivePaidSpec == PaidSpec /\ \A t \in Tools : WF_vars(ToolStep(t))

-----------------------------------------------------------------------------
(* Properties.                                                             *)

\* Calls, handlers and counters stay well formed: no request is sent more often
\* than the retries allow.
PaidTypeOK ==
  /\ StorageTypeOK
  /\ rules \in RuleSets /\ deploys \in 0..MaxDeploys
  /\ accepts \in Prices \cup {NoRow}
  /\ counted \in Nat
  /\ \A t \in Tools : call[t].attempt \in 0..MaxRetries /\ call[t].recovery \in 0..PriceRetries + 1
  /\ \A h \in handlers : signed[h.request] # NoRow /\ h.attempt \in 0..MaxRetries

\* Stripe semantics: a request is charged only if the service has answered it
\* below 500, whatever was lost, reaped, retried or settled late in between
\* (proxy/server.ts:122, payment.interceptor.ts:12-15).
ChargedOnlyIfServed ==
  \A r \in RequestIds : HasStatus(r, "committed") =>
    \E n \in DOMAIN served[r] : served[r][n] \in Definitive

\* A paid service runs at most once per requestId, however often the client
\* sends it and however its copies meet in the resource server.  (A copy that
\* passes a route which has become free is not paid for, nor counted.)
ServedAtMostOnce == \A r \in RequestIds : Len(served[r]) <= 1

RequestsOf(t) == {r \in RequestIds : signed[r] # NoRow /\ signed[r].tool = t}

\* One call of paidFetch pays at most once, through retries, lost answers, price
\* changes and stale caches: a fresh requestId is only signed when the one
\* before it can no longer be charged (signers.md:78-80, "no double-pay risk").
OnePaymentPerCall ==
  \A t \in Tools : Cardinality({r \in RequestsOf(t) : HasStatus(r, "committed")}) <= 1

\* Stale accepts heal themselves: a price-mismatch is handed to the caller only
\* if the price moved while the call was running (accepts-cache.ts:6-7).
MismatchMeansPriceMoved ==
  \A t \in Tools : In(t, "returned") /\ call[t].status = "mismatch" => call[t].moved

\* The price the operator's caps were checked against is the price of every row
\* that a call writes, reserved, charged or refunded, as long as the price stands
\* still: a stale cached requirement may be signed, but is never paid
\* (mcp/server.ts:96-101; mcp/README.md:43, "checked against the 402 challenge").
ChargedAsProbed ==
  \A t \in Tools : ~call[t].moved =>
    \A r \in RequestsOf(t) : spent[r] # NoRow =>
      spent[r].amount = call[t].probed /\ call[t].probed <= MaxPerRequest

Committed == {r \in RequestIds : HasStatus(r, "committed")}

ChargedSats == SumFunctionOnSet([r \in Committed |-> spent[r].amount], Committed)

\* "The model can never spend more than the operator configured, no matter what it
\* is asked" (mcp/server.ts:35-37).  It can: the sum is compared before a paid
\* fetch and grows after it, so calls that run at once share what is left of it.
SpendWithinCap == Earlier + ChargedSats <= MaxTotal

\* Every tool call ends: with an answer, a refusal or an error.
CallsEnd == \A t \in Tools : Open(t) ~> call[t].step \in Ended
=============================================================================
