-------------------------- MODULE PaidRequestProofs --------------------------
(***************************************************************************)
(* Proofs about PaidRequest, for any number of tool calls and requestIds,  *)
(* any rules, prices, budgets of retries and restarts, and any messages    *)
(* lost: a paid service runs at most once per requestId, is charged only   *)
(* if it has run, one call of paidFetch pays at most once, a price         *)
(* mismatch tells of a price that moved, and a price that stands still is  *)
(* charged as it was compared with the operator's cap.                     *)
(***************************************************************************)
EXTENDS PaidRequest, StorageProofs

CallFields == {"step", "probed", "price", "fromCache", "recovery", "request", "attempt",
               "status", "offered", "moved"}

IsCall(c) == DOMAIN c = CallFields /\ c.price \in Nat /\ c.offered \in Nat

HandlerFields == {"request", "attempt", "step", "price", "outcome", "answered"}

IsHandler(h) ==
  /\ DOMAIN h = HandlerFields
  /\ h.request \in RequestIds
  /\ h.price \in Nat

CallsTyped == DOMAIN call = Tools /\ \A t \in Tools : IsCall(call[t])

\* The rows the reaper works on are there: it holds the write lock.
ExpiredRows == \A r \in expired : r \in RequestIds /\ spent[r] # NoRow

\* A call that waits, or was answered, has signed the requestId it goes by.
CallsSigned ==
  \A t \in Tools : In(t, "wait") \/ In(t, "answered") =>
    /\ call[t].request \in RequestIds
    /\ signed[call[t].request] # NoRow
    /\ signed[call[t].request].tool = t

Types ==
  /\ rules \in RuleSets
  /\ accepts \in Nat \cup {NoRow}
  /\ CallsTyped
  /\ signed \in [RequestIds -> SignedRow \cup {NoRow}]
  /\ \A h \in handlers : IsHandler(h) /\ signed[h.request] # NoRow
  /\ served \in [RequestIds -> Seq(Outcomes)]
  /\ spent \in [RequestIds -> SpentRow \cup {NoRow}]
  /\ ExpiredRows
  /\ CallsSigned

-----------------------------------------------------------------------------
(* What the parts of a step do.                                            *)

\* A price that is there is one of the rules', a natural number.
LEMMA PriceIsNat == ASSUME Types, Price # NoRow PROVE Price \in Prices /\ Price \in Nat
  BY PriceAssumption DEF Types, Price, Prices

\* What a reservation writes is a row.
LEMMA RowsAreRows ==
  ASSUME NEW i \in Identities, NEW a \in Int, NEW b \in Int, NEW amount \in Nat,
         NEW s \in Statuses
  PROVE  LET row == [identity |-> i, issuedAt |-> a, receivedAt |-> b,
                     amount |-> amount, status |-> s]
         IN row \in SpentRow /\ row # NoRow
  BY NoRowAssumption DEF SpentRow

\* An answer reaches those who wait for it, and tells them nothing else.
CallsAnswered(h, status) ==
  \A t \in Tools :
    \/ call'[t] = call[t]
    \/ /\ In(t, "wait")
       /\ call[t].request = h.request
       /\ call'[t].step = "answered"
       /\ call'[t].status = status
       /\ call'[t].request = call[t].request

\* An answer keeps the calls well formed.
LEMMA Answers ==
  ASSUME Types, NEW h, NEW status, NEW offered \in Nat, Answer(h, status, offered)
  PROVE  CallsTyped' /\ CallsAnswered(h, status)
  BY DEF Answer, Types, In, IsCall, CallFields, CallsTyped, CallsAnswered

\* So does the answer a handler ends with.
LEMMA Replies ==
  ASSUME Types, NEW h \in handlers, NEW status, Reply(h, status)
  PROVE  CallsTyped' /\ CallsAnswered(h, status) /\ handlers' = handlers \ {h}
<1>1. h.price \in Nat
  BY DEF Types, IsHandler
<1> QED
  BY <1>1, Answers DEF Reply

\* The storage operations of a settling or reserving handler touch its row only.
OnlyRow(r) == \A q \in RequestIds : q # r => spent'[q] = spent[q]

\* A status change leaves the row in place and the others alone.
LEMMA StatusSet ==
  ASSUME Types, NEW r \in RequestIds, spent[r] # NoRow, NEW s \in Statuses, SetStatus(r, s)
  PROVE  /\ spent' \in [RequestIds -> SpentRow \cup {NoRow}]
         /\ spent'[r] # NoRow /\ spent'[r].status = s
         /\ OnlyRow(r)
<1>1. spent[r] \in SpentRow
  BY DEF Types
<1>2. [spent[r] EXCEPT !.status = s] \in SpentRow
  BY <1>1 DEF SpentRow
<1> QED
  BY <1>2, <1>1, NoRowAssumption DEF Types, SetStatus, OnlyRow, SpentRow

\* So does an insert.
LEMMA Inserted ==
  ASSUME Types, NEW r \in RequestIds, NEW amount \in Nat, NEW s \in Statuses,
         InsertSpent(r, Payer, 0, 0, amount, s)
  PROVE  /\ spent' \in [RequestIds -> SpentRow \cup {NoRow}]
         /\ spent'[r] # NoRow /\ spent'[r].status = s
         /\ OnlyRow(r)
<1>1. Payer \in Identities
  BY PaidAssumption
<1> DEFINE row == [identity |-> Payer, issuedAt |-> 0, receivedAt |-> 0,
                   amount |-> amount, status |-> s]
<1>2. row \in SpentRow /\ row # NoRow
  BY <1>1, RowsAreRows
<1>3. spent' = [spent EXCEPT ![r] = row] /\ row.status = s
  BY DEF InsertSpent
<1> QED
  BY <1>2, <1>3 DEF Types, OnlyRow

\* What the facilitator makes of a reservation.
LEMMA Reservations ==
  ASSUME Types, NEW r \in RequestIds, NEW amount \in Nat
  PROVE  /\ ReserveReplay(r) => spent[r] # NoRow /\ UNCHANGED <<spent, expired>>
         /\ ReserveRefused(r, Payer, 0, 0, amount) =>
              /\ spent' \in [RequestIds -> SpentRow \cup {NoRow}]
              /\ spent[r] = NoRow /\ HasStatus(r, "insufficient")' /\ OnlyRow(r) /\ ExpiredRows'
         /\ ReserveGranted(r, Payer, 0, 0, amount) =>
              /\ spent' \in [RequestIds -> SpentRow \cup {NoRow}]
              /\ spent[r] = NoRow /\ HasStatus(r, "reserved")' /\ OnlyRow(r) /\ ExpiredRows'
<1>1. CASE ReserveReplay(r)
  BY <1>1 DEF ReserveReplay, storageVars, ReserveRefused, ReserveGranted
<1>2. ASSUME ReserveRefused(r, Payer, 0, 0, amount)
      PROVE  /\ spent' \in [RequestIds -> SpentRow \cup {NoRow}]
             /\ spent[r] = NoRow /\ HasStatus(r, "insufficient")' /\ OnlyRow(r) /\ ExpiredRows'
  BY <1>2, Inserted DEF ReserveRefused, HasStatus, ExpiredRows, WriteTx, Statuses
<1>3. ASSUME ReserveGranted(r, Payer, 0, 0, amount)
      PROVE  /\ spent' \in [RequestIds -> SpentRow \cup {NoRow}]
             /\ spent[r] = NoRow /\ HasStatus(r, "reserved")' /\ OnlyRow(r) /\ ExpiredRows'
  BY <1>3, Inserted DEF ReserveGranted, HasStatus, ExpiredRows, WriteTx, Statuses
<1> QED
  BY <1>2, <1>3 DEF ReserveReplay, storageVars

\* Phase 2 moves a row that is there, and charges after a definitive answer only.
LEMMA Settlements ==
  ASSUME Types, NEW h, IsHandler(h), SettleAt(h)
  PROVE  /\ spent' \in [RequestIds -> SpentRow \cup {NoRow}]
         /\ OnlyRow(h.request) /\ ExpiredRows'
         /\ spent[h.request] # NoRow /\ spent'[h.request] # NoRow
         /\ HasStatus(h.request, "committed")' => h.outcome \in Definitive
<1> DEFINE r == h.request
<1>0. r \in RequestIds /\ "committed" \in Statuses /\ "error" \in Statuses
  BY DEF IsHandler, Statuses
<1>1. CASE h.outcome \in Definitive
  BY <1>0, <1>1, StatusSet
  DEF SettleAt, CommitPayment, LateCommitPayment, HasStatus, WriteTx, ExpiredRows
<1>2. CASE h.outcome \notin Definitive /\ RollbackPayment(r)
  BY <1>0, <1>2, StatusSet DEF RollbackPayment, Refund, HasStatus, WriteTx, ExpiredRows
<1>3. CASE h.outcome \notin Definitive /\ HasStatus(r, "error") /\ WriteTx /\ UNCHANGED storageVars
  BY <1>0, <1>3 DEF storageVars, HasStatus, WriteTx, ExpiredRows, OnlyRow, Types
<1> QED
  BY <1>1, <1>2, <1>3 DEF SettleAt

\* Deposits and the reaper charge nothing and burn nothing.
LEMMA Housekeeping ==
  ASSUME Types, TopUp \/ Reap
  PROVE  /\ spent' \in [RequestIds -> SpentRow \cup {NoRow}] /\ ExpiredRows'
         /\ \A q \in RequestIds : /\ spent'[q] = NoRow <=> spent[q] = NoRow
                                  /\ HasStatus(q, "committed")' => HasStatus(q, "committed")
         /\ UNCHANGED <<clientVars, serverVars>>
<1>1. CASE TopUp
  BY <1>1 DEF TopUp, InsertAndCreditDeposit, WriteTx, ExpiredRows, HasStatus, Types
<1>2. CASE Reap /\ ReapExpiredReservations(1)
  BY <1>2 DEF Reap, ReapExpiredReservations, ExpiredRows, HasStatus, Types
<1>3. CASE Reap /\ \E r \in RequestIds : ReapRow(r)
  <2>1. PICK r \in RequestIds : ReapRow(r)
    BY <1>3
  <2>2. spent[r] # NoRow /\ "error" \in Statuses
    BY <2>1 DEF ReapRow, Types, ExpiredRows, Statuses
  <2>3. SetStatus(r, "error") /\ expired' \subseteq expired
    BY <2>1 DEF ReapRow, Refund
  <2> QED
    BY <1>3, <2>2, <2>3, StatusSet DEF Types, ExpiredRows, HasStatus, OnlyRow, Reap
<1> QED
  BY <1>1, <1>2, <1>3 DEF Reap

-----------------------------------------------------------------------------
(* Types.                                                                   *)

\* The initial states are well formed.
LEMMA TypesInit == PaidInit => Types
<1> SUFFICES ASSUME PaidInit PROVE Types
  OBVIOUS
<1>1. \A t \in Tools : call[t] = NoCall
  BY DEF PaidInit
<1>2. IsCall(NoCall)
  BY DEF IsCall, CallFields, NoCall
<1> QED
  BY <1>1, <1>2, PriceAssumption DEF CallsTyped, PaidInit, StorageInit, Types, ExpiredRows, CallsSigned, In, NoCall

\* What a step of the client leaves alone.
LEMMA ClientLeaves ==
  ASSUME ForgetAccepts \/ \E t \in Tools : ToolStep(t)
  PROVE  UNCHANGED <<storageVars, rules, deploys, served>>
  BY DEF ToolStep, ForgetAccepts, Probe, NothingToPay, Decline, Admit, CountSpend, Challenge,
         SignAndSend, NetworkError, Throw, RetryTransient, ReturnAnswer, Handle402, serverVars

\* The steps of the client that neither sign nor send.
LocalStep(t) ==
  \/ Probe(t) \/ NothingToPay(t) \/ Decline(t) \/ Admit(t) \/ CountSpend(t)
  \/ Challenge(t) \/ Throw(t) \/ ReturnAnswer(t) \/ Handle402(t)

\* They keep the other calls, the requests under way and the signatures.
LEMMA LocalTypes ==
  ASSUME Types, NEW t \in Tools, LocalStep(t)
  PROVE  /\ CallsTyped'
         /\ \A s \in Tools : s # t => /\ call'[s].step = call[s].step
                                      /\ call'[s].status = call[s].status
                                      /\ call'[s].request = call[s].request
         /\ call'[t].step \notin {"wait", "answered"}
         /\ UNCHANGED <<signed, handlers>>
         /\ accepts' \in Nat \cup {NoRow}
<1> USE DEF CallsTyped, IsCall, CallFields, NoCall
<1>1. CASE Probe(t)
  <2>1. Price \in Nat
    BY <1>1, PriceIsNat DEF Probe
  <2> QED
    BY <1>1, <2>1 DEF Probe, Types, serverVars
<1>2. CASE NothingToPay(t)
  BY <1>2 DEF NothingToPay, Types, serverVars
<1>3. CASE Decline(t)
  BY <1>3 DEF Decline, Types, serverVars
<1>4. CASE Admit(t)
  <2>1. accepts # NoRow => accepts \in Nat
    BY DEF Types
  <2> QED
    BY <1>4, <2>1 DEF Admit, Types, serverVars
<1>5. CASE CountSpend(t)
  BY <1>5 DEF CountSpend, Types, serverVars
<1>6. CASE Challenge(t)
  <2>1. CASE Price # NoRow /\ call' = [call EXCEPT ![t].step = "sign", ![t].price = Price]
    <3>1. Price \in Nat
      BY <2>1, PriceIsNat
    <3> QED
      BY <1>6, <2>1, <3>1 DEF Challenge, Types, serverVars
  <2>2. CASE call' = [call EXCEPT ![t].step = "read", ![t].status = "unpriced"]
    BY <1>6, <2>2 DEF Challenge, Types, serverVars
  <2> QED
    BY <1>6, <2>1, <2>2 DEF Challenge
<1>7. CASE Throw(t)
  BY <1>7 DEF Throw, Types, serverVars
<1>8. CASE ReturnAnswer(t)
  BY <1>8 DEF ReturnAnswer, Types, serverVars
<1>9. CASE Handle402(t)
  <2>1. CASE \E step \in {"thrown", "read"} : call' = [call EXCEPT ![t].step = step]
    BY <1>9, <2>1 DEF Handle402, Types, serverVars
  <2>2. CASE SignAgain(t)
    BY <1>9, <2>2 DEF Handle402, SignAgain, Types, serverVars
  <2> QED
    BY <1>9, <2>1, <2>2 DEF Handle402
<1> QED
  BY <1>1, <1>2, <1>3, <1>4, <1>5, <1>6, <1>7, <1>8, <1>9 DEF LocalStep

\* Signing and sending: the call, its requestId and the new copy of the request.
LEMMA SentTypes ==
  ASSUME Types, NEW t \in Tools, SignAndSend(t)
  PROVE  /\ CallsTyped'
         /\ signed' \in [RequestIds -> SignedRow \cup {NoRow}]
         /\ UNCHANGED accepts
         /\ \A s \in Tools : s # t => call'[s] = call[s]
         /\ \E r \in RequestIds :
              /\ signed[r] = NoRow
              /\ \A q \in RequestIds : q # r => signed'[q] = signed[q]
              /\ signed'[r] # NoRow /\ signed'[r].tool = t
              /\ call'[t].step = "wait" /\ call'[t].request = r
              /\ handlers' = handlers \cup {Arriving(r, 0)}
<1> DEFINE r == Fresh
<1>1. r \in RequestIds /\ signed[r] = NoRow
  BY DEF SignAndSend, Fresh
<1>2. call[t].price \in Nat
  BY DEF Types, CallsTyped, IsCall
<1> DEFINE row == [tool |-> t, price |-> call[t].price]
<1>3. row \in SignedRow /\ row.tool = t /\ row # NoRow
  BY <1>2, PriceAssumption DEF SignedRow
<1>4. /\ signed' = [signed EXCEPT ![r] = row]
      /\ call' = [call EXCEPT ![t].step = "wait", ![t].request = r, ![t].attempt = 0]
      /\ handlers' = handlers \cup {Arriving(r, 0)}
      /\ UNCHANGED accepts
  BY DEF SignAndSend
<1> HIDE DEF r, row
<1> QED
  BY <1>1, <1>3, <1>4 DEF Types, CallsTyped, IsCall, CallFields

\* Sending once more: the same requestId, another copy.
LEMMA ResentTypes ==
  ASSUME Types, NEW t \in Tools, Resend(t)
  PROVE  /\ CallsTyped'
         /\ call'[t].step = "wait" /\ call'[t].request = call[t].request
         /\ \A s \in Tools : s # t => call'[s] = call[s]
         /\ handlers' = handlers \cup {Arriving(call[t].request, call[t].attempt + 1)}
         /\ UNCHANGED signed
  BY DEF Resend, Types, CallsTyped, IsCall, CallFields

\* A copy that was sent is a handler yet to begin.
LEMMA ArrivingIsHandler ==
  ASSUME NEW r \in RequestIds, NEW n
  PROVE  IsHandler(Arriving(r, n)) /\ Arriving(r, n).request = r /\ Arriving(r, n).step = "arriving"
  BY DEF Arriving, IsHandler, HandlerFields

\* A call that gives up, sends again or asks anew.
LEMMA ClientTypes ==
  ASSUME Types, NEW t \in Tools, ToolStep(t)
  PROVE  Types'
<1>0. UNCHANGED <<storageVars, rules, deploys, served>>
  BY ClientLeaves
<1>1. CASE LocalStep(t)
  <2>1. CallsSigned'
    BY <1>1, LocalTypes DEF CallsSigned, Types, In
  <2> QED
    BY <1>0, <1>1, <2>1, LocalTypes DEF Types, storageVars, ExpiredRows
<1>2. CASE SignAndSend(t)
  <2>1. PICK r \in RequestIds :
          /\ signed[r] = NoRow
          /\ \A q \in RequestIds : q # r => signed'[q] = signed[q]
          /\ signed'[r] # NoRow /\ signed'[r].tool = t
          /\ call'[t].step = "wait" /\ call'[t].request = r
          /\ handlers' = handlers \cup {Arriving(r, 0)}
    BY <1>2, SentTypes
  <2>2. \A s \in Tools : s # t => call'[s] = call[s]
    BY <1>2, SentTypes
  <2>3. CallsSigned'
    BY <2>1, <2>2 DEF CallsSigned, Types, In
  <2>4. \A h \in handlers' : IsHandler(h) /\ signed'[h.request] # NoRow
    BY <2>1, ArrivingIsHandler DEF Types, IsHandler
  <2> QED
    BY <1>0, <1>2, <2>3, <2>4, SentTypes DEF Types, storageVars, ExpiredRows
<1>3. CASE Resend(t) /\ (In(t, "wait") \/ In(t, "answered")) /\ UNCHANGED accepts
  <2>1. call[t].request \in RequestIds /\ signed[call[t].request] # NoRow
    BY <1>3 DEF Types, CallsSigned
  <2>2. CallsSigned'
    BY <1>3, ResentTypes DEF CallsSigned, Types, In
  <2>3. \A h \in handlers' : IsHandler(h) /\ signed'[h.request] # NoRow
    BY <1>3, <2>1, ResentTypes, ArrivingIsHandler DEF Types, IsHandler
  <2> QED
    BY <1>0, <1>3, <2>2, <2>3, ResentTypes DEF Types, storageVars, ExpiredRows
<1>4. CASE NetworkError(t) /\ call' = [call EXCEPT ![t].step = "thrown"] /\ UNCHANGED <<signed, handlers>>
  BY <1>0, <1>4
  DEF NetworkError, Types, CallsTyped, IsCall, CallFields, CallsSigned, In, storageVars, ExpiredRows
<1> QED
  BY <1>1, <1>2, <1>3, <1>4 DEF ToolStep, LocalStep, NetworkError, RetryTransient

\* A cache entry that goes is missed by nobody.
LEMMA ForgetTypes ==
  ASSUME Types, ForgetAccepts
  PROVE  Types'
  BY ClientLeaves
  DEF ForgetAccepts, Types, CallsTyped, CallsSigned, In, storageVars, serverVars, ExpiredRows

\* A handler that moves on keeps its requestId, price and outcome.
LEMMA Stepped ==
  ASSUME NEW h, IsHandler(h), NEW step
  PROVE  LET g == [h EXCEPT !.step = step]
         IN /\ IsHandler(g) /\ g.step = step
            /\ g.request = h.request /\ g.price = h.price /\ g.outcome = h.outcome
            /\ g.attempt = h.attempt
  BY DEF IsHandler, HandlerFields

\* An answered call goes by the requestId it had.
LEMMA AnsweredSigned ==
  ASSUME Types, NEW h, NEW status, CallsAnswered(h, status), UNCHANGED signed
  PROVE  CallsSigned'
  BY DEF Types, CallsSigned, CallsAnswered, In

\* Calls that stand still stay as they are.
LEMMA CallsStand ==
  ASSUME Types, UNCHANGED <<call, signed>>
  PROVE  CallsTyped' /\ CallsSigned'
  BY DEF Types, CallsTyped, CallsSigned, In

\* A reserve that runs on without its handler keeps its requestId.
LEMMA OrphanedHandlers ==
  ASSUME NEW h, IsHandler(h), NEW g \in Orphaned(h)
  PROVE  /\ IsHandler(g) /\ g.request = h.request /\ g.step = "orphaned" /\ h.step = "reserving"
         /\ g.price = h.price /\ g.attempt = h.attempt
<1>1. h.step = "reserving" /\ g = [h EXCEPT !.step = "orphaned"]
  BY DEF Orphaned
<1> QED
  BY <1>1, Stepped

HandlersTyped == \A h \in handlers : IsHandler(h) /\ signed[h.request] # NoRow

\* The steps of a handler that only answer.
Replied(h) ==
  \/ PassThrough(h) \/ BodyTooLarge(h) \/ Unauthorized(h) \/ VerifyUnavailable(h)

\* They end the handler and offer nothing to sign.
LEMMA RepliedTypes ==
  ASSUME Types, NEW h \in handlers, Replied(h)
  PROVE  /\ CallsTyped' /\ CallsSigned' /\ HandlersTyped'
         /\ UNCHANGED <<storageVars, accepts, signed, rules, served>>
         /\ handlers' = handlers \ {h}
         /\ \E status : CallsAnswered(h, status) /\ status \notin {"mismatch", "refused"}
<1>0. "mismatch" \notin Outcomes /\ "refused" \notin Outcomes
  BY PaidAssumption
<1>1. PICK status : Reply(h, status) /\ status \notin {"mismatch", "refused"}
  BY <1>0 DEF Replied, PassThrough, BodyTooLarge, Unauthorized, VerifyUnavailable
<1>2. UNCHANGED <<storageVars, accepts, signed, rules, served>>
  BY DEF Replied, PassThrough, BodyTooLarge, Unauthorized, VerifyUnavailable
<1>3. CallsTyped' /\ CallsAnswered(h, status) /\ handlers' = handlers \ {h}
  BY <1>1, Replies
<1>4. CallsSigned'
  BY <1>2, <1>3, AnsweredSigned
<1> QED
  BY <1>1, <1>2, <1>3, <1>4 DEF Types, HandlersTyped

\* The facilitator's checks: an answer, or a handler that is about to reserve
\* at the price that was signed.
LEMMA CheckTypes ==
  ASSUME Types, NEW h \in handlers, CheckPayment(h)
  PROVE  /\ CallsTyped' /\ CallsSigned' /\ HandlersTyped'
         /\ UNCHANGED <<storageVars, accepts, signed, rules, served>>
         /\ \/ /\ handlers' = handlers \ {h}
               /\ \E status : /\ CallsAnswered(h, status)
                              /\ status # "refused"
                              /\ status = "mismatch" =>
                                   spent[h.request] = NoRow /\ signed[h.request].price # Price
            \/ /\ UNCHANGED call
               /\ signed[h.request].price = Price
               /\ \E g : /\ handlers' = (handlers \ {h}) \cup {g}
                         /\ IsHandler(g) /\ g.request = h.request /\ g.step = "reserving"
<1>0. /\ Price \in Nat /\ h.step = "arriving"
      /\ UNCHANGED <<storageVars, accepts, signed, rules, served>>
  BY PriceIsNat DEF CheckPayment
<1>1. CASE Reply(h, "replay")
  <2>1. CallsTyped' /\ CallsAnswered(h, "replay") /\ handlers' = handlers \ {h}
    BY <1>1, Replies
  <2> QED
    BY <1>0, <2>1, AnsweredSigned DEF Types, HandlersTyped
<1>2. CASE /\ spent[h.request] = NoRow /\ signed[h.request].price # Price
           /\ Answer(h, "mismatch", Price) /\ handlers' = handlers \ {h}
  <2>1. CallsTyped' /\ CallsAnswered(h, "mismatch")
    BY <1>0, <1>2, Answers
  <2> QED
    BY <1>0, <1>2, <2>1, AnsweredSigned DEF Types, HandlersTyped
<1>3. CASE /\ signed[h.request].price = Price
           /\ handlers' = (handlers \ {h}) \cup {[h EXCEPT !.step = "reserving", !.price = Price]}
           /\ UNCHANGED call
  <2> DEFINE g == [h EXCEPT !.step = "reserving", !.price = Price]
  <2>1. IsHandler(g) /\ g.request = h.request /\ g.step = "reserving"
    BY <1>0 DEF Types, IsHandler, HandlerFields
  <2>2. handlers' = (handlers \ {h}) \cup {g}
    BY <1>3
  <2> HIDE DEF g
  <2> QED
    BY <1>0, <1>3, <2>1, <2>2, CallsStand DEF Types, HandlersTyped
<1> QED
  BY <1>1, <1>2, <1>3 DEF CheckPayment

\* A reservation that is heard: an answer, or the service is called.
LEMMA ReserveTypes ==
  ASSUME Types, NEW h \in handlers, Reserve(h)
  PROVE  /\ CallsTyped' /\ CallsSigned' /\ HandlersTyped'
         /\ h.step = "reserving" /\ OnlyRow(h.request)
         /\ spent' \in [RequestIds -> SpentRow \cup {NoRow}] /\ ExpiredRows'
         /\ UNCHANGED <<accepts, signed, rules, served>>
         /\ \/ /\ handlers' = handlers \ {h}
               /\ \E status : /\ CallsAnswered(h, status)
                              /\ status # "mismatch"
                              /\ status = "refused" => spent[h.request] = NoRow
               /\ \/ spent[h.request] # NoRow /\ UNCHANGED spent
                  \/ spent[h.request] = NoRow /\ HasStatus(h.request, "insufficient")'
            \/ /\ UNCHANGED call
               /\ spent[h.request] = NoRow /\ HasStatus(h.request, "reserved")'
               /\ \E g : /\ handlers' = (handlers \ {h}) \cup {g}
                         /\ IsHandler(g) /\ g.request = h.request /\ g.step = "forwarding"
<1> DEFINE r == h.request
<1>0. /\ h.step = "reserving" /\ IsHandler(h) /\ r \in RequestIds /\ h.price \in Nat
      /\ UNCHANGED <<accepts, signed, rules, served>>
  BY DEF Reserve, Types, IsHandler
<1>1. CASE ReserveReplay(r) /\ Reply(h, "replay")
  <2>1. spent[r] # NoRow /\ UNCHANGED <<spent, expired>>
    BY <1>0, <1>1, Reservations
  <2>2. CallsTyped' /\ CallsAnswered(h, "replay") /\ handlers' = handlers \ {h}
    BY <1>1, Replies
  <2>3. CallsSigned'
    BY <1>0, <2>2, AnsweredSigned
  <2>4. /\ spent' \in [RequestIds -> SpentRow \cup {NoRow}]
        /\ OnlyRow(r) /\ ExpiredRows' /\ HandlersTyped'
    BY <1>0, <2>1, <2>2 DEF Types, HandlersTyped, ExpiredRows, OnlyRow
  <2> QED
    BY <1>0, <2>1, <2>2, <2>3, <2>4
<1>2. CASE ReserveRefused(r, Payer, 0, 0, h.price) /\ Reply(h, "refused")
  <2>1. /\ spent' \in [RequestIds -> SpentRow \cup {NoRow}]
        /\ spent[r] = NoRow /\ HasStatus(r, "insufficient")' /\ OnlyRow(r) /\ ExpiredRows'
    BY <1>0, <1>2, Reservations
  <2>2. CallsTyped' /\ CallsAnswered(h, "refused") /\ handlers' = handlers \ {h}
    BY <1>2, Replies
  <2>3. CallsSigned'
    BY <1>0, <2>2, AnsweredSigned
  <2> QED
    BY <1>0, <2>1, <2>2, <2>3 DEF Types, HandlersTyped
<1>3. CASE /\ ReserveGranted(r, Payer, 0, 0, h.price)
           /\ Advance(h, "forwarding") /\ UNCHANGED call
  <2>1. /\ spent' \in [RequestIds -> SpentRow \cup {NoRow}]
        /\ spent[r] = NoRow /\ HasStatus(r, "reserved")' /\ OnlyRow(r) /\ ExpiredRows'
    BY <1>0, <1>3, Reservations
  <2> DEFINE g == [h EXCEPT !.step = "forwarding"]
  <2>2. handlers' = (handlers \ {h}) \cup {g}
    BY <1>3 DEF Advance
  <2>3. IsHandler(g) /\ g.request = h.request /\ g.step = "forwarding"
    BY <1>0, Stepped
  <2> HIDE DEF g
  <2>4. CallsTyped' /\ CallsSigned'
    BY <1>0, <1>3, CallsStand
  <2> QED
    BY <1>0, <1>3, <2>1, <2>2, <2>3, <2>4 DEF Types, HandlersTyped
<1> QED
  BY <1>1, <1>2, <1>3 DEF Reserve

\* A reservation that nobody hears of.
LEMMA UnheardTypes ==
  ASSUME Types, NEW h \in handlers, ReserveUnheard(h)
  PROVE  /\ CallsTyped' /\ CallsSigned' /\ HandlersTyped'
         /\ OnlyRow(h.request)
         /\ spent' \in [RequestIds -> SpentRow \cup {NoRow}] /\ ExpiredRows'
         /\ UNCHANGED <<accepts, signed, rules, served>>
         /\ handlers' = handlers \ {h} /\ CallsAnswered(h, "unavailable")
         /\ \/ spent[h.request] # NoRow /\ UNCHANGED spent
            \/ HasStatus(h.request, "insufficient")' \/ HasStatus(h.request, "reserved")'
<1> DEFINE r == h.request
<1>0. /\ r \in RequestIds /\ h.price \in Nat
      /\ UNCHANGED <<accepts, signed, rules, served>>
      /\ Reply(h, "unavailable")
  BY DEF ReserveUnheard, Types, IsHandler
<1>1. /\ spent' \in [RequestIds -> SpentRow \cup {NoRow}] /\ OnlyRow(r) /\ ExpiredRows'
      /\ \/ spent[r] # NoRow /\ UNCHANGED spent
         \/ HasStatus(r, "insufficient")' \/ HasStatus(r, "reserved")'
  <2>1. CASE ReserveReplay(r)
    BY <1>0, <2>1, Reservations DEF Types, ExpiredRows, OnlyRow
  <2>2. CASE ReserveRefused(r, Payer, 0, 0, h.price) \/ ReserveGranted(r, Payer, 0, 0, h.price)
    BY <1>0, <2>2, Reservations
  <2> QED
    BY <2>1, <2>2 DEF ReserveUnheard
<1>2. CallsTyped' /\ CallsAnswered(h, "unavailable") /\ handlers' = handlers \ {h}
  BY <1>0, Replies
<1>3. CallsSigned'
  BY <1>0, <1>2, AnsweredSigned
<1> QED
  BY <1>0, <1>1, <1>2, <1>3 DEF Types, HandlersTyped

\* The service runs, for this request, and its handler has yet to settle.
LEMMA ForwardTypes ==
  ASSUME Types, NEW h \in handlers, Forward(h)
  PROVE  /\ CallsTyped' /\ CallsSigned' /\ HandlersTyped'
         /\ h.step = "forwarding"
         /\ UNCHANGED <<storageVars, accepts, signed, rules>>
         /\ \E status : CallsAnswered(h, status) /\ status \notin {"mismatch", "refused"}
         /\ \E outcome \in Outcomes : \E g :
              /\ served' = [served EXCEPT ![h.request] = Append(@, outcome)]
              /\ handlers' = (handlers \ {h}) \cup {g}
              /\ IsHandler(g) /\ g.request = h.request
              /\ g.step = "settling" /\ g.outcome = outcome
<1>0. /\ h.step = "forwarding" /\ IsHandler(h) /\ h.price \in Nat
      /\ UNCHANGED <<storageVars, accepts, signed, rules>>
  BY DEF Forward, Types, IsHandler
<1>1. PICK outcome \in Outcomes, adapter \in Adapters :
        /\ served' = [served EXCEPT ![h.request] = Append(@, outcome)]
        /\ handlers' = (handlers \ {h}) \cup
             {[h EXCEPT !.step = "settling", !.outcome = outcome, !.answered = adapter = "proxy"]}
        /\ IF adapter = "proxy" THEN Answer(h, outcome, h.price) ELSE UNCHANGED call
  BY DEF Forward
<1>2. outcome \notin {"mismatch", "refused"}
  BY PaidAssumption
<1>3. CallsTyped' /\ CallsSigned' /\ CallsAnswered(h, outcome)
  <2>1. CASE Answer(h, outcome, h.price)
    BY <1>0, <2>1, Answers, AnsweredSigned
  <2>2. CASE UNCHANGED call
    BY <1>0, <2>2, CallsStand DEF CallsAnswered
  <2> QED
    BY <1>1, <2>1, <2>2
<1> DEFINE g == [h EXCEPT !.step = "settling", !.outcome = outcome, !.answered = adapter = "proxy"]
<1>4. IsHandler(g) /\ g.request = h.request /\ g.step = "settling" /\ g.outcome = outcome
  BY <1>0 DEF IsHandler, HandlerFields
<1>5. handlers' = (handlers \ {h}) \cup {g}
  BY <1>1
<1> HIDE DEF g
<1>6. HandlersTyped'
  BY <1>0, <1>4, <1>5 DEF Types, HandlersTyped
<1> QED
  BY <1>0, <1>1, <1>2, <1>3, <1>4, <1>5, <1>6

\* Phase 2, reached or not, ends the handler.
LEMMA SettleTypes ==
  ASSUME Types, NEW h \in handlers, Settle(h)
  PROVE  /\ CallsTyped' /\ CallsSigned' /\ HandlersTyped'
         /\ h.step = "settling" /\ OnlyRow(h.request)
         /\ spent' \in [RequestIds -> SpentRow \cup {NoRow}] /\ ExpiredRows'
         /\ UNCHANGED <<accepts, signed, rules, served>>
         /\ handlers' = handlers \ {h}
         /\ \E status : CallsAnswered(h, status) /\ (status = h.outcome \/ UNCHANGED call)
         /\ \/ UNCHANGED spent
            \/ /\ spent'[h.request] # NoRow
               /\ HasStatus(h.request, "committed")' => h.outcome \in Definitive
<1>0. /\ h.step = "settling" /\ IsHandler(h)
      /\ UNCHANGED <<accepts, signed, rules, served>>
  BY DEF Settle, Types
<1>1. /\ spent' \in [RequestIds -> SpentRow \cup {NoRow}] /\ OnlyRow(h.request) /\ ExpiredRows'
      /\ \/ UNCHANGED spent
         \/ /\ spent'[h.request] # NoRow
            /\ HasStatus(h.request, "committed")' => h.outcome \in Definitive
  <2>1. CASE SettleAt(h)
    BY <1>0, <2>1, Settlements
  <2>2. CASE UNCHANGED storageVars
    BY <2>2 DEF storageVars, Types, ExpiredRows, OnlyRow
  <2> QED
    BY <2>1, <2>2 DEF Settle
<1>2. /\ CallsTyped' /\ CallsSigned' /\ handlers' = handlers \ {h}
      /\ \E status : CallsAnswered(h, status) /\ (status = h.outcome \/ UNCHANGED call)
  <2>1. CASE Reply(h, h.outcome)
    <3>1. CallsTyped' /\ CallsAnswered(h, h.outcome) /\ handlers' = handlers \ {h}
      BY <2>1, Replies
    <3> QED
      BY <1>0, <3>1, AnsweredSigned
  <2>2. CASE handlers' = handlers \ {h} /\ UNCHANGED call
    BY <1>0, <2>2, CallsStand DEF CallsAnswered
  <2> QED
    BY <2>1, <2>2 DEF Settle
<1> QED
  BY <1>0, <1>1, <1>2 DEF Types, HandlersTyped

\* A handler that dies leaves at most the reserve it has sent.
LEMMA DiesTypes ==
  ASSUME Types, NEW h \in handlers, HandlerDies(h)
  PROVE  /\ CallsTyped' /\ CallsSigned' /\ HandlersTyped'
         /\ UNCHANGED <<storageVars, clientVars, rules, served>>
         /\ \A g \in handlers' : \/ g \in handlers
                                 \/ g.request = h.request /\ g.step = "orphaned"
<1>0. UNCHANGED <<storageVars, clientVars, rules, served>>
  BY DEF HandlerDies
<1>1. CallsTyped' /\ CallsSigned'
  BY <1>0, CallsStand DEF clientVars
<1>2. handlers' = (handlers \ {h}) \cup Orphaned(h)
  BY DEF HandlerDies
<1>3. \A g \in Orphaned(h) : IsHandler(g) /\ g.request = h.request /\ g.step = "orphaned"
  BY OrphanedHandlers DEF Types
<1> QED
  BY <1>0, <1>1, <1>2, <1>3 DEF Types, HandlersTyped, clientVars

\* A restart loses every request but the reserves the facilitator works on.
LEMMA DeployTypes ==
  ASSUME Types, NEW rs \in RuleSets, Deploy(rs)
  PROVE  /\ CallsTyped' /\ CallsSigned' /\ HandlersTyped' /\ rules' \in RuleSets
         /\ UNCHANGED <<storageVars, accepts, signed, served>>
         /\ \A t \in Tools : /\ call'[t].step = call[t].step
                             /\ call'[t].status = call[t].status
                             /\ call'[t].request = call[t].request
         /\ \A g \in handlers' : g.step = "orphaned"
         /\ \A g \in handlers' : g \in handlers \/ \E h \in handlers : g \in Orphaned(h)
<1>0. /\ UNCHANGED <<storageVars, accepts, signed, served>>
      /\ rules' \in RuleSets
      /\ call' = [t \in Tools |-> IF Open(t) THEN [call[t] EXCEPT !.moved = TRUE] ELSE call[t]]
  BY DEF Deploy
<1>1. /\ CallsTyped'
      /\ \A t \in Tools : /\ call'[t].step = call[t].step
                          /\ call'[t].status = call[t].status
                          /\ call'[t].request = call[t].request
  BY <1>0 DEF Types, CallsTyped, IsCall, CallFields
<1>2. CallsSigned'
  BY <1>0, <1>1 DEF Types, CallsSigned, In
<1>3. \A g \in handlers' : \/ g \in handlers /\ g.step = "orphaned"
                           \/ \E h \in handlers : g \in Orphaned(h)
  <2> DEFINE sent == UNION {Orphaned(h) : h \in handlers}
             kept == {h \in handlers : h.step = "orphaned"}
  <2>1. handlers' = sent \cup kept
    BY DEF Deploy
  <2>2. \A g \in kept : g \in handlers /\ g.step = "orphaned"
    OBVIOUS
  <2>3. \A g \in sent : \E h \in handlers : g \in Orphaned(h)
    OBVIOUS
  <2> HIDE DEF sent, kept
  <2> QED
    BY <2>1, <2>2, <2>3
<1>4. \A g \in handlers' : IsHandler(g) /\ g.step = "orphaned" /\ signed'[g.request] # NoRow
  BY <1>0, <1>3, OrphanedHandlers DEF Types
<1> QED
  BY <1>0, <1>1, <1>2, <1>3, <1>4 DEF HandlersTyped

\* Every step keeps the types.
LEMMA TypesKept ==
  ASSUME Types, PaidNext
  PROVE  Types'
<1>1. ASSUME NEW h \in handlers, HandlerStep(h)
      PROVE  Types'
  <2>1. CASE Replied(h) \/ CheckPayment(h) \/ HandlerDies(h)
    <3>1. /\ CallsTyped' /\ CallsSigned' /\ HandlersTyped'
          /\ UNCHANGED <<storageVars, accepts, signed, rules, served>>
      BY <2>1, RepliedTypes, CheckTypes, DiesTypes DEF clientVars
    <3> QED
      BY <3>1 DEF Types, HandlersTyped, storageVars, ExpiredRows
  <2>2. CASE Reserve(h)
    BY <2>2, ReserveTypes DEF Types, HandlersTyped
  <2>3. CASE ReserveUnheard(h)
    BY <2>3, UnheardTypes DEF Types, HandlersTyped
  <2>4. CASE Settle(h)
    BY <2>4, SettleTypes DEF Types, HandlersTyped
  <2>5. CASE Forward(h)
    <3>1. PICK outcome \in Outcomes : served' = [served EXCEPT ![h.request] = Append(@, outcome)]
      BY <2>5, ForwardTypes
    <3>2. served' \in [RequestIds -> Seq(Outcomes)]
      <4>1. h.request \in RequestIds /\ served[h.request] \in Seq(Outcomes)
        BY DEF Types, IsHandler
      <4>2. Append(served[h.request], outcome) \in Seq(Outcomes)
        BY <4>1
      <4> QED
        BY <3>1, <4>1, <4>2 DEF Types
    <3>3. /\ CallsTyped' /\ CallsSigned' /\ HandlersTyped'
          /\ UNCHANGED <<storageVars, accepts, signed, rules>>
      BY <2>5, ForwardTypes
    <3> QED
      BY <3>2, <3>3 DEF Types, HandlersTyped, storageVars, ExpiredRows
  <2> QED
    BY <1>1, <2>1, <2>2, <2>3, <2>4, <2>5 DEF HandlerStep, Replied
<1>2. ASSUME NEW rs \in RuleSets, Deploy(rs)
      PROVE  Types'
  BY <1>2, DeployTypes DEF Types, HandlersTyped, storageVars, ExpiredRows
<1>3. CASE TopUp \/ Reap
  BY <1>3, Housekeeping DEF Types, HandlersTyped, clientVars, serverVars, CallsTyped, CallsSigned, In
<1> QED
  BY <1>1, <1>2, <1>3, ClientTypes, ForgetTypes DEF PaidNext

-----------------------------------------------------------------------------
(* The service runs once, and is charged only if it has run.               *)

\* A handler reserves at the price that was signed.
ReservesSigned == \A h \in handlers : h.step = "reserving" => signed[h.request].price = Price

\* What is forwarded or settled has a row; without a row nothing was served.
RowsBeforeService ==
  /\ \A h \in handlers : h.step \in {"forwarding", "settling"} => spent[h.request] # NoRow
  /\ \A r \in RequestIds : spent[r] = NoRow => served[r] = << >>

\* One handler forwards a requestId, and it is the first to do so.
OneForwards ==
  /\ \A h \in handlers : h.step = "forwarding" => served[h.request] = << >>
  /\ \A g, h \in handlers :
       g.step = "forwarding" /\ h.step = "forwarding" /\ g.request = h.request => g = h

\* A handler that settles goes by an answer of the service.
SettlesServed ==
  \A h \in handlers : h.step = "settling" =>
    \E n \in DOMAIN served[h.request] : served[h.request][n] = h.outcome

Service ==
  /\ ReservesSigned /\ RowsBeforeService /\ OneForwards /\ SettlesServed
  /\ ServedAtMostOnce /\ ChargedOnlyIfServed

\* Initially nothing is under way, burned or served.
LEMMA ServiceInit == PaidInit => Service
  BY DEF PaidInit, StorageInit, Service, ReservesSigned, RowsBeforeService, OneForwards,
         SettlesServed, ServedAtMostOnce, ChargedOnlyIfServed, HasStatus

\* A step after which no row is missing or charged that was not before, and that
\* brings no handler further than to its reservation.
Quiet ==
  /\ UNCHANGED served
  /\ \A q \in RequestIds : /\ spent'[q] = NoRow => spent[q] = NoRow
                           /\ HasStatus(q, "committed")' => HasStatus(q, "committed")
  /\ \A h \in handlers' :
       /\ h \in handlers \/ h.step \in {"arriving", "reserving", "orphaned"}
       /\ h.step = "reserving" => signed'[h.request].price = Price'

\* Such a step breaks none of the chain.
LEMMA QuietKeepsService ==
  ASSUME Types, Types', Service, Quiet
  PROVE  Service'
<1> USE DEF Service, Quiet
<1>1. ReservesSigned'
  BY DEF ReservesSigned
<1>2. RowsBeforeService'
  BY DEF RowsBeforeService, Types, IsHandler
<1>3. OneForwards'
  BY DEF OneForwards
<1>4. SettlesServed'
  BY DEF SettlesServed
<1>5. ServedAtMostOnce'
  BY DEF ServedAtMostOnce
<1>6. ChargedOnlyIfServed'
  BY DEF ChargedOnlyIfServed
<1> QED
  BY <1>1, <1>2, <1>3, <1>4, <1>5, <1>6

\* A client adds arriving copies and signs fresh requestIds only.
LEMMA ClientSends ==
  ASSUME Types, NEW t \in Tools, ToolStep(t)
  PROVE  /\ \A q \in RequestIds : signed[q] # NoRow => signed'[q] = signed[q]
         /\ \A h \in handlers' : h \in handlers \/ h.step = "arriving"
<1>1. CASE LocalStep(t)
  BY <1>1, LocalTypes
<1>2. CASE SignAndSend(t)
  <2>1. PICK r \in RequestIds :
          /\ signed[r] = NoRow
          /\ \A q \in RequestIds : q # r => signed'[q] = signed[q]
          /\ handlers' = handlers \cup {Arriving(r, 0)}
    BY <1>2, SentTypes
  <2> QED
    BY <2>1, ArrivingIsHandler
<1>3. CASE Resend(t) /\ (In(t, "wait") \/ In(t, "answered"))
  <2>1. call[t].request \in RequestIds
    BY <1>3 DEF Types, CallsSigned
  <2> QED
    BY <1>3, <2>1, ResentTypes, ArrivingIsHandler
<1>4. CASE UNCHANGED <<signed, handlers>>
  BY <1>4
<1> QED
  BY <1>1, <1>2, <1>3, <1>4 DEF ToolStep, LocalStep, NetworkError, RetryTransient

\* The client's steps are quiet.
LEMMA ClientIsQuiet ==
  ASSUME Types, Service, ForgetAccepts \/ \E t \in Tools : ToolStep(t)
  PROVE  Quiet
<1>0. UNCHANGED <<storageVars, rules, served>>
  BY ClientLeaves
<1>1. /\ \A q \in RequestIds : signed[q] # NoRow => signed'[q] = signed[q]
      /\ \A h \in handlers' : h \in handlers \/ h.step = "arriving"
  <2>1. CASE ForgetAccepts
    BY <2>1 DEF ForgetAccepts, serverVars
  <2> QED
    BY <2>1, ClientSends
<1> QED
  BY <1>0, <1>1 DEF Quiet, Service, ReservesSigned, storageVars, HasStatus, Types, IsHandler, Price

\* So are checks, deaths, restarts, deposits and reaps.
LEMMA OthersAreQuiet ==
  ASSUME Types, Service, \/ \E h \in handlers : Replied(h) \/ HandlerDies(h) \/ CheckPayment(h)
                         \/ \E rs \in RuleSets : Deploy(rs)
                         \/ TopUp \/ Reap
  PROVE  Quiet
<1> USE DEF Quiet, Service, ReservesSigned
<1>1. ASSUME NEW h \in handlers, Replied(h) \/ HandlerDies(h)
      PROVE  Quiet
  <2>1. /\ UNCHANGED <<storageVars, signed, rules, served>>
        /\ \A g \in handlers' : g \in handlers \/ g.step = "orphaned"
    BY <1>1, RepliedTypes, DiesTypes DEF clientVars
  <2> QED
    BY <2>1 DEF storageVars, HasStatus, Price
<1>2. ASSUME NEW h \in handlers, CheckPayment(h)
      PROVE  Quiet
  <2>1. UNCHANGED <<storageVars, signed, rules, served>>
    BY <1>2, CheckTypes
  <2>2. CASE handlers' = handlers \ {h}
    BY <2>1, <2>2 DEF storageVars, HasStatus, Price
  <2>3. CASE handlers' # handlers \ {h}
    <3>1. PICK g : /\ handlers' = (handlers \ {h}) \cup {g}
                   /\ g.request = h.request /\ g.step = "reserving"
      BY <1>2, <2>3, CheckTypes
    <3>2. signed[h.request].price = Price
      BY <1>2, <2>3, CheckTypes
    <3> QED
      BY <2>1, <3>1, <3>2 DEF storageVars, HasStatus, Price
  <2> QED
    BY <2>2, <2>3
<1>3. ASSUME NEW rs \in RuleSets, Deploy(rs)
      PROVE  Quiet
  BY <1>3, DeployTypes DEF storageVars, HasStatus
<1>4. CASE TopUp \/ Reap
  BY <1>4, Housekeeping DEF clientVars, serverVars, Price
<1> QED
  BY <1>1, <1>2, <1>3, <1>4

\* A granted reservation is the first row of its requestId: no other handler
\* can be ahead of it.
LEMMA ReservesService ==
  ASSUME Types, Types', Service, NEW h \in handlers, Reserve(h) \/ ReserveUnheard(h)
  PROVE  Service'
<1>0. /\ UNCHANGED <<signed, rules, served>> /\ h.request \in RequestIds
      /\ OnlyRow(h.request)
  BY ReserveTypes, UnheardTypes DEF Types, IsHandler
<1>1. /\ spent'[h.request] = NoRow => spent[h.request] = NoRow
      /\ HasStatus(h.request, "committed")' => HasStatus(h.request, "committed")
  BY ReserveTypes, UnheardTypes DEF HasStatus
<1>2. \A q \in RequestIds : /\ spent'[q] = NoRow => spent[q] = NoRow
                            /\ HasStatus(q, "committed")' => HasStatus(q, "committed")
  BY <1>0, <1>1 DEF OnlyRow, HasStatus
<1>3. CASE handlers' = handlers \ {h}
  <2>1. Quiet
    BY <1>0, <1>2, <1>3 DEF Quiet, Service, ReservesSigned, Price
  <2> QED
    BY <2>1, QuietKeepsService
<1>4. CASE handlers' # handlers \ {h}
  <2>1. PICK g : /\ handlers' = (handlers \ {h}) \cup {g}
                 /\ IsHandler(g) /\ g.request = h.request /\ g.step = "forwarding"
    BY <1>4, ReserveTypes, UnheardTypes
  <2>2. spent[h.request] = NoRow /\ HasStatus(h.request, "reserved")'
    BY <1>4, ReserveTypes, UnheardTypes
  <2>3. served[h.request] = << >> /\ spent'[h.request] # NoRow
    BY <1>0, <2>2 DEF Service, RowsBeforeService, HasStatus
  <2>4. \A k \in handlers : k.request = h.request => k.step \notin {"forwarding", "settling"}
    BY <2>2 DEF Service, RowsBeforeService
  <2>5. ReservesSigned'
    BY <1>0, <2>1 DEF Service, ReservesSigned, Price
  <2>6. RowsBeforeService'
    BY <1>0, <1>2, <2>1, <2>3 DEF Service, RowsBeforeService, Types, IsHandler
  <2>7. OneForwards'
    BY <1>0, <2>1, <2>3, <2>4 DEF Service, OneForwards
  <2>8. SettlesServed'
    BY <1>0, <2>1 DEF Service, SettlesServed
  <2>9. ServedAtMostOnce' /\ ChargedOnlyIfServed'
    BY <1>0, <1>2 DEF Service, ServedAtMostOnce, ChargedOnlyIfServed
  <2> QED
    BY <2>5, <2>6, <2>7, <2>8, <2>9 DEF Service
<1> QED
  BY <1>3, <1>4

\* The one handler that forwards is the first to do so.
LEMMA ForwardsService ==
  ASSUME Types, Types', Service, NEW h \in handlers, Forward(h)
  PROVE  Service'
<1> DEFINE r == h.request
<1>0. /\ h.step = "forwarding" /\ r \in RequestIds
      /\ UNCHANGED <<spent, signed, rules>>
  BY ForwardTypes DEF storageVars, Types, IsHandler
<1>0a. PICK outcome \in Outcomes : \E g :
         /\ served' = [served EXCEPT ![r] = Append(@, outcome)]
         /\ handlers' = (handlers \ {h}) \cup {g}
         /\ g.request = r /\ g.step = "settling" /\ g.outcome = outcome
  BY ForwardTypes
<1>1. PICK g :
        /\ served' = [served EXCEPT ![r] = Append(@, outcome)]
        /\ handlers' = (handlers \ {h}) \cup {g}
        /\ g.request = r /\ g.step = "settling" /\ g.outcome = outcome
  BY <1>0a
<1>2. served[r] = << >> /\ spent[r] # NoRow
  BY <1>0 DEF Service, OneForwards, RowsBeforeService
<1>3. /\ served'[r] = <<outcome>>
      /\ \A q \in RequestIds : q # r => served'[q] = served[q]
  BY <1>0, <1>1, <1>2 DEF Types
<1>4. /\ Len(served'[r]) = 1
      /\ 1 \in DOMAIN served'[r] /\ served'[r][1] = outcome
  BY <1>3
<1>5. \A k \in handlers \ {h} : k.step = "forwarding" => k.request # r
  BY <1>0 DEF Service, OneForwards
<1>6. ReservesSigned'
  BY <1>0, <1>1 DEF Service, ReservesSigned, Price
<1>7. RowsBeforeService'
  BY <1>0, <1>1, <1>2, <1>3 DEF Service, RowsBeforeService
<1>8. OneForwards'
  BY <1>1, <1>3, <1>5 DEF Service, OneForwards, Types, IsHandler
<1>9. SettlesServed'
  <2>1. ASSUME NEW k \in handlers', k.step = "settling"
        PROVE  \E n \in DOMAIN served'[k.request] : served'[k.request][n] = k.outcome
    <3>1. CASE k = g
      BY <1>1, <1>4, <3>1
    <3>2. CASE k \in handlers /\ k.request = r
      BY <1>2, <2>1, <3>2 DEF Service, SettlesServed
    <3>3. CASE k \in handlers /\ k.request # r
      BY <1>3, <2>1, <3>3 DEF Service, SettlesServed, Types, IsHandler
    <3> QED
      BY <1>1, <3>1, <3>2, <3>3
  <2> QED
    BY <2>1 DEF SettlesServed
<1>10. ServedAtMostOnce'
  <2>1. ASSUME NEW q \in RequestIds
        PROVE  Len(served'[q]) <= 1
    <3>1. CASE q = r
      <4>1. Len(served'[r]) <= 1
        BY <1>4
      <4> QED
        BY <3>1, <4>1
    <3>2. CASE q # r
      BY <1>3, <3>2 DEF Service, ServedAtMostOnce
    <3> QED
      BY <3>1, <3>2
  <2> QED
    BY <2>1 DEF ServedAtMostOnce
<1>11. ChargedOnlyIfServed'
  BY <1>0, <1>2, <1>3 DEF Service, ChargedOnlyIfServed, HasStatus
<1> QED
  BY <1>6, <1>7, <1>8, <1>9, <1>10, <1>11 DEF Service

\* Phase 2 charges by the answer the handler has seen.
LEMMA SettlesService ==
  ASSUME Types, Types', Service, NEW h \in handlers, Settle(h)
  PROVE  Service'
<1> DEFINE r == h.request
<1>0. /\ h.step = "settling" /\ r \in RequestIds /\ OnlyRow(r)
      /\ UNCHANGED <<signed, rules, served>>
      /\ handlers' = handlers \ {h}
      /\ \/ UNCHANGED spent
         \/ /\ spent'[r] # NoRow
            /\ HasStatus(r, "committed")' => h.outcome \in Definitive
  BY SettleTypes DEF Types, IsHandler
<1>1. \E n \in DOMAIN served[r] : served[r][n] = h.outcome
  BY <1>0 DEF Service, SettlesServed
<1>2. \A q \in RequestIds : spent'[q] = NoRow => spent[q] = NoRow
  BY <1>0 DEF OnlyRow
<1>3. ChargedOnlyIfServed'
  <2>1. ASSUME NEW q \in RequestIds, HasStatus(q, "committed")'
        PROVE  \E n \in DOMAIN served[q] : served[q][n] \in Definitive
    <3>1. CASE HasStatus(q, "committed")
      BY <3>1 DEF Service, ChargedOnlyIfServed
    <3>2. CASE ~HasStatus(q, "committed")
      <4>1. q = r /\ h.outcome \in Definitive
        BY <1>0, <2>1, <3>2 DEF OnlyRow, HasStatus
      <4> QED
        BY <1>1, <4>1
    <3> QED
      BY <3>1, <3>2
  <2> QED
    BY <1>0, <2>1 DEF ChargedOnlyIfServed
<1>4. ReservesSigned' /\ OneForwards' /\ SettlesServed' /\ ServedAtMostOnce'
  BY <1>0 DEF Service, ReservesSigned, OneForwards, SettlesServed, ServedAtMostOnce, Price
<1>5. RowsBeforeService'
  BY <1>0, <1>2 DEF Service, RowsBeforeService, Types, IsHandler
<1> QED
  BY <1>3, <1>4, <1>5 DEF Service

\* Every step keeps the chain.
LEMMA ServiceKept ==
  ASSUME Types, Types', Service, PaidNext
  PROVE  Service'
<1>1. CASE Quiet
  BY <1>1, QuietKeepsService
<1>2. ASSUME NEW h \in handlers,
             Reserve(h) \/ ReserveUnheard(h) \/ Forward(h) \/ Settle(h)
      PROVE  Service'
  BY <1>2, ReservesService, ForwardsService, SettlesService
<1> QED
  BY <1>1, <1>2, ClientIsQuiet, OthersAreQuiet DEF PaidNext, HandlerStep, Replied

\* Stuttering changes nothing.
LEMMA StutterKeeps ==
  ASSUME Types, Service, UNCHANGED vars
  PROVE  Types' /\ Service'
<1>1. Types'
  BY DEF vars, storageVars, clientVars, serverVars, Types, ExpiredRows, CallsTyped, CallsSigned, In
<1>2. Service'
  BY DEF vars, storageVars, clientVars, serverVars, Service, ReservesSigned, RowsBeforeService,
         OneForwards, SettlesServed, ServedAtMostOnce, ChargedOnlyIfServed, HasStatus, Price
<1> QED
  BY <1>1, <1>2

\* The rows, calls and handlers of every reachable state are well formed, and the
\* chain from a signature over a reservation to a served request is unbroken.
THEOREM PaidServiceInvariant == PaidSpec => [](Types /\ Service)
<1>1. PaidInit => Types /\ Service
  BY TypesInit, ServiceInit
<1>2. Types /\ Service /\ [PaidNext]_vars => (Types /\ Service)'
  BY TypesKept, ServiceKept, StutterKeeps
<1> QED
  BY <1>1, <1>2, PTL DEF PaidSpec

\* A paid service runs at most once per requestId, for any number of copies,
\* retries, lost answers, restarts and reaps.
THEOREM PaidServedAtMostOnce == PaidSpec => []ServedAtMostOnce
<1>1. Types /\ Service => ServedAtMostOnce
  BY DEF Service
<1> QED
  BY <1>1, PaidServiceInvariant, PTL

\* Only a request the service has answered below 500 is ever charged.
THEOREM PaidChargedOnlyIfServed == PaidSpec => []ChargedOnlyIfServed
<1>1. Types /\ Service => ChargedOnlyIfServed
  BY DEF Service
<1> QED
  BY <1>1, PaidServiceInvariant, PTL

-----------------------------------------------------------------------------
(* One call pays at most once.                                             *)

\* Nothing on its way can charge this requestId any more.
Unpayable(r) ==
  /\ ~HasStatus(r, "committed")
  /\ \A h \in handlers : h.request = r =>
       /\ h.step \notin {"forwarding", "settling"}
       /\ spent[r] = NoRow => /\ h.step # "reserving"
                              /\ h.step = "arriving" => signed[r].price # Price

\* A call whose last requestId may still be charged, or has been.
Pending(t) ==
  /\ call[t].step \in {"wait", "answered", "read", "returned", "thrown"}
  /\ call[t].step \in {"answered", "read", "returned"} => call[t].status \notin {"mismatch", "refused"}

Payable(r) == LET t == signed[r].tool IN Pending(t) /\ r = call[t].request

\* Of the requestIds a call has signed, only the latest may be charged, and none
\* when it is about to sign another.
OnlyLatestPayable ==
  \A r \in RequestIds : signed[r] # NoRow => Unpayable(r) \/ Payable(r)

\* Every signature is a tool call's.
LEMMA ToolOf ==
  ASSUME Types, NEW r \in RequestIds, signed[r] # NoRow
  PROVE  signed[r].tool \in Tools
  BY DEF Types, SignedRow

\* Initially nothing is signed.
LEMMA PaysInit == PaidInit => OnlyLatestPayable
  BY DEF PaidInit, OnlyLatestPayable

\* An answer that is no offer to sign again leaves the latest request payable.
LEMMA AnsweredPays ==
  ASSUME Types, UNCHANGED signed, NEW h, NEW status, CallsAnswered(h, status),
         NEW r \in RequestIds, signed[r] # NoRow, Payable(r),
         status \notin {"mismatch", "refused"} \/ h.request # r
  PROVE  Payable(r)'
<1> DEFINE t == signed[r].tool
<1>1. t \in Tools
  BY ToolOf
<1>2. \/ call'[t] = call[t]
      \/ /\ call[t].request = h.request
         /\ call'[t].step = "answered" /\ call'[t].status = status
         /\ call'[t].request = call[t].request
  BY <1>1 DEF CallsAnswered
<1> QED
  BY <1>1, <1>2 DEF Payable, Pending, In

\* No step but a signature makes a requestId payable that was not.
LEMMA UnpayableKept ==
  ASSUME Types, Service, NEW r \in RequestIds, signed[r] # NoRow, signed'[r] = signed[r],
         Unpayable(r), UNCHANGED rules,
         spent'[r] = NoRow => spent[r] = NoRow,
         HasStatus(r, "committed")' => HasStatus(r, "committed"),
         \A g \in handlers' : g.request = r => g \in handlers \/ g.step = "orphaned"
  PROVE  Unpayable(r)'
  BY DEF Unpayable, Price

\* The client signs anew only where its last requestId is unpayable, and sends
\* again only the requestId it waits for.
LEMMA ToolPays ==
  ASSUME Types, Service, OnlyLatestPayable, NEW t \in Tools, ToolStep(t)
  PROVE  OnlyLatestPayable'
<1>0. UNCHANGED <<spent, rules>>
  BY ClientLeaves DEF storageVars
<1>1. CASE LocalStep(t)
  <2>1. /\ Pending(t) => Pending(t)' /\ call'[t].request = call[t].request
        /\ \A s \in Tools : s # t => /\ Pending(s)' = Pending(s)
                                     /\ call'[s].request = call[s].request
        /\ UNCHANGED <<signed, handlers>>
    <3>1. Pending(t) => Pending(t)' /\ call'[t].request = call[t].request
      <4> USE DEF Pending, In, Types, CallsTyped, IsCall, CallFields
      <4>1. CASE Probe(t) \/ NothingToPay(t) \/ Decline(t) \/ Admit(t) \/ Challenge(t)
        BY <4>1 DEF Probe, NothingToPay, Decline, Admit, Challenge
      <4>2. CASE CountSpend(t) \/ Throw(t) \/ ReturnAnswer(t)
        BY <4>2 DEF CountSpend, Throw, ReturnAnswer
      <4>3. CASE Handle402(t)
        BY <4>3 DEF Handle402, PaymentRequired, Unparsable, Recoverable
      <4> QED
        BY <1>1, <4>1, <4>2, <4>3 DEF LocalStep
    <3> QED
      BY <1>1, <3>1, LocalTypes DEF Pending, In
  <2>2. ASSUME NEW r \in RequestIds, signed[r] # NoRow
        PROVE  Unpayable(r)' \/ Payable(r)'
    <3>1. CASE Unpayable(r)
      BY <1>0, <2>1, <3>1 DEF Unpayable, Price, HasStatus
    <3>2. CASE Payable(r)
      BY <2>1, <2>2, <3>2, ToolOf DEF Payable
    <3> QED
      BY <2>2, <3>1, <3>2 DEF OnlyLatestPayable
  <2> QED
    BY <2>1, <2>2 DEF OnlyLatestPayable
<1>2. CASE SignAndSend(t)
  <2>1. PICK r \in RequestIds :
          /\ signed[r] = NoRow
          /\ \A q \in RequestIds : q # r => signed'[q] = signed[q]
          /\ signed'[r] # NoRow /\ signed'[r].tool = t
          /\ call'[t].step = "wait" /\ call'[t].request = r
          /\ handlers' = handlers \cup {Arriving(r, 0)}
    BY <1>2, SentTypes
  <2>2. \A s \in Tools : s # t => call'[s] = call[s]
    BY <1>2, SentTypes
  <2>3. Payable(r)'
    BY <2>1 DEF Payable, Pending, In
  <2>4. ~Pending(t)
    BY <1>2 DEF SignAndSend, Pending, In
  <2>5. ASSUME NEW q \in RequestIds, q # r, signed[q] # NoRow
        PROVE  Unpayable(q)' \/ Payable(q)'
    <3>1. CASE Unpayable(q)
      BY <1>0, <2>1, <2>5, <3>1, UnpayableKept, ArrivingIsHandler DEF HasStatus
    <3>2. CASE Payable(q)
      <4>1. signed[q].tool \in Tools /\ signed[q].tool # t
        BY <2>4, <2>5, <3>2, ToolOf DEF Payable
      <4> QED
        BY <2>1, <2>2, <2>5, <3>2, <4>1 DEF Payable, Pending, In
    <3> QED
      BY <2>5, <3>1, <3>2 DEF OnlyLatestPayable
  <2> QED
    BY <2>1, <2>3, <2>5 DEF OnlyLatestPayable
<1>3. CASE /\ Resend(t)
           /\ \/ In(t, "wait")
              \/ In(t, "answered") /\ call[t].status \in {"unavailable", "throttled"}
  <2>1. /\ call[t].request \in RequestIds /\ signed[call[t].request] # NoRow
        /\ signed[call[t].request].tool = t
    BY <1>3 DEF Types, CallsSigned
  <2>2. /\ call'[t].step = "wait" /\ call'[t].request = call[t].request
        /\ \A s \in Tools : s # t => call'[s] = call[s]
        /\ handlers' = handlers \cup {Arriving(call[t].request, call[t].attempt + 1)}
        /\ UNCHANGED signed
    BY <1>3, ResentTypes
  <2>3. Payable(call[t].request)'
    BY <2>1, <2>2 DEF Payable, Pending, In
  <2>4. ASSUME NEW q \in RequestIds, q # call[t].request, signed[q] # NoRow
        PROVE  Unpayable(q)' \/ Payable(q)'
    <3>1. CASE Unpayable(q)
      BY <1>0, <2>1, <2>2, <2>4, <3>1, UnpayableKept, ArrivingIsHandler DEF HasStatus
    <3>2. CASE Payable(q)
      <4>1. signed[q].tool \in Tools /\ signed[q].tool # t
        BY <2>4, <3>2, ToolOf DEF Payable
      <4> QED
        BY <2>2, <3>2, <4>1 DEF Payable, Pending, In
    <3> QED
      BY <2>4, <3>1, <3>2 DEF OnlyLatestPayable
  <2> QED
    BY <2>2, <2>3, <2>4 DEF OnlyLatestPayable
<1>4. CASE NetworkError(t) /\ call' = [call EXCEPT ![t].step = "thrown"] /\ UNCHANGED <<signed, handlers>>
  <2>1. /\ Pending(t)' /\ \A s \in Tools : s # t => call'[s] = call[s]
        /\ call'[t].request = call[t].request
    BY <1>4 DEF Pending, In, Types, CallsTyped, IsCall, CallFields
  <2>2. ASSUME NEW q \in RequestIds, signed[q] # NoRow
        PROVE  Unpayable(q)' \/ Payable(q)'
    <3>1. CASE Unpayable(q)
      BY <1>0, <1>4, <3>1 DEF Unpayable, Price, HasStatus
    <3>2. CASE Payable(q)
      BY <1>4, <2>1, <2>2, <3>2, ToolOf DEF Payable, Pending, In
    <3> QED
      BY <2>2, <3>1, <3>2 DEF OnlyLatestPayable
  <2> QED
    BY <1>4, <2>2 DEF OnlyLatestPayable
<1>5. LocalStep(t) \/ SignAndSend(t) \/ NetworkError(t) \/ RetryTransient(t)
  BY DEF ToolStep, LocalStep
<1>6. CASE NetworkError(t)
  <2>1. CASE Resend(t)
    BY <1>3, <1>6, <2>1 DEF NetworkError
  <2>2. CASE ~Resend(t)
    BY <1>4, <1>6, <2>2 DEF NetworkError
  <2> QED
    BY <2>1, <2>2
<1>7. CASE RetryTransient(t)
  BY <1>3, <1>7 DEF RetryTransient
<1> QED
  BY <1>1, <1>2, <1>5, <1>6, <1>7

\* A handler's steps: a requestId that was payable stays so, unless the payer was
\* just offered to sign another, which is then the end of this one.
LEMMA HandlerPays ==
  ASSUME Types, Types', Service, OnlyLatestPayable, NEW h \in handlers, HandlerStep(h)
  PROVE  OnlyLatestPayable'
<1> DEFINE r == h.request
<1>0. r \in RequestIds /\ signed[r] # NoRow /\ IsHandler(h) /\ UNCHANGED <<signed, rules>>
  BY RepliedTypes, CheckTypes, DiesTypes, ReserveTypes, UnheardTypes, ForwardTypes, SettleTypes
  DEF Types, IsHandler, HandlerStep, Replied, clientVars
<1>1. CASE Replied(h) \/ HandlerDies(h)
  <2>1. UNCHANGED spent /\ \A g \in handlers' : g \in handlers \/ g.step = "orphaned"
    BY <1>1, RepliedTypes, DiesTypes DEF storageVars
  <2>2. \E status : CallsAnswered(h, status) /\ status \notin {"mismatch", "refused"}
    <3>1. CASE Replied(h)
      BY <3>1, RepliedTypes
    <3>2. CASE HandlerDies(h)
      <4>1. CallsAnswered(h, "none")
        BY <3>2, DiesTypes DEF clientVars, CallsAnswered
      <4> QED
        BY <4>1
    <3> QED
      BY <1>1, <3>1, <3>2
  <2> QED
    BY <1>0, <2>1, <2>2, UnpayableKept, AnsweredPays DEF OnlyLatestPayable, HasStatus
<1>2. CASE CheckPayment(h)
  <2>1. UNCHANGED spent
    BY <1>2, CheckTypes DEF storageVars
  <2>2. CASE handlers' = handlers \ {h}
    <3>1. PICK status : /\ CallsAnswered(h, status) /\ status # "refused"
                        /\ status = "mismatch" =>
                             spent[r] = NoRow /\ signed[r].price # Price
      <4>1. CASE UNCHANGED call
        <5>1. CallsAnswered(h, "none")
          BY <4>1 DEF CallsAnswered
        <5> QED
          BY <5>1
      <4> QED
        BY <1>2, <4>1, CheckTypes
    <3>2. CASE status # "mismatch"
      BY <1>0, <2>1, <2>2, <3>1, <3>2, UnpayableKept, AnsweredPays DEF OnlyLatestPayable, HasStatus
    <3>3. CASE status = "mismatch"
      <4>1. spent[r] = NoRow /\ signed[r].price # Price
        BY <3>1, <3>3
      <4>2. Unpayable(r)
        <5>1. \A k \in handlers : k.request = r => k.step \notin {"forwarding", "settling", "reserving"}
          BY <4>1 DEF Service, RowsBeforeService, ReservesSigned
        <5> QED
          BY <4>1, <5>1 DEF Unpayable, HasStatus
      <4> QED
        BY <1>0, <2>1, <2>2, <3>1, <4>2, UnpayableKept, AnsweredPays DEF OnlyLatestPayable, HasStatus
    <3> QED
      BY <3>2, <3>3
  <2>3. CASE handlers' # handlers \ {h}
    <3>1. PICK g : /\ handlers' = (handlers \ {h}) \cup {g}
                   /\ g.request = r /\ g.step = "reserving"
      BY <1>2, <2>3, CheckTypes
    <3>2. UNCHANGED call /\ signed[r].price = Price /\ h.step = "arriving"
      BY <1>2, <2>3, CheckTypes DEF CheckPayment
    <3> QED
      BY <1>0, <2>1, <3>1, <3>2
      DEF OnlyLatestPayable, Unpayable, Payable, Pending, In, HasStatus, Price
  <2> QED
    BY <2>2, <2>3
<1>3. CASE Reserve(h) \/ ReserveUnheard(h)
  <2>1. /\ OnlyRow(r)
        /\ spent'[r] = NoRow => spent[r] = NoRow
        /\ ~HasStatus(r, "committed") => ~HasStatus(r, "committed")'
    BY <1>3, ReserveTypes, UnheardTypes DEF HasStatus
  <2>2. CASE handlers' = handlers \ {h}
    <3>1. PICK status : /\ CallsAnswered(h, status) /\ status # "mismatch"
                        /\ status = "refused" => spent[r] = NoRow
      <4>1. CASE UNCHANGED call
        <5>1. CallsAnswered(h, "none")
          BY <4>1 DEF CallsAnswered
        <5> QED
          BY <5>1
      <4>2. CASE ReserveUnheard(h)
        BY <4>2, UnheardTypes
      <4> QED
        BY <1>3, <4>1, <4>2, ReserveTypes
    <3>2. ASSUME NEW q \in RequestIds, signed[q] # NoRow, Unpayable(q)
          PROVE  Unpayable(q)'
      BY <1>0, <2>1, <2>2, <3>2, UnpayableKept DEF OnlyRow, HasStatus
    <3>3. CASE status # "refused"
      BY <1>0, <3>1, <3>2, <3>3, AnsweredPays DEF OnlyLatestPayable
    <3>4. CASE status = "refused"
      <4>1. spent[r] = NoRow
        BY <3>1, <3>4
      <4>2. Unpayable(r)'
        <5>1. \A k \in handlers : k.request = r => k.step \notin {"forwarding", "settling"}
          BY <4>1 DEF Service, RowsBeforeService
        <5>2. spent'[r] # NoRow /\ ~HasStatus(r, "committed")'
          BY <1>3, <2>2, <4>1, ReserveTypes, UnheardTypes DEF HasStatus
        <5> QED
          BY <2>2, <5>1, <5>2 DEF Unpayable
      <4> QED
        BY <1>0, <3>1, <3>2, <4>2, AnsweredPays DEF OnlyLatestPayable
    <3> QED
      BY <3>3, <3>4
  <2>3. CASE handlers' # handlers \ {h}
    <3>1. PICK g : /\ handlers' = (handlers \ {h}) \cup {g}
                   /\ g.request = r /\ g.step = "forwarding"
      BY <1>3, <2>3, ReserveTypes, UnheardTypes
    <3>2. UNCHANGED call /\ spent[r] = NoRow /\ h.step = "reserving"
      BY <1>3, <2>3, ReserveTypes, UnheardTypes
    <3>3. ~Unpayable(r)
      BY <3>2 DEF Unpayable
    <3>4. ASSUME NEW q \in RequestIds, q # r, Unpayable(q)
          PROVE  Unpayable(q)'
      BY <1>0, <2>1, <3>1, <3>4 DEF Unpayable, OnlyRow, HasStatus, Price
    <3> QED
      BY <1>0, <3>2, <3>3, <3>4 DEF OnlyLatestPayable, Payable, Pending, In
  <2> QED
    BY <2>2, <2>3
<1>4. CASE Forward(h) \/ Settle(h)
  <2>1. ~Unpayable(r)
    BY <1>4, ForwardTypes, SettleTypes DEF Unpayable
  <2>2. OnlyRow(r)
    BY <1>4, ForwardTypes, SettleTypes DEF OnlyRow, storageVars
  <2>3. \A g \in handlers' : g \in handlers \/ g.request = r
    BY <1>4, ForwardTypes, SettleTypes
  <2>4. \E status : CallsAnswered(h, status) /\ status \notin {"mismatch", "refused"}
    <3>1. CASE UNCHANGED call
      <4>1. CallsAnswered(h, "none")
        BY <3>1 DEF CallsAnswered
      <4> QED
        BY <4>1
    <3>2. CASE Settle(h)
      <4>1. h.outcome \in Outcomes
        BY <1>0, <3>2, SettleTypes DEF Service, SettlesServed, Types
      <4>2. h.outcome \notin {"mismatch", "refused"}
        BY <4>1, PaidAssumption
      <4> QED
        BY <3>1, <3>2, <4>2, SettleTypes
    <3> QED
      BY <1>4, <3>2, ForwardTypes
  <2>5. ASSUME NEW q \in RequestIds, q # r, Unpayable(q)
        PROVE  Unpayable(q)'
    BY <1>0, <2>2, <2>3, <2>5 DEF Unpayable, OnlyRow, HasStatus, Price
  <2> QED
    BY <1>0, <2>1, <2>4, <2>5, AnsweredPays DEF OnlyLatestPayable
<1> QED
  BY <1>1, <1>2, <1>3, <1>4 DEF HandlerStep, Replied

\* The client forgets a requirement, a deposit arrives, the reaper refunds, or the
\* resource server is restarted: no request gets further.
LEMMA OthersPay ==
  ASSUME Types, Service, OnlyLatestPayable,
         ForgetAccepts \/ TopUp \/ Reap \/ \E rs \in RuleSets : Deploy(rs)
  PROVE  OnlyLatestPayable'
<1>1. /\ UNCHANGED signed
      /\ \A t \in Tools : /\ call'[t].step = call[t].step
                          /\ call'[t].status = call[t].status
                          /\ call'[t].request = call[t].request
      /\ \A q \in RequestIds : /\ spent'[q] = NoRow => spent[q] = NoRow
                               /\ HasStatus(q, "committed")' => HasStatus(q, "committed")
      /\ \/ UNCHANGED <<rules, handlers>>
         \/ \A g \in handlers' : g.step = "orphaned"
  <2>1. CASE ForgetAccepts
    BY <2>1 DEF ForgetAccepts, storageVars, serverVars, HasStatus
  <2>2. CASE TopUp \/ Reap
    BY <2>2, Housekeeping DEF clientVars, serverVars
  <2>3. ASSUME NEW rs \in RuleSets, Deploy(rs)
        PROVE  /\ UNCHANGED <<storageVars, signed>>
               /\ \A t \in Tools : /\ call'[t].step = call[t].step
                                   /\ call'[t].status = call[t].status
                                   /\ call'[t].request = call[t].request
               /\ \A g \in handlers' : g.step = "orphaned"
    BY <2>3, DeployTypes
  <2> QED
    BY <2>1, <2>2, <2>3 DEF storageVars, HasStatus
<1>2. ASSUME NEW r \in RequestIds, signed[r] # NoRow
      PROVE  Unpayable(r)' \/ Payable(r)'
  <2>1. CASE Unpayable(r)
    BY <1>1, <2>1 DEF Unpayable, Price
  <2>2. CASE Payable(r)
    BY <1>1, <1>2, <2>2, ToolOf DEF Payable, Pending, In
  <2> QED
    BY <1>2, <2>1, <2>2 DEF OnlyLatestPayable
<1> QED
  BY <1>1, <1>2 DEF OnlyLatestPayable

\* Every step keeps all but the latest requestId unpayable.
LEMMA PaysKept ==
  ASSUME Types, Types', Service, OnlyLatestPayable, [PaidNext]_vars
  PROVE  OnlyLatestPayable'
<1>1. CASE PaidNext
  BY <1>1, ToolPays, HandlerPays, OthersPay DEF PaidNext
<1>2. CASE UNCHANGED vars
  BY <1>2
  DEF vars, storageVars, clientVars, serverVars, OnlyLatestPayable, Unpayable, Payable, Pending,
      In, HasStatus, Price
<1> QED
  BY <1>1, <1>2

\* So at most one requestId of a call is committed.
LEMMA PaysOnce ==
  ASSUME Types, OnlyLatestPayable
  PROVE  OnePaymentPerCall
<1> SUFFICES ASSUME NEW t \in Tools
             PROVE  Cardinality({r \in RequestsOf(t) : HasStatus(r, "committed")}) <= 1
  BY DEF OnePaymentPerCall
<1> DEFINE paid == {r \in RequestsOf(t) : HasStatus(r, "committed")}
<1>1. paid \subseteq {call[t].request}
  BY DEF RequestsOf, OnlyLatestPayable, Unpayable, Payable
<1>2. IsFiniteSet({call[t].request}) /\ Cardinality({call[t].request}) = 1
  BY FS_Singleton
<1>3. Cardinality(paid) <= Cardinality({call[t].request})
  BY <1>1, <1>2, FS_Subset
<1> QED
  BY <1>2, <1>3

LEMMA OnlyLatestAlways == PaidSpec => []OnlyLatestPayable
<1>1. PaidInit => OnlyLatestPayable
  BY PaysInit
<1>2. (Types /\ Service) /\ (Types /\ Service)' /\ OnlyLatestPayable /\ [PaidNext]_vars
        => OnlyLatestPayable'
  BY PaysKept
<1> QED
  BY <1>1, <1>2, PaidServiceInvariant, PTL DEF PaidSpec

\* One call of paidFetch pays at most once, for any number of its retries, price
\* changes, lost answers and calls beside it: of the requestIds it has signed
\* only the latest can still be charged.
THEOREM PaidOnePaymentPerCall == PaidSpec => []OnePaymentPerCall
<1>1. Types /\ Service /\ OnlyLatestPayable => OnePaymentPerCall
  BY PaysOnce
<1> QED
  BY <1>1, OnlyLatestAlways, PaidServiceInvariant, PTL

-----------------------------------------------------------------------------
(* Prices: what a call was told the route costs, and what it signs.        *)

\* What a call knows of the price while no restart has come in between: it has
\* probed the price of the running server and found it within the cap, signs it
\* unless it goes by the cache, and is offered it by every refusal.
PricedCall(t) ==
  LET c == call[t] IN
  /\ c.step = "idle" => c = NoCall
  /\ c.probed \in Nat /\ c.attempt \in 0..MaxRetries
  /\ c.recovery \in 0..PriceRetries + 1
  /\ c.fromCache \/ c.step = "probed" => c.recovery = 0
  /\ Open(t) /\ ~c.moved => Price = c.probed
  /\ c.step \in {"challenge", "sign", "wait", "answered", "read"} => c.probed <= MaxPerRequest
  /\ c.step \in {"sign", "wait", "answered"} =>
       c.price \in Prices /\ (~c.moved /\ ~c.fromCache => c.price = Price)
  /\ c.step \in {"wait", "answered"} => signed[c.request].price = c.price
  /\ c.step = "answered" /\ c.status \in {"mismatch", "refused"} =>
       c.offered \in Prices /\ (~c.moved => c.offered = Price)
  /\ c.step = "answered" /\ c.status = "mismatch" /\ ~c.moved => c.fromCache
  /\ c.step \in {"read", "returned"} /\ c.status = "mismatch" => c.moved
  /\ c.status = "payment" => c.step \in {"answered", "read", "returned", "thrown"}

\* A handler past the checks reserves the price that was signed; it is the one
\* of the running server unless the server has died in between.
PricedHandler(h) ==
  /\ h.attempt \in 0..MaxRetries
  /\ h.step \in {"reserving", "forwarding", "settling"} => h.price = Price /\ h.price \in Prices
  /\ h.step # "arriving" => h.price = signed[h.request].price
  /\ h.step # "orphaned" /\ ~call[signed[h.request].tool].moved =>
       Price = call[signed[h.request].tool].probed
  /\ h.step # "arriving" /\ ~call[signed[h.request].tool].moved =>
       signed[h.request].price = call[signed[h.request].tool].probed

\* A row holds the price that was signed, which is the one the call had probed if
\* the price stood still.
PricedRow(r) ==
  /\ signed[r] # NoRow =>
       ~In(signed[r].tool, "idle") /\ call[signed[r].tool].probed <= MaxPerRequest
  /\ spent[r] # NoRow => signed[r] # NoRow /\ spent[r].amount = signed[r].price
  /\ spent[r] # NoRow /\ ~call[signed[r].tool].moved =>
       signed[r].price = call[signed[r].tool].probed

Priced ==
  /\ accepts \in Prices \cup {NoRow}
  /\ \A t \in Tools : PricedCall(t)
  /\ \A h \in handlers : PricedHandler(h)
  /\ \A r \in RequestIds : PricedRow(r)

\* A call that does not move knows what it knew, as long as the server runs.
LEMMA PricedStands ==
  ASSUME NEW t \in Tools, PricedCall(t), call'[t] = call[t], UNCHANGED rules,
         call[t].step \in {"wait", "answered"} =>
           signed'[call[t].request] = signed[call[t].request]
  PROVE  PricedCall(t)'
BY DEF PricedCall, Open, Price

\* The fields of a call an action leaves alone.
Keeps(t, fields) == \A f \in fields : call'[t][f] = call[t][f]

\* What each step of a tool call leaves in it.
LEMMA ToolMoves ==
  ASSUME Types, NEW t \in Tools
  PROVE  /\ Decline(t) \/ Throw(t) =>
              /\ Keeps(t, CallFields \ {"step"}) /\ call'[t].step \in {"declined", "thrown"}
              /\ ~In(t, "idle")
         /\ Admit(t) =>
              /\ Keeps(t, CallFields \ {"step", "fromCache", "price"}) /\ In(t, "probed")
              /\ Affordable(t)
              /\ \/ /\ accepts = NoRow /\ call'[t].step = "challenge" /\ call'[t].fromCache = FALSE
                 \/ /\ accepts # NoRow /\ call'[t].step = "sign" /\ call'[t].price = accepts
                    /\ call'[t].fromCache = TRUE
         /\ CountSpend(t) =>
              /\ Keeps(t, CallFields \ {"step"}) /\ In(t, "read") /\ call'[t].step = "returned"
         /\ Challenge(t) =>
              /\ In(t, "challenge")
              /\ \/ /\ Keeps(t, CallFields \ {"step", "price"}) /\ call'[t].step = "sign"
                    /\ Price # NoRow /\ call'[t].price = Price
                 \/ /\ Keeps(t, CallFields \ {"step", "status"}) /\ call'[t].step = "read"
                    /\ call'[t].status = "unpriced"
         /\ ReturnAnswer(t) =>
              /\ Keeps(t, CallFields \ {"step"}) /\ In(t, "answered") /\ call'[t].step = "read"
              /\ call[t].status \notin PaymentRequired
         /\ Handle402(t) =>
              /\ In(t, "answered") /\ call[t].status \in PaymentRequired
              /\ \/ /\ Keeps(t, CallFields \ {"step"}) /\ call'[t].step = "thrown"
                 \/ /\ Keeps(t, CallFields \ {"step"}) /\ call'[t].step = "read" /\ ~Recoverable(t)
                 \/ /\ Keeps(t, CallFields \ {"step", "price", "fromCache", "recovery"})
                    /\ Recoverable(t) /\ ~Unparsable(t)
                    /\ call'[t].step = "sign" /\ call'[t].price = call[t].offered
                    /\ call'[t].fromCache = FALSE /\ call'[t].recovery = call[t].recovery + 1
         /\ SignAndSend(t) =>
              /\ Keeps(t, CallFields \ {"step", "request", "attempt"}) /\ In(t, "sign")
              /\ call'[t].step = "wait" /\ call'[t].attempt = 0
              /\ signed'[call'[t].request] = [tool |-> t, price |-> call[t].price]
         /\ Resend(t) =>
              /\ Keeps(t, CallFields \ {"step", "attempt"}) /\ call'[t].step = "wait"
              /\ call[t].attempt < MaxRetries /\ call'[t].attempt = call[t].attempt + 1
<1> USE DEF Types, CallsTyped, IsCall, CallFields, Keeps, In
<1>1. Decline(t) \/ Throw(t) =>
        /\ Keeps(t, CallFields \ {"step"}) /\ call'[t].step \in {"declined", "thrown"}
        /\ ~In(t, "idle")
  BY DEF Decline, Throw
<1>2. Admit(t) =>
        /\ Keeps(t, CallFields \ {"step", "fromCache", "price"}) /\ In(t, "probed")
        /\ Affordable(t)
        /\ \/ /\ accepts = NoRow /\ call'[t].step = "challenge" /\ call'[t].fromCache = FALSE
           \/ /\ accepts # NoRow /\ call'[t].step = "sign" /\ call'[t].price = accepts
              /\ call'[t].fromCache = TRUE
  <2> SUFFICES ASSUME Admit(t)
               PROVE  /\ Keeps(t, CallFields \ {"step", "fromCache", "price"}) /\ In(t, "probed")
                      /\ Affordable(t)
                      /\ \/ /\ accepts = NoRow /\ call'[t].step = "challenge"
                            /\ call'[t].fromCache = FALSE
                         \/ /\ accepts # NoRow /\ call'[t].step = "sign"
                            /\ call'[t].price = accepts /\ call'[t].fromCache = TRUE
    OBVIOUS
  <2>1. PICK step, cached, price :
          /\ call' = [call EXCEPT ![t].step = step, ![t].fromCache = cached, ![t].price = price]
          /\ \/ accepts = NoRow /\ step = "challenge" /\ cached = FALSE
             \/ accepts # NoRow /\ step = "sign" /\ cached = TRUE /\ price = accepts
    <3>1. CASE accepts = NoRow
      BY <3>1 DEF Admit
    <3>2. CASE accepts # NoRow
      BY <3>2 DEF Admit
    <3> QED  BY <3>1, <3>2
  <2>2. In(t, "probed") /\ Affordable(t)
    BY DEF Admit
  <2> QED  BY <2>1, <2>2
<1>3. CountSpend(t) =>
        /\ Keeps(t, CallFields \ {"step"}) /\ In(t, "read") /\ call'[t].step = "returned"
  BY DEF CountSpend
<1>4. Challenge(t) =>
        /\ In(t, "challenge")
        /\ \/ /\ Keeps(t, CallFields \ {"step", "price"}) /\ call'[t].step = "sign"
              /\ Price # NoRow /\ call'[t].price = Price
           \/ /\ Keeps(t, CallFields \ {"step", "status"}) /\ call'[t].step = "read"
              /\ call'[t].status = "unpriced"
  BY DEF Challenge
<1>5. ReturnAnswer(t) =>
        /\ Keeps(t, CallFields \ {"step"}) /\ In(t, "answered") /\ call'[t].step = "read"
        /\ call[t].status \notin PaymentRequired
  BY DEF ReturnAnswer
<1>6. Handle402(t) =>
        /\ In(t, "answered") /\ call[t].status \in PaymentRequired
        /\ \/ /\ Keeps(t, CallFields \ {"step"}) /\ call'[t].step = "thrown"
           \/ /\ Keeps(t, CallFields \ {"step"}) /\ call'[t].step = "read" /\ ~Recoverable(t)
           \/ /\ Keeps(t, CallFields \ {"step", "price", "fromCache", "recovery"})
              /\ Recoverable(t) /\ ~Unparsable(t)
              /\ call'[t].step = "sign" /\ call'[t].price = call[t].offered
              /\ call'[t].fromCache = FALSE /\ call'[t].recovery = call[t].recovery + 1
  BY DEF Handle402, SignAgain
<1>7. SignAndSend(t) =>
        /\ Keeps(t, CallFields \ {"step", "request", "attempt"}) /\ In(t, "sign")
        /\ call'[t].step = "wait" /\ call'[t].attempt = 0
        /\ signed'[call'[t].request] = [tool |-> t, price |-> call[t].price]
  <2> SUFFICES ASSUME SignAndSend(t)
               PROVE  /\ Keeps(t, CallFields \ {"step", "request", "attempt"}) /\ In(t, "sign")
                      /\ call'[t].step = "wait" /\ call'[t].attempt = 0
                      /\ signed'[call'[t].request] = [tool |-> t, price |-> call[t].price]
    OBVIOUS
  <2> DEFINE r == Fresh
  <2>1. r \in RequestIds
    BY DEF SignAndSend, Fresh
  <2>2. /\ signed' = [signed EXCEPT ![r] = [tool |-> t, price |-> call[t].price]]
        /\ call' = [call EXCEPT ![t].step = "wait", ![t].request = r, ![t].attempt = 0]
        /\ In(t, "sign")
    BY DEF SignAndSend
  <2> HIDE DEF r
  <2>3. call'[t].request = r
    BY <2>2
  <2> QED  BY <2>1, <2>2, <2>3
<1>8. Resend(t) =>
        /\ Keeps(t, CallFields \ {"step", "attempt"}) /\ call'[t].step = "wait"
        /\ call[t].attempt < MaxRetries /\ call'[t].attempt = call[t].attempt + 1
  BY DEF Resend
<1> HIDE DEF Types, CallsTyped, IsCall, CallFields, Keeps, In
<1> QED  BY <1>1, <1>2, <1>3, <1>4, <1>5, <1>6, <1>7, <1>8

\* The first two steps of a call.
LEMMA Probes ==
  ASSUME Types, NEW t \in Tools
  PROVE  /\ Probe(t) =>
              /\ In(t, "idle") /\ call'[t].step = "probed" /\ Price # NoRow
              /\ call'[t].probed = Price
              /\ \A f \in CallFields \ {"step", "probed"} : call'[t][f] = NoCall[f]
         /\ NothingToPay(t) =>
              /\ Keeps(t, CallFields \ {"step"}) /\ In(t, "idle")
              /\ call'[t].step \in {"declined", "returned"}
<1>1. ASSUME Probe(t)
      PROVE  /\ In(t, "idle") /\ call'[t].step = "probed" /\ Price # NoRow
             /\ call'[t].probed = Price
             /\ \A f \in CallFields \ {"step", "probed"} : call'[t][f] = NoCall[f]
  <2>1. call'[t] = [NoCall EXCEPT !.step = "probed", !.probed = Price]
    BY <1>1 DEF Probe, Types, CallsTyped
  <2>2. DOMAIN NoCall = CallFields
    BY DEF NoCall, CallFields
  <2> QED  BY <1>1, <2>1, <2>2 DEF CallFields, Probe
<1>2. NothingToPay(t) =>
        /\ Keeps(t, CallFields \ {"step"}) /\ In(t, "idle")
        /\ call'[t].step \in {"declined", "returned"}
  BY DEF NothingToPay, Types, CallsTyped, IsCall, CallFields, Keeps
<1> QED  BY <1>1, <1>2

\* A step of one call is none of another.
LEMMA OthersStand ==
  ASSUME Types, NEW t \in Tools, ToolStep(t), NEW s \in Tools, s # t
  PROVE  call'[s] = call[s]
<1> USE DEF Types, CallsTyped
<1>1. CASE Probe(t)
  BY <1>1 DEF Probe
<1>2. CASE NothingToPay(t) \/ Decline(t) \/ Throw(t)
  BY <1>2 DEF NothingToPay, Decline, Throw
<1>3. CASE Admit(t)
  BY <1>3 DEF Admit
<1>4. CASE CountSpend(t) \/ Challenge(t)
  BY <1>4 DEF CountSpend, Challenge
<1>5. CASE NetworkError(t) \/ RetryTransient(t)
  BY <1>5 DEF NetworkError, RetryTransient, Resend
<1>6. CASE ReturnAnswer(t)
  BY <1>6 DEF ReturnAnswer
<1>7. CASE Handle402(t)
  BY <1>7 DEF Handle402, SignAgain
<1>8. CASE SignAndSend(t)
  BY <1>8, SentTypes
<1> QED  BY <1>1, <1>2, <1>3, <1>4, <1>5, <1>6, <1>7, <1>8 DEF ToolStep

\* A step of a call keeps what it knows of the price.
LEMMA OwnPriced ==
  ASSUME Types, Types', NEW t \in Tools, PricedCall(t), accepts \in Prices \cup {NoRow},
         ToolStep(t)
  PROVE  PricedCall(t)'
<1>0. Price' = Price
  BY ClientLeaves DEF Price
<1> USE PaidAssumption DEF Open, Ended, In, PaymentRequired
<1>1. CASE Probe(t)
  <2>1. /\ call'[t].step = "probed" /\ call'[t].probed = Price
        /\ \A f \in CallFields \ {"step", "probed"} : call'[t][f] = NoCall[f]
        /\ Price \in Nat
    BY <1>1, Probes, PriceIsNat
  <2>2. /\ call'[t].attempt = 0 /\ call'[t].recovery = 0 /\ call'[t].fromCache = FALSE
        /\ call'[t].status = "none"
    BY <2>1 DEF NoCall, CallFields
  <2> QED  BY <1>0, <2>1, <2>2 DEF PricedCall
<1>2. CASE NothingToPay(t)
  <2>1. /\ call[t] = NoCall /\ call'[t].step \in {"declined", "returned"}
        /\ call'[t].probed = call[t].probed /\ call'[t].price = call[t].price
        /\ call'[t].fromCache = call[t].fromCache
        /\ call'[t].recovery = call[t].recovery
        /\ call'[t].request = call[t].request
        /\ call'[t].attempt = call[t].attempt /\ call'[t].status = call[t].status
        /\ call'[t].offered = call[t].offered /\ call'[t].moved = call[t].moved
    BY <1>2, Probes, ZenonT(30) DEF PricedCall, Keeps, CallFields
  <2>2. /\ call'[t].probed = 0 /\ call'[t].attempt = 0 /\ call'[t].recovery = 0
        /\ call'[t].status = "none"
    BY <2>1 DEF NoCall
  <2>3. call'[t].fromCache = FALSE
    BY <2>1 DEF NoCall
  <2> QED  BY <2>1, <2>2, <2>3 DEF PricedCall
<1>3. CASE Decline(t) \/ Throw(t)
  <2>1. /\ call'[t].step \in {"declined", "thrown"}
        /\ call'[t].probed = call[t].probed /\ call'[t].price = call[t].price
        /\ call'[t].fromCache = call[t].fromCache
        /\ call'[t].recovery = call[t].recovery
        /\ call'[t].request = call[t].request
        /\ call'[t].attempt = call[t].attempt /\ call'[t].status = call[t].status
        /\ call'[t].offered = call[t].offered /\ call'[t].moved = call[t].moved
    <3>1. Keeps(t, CallFields \ {"step"}) /\ call'[t].step \in {"declined", "thrown"}
      BY <1>3, ToolMoves
    <3> QED  BY <3>1 DEF Keeps, CallFields
  <2>2. call[t].status = "payment" => call'[t].step = "thrown"
    <3>1. Decline(t) => call[t].step = "probed"
      BY DEF Decline
    <3>2. Throw(t) => call'[t].step = "thrown"
      BY DEF Throw, Types, CallsTyped, IsCall, CallFields
    <3> QED  BY <1>3, <3>1, <3>2 DEF PricedCall
  <2> QED  BY <2>1, <2>2 DEF PricedCall
<1>4. CASE Admit(t)
  <2>1. /\ call[t].step = "probed"
        /\ call'[t].probed = call[t].probed
        /\ call'[t].recovery = call[t].recovery
        /\ call'[t].request = call[t].request
        /\ call'[t].attempt = call[t].attempt /\ call'[t].status = call[t].status
        /\ call'[t].offered = call[t].offered /\ call'[t].moved = call[t].moved
        /\ \/ call'[t].step = "challenge" /\ call'[t].fromCache = FALSE
           \/ /\ accepts # NoRow /\ call'[t].step = "sign" /\ call'[t].price = accepts
              /\ call'[t].fromCache = TRUE
        /\ call[t].probed <= MaxPerRequest
    BY <1>4, ToolMoves DEF Keeps, CallFields, Affordable
  <2>2. call[t].recovery = 0
    BY <2>1 DEF PricedCall
  <2> QED  BY <1>0, <2>1, <2>2 DEF PricedCall
<1>5. CASE CountSpend(t)
  <2>1. /\ call[t].step = "read" /\ call'[t].step = "returned"
        /\ call'[t].probed = call[t].probed /\ call'[t].price = call[t].price
        /\ call'[t].fromCache = call[t].fromCache
        /\ call'[t].recovery = call[t].recovery
        /\ call'[t].request = call[t].request
        /\ call'[t].attempt = call[t].attempt /\ call'[t].status = call[t].status
        /\ call'[t].offered = call[t].offered /\ call'[t].moved = call[t].moved
    BY <1>5, ToolMoves DEF Keeps, CallFields
  <2> QED  BY <2>1 DEF PricedCall
<1>6. CASE Challenge(t)
  <2>1. CASE /\ Keeps(t, CallFields \ {"step", "price"}) /\ call'[t].step = "sign"
             /\ Price # NoRow /\ call'[t].price = Price
    <3>1. /\ call'[t].probed = call[t].probed
          /\ call'[t].fromCache = call[t].fromCache
          /\ call'[t].recovery = call[t].recovery
          /\ call'[t].request = call[t].request
          /\ call'[t].attempt = call[t].attempt
          /\ call'[t].status = call[t].status
          /\ call'[t].offered = call[t].offered /\ call'[t].moved = call[t].moved
      BY <2>1 DEF Keeps, CallFields
    <3>2. Price \in Prices
      BY <2>1, PriceIsNat
    <3>3. call[t].step = "challenge"
      BY <1>6, ToolMoves
    <3> QED  BY <1>0, <2>1, <3>1, <3>2, <3>3 DEF PricedCall
  <2>2. CASE /\ Keeps(t, CallFields \ {"step", "status"}) /\ call'[t].step = "read"
             /\ call'[t].status = "unpriced"
    <3>1. /\ call'[t].probed = call[t].probed /\ call'[t].price = call[t].price
          /\ call'[t].fromCache = call[t].fromCache
          /\ call'[t].recovery = call[t].recovery
          /\ call'[t].request = call[t].request
          /\ call'[t].attempt = call[t].attempt
          /\ call'[t].offered = call[t].offered /\ call'[t].moved = call[t].moved
      BY <2>2 DEF Keeps, CallFields
    <3>2. call[t].step = "challenge"
      BY <1>6, ToolMoves
    <3> QED  BY <1>0, <2>2, <3>1, <3>2 DEF PricedCall
  <2> QED  BY <1>6, <2>1, <2>2, ToolMoves
<1>7. CASE ReturnAnswer(t)
  <2>1. /\ call[t].step = "answered" /\ call'[t].step = "read"
        /\ call[t].status \notin PaymentRequired
        /\ call'[t].probed = call[t].probed /\ call'[t].price = call[t].price
        /\ call'[t].fromCache = call[t].fromCache
        /\ call'[t].recovery = call[t].recovery
        /\ call'[t].request = call[t].request
        /\ call'[t].attempt = call[t].attempt /\ call'[t].status = call[t].status
        /\ call'[t].offered = call[t].offered /\ call'[t].moved = call[t].moved
    BY <1>7, ToolMoves DEF Keeps, CallFields
  <2> QED  BY <1>0, <2>1 DEF PricedCall
<1>8. CASE Handle402(t)
  <2>0. call[t].step = "answered"
    BY <1>8 DEF Handle402
  <2>1. CASE Keeps(t, CallFields \ {"step"}) /\ call'[t].step = "thrown"
    <3>1. /\ call'[t].probed = call[t].probed /\ call'[t].price = call[t].price
          /\ call'[t].fromCache = call[t].fromCache
          /\ call'[t].recovery = call[t].recovery
          /\ call'[t].request = call[t].request
          /\ call'[t].attempt = call[t].attempt
          /\ call'[t].status = call[t].status
          /\ call'[t].offered = call[t].offered /\ call'[t].moved = call[t].moved
      BY <2>1 DEF Keeps, CallFields
    <3> QED  BY <2>1, <3>1 DEF PricedCall
  <2>2. CASE Keeps(t, CallFields \ {"step"}) /\ call'[t].step = "read" /\ ~Recoverable(t)
    <3>1. /\ call'[t].probed = call[t].probed /\ call'[t].price = call[t].price
          /\ call'[t].fromCache = call[t].fromCache
          /\ call'[t].recovery = call[t].recovery
          /\ call'[t].request = call[t].request
          /\ call'[t].attempt = call[t].attempt
          /\ call'[t].status = call[t].status
          /\ call'[t].offered = call[t].offered /\ call'[t].moved = call[t].moved
      BY <2>2 DEF Keeps, CallFields
    <3>2. ~call[t].fromCache
      BY <2>2 DEF Recoverable
    <3> QED  BY <1>0, <2>0, <2>2, <3>1, <3>2 DEF PricedCall
  <2>3. CASE /\ Keeps(t, CallFields \ {"step", "price", "fromCache", "recovery"})
             /\ Recoverable(t) /\ ~Unparsable(t)
             /\ call'[t].step = "sign" /\ call'[t].price = call[t].offered
             /\ call'[t].fromCache = FALSE /\ call'[t].recovery = call[t].recovery + 1
    <3>1. /\ call'[t].probed = call[t].probed
          /\ call'[t].request = call[t].request
          /\ call'[t].attempt = call[t].attempt
          /\ call'[t].status = call[t].status
          /\ call'[t].offered = call[t].offered /\ call'[t].moved = call[t].moved
      BY <2>3 DEF Keeps, CallFields
    <3>2. call[t].status \in {"mismatch", "refused"}
      BY <1>8, <2>3, ToolMoves DEF Recoverable, Unparsable
    <3>3. call[t].fromCache \/ call[t].recovery < PriceRetries
      BY <2>3 DEF Recoverable
    <3>4. call[t].recovery + 1 \in 0..PriceRetries + 1
      BY <3>3 DEF PricedCall
    <3> QED  BY <1>0, <2>0, <2>3, <3>1, <3>2, <3>4 DEF PricedCall
  <2> QED  BY <1>8, <2>1, <2>2, <2>3, ToolMoves
<1>9. CASE SignAndSend(t)
  <2>1. /\ call[t].step = "sign" /\ call'[t].step = "wait" /\ call'[t].attempt = 0
        /\ call'[t].probed = call[t].probed /\ call'[t].price = call[t].price
        /\ call'[t].fromCache = call[t].fromCache
        /\ call'[t].recovery = call[t].recovery
        /\ call'[t].status = call[t].status /\ call'[t].offered = call[t].offered
        /\ call'[t].moved = call[t].moved
        /\ signed'[call'[t].request].price = call[t].price
    <3>1. /\ Keeps(t, CallFields \ {"step", "request", "attempt"}) /\ In(t, "sign")
          /\ call'[t].step = "wait" /\ call'[t].attempt = 0
          /\ signed'[call'[t].request] = [tool |-> t, price |-> call[t].price]
      BY <1>9, ToolMoves
    <3> QED  BY <3>1 DEF Keeps, CallFields
  <2> QED  BY <1>0, <2>1 DEF PricedCall
<1>10. ASSUME Resend(t), call[t].step \in {"wait", "answered"}, call[t].status # "payment"
       PROVE  PricedCall(t)'
  <2>1. /\ call'[t].step = "wait" /\ call'[t].attempt = call[t].attempt + 1
        /\ call[t].attempt < MaxRetries
        /\ call'[t].probed = call[t].probed /\ call'[t].price = call[t].price
        /\ call'[t].fromCache = call[t].fromCache
        /\ call'[t].recovery = call[t].recovery
        /\ call'[t].request = call[t].request /\ call'[t].status = call[t].status
        /\ call'[t].offered = call[t].offered /\ call'[t].moved = call[t].moved
    BY <1>10, ToolMoves DEF Keeps, CallFields
  <2>2. UNCHANGED signed
    BY <1>10 DEF Resend
  <2>3. call'[t].attempt \in 0..MaxRetries
    BY <2>1 DEF PricedCall
  <2> QED  BY <1>0, <1>10, <2>1, <2>2, <2>3 DEF PricedCall
<1>11. CASE NetworkError(t)
  <2>1. CASE call' = [call EXCEPT ![t].step = "thrown"]
    <3>1. /\ call'[t].step = "thrown"
          /\ call'[t].probed = call[t].probed /\ call'[t].price = call[t].price
          /\ call'[t].fromCache = call[t].fromCache
          /\ call'[t].recovery = call[t].recovery
          /\ call'[t].request = call[t].request
          /\ call'[t].attempt = call[t].attempt
          /\ call'[t].status = call[t].status
          /\ call'[t].offered = call[t].offered /\ call'[t].moved = call[t].moved
      BY <2>1 DEF Types, CallsTyped, IsCall, CallFields
    <3> QED  BY <3>1 DEF PricedCall
  <2>2. call[t].step = "wait" /\ call[t].status # "payment"
    BY <1>11 DEF NetworkError, PricedCall
  <2> QED  BY <1>10, <1>11, <2>1, <2>2 DEF NetworkError
<1>12. CASE RetryTransient(t)
  BY <1>10, <1>12 DEF RetryTransient
<1> QED
  BY <1>1, <1>2, <1>3, <1>4, <1>5, <1>6, <1>7, <1>8, <1>9, <1>11, <1>12 DEF ToolStep

\* A call that has begun keeps the price it has probed and whether it has moved.
LEMMA BegunStands ==
  ASSUME Types, NEW t \in Tools, ToolStep(t), NEW s \in Tools, ~In(s, "idle")
  PROVE  /\ call'[s].probed = call[s].probed /\ call'[s].moved = call[s].moved
         /\ call'[s].step # "idle"
<1>1. CASE s # t
  BY <1>1, OthersStand DEF In
<1>2. CASE s = t
  <2> USE <1>2 DEF In
  <2>1. CASE Decline(t) \/ Throw(t)
    <3>1. Keeps(t, CallFields \ {"step"}) /\ call'[t].step \in {"declined", "thrown"}
      BY <2>1, ToolMoves
    <3> QED  BY <3>1 DEF Keeps, CallFields
  <2>2. CASE Admit(t)
    <3>1. Keeps(t, CallFields \ {"step", "fromCache", "price"}) /\ call'[t].step \in {"challenge", "sign"}
      BY <2>2, ToolMoves
    <3> QED  BY <3>1 DEF Keeps, CallFields
  <2>3. CASE CountSpend(t)
    <3>1. Keeps(t, CallFields \ {"step"}) /\ call'[t].step = "returned"
      BY <2>3, ToolMoves
    <3> QED  BY <3>1 DEF Keeps, CallFields
  <2>4. CASE Challenge(t)
    <3>1. \/ Keeps(t, CallFields \ {"step", "price"}) /\ call'[t].step = "sign"
          \/ Keeps(t, CallFields \ {"step", "status"}) /\ call'[t].step = "read"
      BY <2>4, ToolMoves
    <3> QED  BY <3>1 DEF Keeps, CallFields
  <2>5. CASE ReturnAnswer(t)
    <3>1. Keeps(t, CallFields \ {"step"}) /\ call'[t].step = "read"
      BY <2>5, ToolMoves
    <3> QED  BY <3>1 DEF Keeps, CallFields
  <2>6. CASE Handle402(t)
    <3>1. \/ Keeps(t, CallFields \ {"step"}) /\ call'[t].step \in {"thrown", "read"}
          \/ /\ Keeps(t, CallFields \ {"step", "price", "fromCache", "recovery"})
             /\ call'[t].step = "sign"
      BY <2>6, ToolMoves
    <3> QED  BY <3>1 DEF Keeps, CallFields
  <2>7. CASE SignAndSend(t)
    <3>1. Keeps(t, CallFields \ {"step", "request", "attempt"}) /\ call'[t].step = "wait"
      BY <2>7, ToolMoves
    <3> QED  BY <3>1 DEF Keeps, CallFields
  <2>8. CASE Resend(t)
    <3>1. Keeps(t, CallFields \ {"step", "attempt"}) /\ call'[t].step = "wait"
      BY <2>8, ToolMoves
    <3> QED  BY <3>1 DEF Keeps, CallFields
  <2>9. CASE call' = [call EXCEPT ![t].step = "thrown"]
    BY <2>9 DEF Types, CallsTyped, IsCall, CallFields
  <2>10. ~Probe(t) /\ ~NothingToPay(t)
    BY DEF Probe, NothingToPay
  <2>11. NetworkError(t) \/ RetryTransient(t) =>
           Resend(t) \/ call' = [call EXCEPT ![t].step = "thrown"]
    BY DEF NetworkError, RetryTransient
  <2> QED
    BY <2>1, <2>2, <2>3, <2>4, <2>5, <2>6, <2>7, <2>8, <2>9, <2>10, <2>11 DEF ToolStep
<1> QED  BY <1>1, <1>2

\* What a client sends: nothing, or a copy of the requestId its call waits on.
LEMMA ClientCopies ==
  ASSUME Types, Types', Priced, NEW t \in Tools, ToolStep(t), NEW h \in handlers', h \notin handlers
  PROVE  /\ h.step = "arriving" /\ h.request = call'[t].request /\ h.attempt \in 0..MaxRetries
         /\ In(t, "wait")' /\ h.request \in RequestIds
         /\ signed'[h.request] # NoRow /\ signed'[h.request].tool = t
<1>1. CASE LocalStep(t)
  BY <1>1, LocalTypes
<1>2. CASE UNCHANGED handlers
  BY <1>2
<1>3. CASE SignAndSend(t)
  <2>1. PICK r \in RequestIds :
          /\ call'[t].step = "wait" /\ call'[t].request = r
          /\ handlers' = handlers \cup {Arriving(r, 0)}
    BY <1>3, SentTypes
  <2>2. h = Arriving(r, 0)
    BY <2>1
  <2> QED  BY <2>1, <2>2, PaidAssumption DEF Arriving, Types, CallsSigned, In
<1>4. CASE Resend(t)
  <2>1. /\ call'[t].step = "wait" /\ call'[t].request = call[t].request
        /\ handlers' = handlers \cup {Arriving(call[t].request, call[t].attempt + 1)}
    BY <1>4, ResentTypes
  <2>2. h = Arriving(call[t].request, call[t].attempt + 1)
    BY <2>1
  <2>3. call[t].attempt + 1 \in 0..MaxRetries
    BY <1>4, PaidAssumption DEF Priced, PricedCall, Resend
  <2> QED  BY <2>1, <2>2, <2>3 DEF Arriving, Types, CallsSigned, In
<1> QED
  BY <1>1, <1>2, <1>3, <1>4 DEF ToolStep, LocalStep, NetworkError, RetryTransient

\* The client's steps keep the prices.
LEMMA ToolPriced ==
  ASSUME Types, Types', Priced, NEW t \in Tools, ToolStep(t)
  PROVE  Priced'
<1>0. /\ UNCHANGED <<spent, rules>> /\ Price' = Price
      /\ \A q \in RequestIds : signed[q] # NoRow => signed'[q] = signed[q]
  BY ClientLeaves, ClientSends DEF storageVars, Price
<1>1. accepts' \in Prices \cup {NoRow}
  <2>1. CASE ReturnAnswer(t)
    BY <2>1 DEF ReturnAnswer, Priced, PricedCall, In
  <2>2. CASE ~ReturnAnswer(t)
    <3>1. accepts' \in {accepts, NoRow}
      BY <2>2 DEF ToolStep, Probe, NothingToPay, Decline, Admit, CountSpend, Challenge,
         SignAndSend, NetworkError, Throw, RetryTransient, Handle402
    <3> QED  BY <3>1 DEF Priced
  <2> QED  BY <2>1, <2>2
<1>2. ASSUME NEW s \in Tools PROVE PricedCall(s)'
  <2>1. CASE s = t
    BY <2>1, OwnPriced DEF Priced
  <2>2. CASE s # t /\ call'[s] = call[s]
    <3>1. call[s].step \in {"wait", "answered"} =>
             signed'[call[s].request] = signed[call[s].request]
      BY <1>0 DEF Types, CallsSigned, In
    <3> QED  BY <1>0, <2>2, <3>1, PricedStands DEF Priced
  <2> QED  BY <2>1, <2>2, OthersStand
<1>3. ASSUME NEW h \in handlers' PROVE PricedHandler(h)'
  <2>1. CASE h \in handlers
    <3>1. /\ h.request \in RequestIds /\ signed[h.request] # NoRow
          /\ signed'[h.request] = signed[h.request] /\ signed[h.request].tool \in Tools
      BY <1>0, <2>1, ToolOf DEF Types, IsHandler
    <3>2. ~In(signed[h.request].tool, "idle")
      BY <3>1 DEF Priced, PricedRow
    <3>3. /\ call'[signed[h.request].tool].probed = call[signed[h.request].tool].probed
          /\ call'[signed[h.request].tool].moved = call[signed[h.request].tool].moved
      BY <3>1, <3>2, BegunStands
    <3>4. PricedHandler(h)
      BY <2>1 DEF Priced
    <3> QED  BY <1>0, <3>1, <3>3, <3>4 DEF PricedHandler
  <2>2. CASE h \notin handlers
    <3>1. /\ h.step = "arriving" /\ h.attempt \in 0..MaxRetries
          /\ In(t, "wait")' /\ signed'[h.request].tool = t
      BY <2>2, ClientCopies
    <3>2. PricedCall(t)'
      BY <1>2
    <3> QED  BY <3>1, <3>2 DEF PricedHandler, PricedCall, Open, Ended, In
  <2> QED  BY <2>1, <2>2
<1>4. ASSUME NEW r \in RequestIds PROVE PricedRow(r)'
  <2>0. PricedRow(r)
    BY DEF Priced
  <2>1. CASE signed[r] # NoRow
    <3>1. signed'[r] = signed[r] /\ signed[r].tool \in Tools /\ ~In(signed[r].tool, "idle")
      BY <1>0, <2>0, <2>1, ToolOf DEF PricedRow
    <3>2. /\ call'[signed[r].tool].probed = call[signed[r].tool].probed
          /\ call'[signed[r].tool].moved = call[signed[r].tool].moved
          /\ call'[signed[r].tool].step # "idle"
      BY <3>1, BegunStands
    <3> QED  BY <1>0, <2>0, <3>1, <3>2 DEF PricedRow, In
  <2>2. CASE signed[r] = NoRow
    <3>1. spent'[r] = NoRow
      BY <1>0, <2>0, <2>2 DEF PricedRow
    <3>2. signed'[r] # NoRow =>
            /\ call'[signed'[r].tool].step # "idle"
            /\ call'[signed'[r].tool].probed <= MaxPerRequest
      <4>1. CASE SignAndSend(t)
        <5>1. PICK q \in RequestIds :
              /\ \A o \in RequestIds : o # q => signed'[o] = signed[o]
              /\ signed'[q].tool = t /\ call'[t].step = "wait"
          BY <4>1, SentTypes
        <5>2. call'[t].probed <= MaxPerRequest
          BY <1>2, <5>1 DEF PricedCall
        <5> QED  BY <2>2, <5>1, <5>2
      <4>2. CASE ~SignAndSend(t)
        <5>1. UNCHANGED signed
          BY <4>2, LocalTypes DEF ToolStep, LocalStep, NetworkError, RetryTransient, Resend
        <5> QED  BY <2>2, <5>1
      <4> QED  BY <4>1, <4>2
    <3> QED  BY <3>1, <3>2 DEF PricedRow, In
  <2> QED  BY <2>1, <2>2
<1> QED  BY <1>1, <1>2, <1>3, <1>4 DEF Priced

\* The client forgets a requirement.
LEMMA ForgetPriced ==
  ASSUME Types, Priced, ForgetAccepts
  PROVE  Priced'
<1>1. UNCHANGED <<spent, rules, call, signed, handlers>> /\ accepts' = NoRow /\ Price' = Price
  BY DEF ForgetAccepts, storageVars, serverVars, Price
<1>2. \A t \in Tools : PricedCall(t)'
  BY <1>1, PricedStands DEF Priced
<1> QED  BY <1>1, <1>2 DEF Priced, PricedHandler, PricedRow, In

\* What an answer tells the call that still waits on this attempt.
Told(h, status, offered) ==
  \A t \in Tools :
    \/ call'[t] = call[t]
    \/ /\ In(t, "wait") /\ call[t].request = h.request
       /\ Keeps(t, CallFields \ {"step", "status", "offered"})
       /\ call'[t].step = "answered" /\ call'[t].status = status /\ call'[t].offered = offered

LEMMA AnswerTells ==
  ASSUME Types, NEW h, NEW status, NEW offered, Answer(h, status, offered)
  PROVE  Told(h, status, offered)
<1> SUFFICES ASSUME NEW t \in Tools, call'[t] # call[t]
             PROVE  /\ In(t, "wait") /\ call[t].request = h.request
                    /\ Keeps(t, CallFields \ {"step", "status", "offered"})
                    /\ call'[t].step = "answered" /\ call'[t].status = status
                    /\ call'[t].offered = offered
  BY DEF Told
<1>1. /\ In(t, "wait") /\ call[t].request = h.request
      /\ call'[t] = [call[t] EXCEPT !.step = "answered", !.status = status, !.offered = offered]
  BY DEF Answer
<1>2. DOMAIN call[t] = CallFields
  BY DEF Types, CallsTyped, IsCall
<1> QED  BY <1>1, <1>2 DEF Keeps, CallFields

\* An answer that tells the truth about the price keeps what the calls know.
LEMMA ToldPriced ==
  ASSUME Types, Priced, NEW h \in handlers, NEW status, NEW offered, Told(h, status, offered),
         UNCHANGED <<rules, signed>>,
         status \in {"mismatch", "refused"} => offered = Price /\ Price \in Prices,
         status = "mismatch" => signed[h.request].price # Price,
         NEW t \in Tools
  PROVE  /\ PricedCall(t)'
         /\ call'[t].probed = call[t].probed /\ call'[t].moved = call[t].moved
         /\ call'[t].step = "idle" => call[t].step = "idle"
<1>0. PricedCall(t) /\ Price' = Price
  BY DEF Priced, Price
<1>1. CASE call'[t] = call[t]
  BY <1>0, <1>1, PricedStands
<1>2. CASE call'[t] # call[t]
  <2>1. /\ call[t].step = "wait" /\ call[t].request = h.request
        /\ Keeps(t, CallFields \ {"step", "status", "offered"})
        /\ call'[t].step = "answered" /\ call'[t].status = status /\ call'[t].offered = offered
    BY <1>2 DEF Told, In
  <2>2. /\ call'[t].probed = call[t].probed /\ call'[t].price = call[t].price
        /\ call'[t].fromCache = call[t].fromCache /\ call'[t].recovery = call[t].recovery
        /\ call'[t].request = call[t].request /\ call'[t].attempt = call[t].attempt
        /\ call'[t].moved = call[t].moved
    BY <2>1 DEF Keeps, CallFields
  <2>3. signed[h.request].price = call[t].price
    BY <1>0, <2>1 DEF PricedCall
  <2> QED  BY <1>0, <2>1, <2>2, <2>3 DEF PricedCall, Open, Ended
<1> QED  BY <1>1, <1>2

\* What a handler may become, and what it may do to its row.
Becomes(h, g) ==
  /\ g.request = h.request /\ g.attempt = h.attempt
  /\ \/ /\ h.step = "reserving" /\ g.step \in {"orphaned", "forwarding"} /\ g.price = h.price
     \/ h.step = "forwarding" /\ g.step = "settling" /\ g.price = h.price
     \/ /\ h.step = "arriving" /\ g.step = "reserving"
        /\ g.price = Price /\ Price # NoRow /\ signed[h.request].price = Price

RowKept(r) ==
  /\ spent'[r] = NoRow <=> spent[r] = NoRow
  /\ spent[r] # NoRow => spent'[r].amount = spent[r].amount

RowWritten(h) ==
  \/ RowKept(h.request)
  \/ /\ h.step \in {"reserving", "orphaned"}
     /\ spent'[h.request] # NoRow /\ spent'[h.request].amount = h.price

LEMMA StatusKeepsRow ==
  ASSUME Types, NEW r \in RequestIds, spent[r] # NoRow, NEW s \in Statuses, SetStatus(r, s)
  PROVE  RowKept(r)
<1>1. spent[r] \in SpentRow
  BY DEF Types
<1>2. /\ [spent[r] EXCEPT !.status = s] \in SpentRow
      /\ [spent[r] EXCEPT !.status = s].amount = spent[r].amount
  BY <1>1 DEF SpentRow
<1>3. spent'[r] = [spent[r] EXCEPT !.status = s]
  BY DEF SetStatus, Types
<1> QED  BY <1>2, <1>3, NoRowAssumption DEF RowKept

\* A reservation writes the price it was made for.
LEMMA ReservedAt ==
  ASSUME Types, NEW r \in RequestIds, NEW amount \in Nat,
         \/ ReserveRefused(r, Payer, 0, 0, amount) \/ ReserveGranted(r, Payer, 0, 0, amount)
  PROVE  spent'[r] # NoRow /\ spent'[r].amount = amount
<1>1. PICK s \in {"insufficient", "reserved"} : InsertSpent(r, Payer, 0, 0, amount, s)
  BY DEF ReserveRefused, ReserveGranted
<1> DEFINE row == [identity |-> Payer, issuedAt |-> 0, receivedAt |-> 0,
                   amount |-> amount, status |-> s]
<1>2. row \in SpentRow /\ row # NoRow
  <2>1. s \in Statuses /\ 0 \in Int /\ Payer \in Identities
    BY <1>1, PaidAssumption DEF Statuses
  <2> QED  BY <2>1, RowsAreRows
<1>3. spent'[r] = row /\ row.amount = amount
  BY <1>1 DEF InsertSpent, Types
<1> QED  BY <1>2, <1>3

\* Phase 2 keeps the amount.
LEMMA SettleKeepsRow ==
  ASSUME Types, NEW h, IsHandler(h), SettleAt(h)
  PROVE  RowKept(h.request)
<1> DEFINE r == h.request
<1>0. r \in RequestIds /\ "committed" \in Statuses /\ "error" \in Statuses
  BY DEF IsHandler, Statuses
<1>1. CASE CommitPayment(r)
  BY <1>0, <1>1, StatusKeepsRow DEF CommitPayment, HasStatus
<1>2. CASE LateCommitPayment(r)
  BY <1>0, <1>2, StatusKeepsRow DEF LateCommitPayment, HasStatus
<1>3. CASE RollbackPayment(r)
  BY <1>0, <1>3, StatusKeepsRow DEF RollbackPayment, Refund, HasStatus
<1>4. CASE UNCHANGED storageVars
  BY <1>4 DEF storageVars, RowKept
<1> QED  BY <1>1, <1>2, <1>3, <1>4 DEF SettleAt

\* An answer is honest about the price.
Honest(h) ==
  \E status, offered :
    /\ Told(h, status, offered)
    /\ status \in {"mismatch", "refused"} => offered = Price /\ Price \in Prices
    /\ status = "mismatch" => signed[h.request].price # Price

LEMMA SilentIsHonest ==
  ASSUME NEW h, UNCHANGED call
  PROVE  Honest(h)
<1>1. Told(h, "none", 0)
  BY DEF Told
<1> QED  BY <1>1 DEF Honest

LEMMA ReplyIsHonest ==
  ASSUME Types, NEW h \in handlers, NEW status, Reply(h, status),
         status # "mismatch", status = "refused" => h.price = Price /\ Price \in Prices
  PROVE  Honest(h) /\ handlers' = handlers \ {h}
<1>1. Told(h, status, h.price) /\ handlers' = handlers \ {h}
  BY AnswerTells DEF Reply
<1> QED  BY <1>1 DEF Honest

Does(h) ==
  /\ UNCHANGED <<accepts, signed, rules>>
  /\ OnlyRow(h.request) /\ RowWritten(h)
  /\ \A g \in handlers' : g \in handlers \/ Becomes(h, g)
  /\ Honest(h)

LEMMA IdleStorage ==
  ASSUME UNCHANGED storageVars, NEW h
  PROVE  OnlyRow(h.request) /\ RowWritten(h)
BY DEF storageVars, OnlyRow, RowWritten, RowKept

\* What the steps of a handler do to prices.
LEMMA ReplyDoes ==
  ASSUME Types, NEW h \in handlers, Replied(h)
  PROVE  Does(h)
<1>1. PICK status : Reply(h, status) /\ status \notin {"mismatch", "refused"}
  <2>1. "mismatch" \notin Outcomes /\ "refused" \notin Outcomes
    BY PaidAssumption
  <2> QED  BY <2>1 DEF Replied, PassThrough, BodyTooLarge, Unauthorized, VerifyUnavailable
<1>2. UNCHANGED <<storageVars, accepts, signed, rules>>
  BY DEF Replied, PassThrough, BodyTooLarge, Unauthorized, VerifyUnavailable
<1>3. Honest(h) /\ handlers' = handlers \ {h}
  BY <1>1, ReplyIsHonest
<1> QED  BY <1>2, <1>3, IdleStorage DEF Does

LEMMA DeathDoes ==
  ASSUME Types, NEW h \in handlers, HandlerDies(h)
  PROVE  Does(h)
<1>1. /\ UNCHANGED <<storageVars, accepts, signed, rules, call>>
      /\ handlers' = (handlers \ {h}) \cup Orphaned(h)
  BY DEF HandlerDies, clientVars
<1>2. \A g \in Orphaned(h) : Becomes(h, g)
  BY OrphanedHandlers DEF Becomes, Types
<1>3. Honest(h)
  BY <1>1, SilentIsHonest
<1> QED  BY <1>1, <1>2, <1>3, IdleStorage DEF Does

LEMMA CheckDoes ==
  ASSUME Types, NEW h \in handlers, CheckPayment(h)
  PROVE  Does(h)
<1>0. /\ Price \in Prices /\ Price # NoRow /\ h.step = "arriving"
      /\ UNCHANGED <<storageVars, accepts, signed, rules>>
  BY PriceIsNat DEF CheckPayment
<1>1. CASE Reply(h, "replay")
  <2>1. Honest(h) /\ handlers' = handlers \ {h}
    BY <1>1, ReplyIsHonest
  <2> QED  BY <1>0, <2>1, IdleStorage DEF Does
<1>2. CASE /\ signed[h.request].price # Price
           /\ Answer(h, "mismatch", Price) /\ handlers' = handlers \ {h}
  <2>1. Told(h, "mismatch", Price)
    BY <1>2, AnswerTells
  <2>2. Honest(h)
    BY <1>0, <1>2, <2>1 DEF Honest
  <2> QED  BY <1>0, <1>2, <2>2, IdleStorage DEF Does
<1>3. CASE /\ signed[h.request].price = Price
           /\ handlers' = (handlers \ {h}) \cup {[h EXCEPT !.step = "reserving", !.price = Price]}
           /\ UNCHANGED call
  <2> DEFINE g == [h EXCEPT !.step = "reserving", !.price = Price]
  <2>1. g.request = h.request /\ g.step = "reserving" /\ g.attempt = h.attempt /\ g.price = Price
    BY DEF Types, IsHandler, HandlerFields
  <2>2. handlers' = (handlers \ {h}) \cup {g}
    BY <1>3
  <2> HIDE DEF g
  <2>3. Becomes(h, g)
    BY <1>0, <1>3, <2>1 DEF Becomes
  <2>4. Honest(h)
    BY <1>3, SilentIsHonest
  <2> QED  BY <1>0, <2>2, <2>3, <2>4, IdleStorage DEF Does
<1> QED  BY <1>1, <1>2, <1>3 DEF CheckPayment

LEMMA ReserveDoes ==
  ASSUME Types, Priced, NEW h \in handlers, Reserve(h) \/ ReserveUnheard(h)
  PROVE  Does(h)
<1> DEFINE r == h.request
<1>0. /\ r \in RequestIds /\ h.price \in Nat /\ IsHandler(h)
      /\ h.step \in {"reserving", "orphaned"}
      /\ UNCHANGED <<accepts, signed, rules>>
  BY DEF Reserve, ReserveUnheard, Types, IsHandler
<1>1. OnlyRow(r)
  BY ReserveTypes, UnheardTypes
<1>2. RowWritten(h)
  <2>1. CASE ReserveReplay(r)
    BY <2>1, IdleStorage DEF ReserveReplay
  <2>2. CASE ReserveRefused(r, Payer, 0, 0, h.price) \/ ReserveGranted(r, Payer, 0, 0, h.price)
    BY <1>0, <2>2, ReservedAt DEF RowWritten
  <2> QED  BY <2>1, <2>2 DEF Reserve, ReserveUnheard
<1>3. CASE Reserve(h)
  <2>0. h.step = "reserving" /\ h.price = Price /\ Price \in Prices
    BY <1>3 DEF Reserve, Priced, PricedHandler
  <2>1. CASE Advance(h, "forwarding") /\ UNCHANGED call
    <3> DEFINE g == [h EXCEPT !.step = "forwarding"]
    <3>1. handlers' = (handlers \ {h}) \cup {g}
      BY <2>1 DEF Advance
    <3>2. g.request = h.request /\ g.attempt = h.attempt /\ g.step = "forwarding" /\ g.price = h.price
      BY <1>0, Stepped
    <3> HIDE DEF g
    <3>3. Becomes(h, g)
      BY <2>0, <3>2 DEF Becomes
    <3> QED  BY <1>0, <1>1, <1>2, <2>1, <3>1, <3>3, SilentIsHonest DEF Does
  <2>2. CASE \E status \in {"replay", "refused"} : Reply(h, status)
    <3>1. PICK status \in {"replay", "refused"} : Reply(h, status)
      BY <2>2
    <3>2. Honest(h) /\ handlers' = handlers \ {h}
      BY <2>0, <3>1, ReplyIsHonest
    <3> QED  BY <1>0, <1>1, <1>2, <3>2 DEF Does
  <2> QED  BY <1>3, <2>1, <2>2 DEF Reserve
<1>4. CASE ReserveUnheard(h)
  <2>1. Reply(h, "unavailable")
    BY <1>4 DEF ReserveUnheard
  <2>2. Honest(h) /\ handlers' = handlers \ {h}
    BY <2>1, ReplyIsHonest
  <2> QED  BY <1>0, <1>1, <1>2, <2>2 DEF Does
<1> QED  BY <1>3, <1>4

LEMMA ForwardDoes ==
  ASSUME Types, NEW h \in handlers, Forward(h)
  PROVE  Does(h)
<1>1. PICK outcome \in Outcomes, adapter \in Adapters :
        /\ handlers' = (handlers \ {h}) \cup
             {[h EXCEPT !.step = "settling", !.outcome = outcome, !.answered = adapter = "proxy"]}
        /\ IF adapter = "proxy" THEN Answer(h, outcome, h.price) ELSE UNCHANGED call
  BY DEF Forward
<1>2. UNCHANGED <<storageVars, accepts, signed, rules>> /\ h.step = "forwarding"
  BY DEF Forward
<1> DEFINE proxied == adapter = "proxy"
           g == [h EXCEPT !.step = "settling", !.outcome = outcome, !.answered = proxied]
<1>3. g.request = h.request /\ g.attempt = h.attempt /\ g.step = "settling" /\ g.price = h.price
  <2> HIDE DEF proxied
  <2> QED  BY DEF Types, IsHandler, HandlerFields
<1>4. handlers' = (handlers \ {h}) \cup {g}
  BY <1>1
<1> HIDE DEF g
<1>5. Becomes(h, g)
  BY <1>2, <1>3 DEF Becomes
<1>6. Honest(h)
  <2>1. CASE UNCHANGED call
    BY <2>1, SilentIsHonest
  <2>2. CASE Answer(h, outcome, h.price)
    <3>1. outcome \notin {"mismatch", "refused"}
      BY PaidAssumption
    <3>2. Told(h, outcome, h.price)
      BY <2>2, AnswerTells
    <3> QED  BY <3>1, <3>2 DEF Honest
  <2> QED  BY <1>1, <2>1, <2>2
<1> QED  BY <1>2, <1>4, <1>5, <1>6, IdleStorage DEF Does

LEMMA SettleDoes ==
  ASSUME Types, Service, NEW h \in handlers, Settle(h)
  PROVE  Does(h)
<1>0. IsHandler(h) /\ h.step = "settling" /\ UNCHANGED <<accepts, signed, rules>>
  BY DEF Settle, Types
<1>1. OnlyRow(h.request) /\ RowWritten(h)
  <2>1. CASE SettleAt(h)
    BY <1>0, <2>1, SettleKeepsRow, Settlements DEF RowWritten
  <2>2. CASE UNCHANGED storageVars
    BY <2>2, IdleStorage
  <2> QED  BY <2>1, <2>2 DEF Settle
<1>2. h.outcome \notin {"mismatch", "refused"}
  <2>1. h.outcome \in Outcomes
    BY <1>0, SettleTypes DEF Service, SettlesServed, Types, IsHandler
  <2> QED  BY <2>1, PaidAssumption
<1>3. Honest(h) /\ handlers' = handlers \ {h}
  <2>1. CASE handlers' = handlers \ {h} /\ UNCHANGED call
    BY <2>1, SilentIsHonest
  <2>2. CASE Reply(h, h.outcome)
    BY <1>2, <2>2, ReplyIsHonest
  <2> QED  BY <2>1, <2>2 DEF Settle
<1> QED  BY <1>0, <1>1, <1>3 DEF Does

LEMMA HandlerDoes ==
  ASSUME Types, Service, Priced, NEW h \in handlers, HandlerStep(h)
  PROVE  Does(h)
BY ReplyDoes, DeathDoes, CheckDoes, ReserveDoes, ForwardDoes, SettleDoes DEF HandlerStep, Replied

\* The steps of the resource server and the facilitator keep the prices.
LEMMA HandlerPriced ==
  ASSUME Types, Types', Service, Priced, NEW h \in handlers, HandlerStep(h)
  PROVE  Priced'
<1>0. Does(h) /\ UNCHANGED <<accepts, signed, rules>> /\ Price' = Price
  BY HandlerDoes DEF Does, Price
<1>1. PICK status, offered :
        /\ Told(h, status, offered)
        /\ status \in {"mismatch", "refused"} => offered = Price /\ Price \in Prices
        /\ status = "mismatch" => signed[h.request].price # Price
  BY <1>0 DEF Does, Honest
<1>2. \A t \in Tools : /\ PricedCall(t)'
                       /\ call'[t].probed = call[t].probed /\ call'[t].moved = call[t].moved
                       /\ call'[t].step = "idle" => call[t].step = "idle"
  BY <1>0, <1>1, ToldPriced
<1>3. \A g \in handlers : g.request \in RequestIds /\ signed[g.request].tool \in Tools
  BY ToolOf DEF Types, IsHandler
<1>4. ASSUME NEW g \in handlers' PROVE PricedHandler(g)'
  <2>1. CASE g \in handlers
    BY <1>0, <1>2, <1>3, <2>1 DEF Priced, PricedHandler
  <2>2. CASE Becomes(h, g)
    <3>1. PricedHandler(h)
      BY DEF Priced
    <3>2. Price # NoRow => Price \in Prices
      BY PriceIsNat
    <3> QED  BY <1>0, <1>2, <1>3, <2>2, <3>1, <3>2 DEF PricedHandler, Becomes
  <2> QED  BY <1>0, <2>1, <2>2 DEF Does
<1>5. ASSUME NEW r \in RequestIds PROVE PricedRow(r)'
  <2>0. PricedRow(r) /\ (signed[r] # NoRow => signed[r].tool \in Tools)
    BY ToolOf DEF Priced
  <2>1. CASE RowKept(r)
    BY <1>0, <1>2, <2>0, <2>1 DEF PricedRow, RowKept, In
  <2>2. CASE r = h.request
    <3>0. PricedHandler(h) /\ signed[r] # NoRow
      BY <2>2 DEF Priced, Types
    <3>1. CASE /\ h.step \in {"reserving", "orphaned"} /\ spent'[r] # NoRow
               /\ spent'[r].amount = h.price
      BY <1>0, <1>2, <2>0, <2>2, <3>0, <3>1 DEF PricedRow, PricedHandler, In
    <3> QED  BY <1>0, <2>1, <2>2, <3>1 DEF Does, RowWritten
  <2>3. CASE r # h.request
    <3>1. spent'[r] = spent[r]
      BY <1>0, <2>3 DEF Does, OnlyRow
    <3> QED  BY <2>1, <3>1 DEF RowKept
  <2> QED  BY <2>2, <2>3
<1> QED  BY <1>0, <1>2, <1>4, <1>5 DEF Priced

\* A restart moves the open calls and leaves no handler but the orphaned ones.
LEMMA DeployPriced ==
  ASSUME Types, Types', Priced, NEW rs \in RuleSets, Deploy(rs)
  PROVE  Priced'
<1>0. /\ UNCHANGED <<spent, accepts, signed>>
      /\ call' = [t \in Tools |-> IF Open(t) THEN [call[t] EXCEPT !.moved = TRUE] ELSE call[t]]
      /\ \A g \in handlers' : g.step = "orphaned"
      /\ \A g \in handlers' : g \in handlers \/ \E h \in handlers : g \in Orphaned(h)
  <2>1. /\ UNCHANGED <<storageVars, accepts, signed>>
        /\ call' = [t \in Tools |-> IF Open(t) THEN [call[t] EXCEPT !.moved = TRUE] ELSE call[t]]
    BY DEF Deploy
  <2> QED  BY <2>1, DeployTypes DEF storageVars
<1>1. ASSUME NEW t \in Tools
      PROVE  /\ PricedCall(t)'
             /\ call'[t].probed = call[t].probed /\ (call[t].moved = call'[t].moved \/ call'[t].moved = TRUE)
             /\ call'[t].step = call[t].step
  <2>0. PricedCall(t)
    BY DEF Priced
  <2>1. CASE Open(t)
    <3>1. /\ call'[t].step = call[t].step /\ call'[t].probed = call[t].probed
          /\ call'[t].price = call[t].price /\ call'[t].fromCache = call[t].fromCache
          /\ call'[t].recovery = call[t].recovery /\ call'[t].request = call[t].request
          /\ call'[t].attempt = call[t].attempt /\ call'[t].status = call[t].status
          /\ call'[t].offered = call[t].offered /\ call'[t].moved = TRUE
      BY <1>0, <2>1 DEF Types, CallsTyped, IsCall, CallFields
    <3> QED  BY <1>0, <2>0, <2>1, <3>1 DEF PricedCall, Open, Ended
  <2>2. CASE ~Open(t)
    <3>1. call'[t] = call[t]
      BY <1>0, <2>2
    <3> QED  BY <1>0, <2>0, <2>2, <3>1 DEF PricedCall, Open, Ended
  <2> QED  BY <2>1, <2>2
<1>2. ASSUME NEW g \in handlers' PROVE PricedHandler(g)'
  <2> DEFINE tool == signed[g.request].tool
  <2>1. /\ g.attempt \in 0..MaxRetries /\ g.price = signed[g.request].price
        /\ ~call[tool].moved => signed[g.request].price = call[tool].probed
        /\ tool \in Tools
    <3>1. CASE g \in handlers
      BY <1>0, <3>1, ToolOf DEF Priced, PricedHandler, Types, IsHandler
    <3>2. CASE \E h \in handlers : g \in Orphaned(h)
      <4>1. PICK h \in handlers : g \in Orphaned(h)
        BY <3>2
      <4>2. /\ g.request = h.request /\ h.step = "reserving"
            /\ g.price = h.price /\ g.attempt = h.attempt
        BY <4>1, OrphanedHandlers DEF Types
      <4>3. tool \in Tools
        BY <4>2, ToolOf DEF Types, IsHandler
      <4> QED  BY <4>2, <4>3 DEF Priced, PricedHandler
    <3> QED  BY <1>0, <3>1, <3>2
  <2> QED  BY <1>0, <1>1, <2>1 DEF PricedHandler
<1>3. ASSUME NEW r \in RequestIds PROVE PricedRow(r)'
  <2>1. PricedRow(r) /\ (signed[r] # NoRow => signed[r].tool \in Tools)
    BY ToolOf DEF Priced
  <2> QED  BY <1>0, <1>1, <2>1 DEF PricedRow, In
<1> QED  BY <1>0, <1>1, <1>2, <1>3 DEF Priced

\* Deposits and the reaper keep every row's amount.
LEMMA RowsStand ==
  ASSUME Types, TopUp \/ Reap
  PROVE  \A r \in RequestIds : RowKept(r)
<1>1. CASE UNCHANGED spent
  BY <1>1 DEF RowKept
<1>2. CASE \E r \in RequestIds : ReapRow(r)
  <2>1. PICK r \in RequestIds : ReapRow(r)
    BY <1>2
  <2>2. spent[r] # NoRow /\ "error" \in Statuses /\ SetStatus(r, "error")
    BY <2>1 DEF ReapRow, Types, ExpiredRows, Statuses, Refund
  <2> QED  BY <2>2, StatusSet, StatusKeepsRow DEF OnlyRow, RowKept
<1> QED  BY <1>1, <1>2 DEF TopUp, Reap, InsertAndCreditDeposit, ReapExpiredReservations

LEMMA HousePriced ==
  ASSUME Types, Priced, TopUp \/ Reap
  PROVE  Priced'
<1>1. /\ UNCHANGED <<rules, accepts, call, signed, handlers>> /\ Price' = Price
      /\ \A r \in RequestIds : RowKept(r)
  BY RowsStand, Housekeeping DEF clientVars, serverVars, Price
<1>2. \A t \in Tools : PricedCall(t)'
  BY <1>1, PricedStands DEF Priced
<1>3. \A h \in handlers : PricedHandler(h)'
  BY <1>1 DEF Priced, PricedHandler
<1>4. \A r \in RequestIds : PricedRow(r)'
  BY <1>1 DEF Priced, PricedRow, RowKept, In
<1> QED  BY <1>1, <1>2, <1>3, <1>4 DEF Priced

LEMMA PricedInit == PaidInit => Priced
<1> SUFFICES ASSUME PaidInit PROVE Priced
  OBVIOUS
<1>1. ASSUME NEW t \in Tools PROVE PricedCall(t)
  <2>1. call[t] = NoCall
    BY DEF PaidInit
  <2>2. /\ NoCall.step = "idle" /\ NoCall.probed = 0 /\ NoCall.attempt = 0
        /\ NoCall.recovery = 0 /\ NoCall.fromCache = FALSE /\ NoCall.status = "none"
    BY DEF NoCall
  <2> QED  BY <2>1, <2>2, PaidAssumption DEF PricedCall, Open
<1>2. handlers = {} /\ accepts \in Prices \cup {NoRow}
  BY DEF PaidInit
<1>3. \A r \in RequestIds : spent[r] = NoRow /\ signed[r] = NoRow
  BY DEF PaidInit, StorageInit
<1> QED  BY <1>1, <1>2, <1>3 DEF Priced, PricedRow

LEMMA PricedKept ==
  ASSUME Types, Types', Service, Priced, [PaidNext]_vars
  PROVE  Priced'
<1>1. CASE PaidNext
  BY <1>1, ToolPriced, HandlerPriced, ForgetPriced, DeployPriced, HousePriced DEF PaidNext
<1>2. CASE UNCHANGED vars
  <2>1. UNCHANGED <<spent, rules, accepts, call, signed, handlers>> /\ Price' = Price
    BY <1>2 DEF vars, storageVars, clientVars, serverVars, Price
  <2>2. \A t \in Tools : PricedCall(t)'
    BY <2>1, PricedStands DEF Priced
  <2> QED  BY <2>1, <2>2 DEF Priced, PricedHandler, PricedRow, In
<1> QED  BY <1>1, <1>2

LEMMA PricedAlways == PaidSpec => []Priced
<1>1. (Types /\ Service) /\ (Types /\ Service)' /\ Priced /\ [PaidNext]_vars => Priced'
  BY PricedKept
<1> QED  BY <1>1, PricedInit, PaidServiceInvariant, PTL DEF PaidSpec

\* Stale accepts heal themselves: a call is handed a price mismatch only if the
\* resource server was restarted while it ran, whatever was lost, retried or
\* overtaken, and whatever earlier calls had left in the cache.
THEOREM PaidMismatchMeansPriceMoved == PaidSpec => []MismatchMeansPriceMoved
<1>1. Priced => MismatchMeansPriceMoved
  BY DEF Priced, PricedCall, MismatchMeansPriceMoved, In
<1> QED  BY <1>1, PricedAlways, PTL

\* Whatever is lost, retried, overtaken or left in the cache, and however many
\* calls run at once: every row a call writes has the price it probed, and that
\* price is within the operator's cap per request, unless the resource server was
\* restarted while it ran.
THEOREM PaidChargedAsProbed == PaidSpec => []ChargedAsProbed
<1>1. Priced => ChargedAsProbed
  BY DEF Priced, PricedRow, ChargedAsProbed, RequestsOf
<1> QED  BY <1>1, PricedAlways, PTL

-----------------------------------------------------------------------------
(* The storage behind the resource server.                                 *)

\* A paid request uses the storage's own operations: its invariant stands.
LEMMA PaidStorageKept ==
  ASSUME Types, StorageInv, [PaidNext]_vars
  PROVE  StorageInv'
<1>0. Payer \in Identities /\ 0 \in Int /\ 1 \in Int
  BY PaidAssumption
<1>1. ASSUME UNCHANGED storageVars PROVE StorageInv'
  BY <1>1, NextInv
<1>2. ASSUME NEW t \in Tools, ToolStep(t) PROVE StorageInv'
  BY <1>1, <1>2, ClientLeaves
<1>3. ASSUME NEW h \in handlers, HandlerStep(h) PROVE StorageInv'
  <2>0. h.request \in RequestIds /\ h.price \in Nat
    BY DEF Types, IsHandler
  <2>1. CASE Reserve(h) \/ ReserveUnheard(h)
    <3>1. CASE ReserveReplay(h.request)
      BY <1>1, <3>1 DEF ReserveReplay
    <3>2. CASE \/ ReserveRefused(h.request, Payer, 0, 0, h.price)
               \/ ReserveGranted(h.request, Payer, 0, 0, h.price)
      BY <1>0, <2>0, <3>2, ReserveKeepsInv
    <3> QED  BY <2>1, <3>1, <3>2 DEF Reserve, ReserveUnheard
  <2>2. CASE Settle(h)
    <3>1. CASE SettleAt(h)
      BY <1>1, <2>0, <3>1, CommitKeepsInv, LateCommitKeepsInv, RollbackKeepsInv DEF SettleAt
    <3> QED  BY <1>1, <2>2, <3>1 DEF Settle
  <2>3. CASE UNCHANGED storageVars
    BY <1>1, <2>3
  <2> QED
    BY <1>3, <2>1, <2>2, <2>3
    DEF HandlerStep, HandlerDies, PassThrough, BodyTooLarge, Unauthorized, CheckPayment,
        VerifyUnavailable, Forward
<1>4. CASE TopUp
  <2>1. PICK o \in Outputs, amount \in Amounts, block \in Blocks :
          InsertAndCreditDeposit(o, Payer, amount, block)
    BY <1>4 DEF TopUp
  <2>2. amount \in Nat
    BY StorageAssumption
  <2> QED  BY <1>0, <2>1, <2>2, InsertAndCreditKeepsInv
<1>5. CASE Reap
  BY <1>0, <1>5, ReapKeepsInv, ReapRowKeepsInv DEF Reap
<1>6. CASE ForgetAccepts \/ \E rs \in RuleSets : Deploy(rs)
  BY <1>1, <1>6 DEF ForgetAccepts, Deploy
<1>7. CASE UNCHANGED vars
  BY <1>1, <1>7 DEF vars
<1> QED  BY <1>2, <1>3, <1>4, <1>5, <1>6, <1>7 DEF PaidNext

LEMMA PaidStorageInv == PaidSpec => []StorageInv
<1>1. PaidInit => StorageInv
  BY InitInv DEF PaidInit
<1>2. (Types /\ Service) /\ StorageInv /\ [PaidNext]_vars => StorageInv'
  BY PaidStorageKept
<1> QED  BY <1>1, <1>2, PaidServiceInvariant, PTL DEF PaidSpec

\* The running totals stay numbers, and restarts within their bound.
Counters == deploys \in 0..MaxDeploys /\ counted \in Nat

LEMMA CountersKept ==
  ASSUME Priced, Counters, [PaidNext]_vars
  PROVE  Counters'
<1> USE DEF Counters
<1>1. ASSUME NEW t \in Tools, ToolStep(t) PROVE Counters'
  <2>1. call[t].probed \in Nat /\ UNCHANGED deploys
    BY <1>1, ClientLeaves DEF Priced, PricedCall
  <2>2. counted' \in {counted, counted + call[t].probed}
    BY <1>1 DEF ToolStep, Probe, NothingToPay, Decline, Admit, CountSpend, Challenge,
         SignAndSend, NetworkError, Throw, RetryTransient, ReturnAnswer, Handle402
  <2> QED  BY <2>1, <2>2
<1>2. ASSUME NEW h \in handlers, HandlerStep(h) PROVE Counters'
  BY <1>2
  DEF HandlerStep, HandlerDies, PassThrough, BodyTooLarge, Unauthorized, CheckPayment,
      VerifyUnavailable, Reserve, ReserveUnheard, Forward, Settle, clientVars
<1>3. ASSUME NEW rs \in RuleSets, Deploy(rs) PROVE Counters'
  <2>1. deploys < MaxDeploys /\ deploys' = deploys + 1 /\ counted' = counted
    BY <1>3 DEF Deploy
  <2> QED  BY <2>1, PaidAssumption
<1>4. CASE ForgetAccepts \/ TopUp \/ Reap
  BY <1>4 DEF ForgetAccepts, TopUp, Reap, clientVars, serverVars
<1>5. CASE UNCHANGED vars
  BY <1>5 DEF vars, clientVars, serverVars
<1> QED  BY <1>1, <1>2, <1>3, <1>4, <1>5 DEF PaidNext

LEMMA CountersAlways == PaidSpec => []Counters
<1>1. PaidInit => Counters
  BY PaidAssumption DEF PaidInit, Counters
<1>2. Priced /\ Counters /\ [PaidNext]_vars => Counters'
  BY CountersKept
<1> QED  BY <1>1, <1>2, PricedAlways, PTL DEF PaidSpec

\* Tables, calls, handlers and counters stay well formed, and no request is sent
\* or signed again more often than the client's budgets allow.
THEOREM PaidTypes == PaidSpec => []PaidTypeOK
<1>1. Types /\ StorageInv /\ Priced /\ Counters => PaidTypeOK
  BY DEF Types, StorageInv, Priced, PricedCall, PricedHandler, Counters, PaidTypeOK
<1> QED  BY <1>1, PaidServiceInvariant, PaidStorageInv, PricedAlways, CountersAlways, PTL

=============================================================================
