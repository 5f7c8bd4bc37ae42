------------------------------- MODULE Account -------------------------------
(***************************************************************************)
(* What a prepaid account promises its holder, without rows, ledgers,      *)
(* handlers or clocks (spec/0.1/prepaid-sig-scheme.md, sections 4 and 5):  *)
(* a request is held against available money at most once, then charged or *)
(* released; a released request can still be charged late, a charged one   *)
(* never changes again.                                                    *)
(***************************************************************************)
EXTENDS Integers

CONSTANTS Identities, RequestIds, Payer, Price

VARIABLES available,   \* money each identity can still spend
          funded,      \* money paid in for it so far
          state        \* what became of each request

accountVars == <<available, funded, state>>

AccountInit ==
  /\ available = [i \in Identities |-> 0]
  /\ funded = [i \in Identities |-> 0]
  /\ state = [r \in RequestIds |-> "new"]

Become(r, s) == state' = [state EXCEPT ![r] = s]

Pay(r, amount) == available' = [available EXCEPT ![Payer[r]] = @ - amount]

Fund(i) ==
  /\ funded'[i] > funded[i]
  /\ funded' = [funded EXCEPT ![i] = funded'[i]]
  /\ available' = [available EXCEPT ![i] = @ + funded'[i] - funded[i]]
  /\ UNCHANGED state

\* Refused for want of money, or a query: the requestId is used up.
Refuse(r) ==
  /\ state[r] = "new"
  /\ Become(r, "refused")
  /\ UNCHANGED <<available, funded>>

Hold(r) ==
  /\ state[r] = "new"
  /\ available[Payer[r]] >= Price[r]
  /\ Become(r, "held")
  /\ Pay(r, Price[r])
  /\ UNCHANGED funded

Charge(r) ==
  /\ state[r] = "held"
  /\ Become(r, "charged")
  /\ UNCHANGED <<available, funded>>

Release(r) ==
  /\ state[r] = "held"
  /\ Become(r, "released")
  /\ Pay(r, -Price[r])
  /\ UNCHANGED funded

\* The answer arrived after the release: charged late, on credit if need be.
ChargeLate(r) ==
  /\ state[r] = "released"
  /\ Become(r, "charged")
  /\ Pay(r, Price[r])
  /\ UNCHANGED funded

AccountNext ==
  \/ \E i \in Identities : Fund(i)
  \/ \E r \in RequestIds :
       Refuse(r) \/ Hold(r) \/ Charge(r) \/ Release(r) \/ ChargeLate(r)

AccountSpec == AccountInit /\ [][AccountNext]_accountVars
=============================================================================
