---------------------------- MODULE MCPaidRequest ----------------------------
(* PaidRequest for TLC: a report among free pages costs one, or two, or is free *)
(* itself as a hole in what else costs.                                         *)
EXTENDS PaidRequest

CONSTANTS i1

Pages == {"report", "page"}

MCRuleSets ==
  {<<[routes |-> {"page"}, price |-> NoRow], [routes |-> Pages, price |-> 1]>>,
   <<[routes |-> {"report"}, price |-> 2], [routes |-> Pages, price |-> 1]>>,
   <<[routes |-> {"report"}, price |-> NoRow], [routes |-> Pages, price |-> 1]>>}
=============================================================================
