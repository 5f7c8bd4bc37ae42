----------------------------- MODULE Attribution -----------------------------
(***************************************************************************)
(* Who paid (packages/deposit-watcher/src/attribution.ts): the account a   *)
(* detected payment is credited to, found from the inputs of its           *)
(* transaction.                                                            *)
(*                                                                         *)
(* An input is a record [kind, addresses]: the node names its address, or  *)
(* lists its addresses, or names neither and the output it spends is       *)
(* fetched ("source"); a coinbase has no sender.  AccountOf maps an         *)
(* i-address to the balance key: getIdentity, the chain suffix stripped,   *)
(* the name normalized.                                                    *)
(***************************************************************************)
EXTENDS FiniteSets

CONSTANTS IdentityAddresses,  \* the i-addresses; every other address is a plain one
          AccountOf,          \* i-address -> normalized identity key
          NoSender            \* no account: the payment is left to an operator

InputKinds == {"coinbase", "address", "addresses", "source"}

\* What the inputs spend from: coinbase inputs, and spent outputs that pay to no
\* address, add nothing.
SourceAddresses(vins) ==
  UNION {vin.addresses : vin \in {v \in vins : v.kind # "coinbase"}}

\* Every identity among the inputs must be the same one.
AttributeSender(vins) ==
  LET identityAddresses == SourceAddresses(vins) \cap IdentityAddresses
  IN IF Cardinality(identityAddresses) = 1
     THEN AccountOf[CHOOSE a \in identityAddresses : TRUE]
     ELSE NoSender
=============================================================================
