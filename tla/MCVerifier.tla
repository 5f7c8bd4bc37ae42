----------------------------- MODULE MCVerifier ------------------------------
(* Verifier for TLC: an identity that two keys hold, both needed, or a third    *)
(* one, and one that may be unknown or revoked, for one cache entry.           *)
EXTENDS Verifier

CONSTANTS i1, i2, k1, k2, k3, b1, b2, c1, c2

MCOld == [primary |-> {k1, k2}, required |-> 2, revoked |-> FALSE]
MCNew == [primary |-> {k3}, required |-> 0, revoked |-> FALSE]
MCRevoked == [MCOld EXCEPT !.revoked = TRUE]

MCStates == {Unregistered, MCOld, MCNew, MCRevoked}
MCInitially == [i \in Identities |-> IF i = i1 THEN {MCOld} ELSE {Unregistered, MCRevoked}]
MCLater == [i \in Identities |-> IF i = i1 THEN {MCNew} ELSE {}]

\* One identity goes by two spellings of its name.
MCIdentityOf == "alice@" :> i1 @@ "Alice@" :> i1 @@ "bob@" :> i2

MCServer == [scheme |-> "verus-prepaid-sig", version |-> "0.1", domain |-> "api.example",
             network |-> "vrsctest", asset |-> "VRSCTEST", payTo |-> "operator@", system |-> "chain"]
MCPolicy == [price |-> 1, bodyHashPolicy |-> "required"]

\* Keys in byte order: iana, scheme.bodyHash, another scheme's, x-vendor.
MCExtensionKind == <<"iana", "bodyHash", "scheme", "vendor">>
Vendor == <<4, b2>>

Client(name, keys) ==
  [payer |-> name, bodyHash |-> "auto",
   signer |-> [identity |-> IdentityOf[name], keys |-> keys, height |-> 7, system |-> Server.system]]

Both == Client("alice@", <<k1, k2>>)
New == Client("Alice@", <<k3>>)
Twice == Client("alice@", <<k1, k1>>)
Stranger == Client("bob@", <<k1, k2>>)

Pay(client, price) ==
  SendPaid(client, [terms |-> Terms, amount |-> price], 1, "POST", <<"a">>, b1)

Good == Pay(Both, 1)

\* One slot is for a payment by the keys from before a rotation, a query by those
\* from after it, and for what is turned away before its signature is looked at.
\* The other competes, by the new keys, for the same cache entry, and for another.
MCRequests ==
  c1 :> {Pay(Both, 1),
         [Pay(Both, 1) EXCEPT !.body = b2],
         GetLedger(New, Terms, 1),
         [GetLedger(New, Terms, 1) EXCEPT !.repeated = {"payer"}]}
  @@ c2 :> {Pay(New, 1), Pay(Stranger, 1)}

-----------------------------------------------------------------------------
(* Every part of a payment that the server goes by is bound by its signature.  *)

Elsewhere == [Terms EXCEPT !.domain = "other.example"]

Altered ==
  {[Good EXCEPT !.path = <<"b">>], [Good EXCEPT !.method = "GET"],
   [Good EXCEPT !.payer = "Alice@"], [Good EXCEPT !.payer = "bob@"], [Good EXCEPT !.id = 2],
   [Good EXCEPT !.extensions = << >>], [Good EXCEPT !.extensions = Append(@, Vendor)],
   [Good EXCEPT !.kind = "balance"], [Good EXCEPT !.signature[2] = 8],
   [Good EXCEPT !.signature = WrapIdentitySignatures(<< >>, 7)],
   SendPaid(Both, [terms |-> Elsewhere, amount |-> 1], 1, "POST", <<"a">>, b1),
   [GetBalance(Both, Terms, 1) EXCEPT !.kind = "ledger"], Pay(Twice, 1),
   Pay([Both EXCEPT !.signer.system = "test chain"], 1),
   Pay([Both EXCEPT !.signer.identity = i2], 1),
   \* Signatures of plain addresses, as they are and in an identity's envelope.
   Pay([Both EXCEPT !.signer.identity = None], 1),
   [Good EXCEPT !.signature =
      WrapIdentitySignatures(SignMessage([Both.signer EXCEPT !.identity = None], Expected(Good))[3], 7)]}

ASSUME SignaturesBind ==
  /\ SignatureVerdict(Good, MCOld) = "accepted"
  /\ SignatureVerdict(GetBalance(Both, Terms, 1), MCOld) = "accepted"
  /\ \A q \in Altered : SignatureVerdict(q, MCOld) = "invalid-signature"

\* What the client signs in any order of its extensions parses at the server, and
\* nothing else does.
ASSUME BlocksRoundTrip ==
  \A block \in UNION {[1..n -> (1..4) \X {b1}] : n \in 0..3} :
    /\ Serializable(block) => ParseExtensionBlock(Serialize(block))
    /\ ParseExtensionBlock(block) <=> Serializable(block) /\ Serialize(block) = block

\* What is turned away before its signature is looked at, and why; the first
\* reason counts.
TurnedAway ==
  {<<Pay(Both, 2), "price-mismatch">>,
   <<[Good EXCEPT !.sent = @ \ {"amount"}, !.amount = 2], "invalid-headers">>,
   <<[Good EXCEPT !.repeated = {"signature"}], "invalid-headers">>,
   <<[Good EXCEPT !.scheme[1] = "other", !.amount = 2], "unsupported-scheme">>,
   <<[Good EXCEPT !.scheme[2] = "9.9"], "unsupported-scheme-version">>,
   <<[Good EXCEPT !.amount = 2, !.inWindow = FALSE], "price-mismatch">>,
   <<[Good EXCEPT !.extensions = <<Vendor>> \o @], "invalid-extensions">>,
   <<[Good EXCEPT !.extensions = << >>], "invalid-extensions">>,
   <<[Good EXCEPT !.inWindow = FALSE, !.path = <<".">>], "timestamp-out-of-window">>,
   <<[Good EXCEPT !.path = <<"a", "..", "b">>], "invalid-request">>,
   <<[Good EXCEPT !.path = <<"", "a">>], "invalid-request">>}

ASSUME RefusedInOrder ==
  /\ \A t \in TurnedAway : Failed(t[1]) # {} /\ Refusal(t[1]) = t[2]
  /\ Failed([Good EXCEPT !.scheme[2] = None, !.path = <<"a", "">>]) = {}
=============================================================================
