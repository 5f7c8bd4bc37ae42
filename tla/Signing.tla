------------------------------- MODULE Signing -------------------------------
(***************************************************************************)
(* What payer and server must agree on to the byte: extension blocks and   *)
(* canonical payloads (packages/protocol), signatures and their            *)
(* verification (packages/signer-verus), and the requests the client makes *)
(* of them (packages/client-fetch).  Pure functions; Verifier has the      *)
(* handlers that call them.                                                *)
(*                                                                         *)
(* Abstracted: a payload is the sequence of its lines without their fixed  *)
(* words; hashing and key recovery are perfect: a signature is its key and *)
(* the digest signed, and recovers to that key over that digest only.      *)
(* Extension keys are numbers in the order of their bytes, a path is the   *)
(* sequence of its segments, and a time stamp is in the window or not.     *)
(***************************************************************************)
EXTENDS Integers, FiniteSets, SequencesExt

CONSTANTS Keys,          \* primary addresses
          Identities,    \* identities, by normalized key
          IdentityOf,    \* normalizeIdentityKey, of each name a payer may go by
          ExtensionKind, \* of each key: "bodyHash", "scheme", "iana", "vendor", "malformed"
          Server,        \* domain, network, asset, payTo, scheme, version, system of the server
          None           \* the absent value

ASSUME SigningAssumption ==
  /\ \A name \in DOMAIN IdentityOf : IdentityOf[name] \in Identities
  /\ DOMAIN ExtensionKind \subseteq Int
  /\ None \notin Keys

Larger(m, n) == IF m >= n THEN m ELSE n

-----------------------------------------------------------------------------
(* Extension blocks.                                                       *)

\* A field is a key and its value.
KindOf(f) == ExtensionKind[f[1]]

ValidField(f) == KindOf(f) # "malformed" /\ f[2] # None

Serializable(fields) ==
  /\ \A n \in DOMAIN fields : ValidField(fields[n])
  /\ \A m, n \in DOMAIN fields : fields[m][1] = fields[n][1] => m = n

Ascending(block) == \A m, n \in DOMAIN block : m < n => block[m][1] <= block[n][1]

\* Sorted here, in whatever order the fields come.
Serialize(fields) ==
  LET places == DOMAIN fields
  IN CHOOSE block \in {[n \in places |-> fields[p[n]]] : p \in Bijection(places, places)} :
       Ascending(block)

\* Strictly ascending keys, as they must have been signed.
ParseExtensionBlock(block) ==
  /\ \A n \in DOMAIN block : ValidField(block[n])
  /\ \A n \in 1..Len(block) - 1 : block[n][1] < block[n + 1][1]

-----------------------------------------------------------------------------
(* Canonical payloads: lines in a fixed order, of which the first two stand  *)
(* for the context line.                                                   *)

\* No dot-segments, no duplicate slashes.
PathIsClean(path) ==
  \A n \in DOMAIN path : path[n] \notin {".", ".."} /\ (path[n] = "" => n = Len(path))

Canonicalizable(q) == PathIsClean(q.path) /\ Serializable(q.extensions)

Canonicalize(terms, amount, q) ==
  <<terms.scheme, terms.version, terms.domain, q.method, q.path, terms.network, terms.asset, amount,
    q.payer, terms.payTo, q.id, Serialize(q.extensions)>>

CanonicalizeBalanceQuery(terms, q) ==
  <<"v402-balance-query", "0.1", terms.domain, terms.network, q.payer, q.id>>

CanonicalizeLedgerQuery(terms, q) ==
  <<"v402-ledger-query", "0.1", terms.domain, terms.network, q.payer, q.id>>

-----------------------------------------------------------------------------
(* Signatures.                                                             *)

AddressDigest(message) == <<message>>

\* Binds the chain, the height that goes into the envelope, and the identity.
IdentityDigest(message, system, height, identity) == <<system, height, identity, message>>

SignCompact(digest, key) == <<key, digest>>

\* The envelope: what it is, the height, and a signature of each key.
WrapIdentitySignatures(compacts, height) == <<"identity", height, compacts>>

SignAddressMessage(message, key) == <<"address", 0, <<SignCompact(AddressDigest(message), key)>>>>

\* Every key signs the same digest.
SignIdentityMessage(message, keys, height, system, identity) ==
  LET digest == IdentityDigest(message, system, height, identity)
      sign(compacts, key) == Append(compacts, SignCompact(digest, key))
  IN WrapIdentitySignatures(FoldLeft(sign, << >>, keys), height)

\* A signer with an identity signs for it, at the height it is given.
SignMessage(signer, message) ==
  IF signer.identity # None
  THEN SignIdentityMessage(message, signer.keys, signer.height, signer.system, signer.identity)
  ELSE SignAddressMessage(message, Head(signer.keys))

ParseIdentitySignature(signature) == signature[1] = "identity" /\ signature[3] # << >>

Recover(digest, compact) == IF compact[2] = digest THEN compact[1] ELSE None

\* The distinct primary addresses among the signers.
Matched(digest, signature, primary) ==
  {Recover(digest, signature[3][n]) : n \in DOMAIN signature[3]} \cap primary

VerifyIdentitySignature(message, signature, system, identity, s) ==
  /\ ~s.revoked
  /\ ParseIdentitySignature(signature)
  /\ LET digest == IdentityDigest(message, system, signature[2], identity)
     IN Cardinality(Matched(digest, signature, s.primary)) >= Larger(1, s.required)

-----------------------------------------------------------------------------
(* The client's requests.                                                  *)

QueryHeaders == {"payer", "requestId", "issuedAt", "signature"}

PaymentHeaders == QueryHeaders \cup {"scheme", "amount"}

\* A request as it arrives: its headers, and what they carry.
Request(kind, headers, client, id, method, path, body) ==
  [kind |-> kind, sent |-> headers, repeated |-> {}, payer |-> client.payer, id |-> id,
   method |-> method, path |-> path, body |-> body, inWindow |-> TRUE,
   scheme |-> << >>, amount |-> 0, extensions |-> << >>, signature |-> << >>]

\* The body is bound by an extension when there is one.
BodyExtension(client, body) ==
  IF client.bodyHash = "auto" /\ body # None
  THEN << <<CHOOSE k \in DOMAIN ExtensionKind : ExtensionKind[k] = "bodyHash", body>> >>
  ELSE << >>

\* sendPaid: what the requirement says, signed and sent as it stands.
SendPaid(client, requirement, id, method, path, body) ==
  LET plain == [Request("payment", PaymentHeaders, client, id, method, path, body) EXCEPT
                  !.extensions = BodyExtension(client, body),
                  !.scheme = <<requirement.terms.scheme, requirement.terms.version>>,
                  !.amount = requirement.amount]
      canonical == Canonicalize(requirement.terms, requirement.amount, plain)
  IN [plain EXCEPT !.signature = SignMessage(client.signer, canonical)]

\* getBalance and getLedger: under the terms the facilitator's discovery names.
GetBalance(client, terms, id) ==
  LET plain == Request("balance", QueryHeaders, client, id, "GET", <<"v1", "balance">>, None)
  IN [plain EXCEPT !.signature = SignMessage(client.signer, CanonicalizeBalanceQuery(terms, plain))]

GetLedger(client, terms, id) ==
  LET plain == Request("ledger", QueryHeaders, client, id, "GET", <<"v1", "ledger">>, None)
  IN [plain EXCEPT !.signature = SignMessage(client.signer, CanonicalizeLedgerQuery(terms, plain))]
=============================================================================
