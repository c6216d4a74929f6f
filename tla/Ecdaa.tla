------------------------------- MODULE Ecdaa -------------------------------
(***************************************************************************)
(* The algebra of the anonymous signatures of src/src/crypto: v0.rs        *)
(* (BN254) and v1.rs (BLS12-381) compute the same equations on two curves. *)
(*                                                                         *)
(* A point is its discrete logarithm to the generator of its group, so     *)
(* that scalars and points are numbers below the group order Q, adding     *)
(* points adds them, a scalar multiplies and a pairing is the product.     *)
(* What is random in the code is an argument.  A point that does not       *)
(* decode makes every function of the code return false; the ones of the   *)
(* model are all well-formed.                                              *)
(***************************************************************************)
EXTENDS Integers, Sequences

CONSTANT Q      \* the order of the groups

ASSUME OrderAssumption == Q \in Nat \ {0, 1}

Scalar == 0 .. Q - 1

\* The order is a prime: scalars have inverses.
ASSUME FieldAssumption == \A y \in Scalar \ {0} : \E z \in Scalar : (y * z) % Q = 1

InverseOf(y) == CHOOSE z \in Scalar : (y * z) % Q = 1

\* A hash into the scalars, which takes in one element after the other, and one onto
\* the points other than the identity.
Absorb(h, v) == (7 * h + v + 1) % Q
HashToScalar(a, b, c, d) == Absorb(Absorb(Absorb(Absorb(3, a), b), c), d)
HashToG1(name) == 1 + ((5 * name) % (Q - 1))
-----------------------------------------------------------------------------
\* schnorr_hash_member
SchnorrHashMember(u, b, q, nonce) == HashToScalar(u, b, q, nonce)

\* generate_wallet_keypair: a key, and a proof that the wallet knows its secret.
GenerateWalletKeypair(nonce, sk, r, n) ==
    LET b == HashToG1(nonce)
        q == (b * sk) % Q
        c == SchnorrHashMember((b * r) % Q, b, q, nonce)
    IN  [q |-> q, c |-> c, s |-> (r + c * sk) % Q, n |-> n]

\* generate_issuer_keypair: the group's public key are the two scalars, as points.
GenerateIssuerKeypair(x, y) == [isk |-> [x |-> x, y |-> y], gpk |-> [x |-> x, y |-> y]]

\* issue_credential, the part that checks the proof in the public key.
MemberProofHolds(pk, nonce) ==
    LET b == HashToG1(nonce)
    IN  pk.c = SchnorrHashMember((b * pk.s - pk.q * pk.c) % Q, b, pk.q, nonce)

\* issue_credential, the credential.
IssueCredential(pk, isk, nonce) ==
    LET b == HashToG1(nonce)
        a == (b * InverseOf(isk.y)) % Q
    IN  [a |-> a, b |-> b, c |-> ((a + pk.q) * isk.x) % Q, d |-> pk.q]

RandomizeCredential(cred, l) == [i \in DOMAIN cred |-> (cred[i] * l) % Q]

NoName == 0
NoNym == <<>>

\* The challenge of a signature; the last three points are there with a basename.
Challenge(u, cred, message, nym, n) ==
    LET h == HashToScalar(u, cred.b, cred.d, message)
    IN  Absorb(Absorb(3, n),
               IF nym = NoNym THEN h ELSE Absorb(Absorb(Absorb(h, nym[1]), nym[2]), nym[3]))

\* sign, with the whole secret key in one place.
Sign(message, credential, sk, basename, l, r, n) ==
    LET cred == RandomizeCredential(credential, l)
        base == HashToG1(basename)
        k == (base * sk) % Q
        nym == IF basename = NoName THEN NoNym ELSE <<(base * r) % Q, k, base>>
        c == Challenge((cred.b * r) % Q, cred, message, nym, n)
    IN  [c |-> c, s |-> (r + c * sk) % Q, cred |-> cred, n |-> n,
         k |-> IF basename = NoName THEN 0 ELSE k]

\* The two pairing equations.
PairingsHold(cred, gpk) ==
    /\ (cred.a * gpk.y) % Q = cred.b
    /\ cred.c = ((cred.a + cred.d) * gpk.x) % Q

CredentialInGroup(cred, gpk) == cred.a # 0 /\ cred.b # 0 /\ PairingsHold(cred, gpk)

\* The Schnorr equation of verify.
SchnorrHolds(sig, basename, message) ==
    LET u == (sig.cred.b * sig.s - sig.cred.d * sig.c) % Q
        base == HashToG1(basename)
        nym == IF basename = NoName THEN NoNym
               ELSE <<(base * sig.s - sig.k * sig.c) % Q, sig.k, base>>
    IN  sig.c = Challenge(u, sig.cred, message, nym, sig.n)

\* verify; `required` is the credential that the signature must be made with, or
\* the empty function.
Verify(gpk, basename, required, sig, message) ==
    /\ \A i \in DOMAIN sig.cred : sig.cred[i] # 0
    /\ required = <<>> \/ sig.cred = required
    /\ SchnorrHolds(sig, basename, message)
    /\ PairingsHold(sig.cred, gpk)

CredentialFromSignature(sig) == sig.cred
DeflateSignature(sig) == [sig EXCEPT !.cred = <<>>]
InflateSignature(cred, sig) == [sig EXCEPT !.cred = cred]
-----------------------------------------------------------------------------
(* The host's half of the protocols with a card *)

\* split_join_host_commit_and_challenge
JoinHostCommitAndChallenge(nonce, qCard, uCard, sk, r) ==
    LET b == HashToG1(nonce)
        q == (qCard + b * sk) % Q
    IN  [sk |-> sk, r |-> r, q |-> q,
         c |-> SchnorrHashMember((uCard + b * r) % Q, b, q, nonce)]

\* split_join_finalize
JoinFinalize(nonce, qCard, host, sCard, n) ==
    [q |-> (qCard + HashToG1(nonce) * host.sk) % Q, c |-> host.c,
     s |-> (sCard + host.r + host.c * host.sk) % Q, n |-> n]

\* sign_split_ext up to the challenge, and after the card has answered it.
SplitChallenge(message, cred, sk, basename, commit, r, n) ==
    LET base == HashToG1(basename)
        k == (commit.k + base * sk) % Q
        nym == IF basename = NoName THEN NoNym
               ELSE <<(commit.ku + base * r) % Q, k, base>>
    IN  [c |-> Challenge((commit.u + cred.b * r) % Q, cred, message, nym, n),
         k |-> IF basename = NoName THEN 0 ELSE k]

\* The host answers with the card's response.
SplitSignatureCardOnly(cred, sk, challenge, sCard, r, n) ==
    [c |-> challenge.c, s |-> sCard, cred |-> cred, n |-> n, k |-> challenge.k]

SplitSignature(cred, sk, challenge, sCard, r, n) ==
    [c |-> challenge.c, s |-> (sCard + r + challenge.c * sk) % Q, cred |-> cred,
     n |-> n, k |-> challenge.k]
-----------------------------------------------------------------------------
(* Swap authorizations *)

\* swap_auth_hash
SwapAuthHash(r, base, pk) == Absorb(Absorb(Absorb(3, r), base), pk)

\* generate_swap_keypair: the generator is 1.
GenerateSwapKeypair(sk) == [sk |-> sk, pk |-> sk]

\* swap_auth_create
SwapAuthCreate(keys, base, r) ==
    LET c == SwapAuthHash(r, base, keys.pk) IN [c |-> c, s |-> (r + c * keys.sk) % Q]

\* swap_auth_verify
SwapAuthVerify(pk, base, auth) == auth.c = SwapAuthHash((auth.s - pk * auth.c) % Q, base, pk)
=============================================================================
