---------------------------- MODULE Attestation ----------------------------
(***************************************************************************)
(* What the registrar accepts as hardware attestation                      *)
(* (src/src/registrar/src/attestation.rs).                                 *)
(*                                                                         *)
(* A certificate names its subject and issuer, the algorithm and signer of *)
(* its signature, and an extension.  An attestation (a Signature message)  *)
(* is the body that its algorithm prescribes and a public key.  A hash is  *)
(* the tuple of what was hashed, marked "sha".                             *)
(***************************************************************************)
EXTENDS Integers, Sequences, SequencesExt

NoExt == <<>>       \* no extension
NoBytes == <<>>     \* empty bytes

Sha(x) == <<"sha", x>>
Refused == [ok |-> FALSE, level |-> "Low", nonce |-> NoBytes]
Accepted(nonce) == [ok |-> TRUE, level |-> "Medium", nonce |-> nonce]
Challenge(hw, pks) == Sha(<<hw>> \o pks)

\* The certificates, or none if the lengths do not fit the data.
ParseCertChain(body) == IF body.truncated THEN <<>> ELSE body.certs

\* An RSA or unknown algorithm is not checked.
VerifyCertSignature(subject, issuer) ==
    subject.alg = "ecdsa" => subject.signer = issuer.subject

ChainHolds(certs) ==
    \A i \in 1 .. Len(certs) - 1 :
        /\ certs[i].issuer = certs[i + 1].subject
        /\ VerifyCertSignature(certs[i], certs[i + 1])

\* Without configured roots every root is accepted.
RootTrusted(certs, roots) == roots = {} \/ certs[Len(certs)] \in roots

\* The security level as encoded: 0 Software, 1 TrustedEnvironment, 2 StrongBox.
ParseAndroidKeyDescription(ext) ==
    [ext EXCEPT !.level = IF @ \in {1, 2} THEN @ ELSE 0]

AndroidNonce(hw, sig, desc) == IF desc.uid = NoBytes THEN Sha(<<hw, sig.key>>) ELSE Sha(desc.uid)

\* The challenge is not compared.
AndroidUnbound(hw, sig, roots, pks) ==
    LET certs == ParseCertChain(sig.body)
        desc == ParseAndroidKeyDescription(certs[1].ext)
        holds == /\ Len(certs) >= 2 /\ ChainHolds(certs) /\ RootTrusted(certs, roots)
                 /\ certs[1].ext # NoExt /\ desc.level # 0
    IN  IF holds THEN Accepted(AndroidNonce(hw, sig, desc)) ELSE Refused

VerifyAndroidAttestation(hw, sig, roots, pks) ==
    LET certs == ParseCertChain(sig.body)
        desc == ParseAndroidKeyDescription(certs[1].ext)
        holds ==
            /\ Len(certs) >= 2
            /\ ChainHolds(certs)
            /\ RootTrusted(certs, roots)
            /\ certs[1].ext # NoExt
            /\ desc.challenge = Challenge(hw, pks)
            /\ desc.level # 0
    IN  IF holds THEN Accepted(AndroidNonce(hw, sig, desc)) ELSE Refused

\* find_cbor_text, _bytes, _map, _array: the first entry with that key and type.
FindCbor(map, key, type) ==
    LET i == SelectInSeq(map, LAMBDA e : e.key = key /\ e.type = type)
    IN  IF i = 0 THEN [found |-> FALSE] ELSE [found |-> TRUE, value |-> map[i].value]

VerifyIosAttestation(hw, sig, appId, roots, pks) ==
    LET fmt == FindCbor(sig.body.map, "fmt", "text")
        stmt == FindCbor(sig.body.map, "attStmt", "map")
        auth == FindCbor(sig.body.map, "authData", "bytes")
        x5c == FindCbor(stmt.value, "x5c", "array")
        certs == x5c.value
        clientData == Sha(<<hw, sig.key>> \o pks)
        holds ==
            /\ fmt.found /\ fmt.value = "apple-appattest"
            /\ stmt.found /\ auth.found
            /\ x5c.found /\ certs # <<>>
            /\ ChainHolds(certs)
            /\ RootTrusted(certs, roots)
            /\ certs[1].ext # NoExt
            /\ certs[1].ext = Sha(<<auth.value, clientData>>)
            /\ ~ auth.value.short
            /\ auth.value.rpId = Sha(appId)
            \* a counter other than 0 is only logged
    IN  IF ~ holds THEN Refused
        ELSE Accepted(IF sig.key = NoBytes THEN Sha(hw) ELSE Sha(sig.key))

\* A signature is who signed what.
VerifyCardP256Attestation(hw, sig, cas, pks) ==
    LET b == sig.body
        holds ==
            /\ ~ b.short
            /\ b.sig = [signer |-> b.pubkey, over |-> Challenge(hw, pks)]
            /\ cas = {} \/ \E ca \in cas : b.cert = [signer |-> ca, over |-> b.pubkey]
    IN  IF holds THEN Accepted(Sha(b.pubkey)) ELSE Refused
=============================================================================
