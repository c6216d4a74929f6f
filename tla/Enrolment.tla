----------------------------- MODULE Enrolment -----------------------------
(***************************************************************************)
(* How wallets and services get their credentials: the registrar           *)
(* (src/src/registrar), the registering part of the wallet, of the         *)
(* integration client and of the mobile library, and the services' own     *)
(* registration (src/src/service_auth).                                    *)
(*                                                                         *)
(* The registrar starts by reading or generating one issuer keypair after  *)
(* another, in two file writes each; it may crash between them, or in the  *)
(* middle of one and leave an empty file.  Wallets make keys, have their   *)
(* hardware attest to them, and register; the evidence they send may be    *)
(* old, another wallet's, damaged, or made up without any hardware.  A     *)
(* member's public key is an identity and the nonce its proof was made for. *)
(***************************************************************************)
EXTENDS Personalization

CONSTANTS
    Wallets, Services,
    Scenes,         \* configurations of the registrar with the budgets of a behaviour
    Clients,        \* "phone": this repository's wallet; "aware": a client that makes
                    \* its TTC key for the nonce the registrar derives
    NoFile,
    MaxKeys         \* bound: issuer keypairs generated

\* The level of a kit is how well its keys are protected; 1 and 2 are hardware.
ASSUME EnrolmentAssumption ==
    /\ NoFile \notin Nat /\ MaxKeys \in Nat /\ "nobody" \notin Wallets
    /\ \A s \in Scenes : \A w \in Wallets :
          /\ s.kits[w].alg \in {"none", "android", "ios", "card"}
          /\ s.kits[w].alg = "card" => s.kits[w].level \in {1, 2}

LevelNumber == [Low |-> 0, Medium |-> 1, High |-> 2]
\* An empty file, as a key.
Empty == 0
NoPair == [sk |-> Empty, gpk |-> Empty]

VARIABLES
    scene,      \* the configuration
    files,      \* the two files of every issuer
    boot,       \* the issuer being started, if any, and the key just written
    keys,       \* the issuers in memory
    made,       \* issuer keypairs generated
    crashes,    \* crashes left
    wallet,     \* keys and credentials of each wallet
    evidence,   \* the last attestation of each wallet's hardware
    issued,     \* the credentials the registrar issued
    outcome,    \* the last registration
    service     \* state file of each service, and the hw_ids it registered with

enrolVars == <<scene, files, boot, keys, made, crashes, wallet, evidence, issued, outcome, service>>
vars == <<enrolVars, personalVars>>
-----------------------------------------------------------------------------
(* The registrar's keys *)

\* new, then new_tiered: the issuers in the order they are started.
IfTier(level) == IF level \in scene.tiers THEN <<level>> ELSE <<>>
BootOrder == <<"nac", "ttc">> \o IfTier("Low") \o IfTier("Medium") \o IfTier("High")
Issuers == {"nac", "ttc", "Low", "Medium", "High"}

\* A new keypair is made at every start if generation is on.
ReadAlways(f) == ~ scene.generate

\* Both files can be read.
Loaded(f) == f.sk # NoFile /\ f.gpk # NoFile

MayGenerate(f) == scene.generate

\* read_or_generate_key up to the first write; without --generate it panics.
ReadOrGenerate ==
    LET s == BootOrder[boot.next]
        f == files[s]
    IN  /\ boot.on /\ boot.next <= Len(BootOrder) /\ boot.key = Empty
        /\ IF Loaded(f)
           THEN /\ keys' = [keys EXCEPT ![s] = f]
                /\ boot' = [boot EXCEPT !.next = @ + 1]
                /\ UNCHANGED <<files, made>>
           ELSE IF MayGenerate(f)
           THEN /\ made < MaxKeys
                /\ made' = made + 1
                /\ files' = [files EXCEPT ![s].sk = made + 1]
                /\ boot' = [boot EXCEPT !.key = made + 1]
                /\ UNCHANGED keys
           ELSE /\ boot' = [boot EXCEPT !.on = FALSE] /\ UNCHANGED <<keys, files, made>>
        /\ UNCHANGED <<scene, crashes, wallet, evidence, issued, outcome, service, personalVars>>

GeneratedPair(s) == [sk |-> boot.key, gpk |-> boot.key]

WriteGroupKey ==
    LET s == BootOrder[boot.next]
    IN  /\ boot.on /\ boot.key # Empty
        /\ files' = [files EXCEPT ![s].gpk = boot.key]
        /\ keys' = [keys EXCEPT ![s] = GeneratedPair(s)]
        /\ boot' = [boot EXCEPT !.next = @ + 1, !.key = Empty]
        /\ UNCHANGED <<scene, made, crashes, wallet, evidence, issued, outcome, service, personalVars>>

Up == boot.on /\ boot.next > Len(BootOrder)

\* The file that a crash may leave empty: the one being written.
TornFiles ==
    LET s == BootOrder[boot.next]
    IN  {files} \cup
        (IF ~ boot.on \/ Up THEN {}
         ELSE IF boot.key # Empty THEN {[files EXCEPT ![s].gpk = Empty], [files EXCEPT ![s].sk = Empty]}
         ELSE {})

Crash ==
    /\ boot.on /\ crashes > 0
    /\ crashes' = crashes - 1
    /\ files' \in TornFiles
    /\ boot' = [on |-> FALSE, next |-> 1, key |-> Empty]
    /\ keys' = [s \in Issuers |-> NoPair]
    /\ UNCHANGED <<scene, made, wallet, evidence, issued, outcome, service, personalVars>>

Start ==
    /\ ~ boot.on
    /\ boot' = [on |-> TRUE, next |-> 1, key |-> Empty]
    /\ UNCHANGED <<scene, files, keys, made, crashes, wallet, evidence, issued, outcome, service,
                   personalVars>>

\* nac_keys_for_level: a level without a key of its own gets the default.
NacKeysForLevel(level) == IF keys[level].sk # Empty THEN keys[level] ELSE keys["nac"]
-----------------------------------------------------------------------------
(* register_call *)

\* attestation.rs is only as strict as the roots that are configured.
Roots == IF scene.roots
         THEN {[subject |-> "root", issuer |-> "root", alg |-> "ecdsa", signer |-> "root",
                ext |-> NoExt]}
         ELSE {}
CardCas == IF scene.roots /\ ca.pk # NoCa THEN {ca.pk} ELSE {}
AppId == "app"

VerifyAnyAttestation(hw, sig, pks) ==
    CASE sig.alg = "android" -> VerifyAndroidAttestation(hw, sig, Roots, pks)
      [] sig.alg = "ios" -> VerifyIosAttestation(hw, sig, AppId, Roots, pks)
      [] sig.alg = "card" -> VerifyCardP256Attestation(hw, sig, CardCas, pks)
      [] OTHER -> IF scene.require THEN Refused
                  ELSE [ok |-> TRUE, level |-> "Low", nonce |-> hw]

\* Any point but the identity and the whole key will do for the card's share.
VerifySplitKeyProof(share) == share \notin {"identity", "whole"}

\* A card attestation that comes with the proof changes nothing.
EffectiveLevel(att, proof) ==
    IF /\ LevelNumber[att.level] >= LevelNumber["Medium"]
       /\ proof # <<>>
       /\ VerifySplitKeyProof(proof.nac) /\ VerifySplitKeyProof(proof.ttc)
    THEN "High" ELSE att.level

\* The keys that evidence of a kind is traced to, if any are configured.
Trusted(alg) == IF alg = "card" THEN CardCas ELSE Roots

\* v1::issue_credential: the issuer's key is there and the proof is for this nonce.
IssueCredential(pk, sk, nonce) == sk # Empty /\ pk.nonce = nonce

\* The reply, with a note of how the evidence was made.
RegisterCall(hw, sig, nac, ttc, proof) ==
    LET att == VerifyAnyAttestation(hw, sig, <<nac, ttc>>)
        level == EffectiveLevel(att, proof)
        nacKeys == NacKeysForLevel(level)
        error == IF ~ att.ok THEN "InvalidHwidSignature"
                 ELSE IF ~ IssueCredential(nac, nacKeys.sk, ttc) THEN "InvalidNetworkCredentialRequest"
                 ELSE IF ~ IssueCredential(ttc, keys["ttc"].sk, att.nonce)
                 THEN "InvalidTokenCredentialRequest"
                 ELSE "none"
    IN  [error |-> error, level |-> level, hw |-> hw, nac |-> nac, ttc |-> ttc,
         damage |-> sig.damage, anchored |-> Trusted(sig.alg) # {},
         nacKeys |-> nacKeys, ttcKeys |-> keys["ttc"]]
-----------------------------------------------------------------------------
(* Wallets *)

HwId(w) == <<"hw", w>>
NoKeys == [gen |-> 0, nac |-> NoBytes, ttc |-> NoBytes]
NoEvidence == [alg |-> "none", body |-> NoBytes, key |-> NoBytes, damage |-> "none"]
NoOutcome == [error |-> "none", client |-> "none", genuine |-> FALSE]

\* The key that each kind of hardware attests with.
HardwareKey(w, kit) == IF kit.alg = "card" THEN card.key ELSE <<"hwkey", w>>

\* The nonce the registrar derives from a wallet's hardware.
DerivedNonce(w, kit) ==
    CASE kit.alg = "android" -> IF kit.uid = NoBytes THEN Sha(<<HwId(w), HardwareKey(w, kit)>>)
                                ELSE Sha(kit.uid)
      [] kit.alg = "none" -> HwId(w)
      [] OTHER -> Sha(HardwareKey(w, kit))

\* initialize_keys: the TTC's proof is for the hw_id, the NAC's for the TTC.
InitializeKeys(w, nonce, gen) ==
    LET ttc == [who |-> w, gen |-> gen, nonce |-> nonce]
    IN  [gen |-> gen, ttc |-> ttc, nac |-> [who |-> w, gen |-> gen, nonce |-> ttc]]

InitKeys(w, client) ==
    /\ wallet[w].keys.gen < scene.generations
    /\ wallet[w].kit.alg = "card" => card.key # CardKey(0)
    /\ wallet' = [wallet EXCEPT ![w] =
            [client |-> client, cred |-> FALSE,
             keys |-> InitializeKeys(w, IF client = "phone" THEN HwId(w)
                                        ELSE DerivedNonce(w, wallet[w].kit),
                                     wallet[w].keys.gen + 1),
             kit |-> wallet[w].kit, attested |-> wallet[w].attested]]
    /\ UNCHANGED <<scene, files, boot, keys, made, crashes, evidence, issued, outcome, service,
                   personalVars>>

\* hw_id || nac_pk || ttc_pk; for iOS with the key identifier after the hw_id.
AttestationChallengePreimage(w) ==
    <<HwId(w)>> \o (IF wallet[w].kit.alg = "ios" THEN <<HardwareKey(w, wallet[w].kit)>> ELSE <<>>)
                \o <<wallet[w].keys.nac, wallet[w].keys.ttc>>

\* Evidence that no hardware made: under a root of its own, or with a leaf that only
\* claims to be signed by its issuer.  It claims the highest level.
MadeUp == {"root", "unsigned"}

Chain(damage, alg, ext) ==
    LET leaf == [subject |-> "leaf", issuer |-> IF damage = "link" THEN "other" ELSE "middle",
                 alg |-> IF damage = "unsigned" THEN "rsa" ELSE "ecdsa",
                 signer |-> IF damage \in {"signature", "unsigned"} THEN "other" ELSE "middle",
                 ext |-> IF damage = "extension" THEN NoExt ELSE ext]
        middle == [subject |-> "middle", issuer |-> "root", alg |-> alg, signer |-> "root",
                   ext |-> NoExt]
        root == [subject |-> "root", issuer |-> "root", alg |-> "ecdsa",
                 signer |-> IF damage = "root" THEN "other" ELSE "root", ext |-> NoExt]
    IN  IF damage = "short" THEN <<leaf>> ELSE <<leaf, middle, root>>

\* What the hardware makes of a challenge (external), damaged on the way or not, or what
\* is made up in its place.
AttestationBody(kit, damage, preimage) ==
    LET auth == [short |-> damage = "short", rpId |-> Sha(IF damage = "link" THEN "other" ELSE AppId)]
        entry(k, t, v) == [key |-> k, type |-> t, value |-> v]
    IN  CASE kit.alg = "android" ->
                [truncated |-> damage = "truncated",
                 certs |-> Chain(damage, kit.chain,
                     [level |-> IF damage \in MadeUp THEN 2 ELSE kit.level,
                      challenge |-> Sha(preimage), uid |-> kit.uid])]
          [] kit.alg = "ios" ->
                [map |-> <<entry("fmt", "text", "apple-appattest"),
                           entry("authData", IF damage = "truncated" THEN "text" ELSE "bytes", auth),
                           entry("attStmt", "map",
                               <<entry("x5c", "array",
                                   Chain(damage, kit.chain, Sha(<<auth, Sha(preimage)>>)))>>)>>]
          [] OTHER ->
                [MfrAttest(card, IF damage \in {"signature", "unsigned"} THEN Sha(<<>>)
                                 ELSE Sha(preimage))
                    EXCEPT !.short = damage \in {"short", "truncated"},
                           !.cert = IF damage = "root" THEN [@ EXCEPT !.signer = NoCa] ELSE @]

Attest(w, damage) ==
    /\ wallet[w].keys.gen > 0 /\ wallet[w].kit.alg # "none"
    /\ wallet[w].kit.alg = "card" => card.cert # NoCert
    \* Only Android attests to keys that no hardware protects.
    /\ damage \notin MadeUp /\ wallet[w].kit.alg = "ios" => wallet[w].kit.level \in {1, 2}
    /\ LET e == [alg |-> wallet[w].kit.alg, key |-> HardwareKey(w, wallet[w].kit),
                 body |-> AttestationBody(wallet[w].kit, damage, AttestationChallengePreimage(w)),
                 damage |-> damage, gen |-> wallet[w].keys.gen]
       IN  /\ evidence' = [evidence EXCEPT ![w] = e]
           /\ evidence[w] # e
    /\ wallet' = [wallet EXCEPT ![w].attested = @ \cup {wallet[w].keys.gen}]
    /\ UNCHANGED <<scene, files, boot, keys, made, crashes, issued, outcome, service,
                   personalVars>>

\* The evidence is this hardware's, undamaged, for the keys that are registered.
Genuine(w, from) ==
    /\ from = w /\ evidence[w].alg # "none" /\ wallet[w].kit.level \in {1, 2}
    /\ evidence[w].damage = "none" /\ evidence[w].gen = wallet[w].keys.gen
    /\ evidence[w].alg = "card" =>
          CardCas = {} \/ evidence[w].body.cert.signer \in CardCas

\* initialize_credential: the request of a wallet with these keys.
InitializeCredential(w, ks, sig, proof) == RegisterCall(HwId(w), sig, ks.nac, ks.ttc, proof)

Issue(reply) == issued' = IF reply.error = "none" THEN issued \cup {reply} ELSE issued

\* The wallet that is kept is the one with credentials only if the reply arrives and
\* the synchronization and the first tickets succeed (rest).
RegisterWithAttestation(w, from, proof, rest) ==
    LET sig == IF from = "nobody" THEN NoEvidence ELSE evidence[from]
        reply == InitializeCredential(w, wallet[w].keys, sig, proof)
    IN  /\ Up /\ wallet[w].keys.gen > 0 /\ Cardinality(issued) < scene.registrations
        /\ Issue(reply)
        /\ wallet' = [wallet EXCEPT ![w].cred = @ \/ (reply.error = "none" /\ rest)]
        /\ outcome' = [error |-> reply.error, client |-> wallet[w].client,
                       genuine |-> from \in Wallets /\ Genuine(w, from)
                                   /\ keys["ttc"].sk # Empty /\ NacKeysForLevel(reply.level).sk # Empty]
        /\ UNCHANGED <<scene, files, boot, keys, made, crashes, evidence, service, personalVars>>

\* register_wallet_with_attestation: with a proof only if the app has both card shares.
RegisterWallet(w) ==
    \E from \in Wallets \cup {"nobody"}, rest \in BOOLEAN,
       proof \in {<<>>} \cup (IF wallet[w].kit.split
                             THEN [nac : {"share", "other", "identity"}, ttc : {"share", "whole"}]
                             ELSE {}) :
        RegisterWithAttestation(w, from, proof, rest)

\* create: keys, registration without attestation, and the first tickets; nothing is
\* kept of it if one of them fails.
Create(w, rest) ==
    LET ks == InitializeKeys(w, HwId(w), wallet[w].keys.gen + 1)
        reply == InitializeCredential(w, ks, NoEvidence, <<>>)
    IN  /\ Up /\ ks.gen <= scene.generations /\ Cardinality(issued) < scene.registrations
        /\ Issue(reply)
        /\ wallet' = IF reply.error = "none" /\ rest
                     THEN [wallet EXCEPT ![w].cred = TRUE, ![w].keys = ks, ![w].client = "phone"]
                     ELSE wallet
        /\ outcome' = [error |-> reply.error, client |-> "phone", genuine |-> FALSE]
        /\ UNCHANGED <<scene, files, boot, keys, made, crashes, evidence, service, personalVars>>
-----------------------------------------------------------------------------
(* Services *)

\* load_or_create_state: the hw_id and nonce in the file, if there is one.
LoadOrCreateState(s) ==
    IF service[s].file = NoFile THEN service[s].made + 1 ELSE service[s].file

\* register_with_state_dir.  The key's proof is for the stored nonce, and the key is
\* sent as both NAC and TTC; an empty state file cannot be parsed.
ServiceRegister(s) ==
    LET n == LoadOrCreateState(s)
        pk == [who |-> s, gen |-> n, nonce |-> <<"nonce", n>>]
        reply == RegisterCall(<<"service", n>>, NoEvidence, pk, pk, <<>>)
    IN  /\ n # Empty /\ n <= MaxKeys
        /\ service' = [service EXCEPT ![s].file = n,
                       ![s].made = IF n > @ THEN n ELSE @,
                       ![s].used = IF Up THEN @ \cup {n} ELSE @]
        /\ service[s] # service'[s]
        /\ issued' = IF Up /\ reply.error = "none" THEN issued \cup {reply} ELSE issued
        /\ UNCHANGED <<scene, files, boot, keys, made, crashes, wallet, evidence, outcome, personalVars>>

\* A service is killed while it writes its state file for the first time.
ServiceCrash(s) ==
    /\ crashes > 0 /\ service[s].file = NoFile
    /\ crashes' = crashes - 1
    /\ service' = [service EXCEPT ![s].file = Empty]
    /\ UNCHANGED <<scene, files, boot, keys, made, wallet, evidence, issued, outcome, personalVars>>
-----------------------------------------------------------------------------
\* A registrar that has started before, or one that never has.
Init ==
    /\ scene \in Scenes
    /\ LET order == BootOrder
           of(s) == CHOOSE i \in 1 .. Len(order) : order[i] = s
           pair(s) == IF s \in ToSet(order) THEN [sk |-> of(s), gpk |-> of(s)] ELSE NoPair
           none == [sk |-> NoFile, gpk |-> NoFile]
       IN  /\ files = [s \in Issuers |->
                          IF scene.running /\ s \in ToSet(order) THEN pair(s) ELSE none]
           /\ keys = [s \in Issuers |-> IF scene.running THEN pair(s) ELSE NoPair]
           /\ boot = [on |-> scene.running, key |-> Empty,
                      next |-> IF scene.running THEN Len(order) + 1 ELSE 1]
           /\ made = IF scene.running THEN Len(order) ELSE 0
    /\ crashes = scene.crashes
    /\ wallet = [w \in Wallets |->
            [client |-> "phone", cred |-> FALSE, keys |-> NoKeys, kit |-> scene.kits[w],
             attested |-> {}]]
    /\ evidence = [w \in Wallets |-> NoEvidence]
    /\ issued = {} /\ outcome = NoOutcome
    /\ service = [s \in Services |-> [file |-> NoFile, made |-> 0, used |-> {}]]
    /\ PersonalInit

Personal == scene.cards /\ PersonalNext /\ UNCHANGED enrolVars

\* Nothing is left to do within the bounds.
Rest == UNCHANGED vars

Next ==
    \/ ReadOrGenerate \/ WriteGroupKey \/ Crash \/ Start \/ Personal \/ Rest
    \/ \E w \in Wallets :
        \/ \E client \in Clients : InitKeys(w, client)
        \/ \E damage \in scene.damages : Attest(w, damage)
        \/ RegisterWallet(w)
        \/ \E rest \in BOOLEAN : Create(w, rest)
    \/ \E s \in Services : ServiceRegister(s) \/ ServiceCrash(s)

Spec == Init /\ [][Next]_vars
-----------------------------------------------------------------------------
TypeOK ==
    /\ scene \in Scenes
    /\ files \in [Issuers -> [sk : {NoFile} \cup 0 .. MaxKeys, gpk : {NoFile} \cup 0 .. MaxKeys]]
    /\ boot \in [on : BOOLEAN, next : 1 .. 6, key : 0 .. MaxKeys]
    /\ keys \in [Issuers -> [sk : 0 .. MaxKeys, gpk : 0 .. MaxKeys]]
    /\ made \in 0 .. MaxKeys /\ crashes \in 0 .. scene.crashes
    /\ \A w \in Wallets : wallet[w].client \in Clients /\ wallet[w].cred \in BOOLEAN
    /\ \A i \in issued : i.level \in {"Low", "Medium", "High"}
    /\ \A s \in Services : service[s].file \in {NoFile} \cup 0 .. MaxKeys
    /\ PersonalTypeOK

(* Wallets of one level are always put in the same NAC group, and all      *)
(* wallets in the same TTC group ("All wallets share the same TTC group so *)
(* they can transact", server.rs), however often the registrar crashed     *)
(* between the writes of its key files and was started again.              *)
GroupsAreStable ==
    \A i, j \in issued :
        /\ i.ttcKeys.sk = j.ttcKeys.sk
        /\ i.level = j.level => i.nacKeys.sk = j.nacKeys.sk

(* A credential above Low was issued for the hw_id and the keys that its   *)
(* evidence was made for (the challenge commits to all three): neither an  *)
(* attestation of older keys nor another wallet's will do.  That there was *)
(* hardware behind it is shown only as far as attestation.rs checks it: a  *)
(* chain under a root of its own is refused if roots are configured, which *)
(* the server never does, and a leaf that says it is RSA is never checked. *)
(* High says no more than Medium: any other point passes for a card share. *)
TierIsEarned ==
    \A i \in issued : i.level # "Low" =>
        /\ i.hw = HwId(i.ttc.who)
        /\ i.ttc.gen \in wallet[i.ttc.who].attested /\ i.nac.nonce = i.ttc
        /\ i.damage \notin MadeUp => wallet[i.ttc.who].kit.level \in {1, 2}
        /\ i.damage = "root" => ~ i.anchored

(* What undamaged hardware attested for the very keys that are registered  *)
(* is accepted, if the client made its TTC key for the nonce that the      *)
(* registrar derives from the hardware.                                    *)
GenuineEvidenceAccepted ==
    outcome.genuine /\ outcome.client = "aware" => outcome.error = "none"

(* A service registers with one hw_id for ever, across restarts ("the      *)
(* identity is stable across restarts", service_auth/src/lib.rs).          *)
ServiceIdentityStable == \A s \in Services : Cardinality(service[s].used) <= 1

(* A registration is decided by the evidence: neither more nor less than   *)
(* what it shows.                                                          *)
EvidenceDecides == TierIsEarned /\ GenuineEvidenceAccepted

(* Groups and identities that were once given out survive every crash and  *)
(* restart of the registrar and of the services.                           *)
IdentitiesAreStable == GroupsAreStable /\ ServiceIdentityStable
=============================================================================
