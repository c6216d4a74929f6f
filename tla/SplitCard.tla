----------------------------- MODULE SplitCard -----------------------------
(***************************************************************************)
(* Wallets whose secret key is split between a host and a smart card       *)
(* (src/src/crypto v0.rs and v1.rs, the applet in src/src/javacard, the    *)
(* wallet and the integration client).                                     *)
(*                                                                         *)
(* Several hosts hold a shared connection to one card; a command to the    *)
(* card is one step, and the hosts' commands interleave.  A host sets up   *)
(* its two keys (TTC, then NAC), registers them, and signs; a phone does   *)
(* the same in the order of its app; a wallet without a card does it all   *)
(* alone.  The card may be a MockCard or the applet; a reply may be lost,  *)
(* and the card may lose power.                                            *)
(***************************************************************************)
EXTENDS Ecdaa, FiniteSets, TLC

CONSTANTS
    Hosts,          \* the hosts
    Starts,         \* what they may be ("split", "mobile", "software") and whether set up
    KindsOfCard,    \* "mock", "applet"
    CardSk, HostSk, \* the secret shares
    IssuerX, IssuerY,   \* the issuer's secret scalars
    SwapSk,         \* the swap server's secret key
    Names,          \* basenames, numbers other than NoName
    BitsOf,         \* the bits of the Bloom filter that each basename sets
    Randomizers,    \* how credentials are randomized; 1 if they are not
    Garbled,        \* points that an overwritten buffer may decode to
    MaxCommits, MaxCardEpoch    \* bounds

ASSUME SplitCardAssumption ==
    /\ CardSk \in Scalar \ {0} /\ HostSk \in [Hosts -> Scalar \ {0}]
    /\ {IssuerX, IssuerY, SwapSk} \subseteq Scalar \ {0}
    /\ Names \subseteq Nat \ {NoName} /\ NoName \notin Names
    /\ Starts \subseteq [Hosts -> [kind : {"split", "mobile", "software"}, ready : BOOLEAN]]
    /\ Randomizers \subseteq Scalar \ {0} /\ Garbled \subseteq Scalar
    /\ MaxCommits \in Nat /\ MaxCardEpoch \in Nat

\* The secret key of h, which is of kind k: with a card, the shares add up.
SecretKey(h, k) == HostSk[h] + (IF k = "software" THEN 0 ELSE CardSk)

\* No credential has the identity as one of its points, which verify refuses.  The
\* keys are random: the code leaves this to chance, with odds of one in Q.
ASSUME KeysAssumption ==
    \A h \in Hosts, k \in {"split", "mobile", "software"} :
       SecretKey(h, k) % Q # 0 /\ (1 + SecretKey(h, k) * IssuerY) % Q # 0

VARIABLES
    kind,       \* what each host is
    card,       \* the card
    host,       \* the state of each host
    answered,   \* how many challenges each nonce of the card has answered
    committed,  \* how often each basename was committed to in this epoch, no swap
    signed      \* the last signature, with who made it and for what

cardVars == <<kind, card, host, answered, committed, signed>>

Keys == {"ttc", "nac"}
Message == 9
\* Random scalars: the card's n-th nonce, and those of a host.
CardNonce(n) == (2 + 3 * n) % Q
HostRandom(h) == (HostSk[h] + 11) % Q
RandomN == 4
HwId(h) == HostSk[h] + 20
\* The bytes of a public key, as a nonce.
NonceOf(pk) == HashToScalar(pk.q, pk.c, pk.s, pk.n)

NoKey == [q |-> 0, c |-> 0, s |-> 0, n |-> 0]
NoShare == [sk |-> 0, r |-> 0, q |-> 0, c |-> 0]
NoSession == [name |-> NoName, cred |-> <<>>, challenge |-> [c |-> 0, k |-> 0]]
NoAuth == [c |-> 0, s |-> 0]
Issuer == GenerateIssuerKeypair(IssuerX, IssuerY)
SwapKeys == GenerateSwapKeypair(SwapSk)
-----------------------------------------------------------------------------
(* The card *)

NewCard(k, swapKey, resetKey) ==
    [kind |-> k, session |-> "none", r |-> 0, serial |-> 0, seen |-> {}, epoch |-> 0,
     swapKey |-> swapKey, resetKey |-> resetKey]

\* A new nonce, for a session of type t.
FreshNonce(c, t) ==
    [c EXCEPT !.session = t, !.serial = @ + 1, !.r = CardNonce(c.serial + 1)]

\* JOIN_COMMIT, after PUBLIC_KEY_SHARE (which leaves the card as it is).
CardJoinCommit(c, b) ==
    [card |-> FreshNonce(c, "join"), q |-> (b * CardSk) % Q,
     u |-> (b * FreshNonce(c, "join").r) % Q]

\* checkAndAdd: the basename was already there.
BloomHit(c, name) == BitsOf[name] \subseteq c.seen

\* SIGN_COMMIT_BSN without the filter's answer.
CommitUnchecked(c, name, swap, auth) == "ok"

\* The checks of processSignCommit; a MockCard makes none.
CommitCheck(c, name, swap, auth) ==
    IF c.kind = "mock" \/ name = NoName THEN "ok"
    ELSE IF swap
         THEN IF c.swapKey = 0 THEN "NoSwapKey"
              ELSE IF SwapAuthVerify(c.swapKey, HashToG1(name), auth) THEN "ok"
              ELSE "SwapAuthFailed"
    ELSE IF BloomHit(c, name) THEN "BloomFilterHit" ELSE "ok"

\* The status word, or no answer, as the host reads it.
CommitReply(sw, heard) == IF heard THEN sw ELSE "Other"

\* The bits that processSignCommit has set before it goes on.
BitsSet(c, name, swap) == IF c.kind = "mock" \/ name = NoName \/ swap THEN {} ELSE BitsOf[name]

\* SIGN_COMMIT.  The applet writes K_card over the basename before it reads it
\* for K_u_card; `garbled` is the point it reads instead.
CardSignCommit(c, b, name, swap, garbled) ==
    LET after == [FreshNonce(c, "sign") EXCEPT !.seen = @ \cup BitsSet(c, name, swap)]
        base == IF name = NoName THEN 0 ELSE HashToG1(name)
        read == IF c.kind = "applet" /\ name # NoName THEN garbled ELSE base
    IN  [card |-> after, u |-> (b * after.r) % Q, k |-> (base * CardSk) % Q,
         ku |-> (read * after.r) % Q]

\* The nonce is kept for another answer.
KeepSession(c) == c

\* The session is over, and the nonce erased.
EndSession(c) == [c EXCEPT !.session = "none", !.r = 0]

\* SIGN_RESPOND and JOIN_RESPOND: a MockCard does not tell its sessions apart.
CanRespond(c, t) ==
    IF c.kind = "mock" THEN c.session # "none" ELSE c.session = t

CardRespond(c, challenge) == (c.r + challenge * CardSk) % Q

\* The nonce and the session are transient memory.
PowerLoss(c) == [c EXCEPT !.session = "none", !.r = 0]

\* RESET_BLOOM is carried out: on a card with a reset key it takes an authorization,
\* and the epoch must be a later one.
CanReset(c, epoch, authorized) == (c.resetKey => authorized) /\ epoch > c.epoch

\* resetForEpoch: the counter, and then the filter; `kept` are the bits that are not
\* cleared, none unless the power fails.
ResetBloom(c, epoch, kept) == [c EXCEPT !.epoch = epoch, !.seen = kept]
-----------------------------------------------------------------------------
(* Hosts *)

NewHost == [pc |-> "join", key |-> "ttc", share |-> [k \in Keys |-> NoShare],
            qCard |-> [k \in Keys |-> 0], sTtc |-> 0,
            pk |-> [k \in Keys |-> NoKey], cred |-> <<>>, session |-> NoSession,
            clean |-> TRUE]

\* h has a commitment of the card in hand.
InSession(h) == host[h].pc \in {"respond", "answer", "joinNac", "askTtc", "askNac"}

\* h's command is carried out by the card, and disturbs the sessions of the others.
Disturb(h, new) ==
    [g \in Hosts |-> IF g = h THEN new
                     ELSE IF InSession(g) THEN [host[g] EXCEPT !.clean = FALSE] ELSE host[g]]

\* An error, or no reply at all.
Failed(h, heard) ==
    [host[h] EXCEPT !.pc = "failed", !.session = NoSession, !.clean = @ /\ heard]

\* The card answers JOIN_RESPOND or SIGN_RESPOND, if it has such a session.
Respond(t) ==
    /\ card' = IF CanRespond(card, t) THEN EndSession(card) ELSE card
    /\ answered' = IF CanRespond(card, t) THEN [answered EXCEPT ![card.serial] = @ + 1] ELSE answered

\* The nonce of a key of the wallet library: the NAC's is the TTC's public key.
NonceFor(h, key) == IF key = "ttc" THEN HwId(h) ELSE NonceOf(host[h].pk["ttc"])

\* generate_split_wallet_keypair up to the challenge.
JoinCommit(h, heard) ==
    /\ host[h].pc = "join" /\ kind[h] = "split" /\ card.serial < MaxCommits
    /\ LET key == host[h].key
           r == CardJoinCommit(card, HashToG1(NonceFor(h, key)))
           share == JoinHostCommitAndChallenge(NonceFor(h, key), r.q, r.u, HostSk[h], HostRandom(h))
       IN  /\ card' = r.card
           /\ host' = Disturb(h,
                 IF ~ heard THEN Failed(h, heard)
                 ELSE [host[h] EXCEPT !.pc = "respond", !.share[key] = share, !.qCard[key] = r.q,
                                      !.clean = key = "ttc" \/ @])
    /\ UNCHANGED <<kind, answered, committed, signed>>

\* initialize_split_keys: the TTC's key, then the NAC's.
InitializeSplitKeys(h, pk) ==
    [host[h] EXCEPT !.pk[host[h].key] = pk, !.key = "nac",
                    !.pc = IF host[h].key = "nac" THEN "register" ELSE "join"]

\* generate_split_wallet_keypair once the card has answered the challenge.
JoinRespond(h, heard) ==
    /\ host[h].pc = "respond"
    /\ LET key == host[h].key
           share == host[h].share[key]
           pk == JoinFinalize(NonceFor(h, key), host[h].qCard[key], share,
                              CardRespond(card, share.c), RandomN)
       IN  host' = Disturb(h, IF CanRespond(card, "join") /\ heard THEN InitializeSplitKeys(h, pk)
                              ELSE Failed(h, heard))
    /\ Respond("join")
    /\ UNCHANGED <<kind, committed, signed>>
-----------------------------------------------------------------------------
(* Phones: the app commits to both keys before it asks for a response *)

\* split_key_after_ttc_commit of the integration client.
AfterTtcCommit(h, r) ==
    [host[h] EXCEPT !.pc = "joinNac", !.qCard["ttc"] = r.q,
        !.share["ttc"] = JoinHostCommitAndChallenge(HwId(h), r.q, r.u, HostSk[h], HostRandom(h))]

\* split_key_after_nac_commit: the nonce is the point of the TTC, not its public key.
AfterNacCommit(h, r) ==
    [host[h] EXCEPT !.pc = "askTtc", !.qCard["nac"] = r.q,
        !.share["nac"] = JoinHostCommitAndChallenge(host[h].share["ttc"].q, r.q, r.u,
                                                    HostSk[h], HostRandom(h))]

\* split_key_complete, with the two answers of the card.
SplitKeyComplete(h, sTtc, sNac) ==
    LET share == host[h].share
    IN  [host[h] EXCEPT !.pc = "register",
           !.pk["ttc"] = JoinFinalize(HwId(h), host[h].qCard["ttc"], share["ttc"], sTtc, RandomN),
           !.pk["nac"] = JoinFinalize(share["ttc"].q, host[h].qCard["nac"], share["nac"],
                                      sNac, RandomN)]

\* The app hands the card's answers to the library of the phone.
PhoneTtcCommit(h, heard) ==
    /\ host[h].pc = "join" /\ kind[h] = "mobile" /\ card.serial < MaxCommits
    /\ LET r == CardJoinCommit(card, HashToG1(HwId(h)))
       IN  /\ card' = r.card
           /\ host' = Disturb(h, IF heard THEN AfterTtcCommit(h, r) ELSE Failed(h, heard))
    /\ UNCHANGED <<kind, answered, committed, signed>>

PhoneNacCommit(h, heard) ==
    /\ host[h].pc = "joinNac" /\ card.serial < MaxCommits
    /\ LET r == CardJoinCommit(card, HashToG1(host[h].share["ttc"].q))
       IN  /\ card' = r.card
           /\ host' = Disturb(h, IF heard THEN AfterNacCommit(h, r) ELSE Failed(h, heard))
    /\ UNCHANGED <<kind, answered, committed, signed>>

\* The response to the TTC's challenge, kept until the NAC's is there.
PhoneTtcRespond(h, heard) ==
    /\ host[h].pc = "askTtc"
    /\ LET s == CardRespond(card, host[h].share["ttc"].c)
       IN  host' = Disturb(h, IF CanRespond(card, "join") /\ heard
                              THEN [host[h] EXCEPT !.pc = "askNac", !.sTtc = s]
                              ELSE Failed(h, heard))
    /\ Respond("join")
    /\ UNCHANGED <<kind, committed, signed>>

PhoneComplete(h, heard) ==
    /\ host[h].pc = "askNac"
    /\ LET s == CardRespond(card, host[h].share["nac"].c)
       IN  host' = Disturb(h, IF CanRespond(card, "join") /\ heard
                              THEN SplitKeyComplete(h, host[h].sTtc, s) ELSE Failed(h, heard))
    /\ Respond("join")
    /\ UNCHANGED <<kind, committed, signed>>
-----------------------------------------------------------------------------
(* Registration and signing *)

\* initialize_keys: a wallet without a card.
InitializeKeys(h) ==
    /\ host[h].pc = "join" /\ kind[h] = "software"
    /\ LET ttc == GenerateWalletKeypair(HwId(h), HostSk[h], HostRandom(h), RandomN)
           nac == GenerateWalletKeypair(NonceOf(ttc), HostSk[h], HostRandom(h), RandomN)
       IN  host' = [host EXCEPT ![h].pk["ttc"] = ttc, ![h].pk["nac"] = nac, ![h].pc = "register"]
    /\ UNCHANGED <<kind, card, answered, committed, signed>>

\* The registrar issues both credentials, or neither.
Accepted(h) ==
    LET pk == host[h].pk
    IN  MemberProofHolds(pk["nac"], NonceOf(pk["ttc"])) /\ MemberProofHolds(pk["ttc"], HwId(h))

Register(h) ==
    /\ host[h].pc = "register"
    /\ host' = [host EXCEPT ![h] =
          IF Accepted(h)
          THEN [@ EXCEPT !.pc = "ready", !.cred = IssueCredential(host[h].pk["ttc"], Issuer.isk, HwId(h))]
          ELSE [@ EXCEPT !.pc = "refused"]]
    /\ UNCHANGED <<kind, card, answered, committed, signed>>

\* A wallet that could not be set up is created anew.
StartOver(h) ==
    /\ host[h].pc \in {"failed", "refused"}
    /\ host' = [host EXCEPT ![h] = NewHost]
    /\ UNCHANGED <<kind, card, answered, committed, signed>>

\* What sign_split goes on with: the card's commitment joined with the host's.
SignWithCard(h, name, cred, r) ==
    [name |-> name, cred |-> cred,
     challenge |-> SplitChallenge(Message, cred, HostSk[h], name, r, HostRandom(h), RandomN)]

\* sign_split_ext up to the challenge, with or without the authorization of a swap.
SignCommit(h, name, swap, l, heard, garbled) ==
    /\ host[h].pc = (IF swap THEN "hit" ELSE "ready")
    /\ swap => name = host[h].session.name
    /\ kind[h] # "software" /\ card.serial < MaxCommits
    /\ LET cred == RandomizeCredential(host[h].cred, l)
           auth == IF swap THEN SwapAuthCreate(SwapKeys, HashToG1(name), 6) ELSE NoAuth
           sw == CommitCheck(card, name, swap, auth)
           reply == CommitReply(sw, heard)
           r == CardSignCommit(card, cred.b, name, swap, garbled)
       IN  /\ card' = IF sw = "ok" THEN r.card ELSE card
           /\ host' = Disturb(h,
                 IF reply = "BloomFilterHit"
                 THEN [host[h] EXCEPT !.pc = "hit", !.session.name = name]
                 ELSE IF reply = "ok"
                 THEN [host[h] EXCEPT !.pc = "answer", !.session = SignWithCard(h, name, cred, r),
                                      !.clean = TRUE]
                 ELSE [Failed(h, heard) EXCEPT !.pc = "ready"])
           /\ committed' = IF sw = "ok" /\ name # NoName /\ ~ swap
                           THEN [committed EXCEPT ![name] = @ + 1] ELSE committed
    /\ UNCHANGED <<kind, answered, signed>>

\* The card loses power while it sets the bits of a basename, one by one.
TornCommit(h, name) ==
    /\ host[h].pc = "ready" /\ kind[h] # "software"
    /\ card.kind = "applet" /\ ~ BloomHit(card, name) /\ card.serial < MaxCommits
    /\ \E bits \in SUBSET BitsOf[name] :
          card' = PowerLoss([card EXCEPT !.seen = @ \cup bits])
    /\ host' = Disturb(h, host[h])
    /\ UNCHANGED <<kind, answered, committed, signed>>

\* The signature, with whether the session was h's own from beginning to end.
SignRespond(h, heard) ==
    /\ host[h].pc = "answer"
    /\ LET s == host[h].session
           sig == SplitSignature(s.cred, HostSk[h], s.challenge,
                                 CardRespond(card, s.challenge.c), HostRandom(h), RandomN)
       IN  /\ host' = Disturb(h, [host[h] EXCEPT !.pc = "ready", !.session = NoSession])
           /\ signed' = IF CanRespond(card, "sign") /\ heard
                        THEN [by |-> h, sig |-> sig, name |-> s.name, clean |-> host[h].clean]
                        ELSE signed
    /\ Respond("sign")
    /\ UNCHANGED <<kind, committed>>

\* sign: a wallet without a card.
SignAlone(h, name, l) ==
    /\ host[h].pc = "ready" /\ kind[h] = "software"
    /\ signed' = [by |-> h, name |-> name, clean |-> TRUE,
          sig |-> Sign(Message, host[h].cred, HostSk[h], name, l, HostRandom(h), RandomN)]
    /\ UNCHANGED <<kind, card, host, answered, committed>>
-----------------------------------------------------------------------------
(* Others *)

\* A host tells the card of a new epoch; the count of the properties starts anew.
NewEpoch(epoch, authorized) ==
    /\ card.kind = "applet" /\ CanReset(card, epoch, authorized)
    /\ card' = ResetBloom(card, epoch, {})
    /\ committed' = [n \in Names |-> 0]
    /\ UNCHANGED <<kind, host, answered, signed>>

\* Whoever has a commitment of the card in hand has lost its session.
AllDisturbed ==
    [h \in Hosts |-> IF InSession(h) THEN [host[h] EXCEPT !.clean = FALSE] ELSE host[h]]

\* The card loses power when it has written the epoch, and has cleared some of the bits:
\* what is left stays for the epoch, since a later reset to it is refused.
TornReset(epoch, authorized) ==
    /\ card.kind = "applet" /\ CanReset(card, epoch, authorized)
    /\ \E kept \in SUBSET card.seen : card' = PowerLoss(ResetBloom(card, epoch, kept))
    /\ host' = AllDisturbed
    /\ committed' = [n \in Names |-> 0]
    /\ UNCHANGED <<kind, answered, signed>>

LosePower ==
    /\ card.session # "none"
    /\ card' = PowerLoss(card)
    /\ host' = AllDisturbed
    /\ UNCHANGED <<kind, answered, committed, signed>>

\* A wallet that was set up before, with nobody else at the card.
ReadyHost(h, k) ==
    LET q == (HashToG1(HwId(h)) * SecretKey(h, k)) % Q
    IN  [NewHost EXCEPT !.pc = "ready", !.cred = IssueCredential([NoKey EXCEPT !.q = q], Issuer.isk, HwId(h))]

CardInit ==
    /\ \E start \in Starts :
          /\ kind = [h \in Hosts |-> start[h].kind]
          /\ host = [h \in Hosts |-> IF start[h].ready THEN ReadyHost(h, start[h].kind) ELSE NewHost]
    /\ \E k \in KindsOfCard, swapKey \in {0, SwapKeys.pk}, resetKey \in BOOLEAN :
          card = NewCard(k, swapKey, resetKey)
    /\ answered = [n \in 1 .. MaxCommits |-> 0]
    /\ committed = [n \in Names |-> 0]
    /\ signed = [by |-> CHOOSE h \in Hosts : TRUE, sig |-> <<>>, name |-> NoName, clean |-> FALSE]

\* The commands of the wallets run out with the bound on commits.
Rest == card.serial = MaxCommits /\ UNCHANGED cardVars

CardNext ==
    \/ \E h \in Hosts, heard \in BOOLEAN :
          \/ JoinCommit(h, heard) \/ JoinRespond(h, heard) \/ SignRespond(h, heard)
          \/ PhoneTtcCommit(h, heard) \/ PhoneNacCommit(h, heard)
          \/ PhoneTtcRespond(h, heard) \/ PhoneComplete(h, heard)
    \/ \E h \in Hosts : InitializeKeys(h) \/ Register(h) \/ StartOver(h)
    \/ \E h \in Hosts, name \in Names \cup {NoName}, l \in Randomizers :
          \/ SignAlone(h, name, l)
          \/ \E swap, heard \in BOOLEAN, g \in Garbled : SignCommit(h, name, swap, l, heard, g)
    \/ \E h \in Hosts, name \in Names : TornCommit(h, name)
    \/ \E epoch \in 1 .. MaxCardEpoch, authorized \in BOOLEAN :
          NewEpoch(epoch, authorized) \/ TornReset(epoch, authorized)
    \/ LosePower \/ Rest

CardSpec == CardInit /\ [][CardNext]_cardVars
-----------------------------------------------------------------------------
CardTypeOK ==
    /\ \A h \in Hosts : host[h].pc \in {"join", "respond", "joinNac", "askTtc", "askNac", "register",
                                        "ready", "hit", "answer", "failed", "refused"}
    /\ card.session \in {"none", "sign", "join"} /\ card.serial \in 0 .. MaxCommits
    /\ (card.session = "none") <=> (card.r = 0)

\* However the hosts interleave their commands, lose replies or lose power, a nonce
\* of the card answers at most one challenge: two answers would give its key away.
NonceAnswersOnce == \A n \in 1 .. MaxCommits : answered[n] <= 1

\* Without the authorization of a swap the applet commits to a basename at most
\* once in an epoch, even if it loses power while it notes the basename or while it
\* clears the filter for the epoch (which then refuses more than it should).
BasenameOncePerEpoch == card.kind = "applet" => \A n \in Names : committed[n] <= 1

\* A signature that was made without another host or a power loss in between
\* verifies, under the randomized credential it carries and after it was deflated
\* and inflated.  The applet's signatures with a basename are left out: it commits
\* to K_card where K_u_card is meant.
CleanSignaturesVerify ==
    signed.clean /\ (kind[signed.by] = "software" \/ card.kind = "mock" \/ signed.name = NoName) =>
       LET cred == CredentialFromSignature(signed.sig)
       IN  /\ Verify(Issuer.gpk, signed.name, cred,
                     InflateSignature(cred, DeflateSignature(signed.sig)), Message)
           /\ CredentialInGroup(cred, Issuer.gpk)

\* A basename links the signatures of a wallet and of no two wallets: the pseudonym
\* depends on the whole key and on the basename, not on the session.
PseudonymIsTheWallets ==
    signed.clean /\ signed.name # NoName =>
       signed.sig.k = (HashToG1(signed.name) * SecretKey(signed.by, kind[signed.by])) % Q

\* Keys that were set up without a disturbance, in the order of the wallet library
\* or by a wallet alone, are accepted by the registrar.
CleanKeysAccepted ==
    \A h \in Hosts : host[h].pc = "refused" /\ kind[h] # "mobile" => ~ host[h].clean

\* What hosts and card did without a disturbance is accepted: signatures verify, under
\* the pseudonym that is the wallet's alone, and keys register.
UndisturbedIsAccepted == CleanSignaturesVerify /\ PseudonymIsTheWallets /\ CleanKeysAccepted
=============================================================================
