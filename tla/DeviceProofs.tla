---------------------------- MODULE DeviceProofs ----------------------------
(***************************************************************************)
(* Theorems about the devices that people carry: the card, for every       *)
(* number of hosts, commands, basenames and epochs and for every choice of *)
(* keys, and the sticks that a relay, their owners and other readers use,  *)
(* for every number of sticks and payments, every PIN and threshold, and   *)
(* every configuration of the relay.                                       *)
(***************************************************************************)
EXTENDS SplitCard, RelayPayment, TLAPS

(***************************************************************************)
(* The card.                                                               *)
(***************************************************************************)
Bits == UNION {BitsOf[n] : n \in Names}

Card == [kind : KindsOfCard, session : {"none", "sign", "join"}, r : Int,
         serial : 0 .. MaxCommits, seen : SUBSET Bits, epoch : Nat, swapKey : {0, SwapKeys.pk},
         resetKey : BOOLEAN]

\* Nonces that were not drawn yet, and the one of a session, have answered nothing.
NoncesFresh ==
    /\ answered \in [1 .. MaxCommits -> Nat]
    /\ \A n \in 1 .. MaxCommits : answered[n] <= 1 /\ (n > card.serial => answered[n] = 0)
    /\ card.session # "none" => card.serial >= 1 /\ answered[card.serial] = 0

\* What the applet has committed to is in its filter.
CommittedIsSeen ==
    /\ committed \in [Names -> Nat]
    /\ card.kind = "applet" =>
          \A n \in Names : committed[n] <= 1 /\ (committed[n] = 1 => BitsOf[n] \subseteq card.seen)

\* The invariant.
CardInv == card \in Card /\ NoncesFresh /\ CommittedIsSeen

\* A commitment draws the next nonce.
LEMMA FreshNonceIsNext ==
    ASSUME NEW c \in Card, NEW t \in {"sign", "join"}, c.serial < MaxCommits
    PROVE  /\ FreshNonce(c, t) \in Card
           /\ FreshNonce(c, t).serial = c.serial + 1 /\ FreshNonce(c, t).session = t
           /\ FreshNonce(c, t).kind = c.kind /\ FreshNonce(c, t).seen = c.seen
<1> DEFINE r == CardNonce(c.serial + 1)
<1>1. c.serial \in Nat /\ c.serial + 1 \in 0 .. MaxCommits
  BY SplitCardAssumption DEF Card
<1>2. r \in Int
  BY <1>1, OrderAssumption DEF CardNonce
<1> HIDE DEF r
<1>3. FreshNonce(c, t) = [c EXCEPT !.session = t, !.serial = c.serial + 1, !.r = r]
  BY DEF FreshNonce, r
<1>4. QED
  BY <1>1, <1>2, <1>3 DEF Card

\* The end of a session leaves all but the session and its nonce.
LEMMA SessionEnds ==
    ASSUME NEW c \in Card
    PROVE  /\ EndSession(c) \in Card /\ EndSession(c).session = "none"
           /\ EndSession(c).serial = c.serial /\ EndSession(c).kind = c.kind
           /\ EndSession(c).seen = c.seen
           /\ PowerLoss(c) = EndSession(c)
<1>1. EndSession(c) = [c EXCEPT !.session = "none", !.r = 0]
  BY DEF EndSession
<1>2. EndSession(c) \in Card
  <2>1. "none" \in {"none", "sign", "join"} /\ 0 \in Int
    OBVIOUS
  <2>2. ASSUME NEW t \in {"none", "sign", "join"}, NEW r \in Int
        PROVE  [c EXCEPT !.session = t, !.r = r] \in Card
    BY DEF Card
  <2>3. QED
    BY <1>1, <2>1, <2>2
<1>3. /\ EndSession(c).session = "none" /\ EndSession(c).serial = c.serial
      /\ EndSession(c).kind = c.kind /\ EndSession(c).seen = c.seen
  BY <1>1 DEF Card
<1>4. PowerLoss(c) = EndSession(c)
  BY DEF EndSession, PowerLoss
<1>5. QED
  BY <1>2, <1>3, <1>4

\* A new commitment that notes no basename keeps the invariant.
LEMMA CommitKeeps ==
    ASSUME CardInv, card.serial < MaxCommits, card' \in Card,
           card'.serial = card.serial + 1, card'.kind = card.kind,
           answered' = answered
    PROVE  NoncesFresh'
<1>1. /\ card.serial \in 0 .. MaxCommits /\ card.serial + 1 \in 1 .. MaxCommits
      /\ MaxCommits \in Nat
  BY SplitCardAssumption DEF CardInv, Card
<1>2. answered[card.serial + 1] = 0
  BY <1>1 DEF CardInv, NoncesFresh
<1>3. QED
  BY <1>1, <1>2 DEF CardInv, NoncesFresh

\* An answer uses up the nonce of the session.
LEMMA RespondKeeps ==
    ASSUME CardInv, NEW t \in {"sign", "join"}, Respond(t), committed' = committed
    PROVE  CardInv'
<1>1. card \in Card /\ MaxCommits \in Nat
  BY SplitCardAssumption DEF CardInv
<1>2. CASE CanRespond(card, t)
  <2>1. card.session # "none"
    BY <1>2 DEF CanRespond
  <2>2. card.serial \in 1 .. MaxCommits /\ answered[card.serial] = 0
    BY <1>1, <2>1 DEF CardInv, NoncesFresh, Card
  <2>3. card' = EndSession(card) /\ answered' = [answered EXCEPT ![card.serial] = @ + 1]
    BY <1>2 DEF Respond
  <2>4. /\ card' \in Card /\ card'.session = "none" /\ card'.serial = card.serial
        /\ card'.kind = card.kind /\ card'.seen = card.seen
    BY <1>1, <2>3, SessionEnds
  <2>5. NoncesFresh'
    BY <1>1, <2>2, <2>3, <2>4 DEF CardInv, NoncesFresh
  <2>6. QED
    BY <2>4, <2>5 DEF CardInv, CommittedIsSeen
<1>3. CASE ~ CanRespond(card, t)
  BY <1>3 DEF Respond, CardInv, NoncesFresh, CommittedIsSeen
<1>4. QED
  BY <1>2, <1>3

\* A commitment for a new key notes no basename.
LEMMA JoinKeeps ==
    ASSUME CardInv, card.serial < MaxCommits, card' = FreshNonce(card, "join"),
           answered' = answered, committed' = committed
    PROVE  CardInv'
<1>1. /\ card' \in Card /\ card'.serial = card.serial + 1
      /\ card'.kind = card.kind /\ card'.seen = card.seen
  BY FreshNonceIsNext DEF CardInv
<1>2. NoncesFresh'
  BY <1>1, CommitKeeps
<1>3. QED
  BY <1>1, <1>2 DEF CardInv, CommittedIsSeen

\* The applet commits without a swap to a basename it has not seen, and has seen it then.
LEMMA SignKeeps ==
    ASSUME CardInv, NEW h \in Hosts, NEW name \in Names \cup {NoName}, NEW swap \in BOOLEAN,
           NEW l, NEW heard, NEW g, SignCommit(h, name, swap, l, heard, g)
    PROVE  CardInv'
<1> DEFINE cred == RandomizeCredential(host[h].cred, l)
           auth == IF swap THEN SwapAuthCreate(SwapKeys, HashToG1(name), 6) ELSE NoAuth
           sw == CommitCheck(card, name, swap, auth)
           noted == BitsSet(card, name, swap)
<1>1. /\ card.serial < MaxCommits /\ answered' = answered
      /\ card' = IF sw = "ok" THEN CardSignCommit(card, cred.b, name, swap, g).card ELSE card
      /\ committed' = IF sw = "ok" /\ name # NoName /\ ~ swap
                      THEN [committed EXCEPT ![name] = @ + 1] ELSE committed
  BY DEF SignCommit
<1>2. CASE sw # "ok"
  BY <1>1, <1>2 DEF CardInv, NoncesFresh, CommittedIsSeen
<1>3. CASE sw = "ok"
  <2> DEFINE drawn == FreshNonce(card, "sign")
  <2>1. /\ drawn \in Card /\ drawn.serial = card.serial + 1 /\ drawn.session = "sign"
        /\ drawn.kind = card.kind /\ drawn.seen = card.seen
    BY <1>1, FreshNonceIsNext DEF CardInv
  <2>2. card' = [drawn EXCEPT !.seen = @ \cup noted]
    BY <1>1, <1>3 DEF CardSignCommit
  <2>3. noted \subseteq Bits
    BY DEF BitsSet, Bits
  <2>4. CASE name = NoName \/ swap \/ card.kind = "mock"
    <3>1. noted = {}
      BY <2>4 DEF BitsSet
    <3> HIDE DEF drawn, noted, sw
    <3>2. /\ card' \in Card /\ card'.serial = card.serial + 1
          /\ card'.kind = card.kind /\ card'.seen = card.seen
      BY <2>1, <2>2, <3>1 DEF Card
    <3>3. NoncesFresh'
      BY <1>1, <3>2, CommitKeeps
    <3>4. CommittedIsSeen'
      BY <1>1, <2>4, <3>2 DEF CardInv, CommittedIsSeen
    <3>5. QED
      BY <3>2, <3>3, <3>4 DEF CardInv
  <2>5. CASE ~ (name = NoName \/ swap \/ card.kind = "mock")
    <3>1. name \in Names /\ noted = BitsOf[name] /\ ~ (BitsOf[name] \subseteq card.seen)
      BY <1>3, <2>5 DEF BitsSet, CommitCheck, BloomHit
    <3>2. committed' = [committed EXCEPT ![name] = @ + 1]
      BY <1>1, <1>3, <2>5
    <3> HIDE DEF drawn, noted, sw
    <3>3. /\ card' \in Card /\ card'.serial = card.serial + 1
          /\ card'.kind = card.kind /\ card'.seen = card.seen \cup BitsOf[name]
      BY <2>1, <2>2, <2>3, <3>1 DEF Card
    <3>4. NoncesFresh'
      BY <1>1, <3>3, CommitKeeps
    <3>5. CommittedIsSeen'
      <4>1. committed \in [Names -> Nat] /\ committed' \in [Names -> Nat]
        BY <3>1, <3>2 DEF CardInv, CommittedIsSeen
      <4>2. ASSUME card'.kind = "applet", NEW n \in Names
            PROVE  committed'[n] <= 1 /\ (committed'[n] = 1 => BitsOf[n] \subseteq card'.seen)
        <5>1. card.kind = "applet" /\ committed[name] = 0
          BY <3>1, <3>3, <4>1, <4>2 DEF CardInv, CommittedIsSeen
        <5>2. CASE n = name
          BY <3>1, <3>2, <3>3, <4>1, <5>1, <5>2
        <5>3. CASE n # name
          BY <3>2, <3>3, <4>1, <5>1, <5>3 DEF CardInv, CommittedIsSeen
        <5>4. QED
          BY <5>2, <5>3
      <4>3. QED
        BY <4>1, <4>2 DEF CommittedIsSeen
    <3>6. QED
      BY <3>3, <3>4, <3>5 DEF CardInv
  <2>6. QED
    BY <2>4, <2>5
<1>4. QED
  BY <1>2, <1>3

\* A card that loses power, with some more bits set, keeps the invariant.
LEMMA LossKeeps ==
    ASSUME CardInv, NEW bits \in SUBSET Bits, card' = PowerLoss([card EXCEPT !.seen = @ \cup bits]),
           answered' = answered, committed' = committed
    PROVE  CardInv'
<1> DEFINE torn == [card EXCEPT !.seen = card.seen \cup bits]
<1>1. /\ torn \in Card /\ torn.serial = card.serial /\ torn.kind = card.kind
      /\ torn.seen = card.seen \cup bits
  BY DEF CardInv, Card
<1>2. card' = PowerLoss(torn)
  OBVIOUS
<1> HIDE DEF torn
<1>3. /\ card' \in Card /\ card'.session = "none" /\ card'.serial = card.serial
      /\ card'.kind = card.kind /\ card'.seen = card.seen \cup bits
  BY <1>1, <1>2, SessionEnds
<1>4. QED
  BY <1>3 DEF CardInv, NoncesFresh, CommittedIsSeen

\* The count starts anew with an epoch, whatever is left in the filter.
LEMMA EpochKeeps ==
    ASSUME CardInv, NEW epoch \in 1 .. MaxCardEpoch, NEW authorized,
           NewEpoch(epoch, authorized) \/ TornReset(epoch, authorized)
    PROVE  CardInv'
<1>1. card \in Card /\ epoch \in Nat
  BY SplitCardAssumption DEF CardInv, Card
<1>2. PICK kept \in SUBSET card.seen :
          card' \in {ResetBloom(card, epoch, kept), PowerLoss(ResetBloom(card, epoch, kept))}
  BY DEF NewEpoch, TornReset
<1> DEFINE reset == [card EXCEPT !.epoch = epoch, !.seen = kept]
<1>3. kept \in SUBSET Bits
  BY <1>1 DEF Card
<1>4. /\ reset \in Card /\ reset.session = card.session /\ reset.serial = card.serial
      /\ reset.kind = card.kind
  BY <1>1, <1>3 DEF Card
<1>5. card' \in {reset, PowerLoss(reset)}
  BY <1>2 DEF ResetBloom
<1> HIDE DEF reset
<1>6. /\ card' \in Card /\ card'.serial = card.serial /\ card'.kind = card.kind
      /\ card'.session \in {"none", card.session}
  BY <1>4, <1>5, SessionEnds
<1>7. committed' = [n \in Names |-> 0] /\ answered' = answered
  BY DEF NewEpoch, TornReset
<1>8. CommittedIsSeen'
  BY <1>7 DEF CommittedIsSeen
<1>9. QED
  BY <1>6, <1>7, <1>8 DEF CardInv, NoncesFresh

LEMMA InitCardInv == CardInit => CardInv
<1> SUFFICES ASSUME CardInit PROVE CardInv
  OBVIOUS
<1>1. PICK k \in KindsOfCard, swapKey \in {0, SwapKeys.pk}, resetKey \in BOOLEAN :
          card = NewCard(k, swapKey, resetKey)
  BY DEF CardInit
<1>2. /\ card \in Card /\ card.session = "none" /\ card.serial = 0 /\ card.seen = {}
  BY <1>1, SplitCardAssumption DEF NewCard, Card
<1>3. NoncesFresh /\ CommittedIsSeen
  BY <1>2 DEF CardInit, NoncesFresh, CommittedIsSeen
<1>4. QED
  BY <1>2, <1>3 DEF CardInv

LEMMA NextCardInv == CardInv /\ [CardNext]_cardVars => CardInv'
<1> SUFFICES ASSUME CardInv, [CardNext]_cardVars PROVE CardInv'
  OBVIOUS
<1>1. ASSUME NEW h \in Hosts, NEW heard \in BOOLEAN,
             \/ JoinCommit(h, heard) \/ PhoneTtcCommit(h, heard) \/ PhoneNacCommit(h, heard)
      PROVE  CardInv'
  <2>1. /\ card.serial < MaxCommits /\ card' = FreshNonce(card, "join")
        /\ answered' = answered /\ committed' = committed
    BY <1>1 DEF JoinCommit, PhoneTtcCommit, PhoneNacCommit, CardJoinCommit
  <2>2. QED
    BY <2>1, JoinKeeps
<1>2. ASSUME NEW h \in Hosts, NEW heard \in BOOLEAN,
             \/ JoinRespond(h, heard) \/ PhoneTtcRespond(h, heard) \/ PhoneComplete(h, heard)
      PROVE  CardInv'
  <2>1. Respond("join") /\ committed' = committed
    BY <1>2 DEF JoinRespond, PhoneTtcRespond, PhoneComplete
  <2>2. QED
    BY <2>1, RespondKeeps
<1>3. ASSUME NEW h \in Hosts, NEW heard \in BOOLEAN, SignRespond(h, heard)
      PROVE  CardInv'
  <2>1. Respond("sign") /\ committed' = committed
    BY <1>3 DEF SignRespond
  <2>2. QED
    BY <2>1, RespondKeeps
<1>4. ASSUME NEW h \in Hosts, NEW name \in Names \cup {NoName}, NEW l \in Randomizers,
             NEW swap \in BOOLEAN, NEW heard \in BOOLEAN, NEW g \in Garbled,
             SignCommit(h, name, swap, l, heard, g)
      PROVE  CardInv'
  BY <1>4, SignKeeps
<1>5. ASSUME NEW h \in Hosts, NEW name \in Names, TornCommit(h, name)
      PROVE  CardInv'
  <2>1. PICK bits \in SUBSET BitsOf[name] : card' = PowerLoss([card EXCEPT !.seen = @ \cup bits])
    BY <1>5 DEF TornCommit
  <2>2. bits \in SUBSET Bits
    BY <2>1 DEF Bits
  <2>3. answered' = answered /\ committed' = committed
    BY <1>5 DEF TornCommit
  <2>4. QED
    BY <2>1, <2>2, <2>3, LossKeeps
<1>6. ASSUME NEW epoch \in 1 .. MaxCardEpoch, NEW authorized,
             NewEpoch(epoch, authorized) \/ TornReset(epoch, authorized)
      PROVE  CardInv'
  BY <1>6, EpochKeeps
<1>7. CASE LosePower
  <2>1. card \in Card /\ card' = PowerLoss(card) /\ answered' = answered /\ committed' = committed
    BY <1>7 DEF LosePower, CardInv
  <2>2. /\ card' \in Card /\ card'.session = "none" /\ card'.serial = card.serial
        /\ card'.kind = card.kind /\ card'.seen = card.seen
    BY <2>1, SessionEnds
  <2>3. QED
    BY <2>1, <2>2 DEF CardInv, NoncesFresh, CommittedIsSeen
<1>8. ASSUME UNCHANGED <<card, answered, committed>>
      PROVE  CardInv'
  BY <1>8 DEF CardInv, NoncesFresh, CommittedIsSeen
<1>9. ASSUME NEW h \in Hosts, InitializeKeys(h) \/ Register(h) \/ StartOver(h)
      PROVE  CardInv'
  BY <1>8, <1>9 DEF InitializeKeys, Register, StartOver
<1>10. ASSUME NEW h \in Hosts, NEW name, NEW l, SignAlone(h, name, l)
       PROVE  CardInv'
  BY <1>8, <1>10 DEF SignAlone
<1>11. CASE Rest \/ UNCHANGED cardVars
  BY <1>8, <1>11 DEF Rest, cardVars
<1>12. QED
  BY <1>1, <1>2, <1>3, <1>4, <1>5, <1>6, <1>7, <1>9, <1>10, <1>11 DEF CardNext

\* The invariant holds in every state of every interleaving.
THEOREM CardInvHolds == CardSpec => []CardInv
<1>1. CardInit => CardInv
  BY InitCardInv
<1>2. CardInv /\ [CardNext]_cardVars => CardInv'
  BY NextCardInv
<1>3. QED
  BY <1>1, <1>2, PTL DEF CardSpec

\* However many hosts share the card and whatever commands, replies and power are
\* lost, a nonce drawn by JOIN_COMMIT or SIGN_COMMIT never answers two challenges.
THEOREM NonceNeverReused == CardSpec => []NonceAnswersOnce
<1>1. CardInv => NonceAnswersOnce
  BY DEF CardInv, NoncesFresh, NonceAnswersOnce
<1>2. QED
  BY <1>1, CardInvHolds, PTL

\* The applet's filter lets a basename through at most once between two resets, for
\* every assignment of bits to basenames and wherever a power loss tears the update.
THEOREM BasenameCommittedOnce == CardSpec => []BasenameOncePerEpoch
<1>1. CardInv => BasenameOncePerEpoch
  BY DEF CardInv, CommittedIsSeen, BasenameOncePerEpoch
<1>2. QED
  BY <1>1, CardInvHolds, PTL
-----------------------------------------------------------------------------
(***************************************************************************)
(* The algebra of the signatures: arithmetic modulo the order, what a      *)
(* verifier computes from an answer, and what a credential is.             *)
(***************************************************************************)
\* Numbers that differ by a multiple of the order stand for one element.
Cong(a, b) == \E k \in Int : a - b = Q * k

LEMMA CongRefl == ASSUME NEW a \in Int PROVE Cong(a, a)
<1>1. a - a = Q * 0
  BY OrderAssumption
<1>2. QED
  BY <1>1 DEF Cong

LEMMA CongSym == ASSUME NEW a \in Int, NEW b \in Int, Cong(a, b) PROVE Cong(b, a)
<1>1. PICK k \in Int : a - b = Q * k
  BY DEF Cong
<1>2. b - a = Q * (- k) /\ (- k) \in Int
  BY <1>1, OrderAssumption
<1>3. QED
  BY <1>2 DEF Cong

LEMMA CongTrans ==
    ASSUME NEW a \in Int, NEW b \in Int, NEW c \in Int, Cong(a, b), Cong(b, c)
    PROVE  Cong(a, c)
<1>1. PICK k \in Int : a - b = Q * k
  BY DEF Cong
<1>2. PICK j \in Int : b - c = Q * j
  BY DEF Cong
<1>3. a - c = Q * (k + j) /\ k + j \in Int
  BY <1>1, <1>2, OrderAssumption
<1>4. QED
  BY <1>3 DEF Cong

LEMMA CongAdd ==
    ASSUME NEW a \in Int, NEW b \in Int, NEW c \in Int, NEW d \in Int, Cong(a, b), Cong(c, d)
    PROVE  Cong(a + c, b + d)
<1>1. PICK k \in Int : a - b = Q * k
  BY DEF Cong
<1>2. PICK j \in Int : c - d = Q * j
  BY DEF Cong
<1>3. (a + c) - (b + d) = Q * (k + j) /\ k + j \in Int
  BY <1>1, <1>2, OrderAssumption
<1>4. QED
  BY <1>3 DEF Cong

LEMMA CongSub ==
    ASSUME NEW a \in Int, NEW b \in Int, NEW c \in Int, NEW d \in Int, Cong(a, b), Cong(c, d)
    PROVE  Cong(a - c, b - d)
<1>1. PICK k \in Int : a - b = Q * k
  BY DEF Cong
<1>2. PICK j \in Int : c - d = Q * j
  BY DEF Cong
<1>3. (a - c) - (b - d) = Q * (k - j) /\ k - j \in Int
  BY <1>1, <1>2, OrderAssumption
<1>4. QED
  BY <1>3 DEF Cong

LEMMA CongMul ==
    ASSUME NEW a \in Int, NEW b \in Int, NEW c \in Int, NEW d \in Int, Cong(a, b), Cong(c, d)
    PROVE  Cong(a * c, b * d)
<1>1. PICK k \in Int : a - b = Q * k
  BY DEF Cong
<1>2. PICK j \in Int : c - d = Q * j
  BY DEF Cong
<1>3. a = b + Q * k /\ c = d + Q * j /\ Q \in Int
  BY <1>1, <1>2, OrderAssumption
<1>4. \A x, y, u, v, q \in Int :
         (x + q * u) * (y + q * v) - x * y = q * (u * y + x * v + q * (u * v))
  OBVIOUS
<1>5. a * c - b * d = Q * (k * d + b * j + Q * (k * j))
  BY <1>3, <1>4
<1>6. k * d + b * j + Q * (k * j) \in Int
  BY <1>3
<1>7. QED
  BY <1>5, <1>6 DEF Cong

LEMMA CongMod == ASSUME NEW a \in Int PROVE a % Q \in Scalar /\ a % Q \in Int /\ Cong(a, a % Q)
<1>1. Q \in Int /\ Q > 0
  BY OrderAssumption
<1>2. a = Q * (a \div Q) + (a % Q) /\ a % Q \in 0 .. Q - 1 /\ a \div Q \in Int
  BY <1>1
<1>3. a - (a % Q) = Q * (a \div Q)
  BY <1>1, <1>2
<1>4. QED
  BY <1>2, <1>3 DEF Cong, Scalar

LEMMA CongScalars ==
    ASSUME NEW a \in Scalar, NEW b \in Scalar, Cong(a, b) PROVE a = b
<1>1. Q \in Int /\ Q > 0 /\ a \in Int /\ b \in Int /\ a - b < Q /\ b - a < Q
  BY OrderAssumption DEF Scalar
<1>2. PICK k \in Int : a - b = Q * k
  BY DEF Cong
<1>3. \A q, j \in Int : q > 0 /\ j >= 1 => q * j >= q
  OBVIOUS
<1>4. ~ (k >= 1)
  BY <1>1, <1>2, <1>3
<1>5. \A q, j \in Int : q > 0 /\ j <= -1 => q * j <= - q
  OBVIOUS
<1>6. ~ (k <= -1)
  BY <1>1, <1>2, <1>5
<1>7. k = 0
  BY <1>4, <1>6
<1>8. QED
  BY <1>1, <1>2, <1>7

LEMMA CongEq ==
    ASSUME NEW a \in Int, NEW b \in Int, Cong(a, b) PROVE a % Q = b % Q
<1>1. a % Q \in Scalar /\ b % Q \in Scalar /\ Cong(a, a % Q) /\ Cong(b, b % Q)
  BY CongMod
<1>2. a % Q \in Int /\ b % Q \in Int
  BY <1>1, OrderAssumption DEF Scalar
<1>3. Cong(a % Q, a)
  BY <1>1, <1>2, CongSym
<1>4. Cong(a % Q, b % Q)
  BY <1>1, <1>2, <1>3, CongTrans
<1>5. QED
  BY <1>1, <1>4, CongScalars

\* A reduced number is the number, but for a multiple of the order.
LEMMA ModOf == ASSUME NEW a \in Int PROVE \E k \in Int : a % Q = a + Q * k
<1>1. Cong(a % Q, a) /\ a % Q \in Int
  BY CongMod, CongSym
<1>2. PICK k \in Int : (a % Q) - a = Q * k
  BY <1>1 DEF Cong
<1>3. a % Q = a + Q * k
  BY <1>1, <1>2, OrderAssumption
<1>4. QED
  BY <1>3

\* The point q is the key sk on the point b.
OnKey(q, b, sk) == b \in Int /\ q \in Int /\ sk \in Int /\ Cong(q, b * sk)

\* What a verifier computes from the answer s to the challenge c.
Recovered(b, s, q, c) == (b * s - q * c) % Q

\* The point that card and host commit to with their nonces.
SplitPoint(b, rc, r) == (((b * rc) % Q) + b * r) % Q

\* The answer of card and host to the challenge c.
SplitAnswer(rc, csk, r, hsk, c) == (((rc + c * csk) % Q) + r + c * hsk) % Q

\* The verifier's equation for an answer that card and host make together: it gives
\* back the point that they committed to.
LEMMA SplitAnswers ==
    ASSUME NEW rc \in Int, NEW r \in Int, NEW c \in Int, NEW csk \in Int, NEW hsk \in Int,
           NEW b, NEW q, OnKey(q, b, hsk + csk)
    PROVE  Recovered(b, SplitAnswer(rc, csk, r, hsk, c), q, c) = SplitPoint(b, rc, r)
<1>1. Q \in Int /\ b \in Int /\ q \in Int /\ Cong(q, b * (hsk + csk))
  BY OrderAssumption DEF OnKey
<1> DEFINE x1 == rc + c * csk
           x2 == (x1 % Q) + r + c * hsk
           x3 == b * rc
<1>2. x1 \in Int /\ x3 \in Int
  BY <1>1
<1>3. PICK k1 \in Int : x1 % Q = x1 + Q * k1
  BY <1>2, ModOf
<1>4. PICK k3 \in Int : x3 % Q = x3 + Q * k3
  BY <1>2, ModOf
<1>5. x2 = rc + c * csk + Q * k1 + r + c * hsk
  BY <1>1, <1>3
<1>6. x2 \in Int
  BY <1>1, <1>5
<1>7. PICK k2 \in Int : x2 % Q = x2 + Q * k2
  BY <1>6, ModOf
<1>8. PICK k4 \in Int : q - b * (hsk + csk) = Q * k4
  BY <1>1 DEF Cong
<1>9. q = b * (hsk + csk) + Q * k4
  BY <1>1, <1>8
<1>10. x2 % Q = rc + c * csk + Q * k1 + r + c * hsk + Q * k2 /\ x3 % Q = b * rc + Q * k3
  BY <1>4, <1>5, <1>7
<1> HIDE DEF x1, x2, x3
<1>11. \A o, kk1, kk2, kk3, kk4 \in Int :
          (b * (rc + c * csk + o * kk1 + r + c * hsk + o * kk2) - (b * (hsk + csk) + o * kk4) * c)
             - ((b * rc + o * kk3) + b * r)
          = o * (b * kk1 + b * kk2 - kk4 * c - kk3)
  BY <1>1
<1>12. (b * (x2 % Q) - q * c) - ((x3 % Q) + b * r) = Q * (b * k1 + b * k2 - k4 * c - k3)
  BY <1>1, <1>9, <1>10, <1>11
<1>13. b * k1 + b * k2 - k4 * c - k3 \in Int
  BY <1>1
<1>14. Cong(b * (x2 % Q) - q * c, (x3 % Q) + b * r)
  BY <1>12, <1>13 DEF Cong
<1>15. b * (x2 % Q) - q * c \in Int /\ (x3 % Q) + b * r \in Int
  BY <1>1, <1>9, <1>10
<1>16. (b * (x2 % Q) - q * c) % Q = ((x3 % Q) + b * r) % Q
  BY <1>14, <1>15, CongEq
<1>17. QED
  BY <1>16 DEF x1, x2, x3, SplitAnswer, SplitPoint, Recovered

\* The same for a key in one place.
WholeAnswer(r, sk, c) == (r + c * sk) % Q

LEMMA WholeAnswers ==
    ASSUME NEW r \in Int, NEW c \in Int, NEW b, NEW sk, NEW q, OnKey(q, b, sk)
    PROVE  Recovered(b, WholeAnswer(r, sk, c), q, c) = (b * r) % Q
<1>1. Q \in Int /\ b \in Int /\ q \in Int /\ sk \in Int /\ Cong(q, b * sk)
  BY OrderAssumption DEF OnKey
<1> DEFINE x == r + c * sk
<1>2. x \in Int
  BY <1>1
<1>3. PICK k \in Int : x % Q = x + Q * k
  BY <1>2, ModOf
<1>4. PICK j \in Int : q - b * sk = Q * j
  BY <1>1 DEF Cong
<1>5. q = b * sk + Q * j /\ x % Q = r + c * sk + Q * k
  BY <1>1, <1>3, <1>4
<1> HIDE DEF x
<1>6. \A o, u, v \in Int :
         (b * (r + c * sk + o * u) - (b * sk + o * v) * c) - b * r = o * (b * u - v * c)
  BY <1>1
<1>7. (b * (x % Q) - q * c) - b * r = Q * (b * k - j * c)
  BY <1>1, <1>5, <1>6
<1>8. b * k - j * c \in Int
  BY <1>1
<1>9. Cong(b * (x % Q) - q * c, b * r)
  BY <1>7, <1>8 DEF Cong
<1>10. b * (x % Q) - q * c \in Int /\ b * r \in Int
  BY <1>1, <1>5
<1>11. (b * (x % Q) - q * c) % Q = (b * r) % Q
  BY <1>9, <1>10, CongEq
<1>12. QED
  BY <1>11 DEF x, WholeAnswer, Recovered

\* Scalars are their own remainders.
LEMMA ScalarMod == ASSUME NEW a \in Scalar PROVE a \in Int /\ a % Q = a
<1>1. a \in Int
  BY OrderAssumption DEF Scalar
<1>2. Cong(a, a % Q) /\ a % Q \in Scalar
  BY <1>1, CongMod
<1>3. QED
  BY <1>1, <1>2, CongScalars

LEMMA SmallMod == 0 % Q = 0 /\ 1 % Q = 1
<1>1. 0 \in Scalar /\ 1 \in Scalar
  BY OrderAssumption DEF Scalar
<1>2. QED
  BY <1>1, ScalarMod

\* An element other than zero has an inverse.
LEMMA InverseExists ==
    ASSUME NEW y \in Int, y % Q # 0
    PROVE  \E z \in Int : Cong(z * y, 1)
<1>1. y % Q \in Scalar \ {0} /\ Cong(y, y % Q) /\ y % Q \in Int
  BY CongMod
<1>2. PICK z \in Scalar : ((y % Q) * z) % Q = 1
  BY <1>1, FieldAssumption
<1>3. z \in Int
  BY OrderAssumption DEF Scalar
<1> DEFINE p == (y % Q) * z
<1>4. p \in Int
  BY <1>1, <1>3
<1>5. Cong(p, 1)
  BY <1>2, <1>4, CongMod
<1>6. Cong(y * z, p)
  BY <1>1, <1>3, CongRefl, CongMul
<1>7. Cong(y * z, 1)
  BY <1>1, <1>3, <1>4, <1>5, <1>6, CongTrans
<1>8. y * z = z * y
  BY <1>3
<1>9. QED
  BY <1>3, <1>7, <1>8

\* There are no divisors of zero.
LEMMA NoZeroDivisors ==
    ASSUME NEW y \in Int, NEW z \in Int, y % Q # 0, z % Q # 0
    PROVE  (y * z) % Q # 0
<1> SUFFICES ASSUME (y * z) % Q = 0 PROVE FALSE
  OBVIOUS
<1>1. PICK w \in Int : Cong(w * y, 1)
  BY InverseExists
<1> DEFINE p == y * z
<1>2. p \in Int /\ w * y \in Int /\ w * p \in Int
  OBVIOUS
<1>3. Cong(p, 0)
  BY <1>2, CongMod
<1>4. Cong(w * p, w * 0)
  <2>1. Cong(w, w) /\ 0 \in Int
    BY CongRefl
  <2>2. QED
    BY <1>2, <1>3, <2>1, CongMul
<1>5. Cong((w * y) * z, 1 * z)
  BY <1>1, <1>2, CongRefl, CongMul
<1>6. (w * y) * z = w * p /\ 1 * z = z /\ w * 0 = 0
  OBVIOUS
<1> HIDE DEF p
<1>7. Cong(w * p, z) /\ Cong(w * p, 0)
  BY <1>4, <1>5, <1>6
<1>8. Cong(z, 0)
  BY <1>2, <1>7, CongSym, CongTrans
<1>9. z % Q = 0
  BY <1>8, CongEq, SmallMod
<1>10. QED
  BY <1>9

\* The inverse that an issuer computes.
LEMMA IssuersInverse ==
    ASSUME NEW y \in Scalar \ {0}
    PROVE  /\ InverseOf(y) \in Int /\ InverseOf(y) % Q # 0 /\ Cong(y * InverseOf(y), 1)
<1> DEFINE z == InverseOf(y)
<1>1. z \in Scalar /\ (y * z) % Q = 1
  BY FieldAssumption DEF InverseOf
<1>2. z \in Int /\ y \in Int
  BY <1>1, OrderAssumption DEF Scalar
<1> HIDE DEF z
<1>3. y * z \in Int
  BY <1>2
<1>4. Cong(y * z, 1)
  BY <1>1, <1>3, CongMod
<1>5. ASSUME z % Q = 0 PROVE FALSE
  <2>1. Cong(z, 0) /\ Cong(y, y)
    BY <1>2, <1>5, CongMod, CongRefl
  <2>2. Cong(y * z, y * 0)
    BY <1>2, <2>1, CongMul
  <2>3. (y * z) % Q = (y * 0) % Q
    BY <1>2, <1>3, <2>2, CongEq
  <2>4. y * 0 = 0
    BY <1>2
  <2>5. QED
    BY <1>1, <2>3, <2>4, SmallMod
<1>6. QED
  BY <1>2, <1>4, <1>5 DEF z

\* A credential, randomized: no part of it is the identity, the pairings hold, and its
\* last point is the holder's key on its second one.
LEMMA RandomizedCredential ==
    ASSUME NEW b \in Scalar \ {0}, NEW sk \in Int, NEW x \in Scalar \ {0}, NEW y \in Scalar \ {0},
           NEW l \in Scalar \ {0}, sk % Q # 0, (1 + sk * y) % Q # 0,
           NEW a, NEW c, NEW d, a = (b * InverseOf(y)) % Q, d = (b * sk) % Q, c = ((a + d) * x) % Q
    PROVE  /\ {(a * l) % Q, (b * l) % Q, (c * l) % Q, (d * l) % Q} \subseteq Scalar \ {0}
           /\ (((a * l) % Q) * y) % Q = (b * l) % Q
           /\ (c * l) % Q = ((((a * l) % Q) + ((d * l) % Q)) * x) % Q
           /\ Cong((d * l) % Q, ((b * l) % Q) * sk)
<1> DEFINE z == InverseOf(y)
<1>1. z \in Int /\ z % Q # 0 /\ Cong(y * z, 1)
  BY IssuersInverse
<1> HIDE DEF z
<1>2. /\ b \in Int /\ x \in Int /\ y \in Int /\ l \in Int
      /\ b % Q # 0 /\ x % Q # 0 /\ y % Q # 0 /\ l % Q # 0
  BY ScalarMod
<1>3. b * z \in Int /\ b * sk \in Int
  BY <1>1, <1>2
<1>4. /\ a \in Int /\ a \in Scalar /\ Cong(b * z, a) /\ a % Q = a
      /\ d \in Int /\ d \in Scalar /\ Cong(b * sk, d) /\ d % Q = d
  BY <1>3, CongMod, ScalarMod DEF z
<1>5. (a + d) * x \in Int
  BY <1>2, <1>4
<1>6. c \in Int /\ c \in Scalar /\ Cong((a + d) * x, c) /\ c % Q = c
  BY <1>5, CongMod, ScalarMod
<1>7. a # 0 /\ d # 0
  BY <1>1, <1>2, NoZeroDivisors DEF z
<1>8. Cong(a * y, b)
  <2>1. Cong(y, y) /\ Cong(b, b)
    BY <1>2, CongRefl
  <2>2. Cong(a, b * z)
    BY <1>3, <1>4, CongSym
  <2>3. Cong(a * y, (b * z) * y)
    BY <1>2, <1>3, <1>4, <2>1, <2>2, CongMul
  <2>4. y * z \in Int
    BY <1>1, <1>2
  <2>5. Cong(b * (y * z), b * 1)
    BY <1>1, <1>2, <2>1, <2>4, CongMul
  <2>6. (b * z) * y = b * (y * z) /\ b * 1 = b
    BY <1>1, <1>2
  <2>7. a * y \in Int /\ b * (y * z) \in Int
    BY <1>2, <1>4, <2>4
  <2>8. Cong(a * y, b * (y * z)) /\ Cong(b * (y * z), b)
    BY <2>3, <2>5, <2>6
  <2>9. QED
    BY <1>2, <2>7, <2>8, CongTrans
<1>9. c # 0
  <2>1. Cong((a + d) * y, b * (1 + sk * y))
    <3>1. Cong(d, b * sk) /\ Cong(y, y)
      BY <1>2, <1>3, <1>4, CongSym, CongRefl
    <3>2. Cong(d * y, (b * sk) * y)
      BY <1>2, <1>3, <1>4, <3>1, CongMul
    <3>3. a * y \in Int /\ d * y \in Int /\ (b * sk) * y \in Int
      BY <1>2, <1>4
    <3>4. Cong(a * y + d * y, b + (b * sk) * y)
      BY <1>2, <1>8, <3>2, <3>3, CongAdd
    <3>5. a * y + d * y = (a + d) * y /\ b + (b * sk) * y = b * (1 + sk * y)
      BY <1>2, <1>4
    <3>6. QED
      BY <3>4, <3>5
  <2>2. 1 + sk * y \in Int
    BY <1>2
  <2>3. (b * (1 + sk * y)) % Q # 0
    BY <1>2, <2>2, NoZeroDivisors
  <2>4. (a + d) * y \in Int /\ b * (1 + sk * y) \in Int /\ a + d \in Int
    BY <1>2, <1>4, <2>2
  <2>5. ((a + d) * y) % Q # 0
    BY <2>1, <2>3, <2>4, CongEq
  <2>6. (a + d) % Q # 0
    <3>1. ASSUME (a + d) % Q = 0 PROVE FALSE
      <4>1. Cong(a + d, 0) /\ Cong(y, y)
        BY <1>2, <2>4, <3>1, CongMod, CongRefl
      <4>2. Cong((a + d) * y, 0 * y)
        BY <1>2, <2>4, <4>1, CongMul
      <4>3. 0 * y = 0
        BY <1>2
      <4>4. QED
        BY <2>4, <2>5, <4>2, <4>3, CongEq, SmallMod
    <3>2. QED
      BY <3>1
  <2>7. QED
    BY <1>2, <2>4, <2>6, NoZeroDivisors
<1> DEFINE A == (a * l) % Q
           B == (b * l) % Q
           C == (c * l) % Q
           D == (d * l) % Q
<1>10. a * l \in Int /\ b * l \in Int /\ c * l \in Int /\ d * l \in Int
  BY <1>2, <1>4, <1>6
<1>11. /\ A \in Int /\ A \in Scalar /\ Cong(a * l, A) /\ B \in Int /\ B \in Scalar /\ Cong(b * l, B)
       /\ C \in Int /\ C \in Scalar /\ Cong(c * l, C) /\ D \in Int /\ D \in Scalar /\ Cong(d * l, D)
  BY <1>10, CongMod
<1>12. A # 0 /\ B # 0 /\ C # 0 /\ D # 0
  BY <1>2, <1>4, <1>6, <1>7, <1>9, NoZeroDivisors
<1>13. Cong(A, a * l) /\ Cong(B, b * l) /\ Cong(D, d * l) /\ Cong(l, l) /\ Cong(y, y) /\ Cong(x, x)
  BY <1>2, <1>10, <1>11, CongSym, CongRefl
<1> HIDE DEF A, B, C, D
<1>14. (A * y) % Q = B
  <2>1. Cong(A * y, (a * l) * y)
    BY <1>2, <1>10, <1>11, <1>13, CongMul
  <2>2. a * y \in Int /\ (a * y) * l \in Int /\ A * y \in Int
    BY <1>2, <1>4, <1>11
  <2>3. Cong((a * y) * l, b * l)
    BY <1>2, <1>8, <1>13, <2>2, CongMul
  <2>4. (a * l) * y = (a * y) * l
    BY <1>2, <1>4
  <2>5. Cong(A * y, b * l)
    BY <1>10, <2>1, <2>2, <2>3, <2>4, CongTrans
  <2>6. (A * y) % Q = (b * l) % Q
    BY <1>10, <2>2, <2>5, CongEq
  <2>7. QED
    BY <2>6 DEF B
<1>15. C = ((A + D) * x) % Q
  <2>1. Cong(c, (a + d) * x)
    BY <1>5, <1>6, CongSym
  <2>2. Cong(c * l, ((a + d) * x) * l)
    BY <1>2, <1>5, <1>6, <1>13, <2>1, CongMul
  <2>3. Cong(a * l + d * l, A + D)
    BY <1>10, <1>11, CongAdd
  <2>4. a * l + d * l \in Int /\ A + D \in Int /\ ((a + d) * x) * l \in Int /\ (A + D) * x \in Int
    BY <1>2, <1>4, <1>11
  <2>5. Cong((a * l + d * l) * x, (A + D) * x)
    BY <1>2, <1>13, <2>3, <2>4, CongMul
  <2>6. ((a + d) * x) * l = (a * l + d * l) * x
    BY <1>2, <1>4
  <2>7. Cong(c * l, (A + D) * x)
    BY <1>10, <2>2, <2>4, <2>5, <2>6, CongTrans
  <2>8. (c * l) % Q = ((A + D) * x) % Q
    BY <1>10, <2>4, <2>7, CongEq
  <2>9. QED
    BY <2>8 DEF C
<1>16. Cong(D, B * sk)
  <2>1. Cong(d, b * sk) /\ Cong(sk, sk)
    BY <1>3, <1>4, CongSym, CongRefl
  <2>2. Cong(d * l, (b * sk) * l)
    BY <1>2, <1>3, <1>4, <1>13, <2>1, CongMul
  <2>3. Cong((b * l) * sk, B * sk)
    BY <1>10, <1>11, <2>1, CongMul
  <2>4. (b * sk) * l = (b * l) * sk
    BY <1>2
  <2>5. (b * l) * sk \in Int /\ B * sk \in Int
    BY <1>10, <1>11
  <2>6. Cong(d * l, B * sk)
    BY <1>10, <2>2, <2>3, <2>4, <2>5, CongTrans
  <2>7. QED
    BY <1>10, <1>11, <1>13, <2>5, <2>6, CongTrans
<1>17. {A, B, C, D} \subseteq Scalar \ {0}
  BY <1>11, <1>12
<1>18. {(a * l) % Q, (b * l) % Q, (c * l) % Q, (d * l) % Q} \subseteq Scalar \ {0}
  BY <1>17 DEF A, B, C, D
<1>19. (((a * l) % Q) * y) % Q = (b * l) % Q
  BY <1>14 DEF A, B
<1>20. (c * l) % Q = ((((a * l) % Q) + ((d * l) % Q)) * x) % Q
  BY <1>15 DEF A, C, D
<1>21. Cong((d * l) % Q, ((b * l) % Q) * sk)
  BY <1>16 DEF B, D
<1>22. QED
  BY <1>18, <1>19, <1>20, <1>21

\* Hashes are scalars, and a hash onto the points is none but the identity.
LEMMA AbsorbIsScalar ==
    ASSUME NEW h \in Int, NEW v \in Int PROVE Absorb(h, v) \in Scalar /\ Absorb(h, v) \in Int
<1>1. 7 * h + v + 1 \in Int
  OBVIOUS
<1>2. QED
  BY <1>1, CongMod DEF Absorb

LEMMA HashIsScalar ==
    ASSUME NEW a \in Int, NEW b \in Int, NEW c \in Int, NEW d \in Int
    PROVE  HashToScalar(a, b, c, d) \in Scalar /\ HashToScalar(a, b, c, d) \in Int
<1>1. Absorb(3, a) \in Int
  BY AbsorbIsScalar
<1>2. Absorb(Absorb(3, a), b) \in Int
  BY <1>1, AbsorbIsScalar
<1>3. Absorb(Absorb(Absorb(3, a), b), c) \in Int
  BY <1>2, AbsorbIsScalar
<1>4. QED
  BY <1>3, AbsorbIsScalar DEF HashToScalar

LEMMA HashIsPoint == ASSUME NEW name \in Int PROVE HashToG1(name) \in Scalar \ {0} /\ HashToG1(name) \in Int
<1>1. Q - 1 \in Int /\ Q - 1 > 0 /\ 5 * name \in Int
  BY OrderAssumption
<1>2. (5 * name) % (Q - 1) \in 0 .. (Q - 1) - 1
  BY <1>1
<1>3. QED
  BY <1>1, <1>2 DEF HashToG1, Scalar

\* The proof in a public key that a wallet makes alone, and in one that card and host
\* make together, holds.
LEMMA WholeKeyProves ==
    ASSUME NEW nonce \in Int, NEW sk \in Int, NEW r \in Int, NEW n
    PROVE  LET pk == GenerateWalletKeypair(nonce, sk, r, n)
           IN  /\ pk.q = (HashToG1(nonce) * sk) % Q /\ pk.n = n
               /\ pk.q \in Int /\ pk.c \in Int /\ pk.s \in Int
               /\ MemberProofHolds(pk, nonce)
<1> DEFINE b == HashToG1(nonce)
           q == (b * sk) % Q
           u == (b * r) % Q
           c == SchnorrHashMember(u, b, q, nonce)
           s == WholeAnswer(r, sk, c)
           pk == GenerateWalletKeypair(nonce, sk, r, n)
<1>1. b \in Int
  BY HashIsPoint
<1>2. b * sk \in Int /\ b * r \in Int
  BY <1>1
<1>3. q \in Int /\ u \in Int /\ Cong(q, b * sk)
  BY <1>2, CongMod, CongSym
<1>4. c \in Int
  BY <1>1, <1>3, HashIsScalar DEF SchnorrHashMember
<1>5. r + c * sk \in Int
  BY <1>4
<1>6. s \in Int
  BY <1>5, CongMod DEF WholeAnswer
<1>7. pk.q = q /\ pk.c = c /\ pk.s = s /\ pk.n = n
  BY DEF GenerateWalletKeypair, WholeAnswer
<1> HIDE DEF pk
<1>8. Recovered(b, s, q, c) = u
  <2>1. OnKey(q, b, sk)
    BY <1>1, <1>3 DEF OnKey
  <2> HIDE DEF b, q, c
  <2>2. QED
    BY <1>4, <2>1, WholeAnswers
<1>9. MemberProofHolds(pk, nonce)
  BY <1>7, <1>8 DEF MemberProofHolds, Recovered
<1>10. QED
  BY <1>3, <1>4, <1>6, <1>7, <1>9 DEF pk

LEMMA SplitKeyProves ==
    ASSUME NEW nonce \in Int, NEW csk \in Int, NEW hsk \in Int, NEW rc \in Int, NEW r \in Int, NEW n,
           NEW share, NEW qCard, NEW b, b = HashToG1(nonce), share.sk = hsk, share.r = r,
           qCard = (b * csk) % Q,
           share.c = SchnorrHashMember((((b * rc) % Q) + b * r) % Q, b, (qCard + b * hsk) % Q, nonce)
    PROVE  MemberProofHolds(JoinFinalize(nonce, qCard, share, (rc + share.c * csk) % Q, n), nonce)
<1> DEFINE u == (b * rc) % Q
           q == (qCard + b * hsk) % Q
           c == share.c
           pk == JoinFinalize(nonce, qCard, share, (rc + c * csk) % Q, n)
<1>1. b \in Int
  BY HashIsPoint
<1>2. b * csk \in Int /\ b * rc \in Int /\ b * hsk \in Int
  BY <1>1
<1>3. qCard \in Int /\ u \in Int /\ Cong(qCard, b * csk)
  BY <1>2, CongMod, CongSym
<1>4. qCard + b * hsk \in Int /\ u + b * r \in Int
  BY <1>1, <1>3
<1>5. q \in Int /\ Cong(q, qCard + b * hsk) /\ (u + b * r) % Q \in Int
  BY <1>4, CongMod, CongSym
<1>6. Cong(q, b * (hsk + csk))
  <2>1. Cong(b * hsk, b * hsk)
    BY <1>2, CongRefl
  <2>2. Cong(qCard + b * hsk, b * csk + b * hsk)
    BY <1>2, <1>3, <2>1, CongAdd
  <2>3. b * csk + b * hsk = b * (hsk + csk) /\ b * (hsk + csk) \in Int
    BY <1>1
  <2>4. QED
    BY <1>4, <1>5, <2>2, <2>3, CongTrans
<1>7. c \in Int
  BY <1>1, <1>5, HashIsScalar DEF SchnorrHashMember
<1>8. pk.q = q /\ pk.c = c /\ pk.s = SplitAnswer(rc, csk, r, hsk, c)
  BY DEF JoinFinalize, SplitAnswer
<1> HIDE DEF pk
<1>9. (b * pk.s - pk.q * pk.c) % Q = (u + b * r) % Q
  <2>1. OnKey(q, b, hsk + csk)
    BY <1>1, <1>5, <1>6 DEF OnKey
  <2> HIDE DEF q, c
  <2>2. Recovered(b, SplitAnswer(rc, csk, r, hsk, c), q, c) = SplitPoint(b, rc, r)
    BY <1>7, <2>1, SplitAnswers
  <2>3. QED
    BY <1>8, <2>2 DEF Recovered, SplitPoint
<1>10. MemberProofHolds(pk, nonce)
  BY <1>8, <1>9 DEF MemberProofHolds
<1>11. QED
  BY <1>10 DEF pk

\* The key that card and host join is the sum of their shares, whatever the proof says.
LEMMA JoinedKey ==
    ASSUME NEW b \in Int, NEW csk \in Int, NEW hsk \in Int
    PROVE  (((b * csk) % Q) + b * hsk) % Q = (b * (hsk + csk)) % Q
<1>1. b * csk \in Int /\ b * hsk \in Int /\ b * (hsk + csk) \in Int
  OBVIOUS
<1>2. Cong((b * csk) % Q, b * csk) /\ (b * csk) % Q \in Int /\ Cong(b * hsk, b * hsk)
  BY <1>1, CongMod, CongSym, CongRefl
<1>3. Cong(((b * csk) % Q) + b * hsk, b * csk + b * hsk)
  BY <1>1, <1>2, CongAdd
<1>4. ((b * csk) % Q) + b * hsk \in Int
  BY <1>1, <1>2
<1>5. b * csk + b * hsk = b * (hsk + csk)
  OBVIOUS
<1>6. QED
  BY <1>1, <1>3, <1>5, <1>4, CongEq

CredentialFields == {"a", "b", "c", "d"}

\* cred is a credential of the group gpk, for the secret key sk.
ValidCredential(cred, sk, gpk) ==
    /\ DOMAIN cred = CredentialFields
    /\ \A i \in CredentialFields : cred[i] \in Scalar \ {0}
    /\ PairingsHold(cred, gpk)
    /\ Cong(cred.d, cred.b * sk)

\* What the issuer gives out is one, however it is randomized.
LEMMA IssuedIsValid ==
    ASSUME NEW nonce \in Int, NEW sk \in Int, NEW x \in Scalar \ {0}, NEW y \in Scalar \ {0},
           NEW l \in Scalar \ {0}, sk % Q # 0, (1 + sk * y) % Q # 0,
           NEW pk, pk.q = (HashToG1(nonce) * sk) % Q, NEW isk, isk.x = x, isk.y = y,
           NEW gpk, gpk.x = x, gpk.y = y
    PROVE  ValidCredential(RandomizeCredential(IssueCredential(pk, isk, nonce), l), sk, gpk)
<1> DEFINE b == HashToG1(nonce)
           a == (b * InverseOf(y)) % Q
           d == (b * sk) % Q
           c == ((a + d) * x) % Q
           given == IssueCredential(pk, isk, nonce)
           cred == RandomizeCredential(given, l)
<1>1. given = [a |-> a, b |-> b, c |-> c, d |-> d]
  BY DEF IssueCredential
<1>2. b \in Scalar \ {0}
  BY HashIsPoint
<1>3. /\ {(a * l) % Q, (b * l) % Q, (c * l) % Q, (d * l) % Q} \subseteq Scalar \ {0}
      /\ (((a * l) % Q) * y) % Q = (b * l) % Q
      /\ (c * l) % Q = ((((a * l) % Q) + ((d * l) % Q)) * x) % Q
      /\ Cong((d * l) % Q, ((b * l) % Q) * sk)
  BY <1>2, RandomizedCredential
<1> HIDE DEF a, b, c, d
<1>4. DOMAIN given = CredentialFields /\ given.a = a /\ given.b = b /\ given.c = c /\ given.d = d
  BY <1>1 DEF CredentialFields
<1> HIDE DEF given
<1>5. cred = [i \in CredentialFields |-> (given[i] * l) % Q]
  BY <1>4 DEF RandomizeCredential
<1> HIDE DEF cred
<1>6. /\ DOMAIN cred = CredentialFields
      /\ cred["a"] = (a * l) % Q /\ cred["b"] = (b * l) % Q
      /\ cred["c"] = (c * l) % Q /\ cred["d"] = (d * l) % Q
  BY <1>4, <1>5 DEF CredentialFields
<1>7. \A i \in CredentialFields : cred[i] \in Scalar \ {0}
  BY <1>3, <1>6 DEF CredentialFields
<1>8. PairingsHold(cred, gpk)
  <2>1. (cred.a * gpk.y) % Q = cred.b
    BY <1>3, <1>6
  <2>2. cred.c = ((cred.a + cred.d) * gpk.x) % Q
    BY <1>3, <1>6
  <2>3. QED
    BY <2>1, <2>2 DEF PairingsHold
<1>9. ValidCredential(cred, sk, gpk)
  BY <1>3, <1>6, <1>7, <1>8 DEF ValidCredential
<1>10. QED
  BY <1>9 DEF b, cred, given

\* The part of a challenge that a basename adds.
NymOf(name, ku, k) == IF name = NoName THEN NoNym ELSE <<ku, k, HashToG1(name)>>

LEMMA ChallengeIsScalar ==
    ASSUME NEW u \in Int, NEW cred, cred.b \in Int, cred.d \in Int, NEW m \in Int, NEW n \in Int,
           NEW name \in Int, NEW ku \in Int, NEW k \in Int
    PROVE  Challenge(u, cred, m, NymOf(name, ku, k), n) \in Int
<1> DEFINE h == HashToScalar(u, cred.b, cred.d, m)
           g == HashToG1(name)
           nym == NymOf(name, ku, k)
           all == IF nym = NoNym THEN h ELSE Absorb(Absorb(Absorb(h, nym[1]), nym[2]), nym[3])
<1>1. h \in Int /\ g \in Int
  BY HashIsScalar, HashIsPoint
<1> HIDE DEF h, g
<1>2. all \in Int
  <2>1. CASE nym = NoNym
    BY <1>1, <2>1
  <2>2. CASE nym # NoNym
    <3>1. nym = <<ku, k, g>>
      BY <2>2 DEF NymOf, g
    <3>2. nym[1] \in Int /\ nym[2] \in Int /\ nym[3] \in Int
      BY <1>1, <3>1
    <3> HIDE DEF nym
    <3>3. Absorb(h, nym[1]) \in Int
      BY <1>1, <3>2, AbsorbIsScalar
    <3>4. Absorb(Absorb(h, nym[1]), nym[2]) \in Int
      BY <3>2, <3>3, AbsorbIsScalar
    <3>5. Absorb(Absorb(Absorb(h, nym[1]), nym[2]), nym[3]) \in Int
      BY <3>2, <3>4, AbsorbIsScalar
    <3>6. QED
      BY <2>2, <3>5
  <2>3. QED
    BY <2>1, <2>2
<1> HIDE DEF all
<1>3. Absorb(3, n) \in Int
  BY AbsorbIsScalar
<1>4. Absorb(Absorb(3, n), all) \in Int
  BY <1>2, <1>3, AbsorbIsScalar
<1>5. Challenge(u, cred, m, nym, n) = Absorb(Absorb(3, n), all)
  BY DEF Challenge, all, h
<1>6. QED
  BY <1>4, <1>5

\* A signature under a credential of the group verifies once its challenge does.
LEMMA SchnorrSuffices ==
    ASSUME NEW gpk, NEW sk, NEW cred, ValidCredential(cred, sk, gpk), NEW w, w.cred = cred,
           NEW name, NEW m, SchnorrHolds(w, name, m)
    PROVE  Verify(gpk, name, cred, w, m) /\ CredentialInGroup(cred, gpk)
<1>1. /\ DOMAIN cred = CredentialFields /\ PairingsHold(cred, gpk)
      /\ \A i \in CredentialFields : cred[i] # 0
  BY DEF ValidCredential
<1>2. cred.a # 0 /\ cred.b # 0
  BY <1>1 DEF CredentialFields
<1>3. QED
  BY <1>1, <1>2 DEF Verify, CredentialInGroup

\* The scalars of a credential of the group.
LEMMA CredentialScalars ==
    ASSUME NEW gpk, NEW sk, NEW cred, ValidCredential(cred, sk, gpk)
    PROVE  cred.b \in Int /\ cred.d \in Int /\ Cong(cred.d, cred.b * sk)
<1>1. cred["b"] \in Scalar /\ cred["d"] \in Scalar
  BY DEF ValidCredential, CredentialFields
<1>2. QED
  BY <1>1, ScalarMod DEF ValidCredential

\* The pseudonym of the key sk under a basename.
Pseudonym(name, sk) == IF name = NoName THEN 0 ELSE (HashToG1(name) * sk) % Q

LEMMA PseudonymOf ==
    ASSUME NEW name \in Int, NEW sk \in Int
    PROVE  /\ Pseudonym(name, sk) \in Int
           /\ name # NoName => /\ Pseudonym(name, sk) = (HashToG1(name) * sk) % Q
                               /\ Cong(Pseudonym(name, sk), HashToG1(name) * sk)
<1> DEFINE g == HashToG1(name)
<1>1. g \in Int
  BY HashIsPoint
<1>2. g * sk \in Int
  BY <1>1
<1>3. (g * sk) % Q \in Int /\ Cong((g * sk) % Q, g * sk)
  BY <1>2, CongMod, CongSym
<1>4. QED
  BY <1>3 DEF Pseudonym

\* The challenge of a signature that card and host make with the nonces rc and r.
SplitCommitment(cred, m, name, sk, rc, r, n) ==
    LET g == HashToG1(name)
    IN  Challenge(SplitPoint(cred.b, rc, r), cred, m,
                  NymOf(name, SplitPoint(g, rc, r), Pseudonym(name, sk)), n)

LEMMA SplitSchnorr ==
    ASSUME NEW gpk, NEW cred, NEW csk \in Int, NEW hsk \in Int, ValidCredential(cred, hsk + csk, gpk),
           NEW rc \in Int, NEW r \in Int, NEW m, NEW name \in Int, NEW n, NEW c \in Int,
           c = SplitCommitment(cred, m, name, hsk + csk, rc, r, n),
           NEW w, w.c = c, w.s = SplitAnswer(rc, csk, r, hsk, c), w.cred = cred, w.n = n,
           w.k = Pseudonym(name, hsk + csk)
    PROVE  SchnorrHolds(w, name, m)
<1> DEFINE g == HashToG1(name)
           b == cred.b
           s == SplitAnswer(rc, csk, r, hsk, c)
           k == Pseudonym(name, hsk + csk)
           u == SplitPoint(b, rc, r)
           v == SplitPoint(g, rc, r)
<1>1. OnKey(cred.d, b, hsk + csk)
  BY CredentialScalars DEF OnKey
<1>2. Recovered(b, s, cred.d, c) = u
  <2> HIDE DEF b
  <2>1. QED
    BY <1>1, SplitAnswers
<1>3. ASSUME name # NoName
      PROVE  Recovered(g, s, k, c) = v
  <2>1. OnKey(k, g, hsk + csk)
    BY <1>3, HashIsPoint, PseudonymOf DEF OnKey
  <2> HIDE DEF g, k
  <2>2. QED
    BY <2>1, SplitAnswers
<1> HIDE DEF g, s, k, u, v
<1>4. w.c = c /\ w.s = s /\ w.k = k /\ w.cred.b = b /\ w.cred.d = cred.d
  BY DEF s, k
<1> DEFINE nym == IF name = NoName THEN NoNym ELSE <<(g * w.s - w.k * w.c) % Q, w.k, g>>
<1>5. nym = NymOf(name, v, k)
  BY <1>3, <1>4 DEF NymOf, g, Recovered
<1>6. (w.cred.b * w.s - w.cred.d * w.c) % Q = u
  BY <1>2, <1>4 DEF Recovered
<1>7. c = Challenge(u, cred, m, NymOf(name, v, k), n)
  BY DEF SplitCommitment, u, v, g, k
<1> HIDE DEF nym
<1>8. w.c = Challenge((w.cred.b * w.s - w.cred.d * w.c) % Q, w.cred, m, nym, w.n)
  BY <1>4, <1>5, <1>6, <1>7
<1>9. QED
  BY <1>8 DEF SchnorrHolds, nym, g

\* The same for sign, with the whole key in one place: w arrives for sig.
SignedWhole(w, sig, m, given, cred, sk, name, l, r, n, gpk) ==
    /\ sk \in Int /\ r \in Int /\ m \in Int /\ name \in Int /\ n \in Int
    /\ cred = RandomizeCredential(given, l) /\ ValidCredential(cred, sk, gpk)
    /\ sig = Sign(m, given, sk, name, l, r, n)
    /\ w.c = sig.c /\ w.s = sig.s /\ w.cred = sig.cred /\ w.n = sig.n /\ w.k = sig.k

LEMMA WholeSchnorr ==
    ASSUME NEW w, NEW sig, NEW m, NEW given, NEW cred, NEW sk, NEW name, NEW l, NEW r, NEW n, NEW gpk,
           SignedWhole(w, sig, m, given, cred, sk, name, l, r, n, gpk)
    PROVE  SchnorrHolds(w, name, m) /\ sig.cred = cred /\ sig.k = Pseudonym(name, sk)
<1>0. /\ sk \in Int /\ r \in Int /\ m \in Int /\ name \in Int /\ n \in Int
      /\ cred = RandomizeCredential(given, l) /\ ValidCredential(cred, sk, gpk)
      /\ sig = Sign(m, given, sk, name, l, r, n)
      /\ w.c = sig.c /\ w.s = sig.s /\ w.cred = sig.cred /\ w.n = sig.n /\ w.k = sig.k
  BY DEF SignedWhole
<1> USE <1>0
<1> DEFINE g == HashToG1(name)
           b == cred.b
           q == (g * sk) % Q
           k == Pseudonym(name, sk)
           u == (b * r) % Q
           v == (g * r) % Q
           c == Challenge(u, cred, m, NymOf(name, v, k), n)
           s == WholeAnswer(r, sk, c)
<1>1. b \in Int /\ cred.d \in Int /\ Cong(cred.d, b * sk)
  BY CredentialScalars
<1>2. g \in Int /\ k \in Int
  BY HashIsPoint, PseudonymOf
<1>3. b * r \in Int /\ g * r \in Int
  BY <1>1, <1>2
<1>4. u \in Int /\ v \in Int
  BY <1>3, CongMod
<1>5. c \in Int
  <2> HIDE DEF u, v, k
  <2>1. QED
    BY <1>1, <1>2, <1>4, ChallengeIsScalar
<1>6. NymOf(name, v, k) = IF name = NoName THEN NoNym ELSE <<(g * r) % Q, q, g>>
  BY DEF NymOf, Pseudonym
<1>7. sig.c = c /\ sig.s = s /\ sig.cred = cred /\ sig.n = n /\ sig.k = k
  <2>1. sig = [c |-> c, s |-> s, cred |-> cred, n |-> n, k |-> k]
    <3> DEFINE nym == IF name = NoName THEN NoNym ELSE <<(g * r) % Q, q, g>>
               cc == Challenge(u, cred, m, nym, n)
    <3>1. sig = [c |-> cc, s |-> (r + cc * sk) % Q, cred |-> cred, n |-> n,
                 k |-> IF name = NoName THEN 0 ELSE q]
      BY DEF Sign
    <3>2. cc = c
      BY <1>6
    <3>3. (IF name = NoName THEN 0 ELSE q) = k
      BY DEF Pseudonym
    <3> HIDE DEF cc
    <3>4. QED
      BY <3>1, <3>2, <3>3 DEF WholeAnswer
  <2>2. QED
    BY <2>1
<1> HIDE DEF c
<1>8. Recovered(b, s, cred.d, c) = u
  <2>1. OnKey(cred.d, b, sk)
    BY <1>1 DEF OnKey
  <2> HIDE DEF b
  <2>2. QED
    BY <1>5, <2>1, WholeAnswers
<1>9. ASSUME name # NoName
      PROVE  Recovered(g, s, k, c) = v
  <2>1. OnKey(k, g, sk)
    BY <1>2, <1>9, PseudonymOf DEF OnKey
  <2> HIDE DEF g, k
  <2>2. QED
    BY <1>5, <2>1, WholeAnswers
<1> HIDE DEF g, s, k, u, v
<1>10. w.c = c /\ w.s = s /\ w.k = k /\ w.cred = cred /\ w.n = n
  BY <1>7
<1> DEFINE nym == IF name = NoName THEN NoNym ELSE <<(g * w.s - w.k * w.c) % Q, w.k, g>>
<1>11. nym = NymOf(name, v, k)
  BY <1>9, <1>10 DEF NymOf, g, Recovered
<1>12. (w.cred.b * w.s - w.cred.d * w.c) % Q = u
  BY <1>8, <1>10 DEF Recovered
<1> HIDE DEF nym
<1>13. w.c = Challenge((w.cred.b * w.s - w.cred.d * w.c) % Q, w.cred, m, nym, w.n)
  BY <1>10, <1>11, <1>12 DEF c
<1>14. SchnorrHolds(w, name, m)
  BY <1>13 DEF SchnorrHolds, nym, g
<1>15. QED
  BY <1>7, <1>14 DEF k
-----------------------------------------------------------------------------
(***************************************************************************)
(* The hosts.                                                              *)
(***************************************************************************)
HostFields == {"pc", "key", "share", "qCard", "sTtc", "pk", "cred", "session", "clean"}
KindsOfHost == {"split", "mobile", "software"}

Shape(x) ==
    /\ DOMAIN x = HostFields /\ x.key \in Keys /\ x.clean \in BOOLEAN
    /\ DOMAIN x.share = Keys /\ DOMAIN x.qCard = Keys /\ DOMAIN x.pk = Keys
    /\ DOMAIN x.session = {"name", "cred", "challenge"} /\ x.session.name \in Names \cup {NoName}

\* The public point of h's whole key, for the TTC.
KeyPoint(h, k) == (HashToG1(HwId(h)) * SecretKey(h, k)) % Q

\* The TTC's public key is made: it is on the whole key, and its proof holds if no
\* other command came between.
TtcMade(h, k, x) ==
    LET pk == x.pk["ttc"]
    IN  /\ pk.q \in Int /\ pk.c \in Int /\ pk.s \in Int /\ pk.n \in Int
        /\ pk.q = KeyPoint(h, k)
        /\ x.clean => MemberProofHolds(pk, HwId(h))

\* The nonce of the key that a host is at.
NonceAt(h, x) == IF x.key = "ttc" THEN HwId(h) ELSE NonceOf(x.pk["ttc"])

\* The host waits for the card's answer to the challenge of a key.
Joining(h, x, c) ==
    LET nonce == NonceAt(h, x)
        b == HashToG1(nonce)
        q == x.qCard[x.key]
        share == x.share[x.key]
    IN  /\ share.sk = HostSk[h] /\ share.r = HostRandom(h) /\ share.c \in Int
        /\ q = (b * CardSk) % Q
        /\ x.clean => share.c = SchnorrHashMember((((b * c.r) % Q) + b * HostRandom(h)) % Q, b,
                                                  (q + b * HostSk[h]) % Q, nonce)

\* A phone has a share of the TTC's key.
PhoneJoining(h, x) ==
    x.share["ttc"].sk = HostSk[h] /\ x.qCard["ttc"] = (HashToG1(HwId(h)) * CardSk) % Q

\* Keys that the registrar accepts.
Provable(h, x) ==
    /\ MemberProofHolds(x.pk["nac"], NonceOf(x.pk["ttc"]))
    /\ MemberProofHolds(x.pk["ttc"], HwId(h))

\* The credential is the one for the whole key.
CredentialOf(h, k) == IssueCredential([NoKey EXCEPT !.q = KeyPoint(h, k)], Issuer.isk, HwId(h))

\* The host waits for the card's answer to the challenge of a signature.
Signing(h, k, x, c) ==
    LET s == x.session
        sk == SecretKey(h, k)
    IN  /\ ValidCredential(s.cred, sk, Issuer.gpk)
        /\ s.challenge.k = Pseudonym(s.name, sk) /\ s.challenge.c \in Int
        /\ x.clean /\ (c.kind = "mock" \/ s.name = NoName) =>
              s.challenge.c = SplitCommitment(s.cred, Message, s.name, sk, c.r, HostRandom(h), RandomN)

\* The host h, which is of kind k and in state x, beside the card c.
HostOK(h, k, x, c) ==
    /\ Shape(x)
    /\ x.pc \in {"join", "respond"} /\ x.key = "nac" => TtcMade(h, k, x)
    /\ x.pc = "respond" => k = "split" /\ Joining(h, x, c)
    /\ x.pc \in {"joinNac", "askTtc", "askNac"} => k = "mobile" /\ PhoneJoining(h, x)
    /\ x.pc = "register" => /\ x.pk["ttc"].q = KeyPoint(h, k)
                            /\ x.clean /\ k # "mobile" => Provable(h, x)
    /\ x.pc = "refused" /\ x.clean => k = "mobile"
    /\ x.pc \in {"ready", "hit", "answer"} => x.cred = CredentialOf(h, k)
    /\ x.pc = "answer" => k # "software" /\ Signing(h, k, x, c)

HostsOK ==
    /\ kind \in [Hosts -> KindsOfHost] /\ DOMAIN host = Hosts
    /\ \A h \in Hosts : HostOK(h, kind[h], host[h], card)

CleanInv == CardInv /\ HostsOK /\ CleanSignaturesVerify /\ PseudonymIsTheWallets

SessionStates == {"respond", "answer", "joinNac", "askTtc", "askNac"}

\* Another host's command leaves a host that has no commitment of the card as it is...
LEMMA Unconcerned ==
    ASSUME NEW h, NEW k, NEW x, NEW c, NEW d, HostOK(h, k, x, c), x.pc \notin SessionStates
    PROVE  HostOK(h, k, x, d)
<1>1. x.pc # "respond" /\ x.pc # "answer"
  BY DEF SessionStates
<1>2. QED
  BY <1>1 DEF HostOK

\* ... and takes the session of one that has.
LEMMA Disturbed ==
    ASSUME NEW h, NEW k, NEW x, NEW c, NEW d, HostOK(h, k, x, c), x.pc \in SessionStates
    PROVE  HostOK(h, k, [x EXCEPT !.clean = FALSE], d)
<1> DEFINE y == [x EXCEPT !.clean = FALSE]
<1>1. Shape(x)
  BY DEF HostOK
<1>2. /\ DOMAIN y = HostFields /\ y.clean = FALSE
      /\ y.pc = x.pc /\ y.key = x.key /\ y.share = x.share /\ y.qCard = x.qCard
      /\ y.pk = x.pk /\ y.cred = x.cred /\ y.session = x.session
  BY <1>1 DEF Shape, HostFields
<1> HIDE DEF y
<1>3. Shape(y)
  BY <1>1, <1>2 DEF Shape
<1>4. TtcMade(h, k, x) => TtcMade(h, k, y)
  BY <1>2 DEF TtcMade
<1>5. Joining(h, x, c) => Joining(h, y, d)
  BY <1>2 DEF Joining, NonceAt
<1>6. PhoneJoining(h, x) => PhoneJoining(h, y)
  BY <1>2 DEF PhoneJoining
<1>7. Signing(h, k, x, c) => Signing(h, k, y, d)
  BY <1>2 DEF Signing
<1>8. y.pc # "register" /\ y.pc # "refused"
  BY <1>2 DEF SessionStates
<1>9. QED
  BY <1>2, <1>3, <1>4, <1>5, <1>6, <1>7, <1>8 DEF HostOK, y

\* A command of h to the card.
LEMMA CommandKeeps ==
    ASSUME HostsOK, NEW h \in Hosts, NEW new, host' = Disturb(h, new), kind' = kind,
           HostOK(h, kind[h], new, card')
    PROVE  HostsOK'
<1>1. DOMAIN host' = Hosts /\ kind' \in [Hosts -> KindsOfHost]
  BY DEF Disturb, HostsOK
<1>2. ASSUME NEW g \in Hosts
      PROVE  HostOK(g, kind[g], host'[g], card')
  <2>1. CASE g = h
    BY <2>1 DEF Disturb
  <2>2. CASE g # h /\ InSession(g)
    <3>1. host'[g] = [host[g] EXCEPT !.clean = FALSE]
      BY <2>2 DEF Disturb
    <3>2. HostOK(g, kind[g], host[g], card) /\ host[g].pc \in SessionStates
      BY <2>2 DEF HostsOK, InSession, SessionStates
    <3>3. QED
      BY <3>1, <3>2, Disturbed
  <2>3. CASE g # h /\ ~ InSession(g)
    <3>1. host'[g] = host[g]
      BY <2>3 DEF Disturb
    <3>2. HostOK(g, kind[g], host[g], card) /\ host[g].pc \notin SessionStates
      BY <2>3 DEF HostsOK, InSession, SessionStates
    <3>3. QED
      BY <3>1, <3>2, Unconcerned
  <2>4. QED
    BY <2>1, <2>2, <2>3
<1>3. QED
  BY <1>1, <1>2 DEF HostsOK

\* A step of h that does not involve the card.
LEMMA AloneKeeps ==
    ASSUME HostsOK, NEW h \in Hosts, NEW new, host' = [host EXCEPT ![h] = new], kind' = kind,
           card' = card, HostOK(h, kind[h], new, card)
    PROVE  HostsOK'
<1>1. DOMAIN host' = Hosts /\ kind' \in [Hosts -> KindsOfHost]
  BY DEF HostsOK
<1>2. ASSUME NEW g \in Hosts
      PROVE  HostOK(g, kind[g], host'[g], card')
  <2>1. CASE g = h
    BY <2>1 DEF HostsOK
  <2>2. CASE g # h
    BY <2>2 DEF HostsOK
  <2>3. QED
    BY <2>1, <2>2
<1>3. QED
  BY <1>1, <1>2 DEF HostsOK

\* What the assumptions say of a host's numbers.
LEMMA Numbers ==
    ASSUME NEW h \in Hosts, NEW k \in KindsOfHost
    PROVE  /\ HostSk[h] \in Int /\ CardSk \in Int /\ HostRandom(h) \in Int /\ HwId(h) \in Int
           /\ SecretKey(h, k) \in Int /\ SecretKey(h, k) % Q # 0
           /\ (1 + SecretKey(h, k) * IssuerY) % Q # 0
           /\ k # "software" => SecretKey(h, k) = HostSk[h] + CardSk
           /\ k = "software" => SecretKey(h, k) = HostSk[h]
<1>1. HostSk[h] \in Int /\ CardSk \in Int
  BY SplitCardAssumption, ScalarMod
<1>2. HostSk[h] + 11 \in Int /\ HwId(h) \in Int
  BY <1>1 DEF HwId
<1>3. HostRandom(h) \in Int
  BY <1>2, CongMod DEF HostRandom
<1>4. /\ k # "software" => SecretKey(h, k) = HostSk[h] + CardSk
      /\ k = "software" => SecretKey(h, k) = HostSk[h]
  BY <1>1 DEF SecretKey
<1>5. SecretKey(h, k) \in Int
  BY <1>1, <1>4
<1>6. SecretKey(h, k) % Q # 0 /\ (1 + SecretKey(h, k) * IssuerY) % Q # 0
  BY KeysAssumption DEF KindsOfHost
<1>7. QED
  BY <1>1, <1>2, <1>3, <1>4, <1>5, <1>6

\* The point of the key that card and host make together is the whole key's.
LEMMA JoinedPoint ==
    ASSUME NEW h \in Hosts, NEW k \in KindsOfHost, k # "software"
    PROVE  (((HashToG1(HwId(h)) * CardSk) % Q) + HashToG1(HwId(h)) * HostSk[h]) % Q = KeyPoint(h, k)
<1> DEFINE b == HashToG1(HwId(h))
<1>1. /\ HostSk[h] \in Int /\ CardSk \in Int /\ HwId(h) \in Int
      /\ SecretKey(h, k) = HostSk[h] + CardSk
  BY Numbers
<1>2. b \in Int
  BY <1>1, HashIsPoint
<1> HIDE DEF b
<1>3. (((b * CardSk) % Q) + b * HostSk[h]) % Q = (b * (HostSk[h] + CardSk)) % Q
  BY <1>1, <1>2, JoinedKey
<1>4. QED
  BY <1>1, <1>3 DEF KeyPoint, b

\* A command that failed, and one whose reply was lost.
LEMMA FailedIsOK ==
    ASSUME NEW h \in Hosts, NEW k, NEW c, Shape(host[h]), NEW heard \in BOOLEAN
    PROVE  HostOK(h, k, Failed(h, heard), c)
<1> DEFINE x == host[h]
           y == Failed(h, heard)
<1>1. /\ DOMAIN y = HostFields /\ y.pc = "failed" /\ y.key = x.key /\ y.session = NoSession
      /\ y.share = x.share /\ y.qCard = x.qCard /\ y.pk = x.pk /\ y.clean = (x.clean /\ heard)
  BY DEF Shape, HostFields, Failed
<1> HIDE DEF y
<1>2. DOMAIN y.session = {"name", "cred", "challenge"} /\ y.session.name \in Names \cup {NoName}
  BY <1>1 DEF NoSession
<1>3. y.clean \in BOOLEAN
  BY <1>1
<1>4. Shape(y)
  BY <1>1, <1>2, <1>3 DEF Shape
<1>5. HostOK(h, k, y, c)
  BY <1>1, <1>4 DEF HostOK
<1>6. QED
  BY <1>5 DEF y

\* The nonce of a key is a number.
LEMMA NonceIsNumber ==
    ASSUME NEW h \in Hosts, NEW k \in KindsOfHost, NEW x, x.key \in Keys,
           x.key = "nac" => TtcMade(h, k, x)
    PROVE  NonceAt(h, x) \in Int
<1>1. CASE x.key = "ttc"
  BY <1>1, Numbers DEF NonceAt
<1>2. CASE x.key = "nac"
  BY <1>2, HashIsScalar DEF NonceAt, TtcMade, NonceOf
<1>3. QED
  BY <1>1, <1>2 DEF Keys

\* generate_split_wallet_keypair has sent its challenge.
LEMMA JoinCommitKeeps ==
    ASSUME CleanInv, NEW h \in Hosts, NEW heard \in BOOLEAN, JoinCommit(h, heard), card'.r \in Int
    PROVE  HostsOK'
<1> DEFINE x == host[h]
           key == x.key
           nonce == NonceAt(h, x)
           b == HashToG1(nonce)
           r == CardJoinCommit(card, b)
           share == JoinHostCommitAndChallenge(nonce, r.q, r.u, HostSk[h], HostRandom(h))
           y == [x EXCEPT !.pc = "respond", !.share[key] = share, !.qCard[key] = r.q,
                          !.clean = key = "ttc" \/ @]
           new == IF ~ heard THEN Failed(h, heard) ELSE y
<1>1. HostOK(h, "split", x, card) /\ Shape(x) /\ kind[h] = "split" /\ x.pc = "join"
  BY DEF CleanInv, HostsOK, HostOK, JoinCommit
<1>2. nonce = NonceFor(h, key)
  BY DEF NonceAt, NonceFor
<1>3. card' = r.card /\ host' = Disturb(h, new) /\ kind' = kind
  BY <1>2 DEF JoinCommit
<1>4. "split" \in KindsOfHost
  BY DEF KindsOfHost
<1>5. key = "nac" => TtcMade(h, "split", x)
  BY <1>1 DEF HostOK
<1>6. nonce \in Int
  BY <1>1, <1>4, <1>5, NonceIsNumber DEF Shape
<1>7. b \in Int
  BY <1>6, HashIsPoint
<1> HIDE DEF nonce
<1>8. r.q = (b * CardSk) % Q /\ r.u = (b * card'.r) % Q
  BY <1>3 DEF CardJoinCommit
<1> HIDE DEF r, b
<1>9. /\ share.sk = HostSk[h] /\ share.r = HostRandom(h)
      /\ share.c = SchnorrHashMember((r.u + b * HostRandom(h)) % Q, b, (r.q + b * HostSk[h]) % Q, nonce)
  BY DEF JoinHostCommitAndChallenge, b
<1> HIDE DEF share
<1>10. /\ DOMAIN y = HostFields /\ y.pc = "respond" /\ y.key = key /\ y.pk = x.pk /\ y.session = x.session
       /\ y.clean = (key = "ttc" \/ x.clean)
       /\ y.share = [x.share EXCEPT ![key] = share] /\ y.qCard = [x.qCard EXCEPT ![key] = r.q]
  BY <1>1 DEF Shape, HostFields
<1> HIDE DEF y
<1>11. y.share[key] = share /\ y.qCard[key] = r.q /\ DOMAIN y.share = Keys /\ DOMAIN y.qCard = Keys
  BY <1>1, <1>10 DEF Shape
<1>12. y.clean \in BOOLEAN
  BY <1>1, <1>10 DEF Shape
<1>13. Shape(y)
  BY <1>1, <1>10, <1>11, <1>12 DEF Shape
<1>14. share.c \in Int
  <2>1. b * CardSk \in Int /\ b * card'.r \in Int /\ HostSk[h] \in Int /\ HostRandom(h) \in Int
    BY <1>4, <1>7, Numbers
  <2>2. r.q \in Int /\ r.u \in Int
    BY <1>8, <2>1, CongMod
  <2>3. r.u + b * HostRandom(h) \in Int /\ r.q + b * HostSk[h] \in Int
    BY <1>7, <2>1, <2>2
  <2>4. (r.u + b * HostRandom(h)) % Q \in Int /\ (r.q + b * HostSk[h]) % Q \in Int
    BY <2>3, CongMod
  <2>5. QED
    BY <1>6, <1>7, <1>9, <2>4, HashIsScalar DEF SchnorrHashMember
<1>15. NonceAt(h, y) = nonce
  BY <1>10 DEF NonceAt, nonce
<1>16. Joining(h, y, card')
  <2>1. y.share[y.key] = share /\ y.qCard[y.key] = r.q /\ HashToG1(NonceAt(h, y)) = b
    BY <1>10, <1>11, <1>15 DEF b
  <2>2. share.c = SchnorrHashMember((((b * card'.r) % Q) + b * HostRandom(h)) % Q, b,
                                    (r.q + b * HostSk[h]) % Q, nonce)
    BY <1>8, <1>9
  <2>3. QED
    BY <1>8, <1>9, <1>14, <1>15, <2>1, <2>2 DEF Joining
<1>17. key = "nac" => TtcMade(h, "split", y)
  BY <1>5, <1>10 DEF TtcMade
<1>18. HostOK(h, "split", y, card')
  BY <1>10, <1>13, <1>16, <1>17 DEF HostOK
<1>19. HostOK(h, "split", Failed(h, heard), card')
  BY <1>1, FailedIsOK
<1>20. HostOK(h, kind[h], new, card')
  BY <1>1, <1>18, <1>19
<1> HIDE DEF new
<1>21. QED
  BY <1>3, <1>20, CommandKeeps DEF CleanInv

\* generate_split_wallet_keypair has its answer.
LEMMA JoinRespondKeeps ==
    ASSUME CleanInv, NEW h \in Hosts, NEW heard \in BOOLEAN, JoinRespond(h, heard)
    PROVE  HostsOK'
<1> DEFINE x == host[h]
           key == x.key
           nonce == NonceAt(h, x)
           b == HashToG1(nonce)
           share == x.share[key]
           q == x.qCard[key]
           sCard == (card.r + share.c * CardSk) % Q
           pk == JoinFinalize(nonce, q, share, sCard, RandomN)
           y == InitializeSplitKeys(h, pk)
           new == IF CanRespond(card, "join") /\ heard THEN y ELSE Failed(h, heard)
<1>1. x.pc = "respond" /\ HostOK(h, kind[h], x, card) /\ Shape(x) /\ card.r \in Int
  BY DEF CleanInv, HostsOK, HostOK, JoinRespond, CardInv, Card
<1>2. kind[h] = "split" /\ "split" \in KindsOfHost /\ Joining(h, x, card)
  BY <1>1 DEF HostOK, KindsOfHost
<1>3. key \in Keys /\ (key = "nac" => TtcMade(h, "split", x))
  BY <1>1, <1>2 DEF HostOK, Shape
<1>4. nonce = NonceFor(h, key)
  BY DEF NonceAt, NonceFor
<1>5. host' = Disturb(h, new) /\ kind' = kind
  BY <1>4 DEF JoinRespond, CardRespond
<1>6. nonce \in Int
  BY <1>2, <1>3, NonceIsNumber
<1>7. b \in Int /\ HostSk[h] \in Int /\ CardSk \in Int /\ HostRandom(h) \in Int
  BY <1>2, <1>6, HashIsPoint, Numbers
<1>8. /\ share.sk = HostSk[h] /\ share.r = HostRandom(h) /\ share.c \in Int /\ q = (b * CardSk) % Q
      /\ x.clean => share.c = SchnorrHashMember((((b * card.r) % Q) + b * HostRandom(h)) % Q, b,
                                                (q + b * HostSk[h]) % Q, nonce)
  BY <1>2 DEF Joining
<1> HIDE DEF nonce
<1>9. /\ pk.q = (q + b * HostSk[h]) % Q /\ pk.c = share.c /\ pk.n = RandomN
      /\ pk.s = (sCard + HostRandom(h) + share.c * HostSk[h]) % Q
  BY <1>8 DEF JoinFinalize
<1>10. pk.q \in Int /\ pk.c \in Int /\ pk.s \in Int /\ pk.n \in Int
  <2> HIDE DEF b, share, q, pk
  <2>1. b * CardSk \in Int /\ card.r + share.c * CardSk \in Int
    BY <1>1, <1>7, <1>8
  <2>2. q \in Int /\ sCard \in Int
    BY <1>8, <2>1, CongMod
  <2> HIDE DEF sCard
  <2>3. q + b * HostSk[h] \in Int /\ sCard + HostRandom(h) + share.c * HostSk[h] \in Int
    BY <1>7, <1>8, <2>2
  <2>4. QED
    BY <1>8, <1>9, <2>3, CongMod DEF RandomN
<1>11. x.clean => MemberProofHolds(pk, nonce)
  <2> SUFFICES ASSUME x.clean PROVE MemberProofHolds(pk, nonce)
    OBVIOUS
  <2> HIDE DEF share, q
  <2>1. QED
    BY <1>1, <1>6, <1>7, <1>8, SplitKeyProves
<1> HIDE DEF pk
<1>12. /\ DOMAIN y = HostFields /\ y.key = "nac" /\ y.session = x.session /\ y.clean = x.clean
       /\ y.share = x.share /\ y.qCard = x.qCard /\ y.pk = [x.pk EXCEPT ![key] = pk]
       /\ y.pc = IF key = "nac" THEN "register" ELSE "join"
  BY <1>1 DEF InitializeSplitKeys, Shape, HostFields
<1>13. DOMAIN y.pk = Keys /\ y.pk[key] = pk /\ \A i \in Keys : i # key => y.pk[i] = x.pk[i]
  BY <1>1, <1>12 DEF Shape
<1> HIDE DEF y
<1>14. Shape(y)
  BY <1>1, <1>12, <1>13 DEF Shape, Keys
<1>15. ASSUME key = "ttc"
       PROVE  HostOK(h, "split", y, card')
  <2>1. nonce = HwId(h) /\ y.pk["ttc"] = pk /\ y.pc = "join"
    BY <1>12, <1>13, <1>15 DEF nonce, NonceAt
  <2>2. pk.q = KeyPoint(h, "split")
    <3>1. "split" # "software"
      OBVIOUS
    <3>2. (((HashToG1(HwId(h)) * CardSk) % Q) + HashToG1(HwId(h)) * HostSk[h]) % Q
             = KeyPoint(h, "split")
      BY <1>2, <3>1, JoinedPoint
    <3>3. QED
      BY <1>8, <1>9, <2>1, <3>2
  <2>3. TtcMade(h, "split", y)
    BY <1>10, <1>11, <1>12, <2>1, <2>2 DEF TtcMade
  <2>4. QED
    BY <1>12, <1>14, <2>1, <2>3 DEF HostOK
<1>16. ASSUME key = "nac"
       PROVE  HostOK(h, "split", y, card')
  <2>1. /\ nonce = NonceOf(x.pk["ttc"]) /\ y.pk["nac"] = pk /\ y.pk["ttc"] = x.pk["ttc"]
        /\ y.pc = "register"
    BY <1>12, <1>13, <1>16 DEF nonce, NonceAt, Keys
  <2>2. TtcMade(h, "split", x)
    BY <1>3, <1>16
  <2>3. y.pk["ttc"].q = KeyPoint(h, "split") /\ (y.clean => MemberProofHolds(y.pk["ttc"], HwId(h)))
    BY <1>12, <2>1, <2>2 DEF TtcMade
  <2>4. y.clean => Provable(h, y)
    BY <1>11, <1>12, <2>1, <2>3 DEF Provable
  <2>5. QED
    BY <1>12, <1>14, <2>1, <2>3, <2>4 DEF HostOK
<1>17. HostOK(h, "split", y, card')
  BY <1>3, <1>15, <1>16 DEF Keys
<1>18. HostOK(h, "split", Failed(h, heard), card')
  BY <1>1, FailedIsOK
<1>19. HostOK(h, kind[h], new, card')
  BY <1>2, <1>17, <1>18
<1> HIDE DEF new
<1>20. QED
  BY <1>5, <1>19, CommandKeeps DEF CleanInv

\* A phone commits to its two keys.
LEMMA PhoneCommitKeeps ==
    ASSUME CleanInv, NEW h \in Hosts, NEW heard \in BOOLEAN,
           PhoneTtcCommit(h, heard) \/ PhoneNacCommit(h, heard)
    PROVE  HostsOK'
<1> DEFINE x == host[h]
           b == HashToG1(HwId(h))
<1>1. HostOK(h, kind[h], x, card) /\ Shape(x)
  BY DEF CleanInv, HostsOK, HostOK
<1>2. HostOK(h, kind[h], Failed(h, heard), card')
  BY <1>1, FailedIsOK
<1>3. CASE PhoneTtcCommit(h, heard)
  <2> DEFINE r == CardJoinCommit(card, b)
             share == JoinHostCommitAndChallenge(HwId(h), r.q, r.u, HostSk[h], HostRandom(h))
             y == AfterTtcCommit(h, r)
             new == IF heard THEN y ELSE Failed(h, heard)
  <2>1. host' = Disturb(h, new) /\ kind' = kind /\ kind[h] = "mobile"
    BY <1>3 DEF PhoneTtcCommit
  <2>2. r.q = (b * CardSk) % Q /\ share.sk = HostSk[h]
    BY DEF CardJoinCommit, JoinHostCommitAndChallenge
  <2> HIDE DEF r, share
  <2>3. /\ DOMAIN y = HostFields /\ y.pc = "joinNac" /\ y.key = x.key /\ y.clean = x.clean
        /\ y.session = x.session /\ y.pk = x.pk
        /\ y.qCard = [x.qCard EXCEPT !["ttc"] = r.q] /\ y.share = [x.share EXCEPT !["ttc"] = share]
    BY <1>1 DEF AfterTtcCommit, Shape, HostFields, share
  <2> HIDE DEF y
  <2>4. /\ DOMAIN y.qCard = Keys /\ DOMAIN y.share = Keys
        /\ y.qCard["ttc"] = r.q /\ y.share["ttc"] = share
    BY <1>1, <2>3 DEF Shape, Keys
  <2>5. Shape(y)
    BY <1>1, <2>3, <2>4 DEF Shape
  <2>6. PhoneJoining(h, y)
    BY <2>2, <2>4 DEF PhoneJoining
  <2>7. HostOK(h, "mobile", y, card')
    BY <2>3, <2>5, <2>6 DEF HostOK
  <2>8. HostOK(h, kind[h], new, card')
    BY <1>2, <2>1, <2>7
  <2> HIDE DEF new
  <2>9. QED
    BY <2>1, <2>8, CommandKeeps DEF CleanInv
<1>4. CASE PhoneNacCommit(h, heard)
  <2> DEFINE r == CardJoinCommit(card, HashToG1(host[h].share["ttc"].q))
             share == JoinHostCommitAndChallenge(host[h].share["ttc"].q, r.q, r.u, HostSk[h],
                                                 HostRandom(h))
             y == AfterNacCommit(h, r)
             new == IF heard THEN y ELSE Failed(h, heard)
  <2>1. host' = Disturb(h, new) /\ kind' = kind /\ x.pc = "joinNac"
    BY <1>4 DEF PhoneNacCommit
  <2>2. kind[h] = "mobile" /\ PhoneJoining(h, x)
    BY <1>1, <2>1 DEF HostOK
  <2> HIDE DEF r
  <2>3. /\ DOMAIN y = HostFields /\ y.pc = "askTtc" /\ y.key = x.key /\ y.clean = x.clean
        /\ y.session = x.session /\ y.pk = x.pk
        /\ y.qCard = [x.qCard EXCEPT !["nac"] = r.q] /\ y.share = [x.share EXCEPT !["nac"] = share]
    BY <1>1 DEF AfterNacCommit, Shape, HostFields
  <2> HIDE DEF y, share
  <2>4. /\ DOMAIN y.qCard = Keys /\ DOMAIN y.share = Keys
        /\ y.qCard["ttc"] = x.qCard["ttc"] /\ y.share["ttc"] = x.share["ttc"]
    BY <1>1, <2>3 DEF Shape, Keys
  <2>5. Shape(y)
    BY <1>1, <2>3, <2>4 DEF Shape
  <2>6. PhoneJoining(h, y)
    BY <2>2, <2>4 DEF PhoneJoining
  <2>7. HostOK(h, "mobile", y, card')
    BY <2>3, <2>5, <2>6 DEF HostOK
  <2>8. HostOK(h, kind[h], new, card')
    BY <1>2, <2>2, <2>7
  <2> HIDE DEF new
  <2>9. QED
    BY <2>1, <2>8, CommandKeeps DEF CleanInv
<1>5. QED
  BY <1>3, <1>4

\* A phone has its answers.
LEMMA PhoneRespondKeeps ==
    ASSUME CleanInv, NEW h \in Hosts, NEW heard \in BOOLEAN,
           PhoneTtcRespond(h, heard) \/ PhoneComplete(h, heard)
    PROVE  HostsOK'
<1> DEFINE x == host[h]
           b == HashToG1(HwId(h))
<1>1. HostOK(h, kind[h], x, card) /\ Shape(x)
  BY DEF CleanInv, HostsOK, HostOK
<1>2. HostOK(h, kind[h], Failed(h, heard), card')
  BY <1>1, FailedIsOK
<1>3. x.pc \in {"joinNac", "askTtc", "askNac"}
  BY DEF PhoneTtcRespond, PhoneComplete
<1>4. kind[h] = "mobile" /\ PhoneJoining(h, x)
  BY <1>1, <1>3 DEF HostOK
<1>5. CASE PhoneTtcRespond(h, heard)
  <2> DEFINE s == CardRespond(card, host[h].share["ttc"].c)
             y == [host[h] EXCEPT !.pc = "askNac", !.sTtc = s]
             new == IF CanRespond(card, "join") /\ heard THEN y ELSE Failed(h, heard)
  <2>1. host' = Disturb(h, new) /\ kind' = kind
    BY <1>5 DEF PhoneTtcRespond
  <2> HIDE DEF s
  <2>2. /\ DOMAIN y = HostFields /\ y.pc = "askNac" /\ y.key = x.key /\ y.clean = x.clean
        /\ y.session = x.session /\ y.pk = x.pk /\ y.qCard = x.qCard /\ y.share = x.share
    BY <1>1 DEF Shape, HostFields
  <2> HIDE DEF y
  <2>3. Shape(y) /\ PhoneJoining(h, y)
    BY <1>1, <1>4, <2>2 DEF Shape, PhoneJoining
  <2>4. HostOK(h, "mobile", y, card')
    BY <2>2, <2>3 DEF HostOK
  <2>5. HostOK(h, kind[h], new, card')
    BY <1>2, <1>4, <2>4
  <2> HIDE DEF new
  <2>6. QED
    BY <2>1, <2>5, CommandKeeps DEF CleanInv
<1>6. CASE PhoneComplete(h, heard)
  <2> DEFINE sNac == CardRespond(card, host[h].share["nac"].c)
             ttc == JoinFinalize(HwId(h), x.qCard["ttc"], x.share["ttc"], x.sTtc, RandomN)
             nac == JoinFinalize(x.share["ttc"].q, x.qCard["nac"], x.share["nac"], sNac, RandomN)
             y == SplitKeyComplete(h, x.sTtc, sNac)
             new == IF CanRespond(card, "join") /\ heard THEN y ELSE Failed(h, heard)
  <2>1. host' = Disturb(h, new) /\ kind' = kind
    BY <1>6 DEF PhoneComplete
  <2>2. y = [x EXCEPT !.pc = "register", !.pk["ttc"] = ttc, !.pk["nac"] = nac]
    BY DEF SplitKeyComplete
  <2>3. ttc.q = (x.qCard["ttc"] + b * x.share["ttc"].sk) % Q
    BY DEF JoinFinalize
  <2>4. ttc.q = KeyPoint(h, "mobile")
    <3>1. "mobile" # "software" /\ "mobile" \in KindsOfHost
      BY DEF KindsOfHost
    <3>2. (((b * CardSk) % Q) + b * HostSk[h]) % Q = KeyPoint(h, "mobile")
      BY <3>1, JoinedPoint
    <3>3. QED
      BY <1>4, <2>3, <3>2 DEF PhoneJoining
  <2> HIDE DEF ttc, nac, sNac
  <2>5. /\ DOMAIN y = HostFields /\ y.pc = "register" /\ y.key = x.key /\ y.clean = x.clean
        /\ y.session = x.session /\ y.qCard = x.qCard /\ y.share = x.share
        /\ DOMAIN y.pk = Keys /\ y.pk["ttc"] = ttc
    BY <1>1, <2>2 DEF Shape, HostFields, Keys
  <2> HIDE DEF y
  <2>6. Shape(y)
    BY <1>1, <2>5 DEF Shape
  <2>7. HostOK(h, "mobile", y, card')
    BY <2>4, <2>5, <2>6 DEF HostOK
  <2>8. HostOK(h, kind[h], new, card')
    BY <1>2, <1>4, <2>7
  <2> HIDE DEF new
  <2>9. QED
    BY <2>1, <2>8, CommandKeeps DEF CleanInv
<1>7. QED
  BY <1>5, <1>6

\* A wallet without a card makes its keys.
LEMMA InitializeKeysKeeps ==
    ASSUME CleanInv, NEW h \in Hosts, InitializeKeys(h)
    PROVE  HostsOK'
<1> DEFINE x == host[h]
           ttc == GenerateWalletKeypair(HwId(h), HostSk[h], HostRandom(h), RandomN)
           nac == GenerateWalletKeypair(NonceOf(ttc), HostSk[h], HostRandom(h), RandomN)
           y == [x EXCEPT !.pk["ttc"] = ttc, !.pk["nac"] = nac, !.pc = "register"]
<1>1. /\ HostOK(h, kind[h], x, card) /\ Shape(x) /\ kind[h] = "software"
      /\ kind' = kind /\ card' = card /\ DOMAIN host = Hosts
  BY DEF CleanInv, HostsOK, HostOK, InitializeKeys
<1>2. host' = [host EXCEPT ![h] = y]
  BY <1>1 DEF InitializeKeys
<1>3. "software" \in KindsOfHost
  BY DEF KindsOfHost
<1>4. /\ HwId(h) \in Int /\ HostSk[h] \in Int /\ HostRandom(h) \in Int /\ RandomN \in Int
      /\ SecretKey(h, "software") = HostSk[h]
  BY <1>3, Numbers DEF RandomN
<1>5. /\ ttc.q = (HashToG1(HwId(h)) * HostSk[h]) % Q /\ ttc.n = RandomN
      /\ ttc.q \in Int /\ ttc.c \in Int /\ ttc.s \in Int /\ MemberProofHolds(ttc, HwId(h))
  BY <1>4, WholeKeyProves
<1> HIDE DEF ttc
<1>6. NonceOf(ttc) \in Int
  BY <1>4, <1>5, HashIsScalar DEF NonceOf
<1>7. MemberProofHolds(nac, NonceOf(ttc))
  BY <1>4, <1>6, WholeKeyProves
<1> HIDE DEF nac
<1>8. /\ DOMAIN y = HostFields /\ y.pc = "register" /\ y.key = x.key /\ y.clean = x.clean
      /\ y.session = x.session /\ y.qCard = x.qCard /\ y.share = x.share
      /\ DOMAIN y.pk = Keys /\ y.pk["ttc"] = ttc /\ y.pk["nac"] = nac
  BY <1>1 DEF Shape, HostFields, Keys
<1> HIDE DEF y
<1>9. Shape(y)
  BY <1>1, <1>8 DEF Shape
<1>10. y.pk["ttc"].q = KeyPoint(h, "software")
  BY <1>4, <1>5, <1>8 DEF KeyPoint
<1>11. Provable(h, y)
  BY <1>5, <1>7, <1>8 DEF Provable
<1>12. HostOK(h, kind[h], y, card)
  BY <1>1, <1>8, <1>9, <1>10, <1>11 DEF HostOK
<1>13. QED
  BY <1>1, <1>2, <1>12, AloneKeeps DEF CleanInv

\* A wallet's credential, randomized, is one of the group for its whole key.
LEMMA WalletCredential ==
    ASSUME NEW h \in Hosts, NEW k \in KindsOfHost, NEW l \in Randomizers
    PROVE  ValidCredential(RandomizeCredential(CredentialOf(h, k), l), SecretKey(h, k), Issuer.gpk)
<1> DEFINE pk == [NoKey EXCEPT !.q = KeyPoint(h, k)]
           sk == SecretKey(h, k)
<1>1. pk.q = (HashToG1(HwId(h)) * sk) % Q
  BY DEF NoKey, KeyPoint
<1>2. /\ HwId(h) \in Int /\ sk \in Int /\ sk % Q # 0 /\ (1 + sk * IssuerY) % Q # 0
  BY Numbers
<1>3. l \in Scalar \ {0} /\ IssuerX \in Scalar \ {0} /\ IssuerY \in Scalar \ {0}
  BY SplitCardAssumption
<1>4. /\ Issuer.isk.x = IssuerX /\ Issuer.isk.y = IssuerY
      /\ Issuer.gpk.x = IssuerX /\ Issuer.gpk.y = IssuerY
  BY DEF Issuer, GenerateIssuerKeypair
<1> HIDE DEF pk, sk
<1>5. ValidCredential(RandomizeCredential(IssueCredential(pk, Issuer.isk, HwId(h)), l), sk, Issuer.gpk)
  BY <1>1, <1>2, <1>3, <1>4, IssuedIsValid
<1>6. QED
  BY <1>5 DEF CredentialOf, pk, sk

\* The registrar's answer.
LEMMA RegisterKeeps ==
    ASSUME CleanInv, NEW h \in Hosts, Register(h)
    PROVE  HostsOK'
<1> DEFINE x == host[h]
           given == IssueCredential(x.pk["ttc"], Issuer.isk, HwId(h))
           ready == [x EXCEPT !.pc = "ready", !.cred = given]
           refused == [x EXCEPT !.pc = "refused"]
           y == IF Accepted(h) THEN ready ELSE refused
<1>1. /\ HostOK(h, kind[h], x, card) /\ Shape(x) /\ x.pc = "register"
      /\ kind' = kind /\ card' = card /\ DOMAIN host = Hosts
  BY DEF CleanInv, HostsOK, HostOK, Register
<1>2. host' = [host EXCEPT ![h] = y]
  BY <1>1 DEF Register
<1>3. /\ x.pk["ttc"].q = KeyPoint(h, kind[h])
      /\ x.clean /\ kind[h] # "mobile" => Provable(h, x)
  BY <1>1 DEF HostOK
<1>4. Accepted(h) <=> Provable(h, x)
  BY DEF Accepted, Provable
<1>5. given = CredentialOf(h, kind[h])
  BY <1>3 DEF IssueCredential, CredentialOf, NoKey
<1> HIDE DEF given
<1>6. /\ DOMAIN ready = HostFields /\ ready.pc = "ready" /\ ready.cred = given
      /\ ready.key = x.key /\ ready.clean = x.clean /\ ready.session = x.session
      /\ ready.pk = x.pk /\ ready.qCard = x.qCard /\ ready.share = x.share
  BY <1>1 DEF Shape, HostFields
<1>7. /\ DOMAIN refused = HostFields /\ refused.pc = "refused"
      /\ refused.key = x.key /\ refused.clean = x.clean /\ refused.session = x.session
      /\ refused.pk = x.pk /\ refused.qCard = x.qCard /\ refused.share = x.share
  BY <1>1 DEF Shape, HostFields
<1> HIDE DEF ready, refused
<1>8. Shape(ready) /\ Shape(refused)
  BY <1>1, <1>6, <1>7 DEF Shape
<1>9. HostOK(h, kind[h], ready, card)
  BY <1>5, <1>6, <1>8 DEF HostOK
<1>10. ~ Accepted(h) => HostOK(h, kind[h], refused, card)
  BY <1>3, <1>4, <1>7, <1>8 DEF HostOK
<1>11. HostOK(h, kind[h], y, card)
  BY <1>9, <1>10
<1> HIDE DEF y
<1>12. QED
  BY <1>1, <1>2, <1>11, AloneKeeps DEF CleanInv

LEMMA NewHostIsOK == ASSUME NEW h, NEW k, NEW c PROVE HostOK(h, k, NewHost, c)
<1>1. /\ DOMAIN NewHost = HostFields /\ NewHost.pc = "join" /\ NewHost.key = "ttc"
      /\ NewHost.clean = TRUE /\ NewHost.session = NoSession
      /\ DOMAIN NewHost.share = Keys /\ DOMAIN NewHost.qCard = Keys /\ DOMAIN NewHost.pk = Keys
  BY DEF NewHost, HostFields
<1>2. DOMAIN NoSession = {"name", "cred", "challenge"} /\ NoSession.name \in Names \cup {NoName}
  BY DEF NoSession
<1>3. Shape(NewHost)
  BY <1>1, <1>2 DEF Shape, Keys
<1>4. QED
  BY <1>1, <1>3 DEF HostOK

LEMMA StartOverKeeps ==
    ASSUME CleanInv, NEW h \in Hosts, StartOver(h)
    PROVE  HostsOK'
<1>1. host' = [host EXCEPT ![h] = NewHost] /\ kind' = kind /\ card' = card
  BY DEF StartOver
<1>2. HostOK(h, kind[h], NewHost, card)
  BY NewHostIsOK
<1>3. QED
  BY <1>1, <1>2, AloneKeeps DEF CleanInv

\* The card c, asked for a signature of h, became d and answered r, on which h put the
\* challenge.
CommitAnswered(c, h, cred, name, swap, g, r, d, challenge) ==
    /\ r = CardSignCommit(c, cred.b, name, swap, g) /\ d = r.card
    /\ challenge = SplitChallenge(Message, cred, HostSk[h], name, r, HostRandom(h), RandomN)

\* The challenge of a signature: it is the one that the card's commitment calls for,
\* unless the applet garbled it.
LEMMA SplitChallengeIs ==
    ASSUME NEW c, NEW h \in Hosts, NEW k \in KindsOfHost, k # "software", NEW cred,
           ValidCredential(cred, SecretKey(h, k), Issuer.gpk), NEW name \in Names \cup {NoName},
           NEW swap, NEW g \in Garbled, NEW r, NEW d, d.r \in Int, d.kind = c.kind,
           NEW challenge, CommitAnswered(c, h, cred, name, swap, g, r, d, challenge)
    PROVE  /\ challenge.k = Pseudonym(name, SecretKey(h, k)) /\ challenge.c \in Int
           /\ d.kind = "mock" \/ name = NoName =>
                 challenge.c = SplitCommitment(cred, Message, name, SecretKey(h, k), d.r,
                                               HostRandom(h), RandomN)
<1> DEFINE p == HashToG1(name)
           base == IF name = NoName THEN 0 ELSE p
           read == IF c.kind = "applet" /\ name # NoName THEN g ELSE base
           sk == SecretKey(h, k)
           R == HostRandom(h)
           u == (r.u + cred.b * R) % Q
           ku == (r.ku + p * R) % Q
           kk == (r.k + p * HostSk[h]) % Q
           nym == IF name = NoName THEN NoNym ELSE <<ku, kk, p>>
<1>1. r.u = (cred.b * d.r) % Q /\ r.k = (base * CardSk) % Q /\ r.ku = (read * d.r) % Q
  BY DEF CardSignCommit, CommitAnswered
<1>2. /\ challenge.c = Challenge(u, cred, Message, nym, RandomN)
      /\ challenge.k = IF name = NoName THEN 0 ELSE kk
  BY DEF SplitChallenge, CommitAnswered
<1>3. /\ name \in Int /\ HostSk[h] \in Int /\ CardSk \in Int /\ R \in Int
      /\ sk = HostSk[h] + CardSk /\ cred.b \in Int /\ cred.d \in Int /\ sk \in Int
  <2>1. name \in Int
    BY SplitCardAssumption DEF NoName
  <2>2. /\ HostSk[h] \in Int /\ CardSk \in Int /\ R \in Int
        /\ sk = HostSk[h] + CardSk /\ sk \in Int
    BY Numbers
  <2>3. cred.b \in Int /\ cred.d \in Int
    BY CredentialScalars
  <2>4. QED
    BY <2>1, <2>2, <2>3
<1>4. p \in Int /\ base \in Int /\ read \in Int
  <2>1. p \in Int
    BY <1>3, HashIsPoint
  <2>2. g \in Int
    BY SplitCardAssumption, ScalarMod
  <2>3. QED
    BY <2>1, <2>2
<1>5. name # NoName => kk = Pseudonym(name, sk)
  <2> SUFFICES ASSUME name # NoName PROVE kk = Pseudonym(name, sk)
    OBVIOUS
  <2>1. r.k = (p * CardSk) % Q
    BY <1>1
  <2>2. p \in Int /\ HostSk[h] \in Int /\ CardSk \in Int
    BY <1>3, <1>4
  <2> HIDE DEF p
  <2>3. (((p * CardSk) % Q) + p * HostSk[h]) % Q = (p * (HostSk[h] + CardSk)) % Q
    BY <2>2, JoinedKey
  <2>4. QED
    BY <1>3, <2>1, <2>3 DEF Pseudonym, p
<1>6. challenge.k = Pseudonym(name, sk)
  BY <1>2, <1>5 DEF Pseudonym
<1>7. nym = NymOf(name, ku, Pseudonym(name, sk))
  BY <1>5 DEF NymOf
<1>8. challenge.c \in Int
  <2> HIDE DEF base, read, sk, R, p
  <2>1. cred.b * d.r \in Int /\ read * d.r \in Int
    BY <1>3, <1>4
  <2>2. r.u \in Int /\ r.ku \in Int
    BY <1>1, <2>1, CongMod
  <2>3. r.u + cred.b * R \in Int /\ r.ku + p * R \in Int
    BY <1>3, <1>4, <2>2
  <2>4. u \in Int /\ ku \in Int
    BY <2>3, CongMod
  <2>5. Message \in Int /\ RandomN \in Int
    BY DEF Message, RandomN
  <2>6. Pseudonym(name, sk) \in Int
    BY <1>3, PseudonymOf
  <2> HIDE DEF u, ku
  <2>7. Challenge(u, cred, Message, NymOf(name, ku, Pseudonym(name, sk)), RandomN) \in Int
    BY <1>3, <2>4, <2>5, <2>6, ChallengeIsScalar
  <2>8. QED
    BY <1>2, <1>7, <2>7
<1>9. ASSUME d.kind = "mock" \/ name = NoName
      PROVE  challenge.c = SplitCommitment(cred, Message, name, sk, d.r, R, RandomN)
  <2>1. u = (((cred.b * d.r) % Q) + cred.b * R) % Q
    BY <1>1
  <2>2. nym = NymOf(name, (((p * d.r) % Q) + p * R) % Q, Pseudonym(name, sk))
    <3>1. CASE name = NoName
      BY <3>1 DEF NymOf
    <3>2. CASE name # NoName
      <4>1. read = p
        BY <1>9, <3>2
      <4>2. ku = (((p * d.r) % Q) + p * R) % Q
        BY <1>1, <4>1
      <4>3. QED
        BY <1>7, <4>2
    <3>3. QED
      BY <3>1, <3>2
  <2> HIDE DEF u, nym, p, sk, R
  <2>3. QED
    BY <1>2, <2>1, <2>2 DEF SplitCommitment, SplitPoint, p
<1>10. QED
  BY <1>6, <1>8, <1>9

\* What sign_split_ext asks of the card.
LEMMA SignCommitKeeps ==
    ASSUME CleanInv, NEW h \in Hosts, NEW name \in Names \cup {NoName}, NEW swap \in BOOLEAN,
           NEW l \in Randomizers, NEW heard \in BOOLEAN, NEW g \in Garbled,
           SignCommit(h, name, swap, l, heard, g), card' \in Card, card'.kind = card.kind
    PROVE  HostsOK'
<1> DEFINE x == host[h]
           k == kind[h]
           cred == RandomizeCredential(x.cred, l)
           auth == IF swap THEN SwapAuthCreate(SwapKeys, HashToG1(name), 6) ELSE NoAuth
           sw == CommitCheck(card, name, swap, auth)
           reply == CommitReply(sw, heard)
           r == CardSignCommit(card, cred.b, name, swap, g)
           hit == [x EXCEPT !.pc = "hit", !.session.name = name]
           ok == [x EXCEPT !.pc = "answer", !.session = SignWithCard(h, name, cred, r), !.clean = TRUE]
           lost == [Failed(h, heard) EXCEPT !.pc = "ready"]
           new == IF reply = "BloomFilterHit" THEN hit ELSE IF reply = "ok" THEN ok ELSE lost
<1>1. /\ HostOK(h, k, x, card) /\ Shape(x) /\ k \in KindsOfHost /\ k # "software"
      /\ x.pc \in {"ready", "hit"} /\ kind' = kind
  BY DEF CleanInv, HostsOK, HostOK, SignCommit
<1>2. /\ card' = IF sw = "ok" THEN r.card ELSE card
      /\ host' = Disturb(h, new)
  BY DEF SignCommit
<1>3. x.cred = CredentialOf(h, k)
  BY <1>1 DEF HostOK
<1>4. ValidCredential(cred, SecretKey(h, k), Issuer.gpk)
  BY <1>1, <1>3, WalletCredential
<1> HIDE DEF sw, cred, k
<1>5. HostOK(h, k, hit, card')
  <2>1. /\ DOMAIN hit = HostFields /\ hit.pc = "hit" /\ hit.key = x.key /\ hit.clean = x.clean
        /\ hit.share = x.share /\ hit.qCard = x.qCard /\ hit.pk = x.pk /\ hit.cred = x.cred
        /\ hit.session = [x.session EXCEPT !.name = name]
    BY <1>1 DEF Shape, HostFields
  <2> HIDE DEF hit
  <2>2. DOMAIN hit.session = {"name", "cred", "challenge"} /\ hit.session.name = name
    BY <1>1, <2>1 DEF Shape
  <2>3. Shape(hit)
    BY <1>1, <2>1, <2>2 DEF Shape
  <2>4. QED
    BY <1>3, <2>1, <2>3 DEF HostOK
<1>6. HostOK(h, k, lost, card')
  <2> DEFINE f == Failed(h, heard)
  <2>1. /\ DOMAIN f = HostFields /\ f.cred = x.cred
    BY <1>1 DEF Shape, HostFields, Failed
  <2>2. Shape(f)
    BY <1>1, FailedIsOK DEF HostOK
  <2> HIDE DEF f
  <2>3. /\ DOMAIN lost = HostFields /\ lost.pc = "ready" /\ lost.key = f.key /\ lost.clean = f.clean
        /\ lost.share = f.share /\ lost.qCard = f.qCard /\ lost.pk = f.pk /\ lost.cred = x.cred
        /\ lost.session = f.session
    BY <2>1 DEF HostFields, f
  <2> HIDE DEF lost
  <2>4. Shape(lost)
    BY <2>2, <2>3 DEF Shape
  <2>5. QED
    BY <1>3, <2>3, <2>4 DEF HostOK
<1>7. ASSUME sw = "ok" PROVE HostOK(h, k, ok, card')
  <2> DEFINE s == SignWithCard(h, name, cred, r)
             challenge == SplitChallenge(Message, cred, HostSk[h], name, r, HostRandom(h), RandomN)
  <2>1. card' = r.card /\ card'.r \in Int
    BY <1>2, <1>7 DEF Card
  <2>2. /\ challenge.k = Pseudonym(name, SecretKey(h, k)) /\ challenge.c \in Int
        /\ card'.kind = "mock" \/ name = NoName =>
              challenge.c = SplitCommitment(cred, Message, name, SecretKey(h, k), card'.r,
                                            HostRandom(h), RandomN)
    <3>1. CommitAnswered(card, h, cred, name, swap, g, r, card', challenge)
      BY <2>1 DEF CommitAnswered
    <3> HIDE DEF r, challenge
    <3>2. QED
      BY <1>1, <1>4, <2>1, <3>1, SplitChallengeIs
  <2> HIDE DEF r, challenge
  <2>3. /\ DOMAIN s = {"name", "cred", "challenge"} /\ s.name = name /\ s.cred = cred
        /\ s.challenge = challenge
    BY DEF SignWithCard, challenge
  <2> HIDE DEF s
  <2>4. /\ DOMAIN ok = HostFields /\ ok.pc = "answer" /\ ok.key = x.key /\ ok.clean = TRUE
        /\ ok.share = x.share /\ ok.qCard = x.qCard /\ ok.pk = x.pk /\ ok.cred = x.cred
        /\ ok.session = s
    BY <1>1 DEF Shape, HostFields, s
  <2> HIDE DEF ok
  <2>5. Shape(ok)
    BY <1>1, <2>3, <2>4 DEF Shape
  <2>6. Signing(h, k, ok, card')
    BY <1>4, <2>2, <2>3, <2>4 DEF Signing
  <2>7. QED
    BY <1>1, <1>3, <2>4, <2>5, <2>6 DEF HostOK
<1>8. reply = "ok" => sw = "ok"
  BY DEF CommitReply
<1> HIDE DEF hit, ok, lost, reply
<1>9. HostOK(h, k, new, card')
  BY <1>5, <1>6, <1>7, <1>8
<1> HIDE DEF new
<1>10. QED
  BY <1>1, <1>2, <1>9, CommandKeeps DEF CleanInv, k

\* A command that was torn left the host as it was.
LEMMA TornCommitKeeps ==
    ASSUME CleanInv, NEW h \in Hosts, NEW name, TornCommit(h, name)
    PROVE  HostsOK'
<1>1. /\ host[h].pc = "ready" /\ host' = Disturb(h, host[h]) /\ kind' = kind
      /\ HostOK(h, kind[h], host[h], card)
  BY DEF CleanInv, HostsOK, TornCommit
<1>2. HostOK(h, kind[h], host[h], card')
  BY <1>1, Unconcerned DEF SessionStates
<1>3. QED
  BY <1>1, <1>2, CommandKeeps DEF CleanInv

\* The signature is verified as a part of its own, which deflating and inflating keep.
LEMMA InflateDeflate ==
    ASSUME NEW sig, DOMAIN sig = {"c", "s", "cred", "n", "k"}, NEW w,
           w = InflateSignature(CredentialFromSignature(sig), DeflateSignature(sig))
    PROVE  w.c = sig.c /\ w.s = sig.s /\ w.cred = sig.cred /\ w.n = sig.n /\ w.k = sig.k
<1> DEFINE small == DeflateSignature(sig)
<1>1. /\ DOMAIN small = {"c", "s", "cred", "n", "k"}
      /\ small.c = sig.c /\ small.s = sig.s /\ small.n = sig.n /\ small.k = sig.k
  BY DEF DeflateSignature
<1> HIDE DEF small
<1>2. w = [small EXCEPT !.cred = sig.cred]
  BY DEF InflateSignature, CredentialFromSignature, small
<1>3. QED
  BY <1>1, <1>2

\* The card answers the challenge of a signature.
LEMMA SignRespondKeeps ==
    ASSUME CleanInv, NEW h \in Hosts, NEW heard \in BOOLEAN, SignRespond(h, heard),
           card'.kind = card.kind
    PROVE  HostsOK' /\ CleanSignaturesVerify' /\ PseudonymIsTheWallets'
<1> DEFINE x == host[h]
           k == kind[h]
           sk == SecretKey(h, k)
           s == x.session
           sig == SplitSignature(s.cred, HostSk[h], s.challenge, CardRespond(card, s.challenge.c),
                                 HostRandom(h), RandomN)
           y == [x EXCEPT !.pc = "ready", !.session = NoSession]
<1>1. /\ HostOK(h, k, x, card) /\ Shape(x) /\ k \in KindsOfHost /\ x.pc = "answer"
      /\ kind' = kind /\ host' = Disturb(h, y) /\ card.r \in Int
      /\ signed' = IF CanRespond(card, "sign") /\ heard
                   THEN [by |-> h, sig |-> sig, name |-> s.name, clean |-> x.clean] ELSE signed
  BY DEF CleanInv, HostsOK, HostOK, SignRespond, CardInv, Card
<1>2. k # "software" /\ x.cred = CredentialOf(h, k) /\ Signing(h, k, x, card)
  BY <1>1 DEF HostOK
<1>3. HostsOK'
  <2>1. /\ DOMAIN y = HostFields /\ y.pc = "ready" /\ y.key = x.key /\ y.clean = x.clean
        /\ y.share = x.share /\ y.qCard = x.qCard /\ y.pk = x.pk /\ y.cred = x.cred
        /\ y.session = NoSession
    BY <1>1 DEF Shape, HostFields
  <2> HIDE DEF y
  <2>2. DOMAIN y.session = {"name", "cred", "challenge"} /\ y.session.name \in Names \cup {NoName}
    BY <2>1 DEF NoSession
  <2>3. Shape(y)
    BY <1>1, <2>1, <2>2 DEF Shape
  <2>4. HostOK(h, k, y, card')
    BY <1>2, <2>1, <2>3 DEF HostOK
  <2>5. QED
    BY <1>1, <2>4, CommandKeeps DEF CleanInv
<1>4. CASE signed' = signed
  <2>1. CleanSignaturesVerify'
    BY <1>1, <1>4 DEF CleanInv, CleanSignaturesVerify
  <2>2. PseudonymIsTheWallets'
    BY <1>1, <1>4 DEF CleanInv, PseudonymIsTheWallets
  <2>3. QED
    BY <1>3, <2>1, <2>2
<1>5. CASE signed' = [by |-> h, sig |-> sig, name |-> s.name, clean |-> x.clean]
  <2> DEFINE c == s.challenge.c
             cred == s.cred
  <2>1. /\ ValidCredential(cred, sk, Issuer.gpk) /\ c \in Int
        /\ s.challenge.k = Pseudonym(s.name, sk)
        /\ x.clean /\ (card.kind = "mock" \/ s.name = NoName) =>
              c = SplitCommitment(cred, Message, s.name, sk, card.r, HostRandom(h), RandomN)
    BY <1>2 DEF Signing
  <2>2. /\ HostSk[h] \in Int /\ CardSk \in Int /\ HostRandom(h) \in Int /\ sk = HostSk[h] + CardSk
    BY <1>1, <1>2, Numbers
  <2>3. s.name \in Int
    BY <1>1, SplitCardAssumption DEF Shape, NoName
  <2>4. /\ DOMAIN sig = {"c", "s", "cred", "n", "k"} /\ sig.c = c /\ sig.cred = cred
        /\ sig.n = RandomN /\ sig.k = s.challenge.k
        /\ sig.s = SplitAnswer(card.r, CardSk, HostRandom(h), HostSk[h], c)
    BY DEF SplitSignature, CardRespond, SplitAnswer
  <2> HIDE DEF sig, s, sk, k, c, cred
  <2>5. /\ signed'.by = h /\ signed'.sig = sig /\ signed'.name = s.name /\ signed'.clean = x.clean
    BY <1>5
  <2>6. ASSUME x.clean, card.kind = "mock" \/ s.name = NoName,
               NEW w, w = InflateSignature(CredentialFromSignature(sig), DeflateSignature(sig))
        PROVE  Verify(Issuer.gpk, s.name, cred, w, Message) /\ CredentialInGroup(cred, Issuer.gpk)
    <3>1. w.c = c /\ w.cred = cred /\ w.n = RandomN /\ w.k = Pseudonym(s.name, sk)
          /\ w.s = SplitAnswer(card.r, CardSk, HostRandom(h), HostSk[h], c)
      BY <2>1, <2>4, <2>6, InflateDeflate
    <3>2. SchnorrHolds(w, s.name, Message)
      BY <1>1, <2>1, <2>2, <2>6, <2>3, <3>1, SplitSchnorr
    <3>3. QED
      BY <2>1, <3>1, <3>2, SchnorrSuffices
  <2>7. CleanSignaturesVerify'
    <3>1. CredentialFromSignature(sig) = cred
      BY <2>4 DEF CredentialFromSignature
    <3>2. kind'[h] # "software"
      BY <1>1, <1>2 DEF k
    <3>3. QED
      BY <2>5, <2>6, <3>1, <3>2 DEF CleanSignaturesVerify
  <2>8. PseudonymIsTheWallets'
    BY <1>1, <2>1, <2>4, <2>5 DEF PseudonymIsTheWallets, Pseudonym, sk, k
  <2>9. QED
    BY <1>3, <2>7, <2>8
<1>6. QED
  BY <1>1, <1>4, <1>5

\* sign: a wallet without a card.
LEMMA SignAloneKeeps ==
    ASSUME CleanInv, NEW h \in Hosts, NEW name \in Names \cup {NoName}, NEW l \in Randomizers,
           SignAlone(h, name, l)
    PROVE  HostsOK' /\ CleanSignaturesVerify' /\ PseudonymIsTheWallets'
<1> DEFINE x == host[h]
           sk == SecretKey(h, "software")
           cred == RandomizeCredential(x.cred, l)
           sig == Sign(Message, x.cred, HostSk[h], name, l, HostRandom(h), RandomN)
<1>1. /\ HostOK(h, "software", x, card) /\ x.pc = "ready" /\ kind[h] = "software"
      /\ kind' = kind /\ host' = host /\ card' = card
      /\ signed' = [by |-> h, name |-> name, clean |-> TRUE, sig |-> sig]
  BY DEF CleanInv, HostsOK, SignAlone
<1>2. HostsOK'
  BY <1>1 DEF CleanInv, HostsOK
<1>3. "software" \in KindsOfHost /\ Message \in Int /\ RandomN \in Int
  BY DEF KindsOfHost, Message, RandomN
<1>4. HostSk[h] \in Int /\ HostRandom(h) \in Int /\ sk = HostSk[h] /\ name \in Int
  <2>1. HostSk[h] \in Int /\ HostRandom(h) \in Int /\ sk = HostSk[h]
    BY <1>3, Numbers
  <2>2. name \in Int
    BY SplitCardAssumption DEF NoName
  <2>3. QED
    BY <2>1, <2>2
<1>5. x.cred = CredentialOf(h, "software")
  BY <1>1 DEF HostOK
<1>6. ValidCredential(cred, sk, Issuer.gpk)
  BY <1>3, <1>5, WalletCredential
<1>7. DOMAIN sig = {"c", "s", "cred", "n", "k"}
  BY DEF Sign
<1> DEFINE w == InflateSignature(CredentialFromSignature(sig), DeflateSignature(sig))
<1>8. w.c = sig.c /\ w.s = sig.s /\ w.cred = sig.cred /\ w.n = sig.n /\ w.k = sig.k
  <2> HIDE DEF sig
  <2>1. QED
    BY <1>7, InflateDeflate
<1>9. SchnorrHolds(w, name, Message) /\ sig.cred = cred /\ sig.k = Pseudonym(name, HostSk[h])
  <2>1. sig = Sign(Message, x.cred, HostSk[h], name, l, HostRandom(h), RandomN)
    OBVIOUS
  <2>2. cred = RandomizeCredential(x.cred, l) /\ ValidCredential(cred, HostSk[h], Issuer.gpk)
    BY <1>4, <1>6
  <2> HIDE DEF sig, w, cred
  <2>3. SignedWhole(w, sig, Message, x.cred, cred, HostSk[h], name, l, HostRandom(h), RandomN, Issuer.gpk)
    BY <1>3, <1>4, <1>8, <2>1, <2>2 DEF SignedWhole
  <2>4. QED
    BY <2>3, WholeSchnorr
<1> HIDE DEF sig, cred, sk
<1>10. Verify(Issuer.gpk, name, cred, w, Message) /\ CredentialInGroup(cred, Issuer.gpk)
  <2> HIDE DEF w
  <2>1. QED
    BY <1>6, <1>8, <1>9, SchnorrSuffices
<1>11. signed'.by = h /\ signed'.sig = sig /\ signed'.name = name
  BY <1>1
<1>12. CleanSignaturesVerify'
  BY <1>9, <1>10, <1>11 DEF CleanSignaturesVerify, CredentialFromSignature
<1>13. PseudonymIsTheWallets'
  BY <1>1, <1>4, <1>9, <1>11 DEF PseudonymIsTheWallets, Pseudonym, sk
<1>14. QED
  BY <1>2, <1>12, <1>13

\* A card stays a MockCard, or the applet.
LEMMA CardKindStays == ASSUME CardInv, [CardNext]_cardVars PROVE card'.kind = card.kind
<1>1. card \in Card
  BY DEF CardInv
<1>2. ASSUME NEW h \in Hosts, NEW heard \in BOOLEAN,
             \/ JoinCommit(h, heard) \/ PhoneTtcCommit(h, heard) \/ PhoneNacCommit(h, heard)
      PROVE  card'.kind = card.kind
  <2>1. card.serial < MaxCommits /\ card' = FreshNonce(card, "join")
    BY <1>2 DEF JoinCommit, PhoneTtcCommit, PhoneNacCommit, CardJoinCommit
  <2>2. QED
    BY <1>1, <2>1, FreshNonceIsNext
<1>3. ASSUME NEW t \in {"sign", "join"}, Respond(t)
      PROVE  card'.kind = card.kind
  BY <1>1, <1>3, SessionEnds DEF Respond
<1>4. ASSUME NEW h \in Hosts, NEW heard \in BOOLEAN,
             \/ JoinRespond(h, heard) \/ PhoneTtcRespond(h, heard) \/ PhoneComplete(h, heard)
             \/ SignRespond(h, heard)
      PROVE  card'.kind = card.kind
  BY <1>3, <1>4 DEF JoinRespond, PhoneTtcRespond, PhoneComplete, SignRespond
<1>5. ASSUME NEW h \in Hosts, NEW name, NEW swap, NEW l, NEW heard, NEW g,
             SignCommit(h, name, swap, l, heard, g)
      PROVE  card'.kind = card.kind
  <2> DEFINE noted == BitsSet(card, name, swap)
             fresh == FreshNonce(card, "sign")
             after == [fresh EXCEPT !.seen = @ \cup noted]
  <2>1. card.serial < MaxCommits
    BY <1>5 DEF SignCommit
  <2>2. card' = card \/ card' = after
    BY <1>5 DEF SignCommit, CardSignCommit
  <2>3. fresh \in Card /\ fresh.kind = card.kind
    BY <1>1, <2>1, FreshNonceIsNext
  <2> HIDE DEF fresh, noted
  <2>4. after.kind = card.kind
    BY <2>3 DEF Card
  <2>5. QED
    BY <2>2, <2>4
<1>6. ASSUME NEW h \in Hosts, NEW name, TornCommit(h, name)
      PROVE  card'.kind = card.kind
  <2>1. PICK bits : card' = PowerLoss([card EXCEPT !.seen = @ \cup bits])
    BY <1>6 DEF TornCommit
  <2>2. QED
    BY <1>1, <2>1 DEF PowerLoss, Card
<1>7. ASSUME NEW epoch, NEW authorized,
             NewEpoch(epoch, authorized) \/ TornReset(epoch, authorized)
      PROVE  card'.kind = card.kind
  BY <1>1, <1>7 DEF NewEpoch, TornReset, PowerLoss, ResetBloom, Card
<1>8. CASE LosePower
  BY <1>1, <1>8 DEF LosePower, PowerLoss, Card
<1>9. CASE UNCHANGED card
  BY <1>9
<1>10. ASSUME NEW h, InitializeKeys(h) \/ Register(h) \/ StartOver(h)
       PROVE  card'.kind = card.kind
  BY <1>10 DEF InitializeKeys, Register, StartOver
<1>11. ASSUME NEW h, NEW name, NEW l, SignAlone(h, name, l)
       PROVE  card'.kind = card.kind
  BY <1>11 DEF SignAlone
<1>12. CASE Rest \/ UNCHANGED cardVars
  BY <1>9, <1>12 DEF Rest, cardVars
<1>13. QED
  BY <1>2, <1>4, <1>5, <1>6, <1>7, <1>8, <1>10, <1>11, <1>12 DEF CardNext

\* All hosts without a command of theirs: the power is lost, in a reset or not.
LEMMA PowerKeeps ==
    ASSUME CleanInv, kind' = kind, host' = AllDisturbed
    PROVE  HostsOK'
<1>1. /\ kind' = kind
      /\ host' = [h \in Hosts |-> IF InSession(h) THEN [host[h] EXCEPT !.clean = FALSE] ELSE host[h]]
  BY DEF AllDisturbed
<1>2. DOMAIN host' = Hosts /\ kind' \in [Hosts -> KindsOfHost]
  BY <1>1 DEF CleanInv, HostsOK
<1>3. ASSUME NEW g \in Hosts
      PROVE  HostOK(g, kind[g], host'[g], card')
  <2>1. HostOK(g, kind[g], host[g], card)
    BY DEF CleanInv, HostsOK
  <2>2. CASE InSession(g)
    <3>1. host'[g] = [host[g] EXCEPT !.clean = FALSE] /\ host[g].pc \in SessionStates
      BY <1>1, <2>2 DEF InSession, SessionStates
    <3>2. QED
      BY <2>1, <3>1, Disturbed
  <2>3. CASE ~ InSession(g)
    <3>1. host'[g] = host[g] /\ host[g].pc \notin SessionStates
      BY <1>1, <2>3 DEF InSession, SessionStates
    <3>2. QED
      BY <2>1, <3>1, Unconcerned
  <2>4. QED
    BY <2>2, <2>3
<1>4. QED
  BY <1>1, <1>2, <1>3 DEF HostsOK

\* A new epoch leaves the nonce of the session as it is.
LEMMA EpochKeepsHosts ==
    ASSUME CleanInv, NEW epoch, NEW authorized, NewEpoch(epoch, authorized)
    PROVE  HostsOK'
<1>1. card \in Card /\ kind' = kind /\ host' = host
  BY DEF CleanInv, CardInv, NewEpoch
<1>2. card'.r = card.r /\ card'.kind = card.kind
  BY <1>1 DEF NewEpoch, ResetBloom, Card
<1>3. ASSUME NEW g \in Hosts
      PROVE  HostOK(g, kind[g], host[g], card')
  <2>1. HostOK(g, kind[g], host[g], card)
    BY DEF CleanInv, HostsOK
  <2>2. Joining(g, host[g], card) => Joining(g, host[g], card')
    BY <1>2 DEF Joining
  <2>3. Signing(g, kind[g], host[g], card) => Signing(g, kind[g], host[g], card')
    BY <1>2 DEF Signing
  <2>4. QED
    BY <2>1, <2>2, <2>3 DEF HostOK
<1>4. QED
  BY <1>1, <1>3 DEF CleanInv, HostsOK

\* A wallet that was set up before.
LEMMA ReadyHostIsOK ==
    ASSUME NEW h \in Hosts, NEW k, NEW c PROVE HostOK(h, k, ReadyHost(h, k), c)
<1> DEFINE y == ReadyHost(h, k)
<1>1. y = [NewHost EXCEPT !.pc = "ready", !.cred = CredentialOf(h, k)]
  BY DEF ReadyHost, CredentialOf, KeyPoint
<1> HIDE DEF y
<1>2. Shape(NewHost)
  BY NewHostIsOK DEF HostOK
<1>3. /\ DOMAIN y = HostFields /\ y.pc = "ready" /\ y.cred = CredentialOf(h, k)
      /\ y.key = NewHost.key /\ y.clean = NewHost.clean /\ y.share = NewHost.share
      /\ y.qCard = NewHost.qCard /\ y.pk = NewHost.pk /\ y.session = NewHost.session
  BY <1>1, <1>2 DEF Shape, HostFields
<1>4. Shape(y)
  BY <1>2, <1>3 DEF Shape
<1>5. HostOK(h, k, y, c)
  BY <1>3, <1>4 DEF HostOK
<1>6. QED
  BY <1>5 DEF y

LEMMA InitCleanInv == CardInit => CleanInv
<1> SUFFICES ASSUME CardInit PROVE CleanInv
  OBVIOUS
<1>1. PICK start \in Starts :
         /\ kind = [h \in Hosts |-> start[h].kind]
         /\ host = [h \in Hosts |-> IF start[h].ready THEN ReadyHost(h, start[h].kind) ELSE NewHost]
  BY DEF CardInit
<1>2. start \in [Hosts -> [kind : KindsOfHost, ready : BOOLEAN]]
  BY <1>1, SplitCardAssumption DEF KindsOfHost
<1>3. kind \in [Hosts -> KindsOfHost] /\ DOMAIN host = Hosts
  BY <1>1, <1>2
<1>4. ASSUME NEW h \in Hosts PROVE HostOK(h, kind[h], host[h], card)
  <2>1. kind[h] = start[h].kind
    BY <1>1
  <2>2. host[h] = ReadyHost(h, kind[h]) \/ host[h] = NewHost
    BY <1>1, <2>1
  <2>3. QED
    BY <2>2, ReadyHostIsOK, NewHostIsOK
<1>5. HostsOK
  BY <1>3, <1>4 DEF HostsOK
<1>6. signed.clean = FALSE
  BY DEF CardInit
<1>7. CleanSignaturesVerify /\ PseudonymIsTheWallets
  BY <1>6 DEF CleanSignaturesVerify, PseudonymIsTheWallets
<1>8. QED
  BY <1>5, <1>7, InitCardInv DEF CleanInv

LEMMA NextCleanInv == CleanInv /\ [CardNext]_cardVars => CleanInv'
<1> SUFFICES ASSUME CleanInv, [CardNext]_cardVars PROVE CleanInv'
  OBVIOUS
<1>1. CardInv /\ CardInv' /\ card'.kind = card.kind /\ card' \in Card /\ card'.r \in Int
  <2>1. CardInv /\ CardInv'
    BY NextCardInv DEF CleanInv
  <2>2. card' \in Card
    BY <2>1 DEF CardInv
  <2>3. card'.r \in Int
    BY <2>2 DEF Card
  <2>4. card'.kind = card.kind
    BY <2>1, CardKindStays
  <2>5. QED
    BY <2>1, <2>2, <2>3, <2>4
<1> DEFINE Good == HostsOK' /\ CleanSignaturesVerify' /\ PseudonymIsTheWallets'
<1>2. ASSUME HostsOK', signed' = signed, kind' = kind
      PROVE  Good
  <2>1. CleanSignaturesVerify'
    BY <1>1, <1>2 DEF CleanInv, CleanSignaturesVerify
  <2>2. PseudonymIsTheWallets'
    BY <1>2 DEF CleanInv, PseudonymIsTheWallets
  <2>3. QED
    BY <1>2, <2>1, <2>2
<1> HIDE DEF Good
<1>3. ASSUME NEW h \in Hosts, NEW heard \in BOOLEAN, JoinCommit(h, heard) \/ JoinRespond(h, heard)
      PROVE  Good
  <2>1. HostsOK'
    BY <1>1, <1>3, JoinCommitKeeps, JoinRespondKeeps
  <2>2. QED
    BY <1>2, <1>3, <2>1 DEF JoinCommit, JoinRespond
<1>4. ASSUME NEW h \in Hosts, NEW heard \in BOOLEAN,
             PhoneTtcCommit(h, heard) \/ PhoneNacCommit(h, heard)
      PROVE  Good
  <2>1. HostsOK'
    BY <1>4, PhoneCommitKeeps
  <2>2. QED
    BY <1>2, <1>4, <2>1 DEF PhoneTtcCommit, PhoneNacCommit
<1>5. ASSUME NEW h \in Hosts, NEW heard \in BOOLEAN,
             PhoneTtcRespond(h, heard) \/ PhoneComplete(h, heard)
      PROVE  Good
  <2>1. HostsOK'
    BY <1>5, PhoneRespondKeeps
  <2>2. QED
    BY <1>2, <1>5, <2>1 DEF PhoneTtcRespond, PhoneComplete
<1>6. ASSUME NEW h \in Hosts, NEW heard \in BOOLEAN, SignRespond(h, heard)
      PROVE  Good
  BY <1>1, <1>6, SignRespondKeeps DEF Good
<1>7. ASSUME NEW h \in Hosts, InitializeKeys(h) \/ Register(h) \/ StartOver(h)
      PROVE  Good
  <2>1. HostsOK'
    BY <1>7, InitializeKeysKeeps, RegisterKeeps, StartOverKeeps
  <2>2. QED
    BY <1>2, <1>7, <2>1 DEF InitializeKeys, Register, StartOver
<1>8. ASSUME NEW h \in Hosts, NEW name \in Names \cup {NoName}, NEW l \in Randomizers,
             SignAlone(h, name, l)
      PROVE  Good
  BY <1>8, SignAloneKeeps DEF Good
<1>9. ASSUME NEW h \in Hosts, NEW name \in Names \cup {NoName}, NEW l \in Randomizers,
             NEW swap \in BOOLEAN, NEW heard \in BOOLEAN, NEW g \in Garbled,
             SignCommit(h, name, swap, l, heard, g)
      PROVE  Good
  <2>1. HostsOK'
    BY <1>1, <1>9, SignCommitKeeps
  <2>2. signed' = signed /\ kind' = kind
    BY <1>9 DEF SignCommit
  <2>3. QED
    BY <1>2, <2>1, <2>2
<1>10. ASSUME NEW h \in Hosts, NEW name \in Names, TornCommit(h, name)
       PROVE  Good
  <2>1. HostsOK'
    BY <1>10, TornCommitKeeps
  <2>2. QED
    BY <1>2, <1>10, <2>1 DEF TornCommit
<1>11. ASSUME NEW epoch, NEW authorized, NewEpoch(epoch, authorized)
       PROVE  Good
  <2>1. HostsOK'
    BY <1>11, EpochKeepsHosts
  <2>2. QED
    BY <1>2, <1>11, <2>1 DEF NewEpoch
<1>12. ASSUME NEW epoch, NEW authorized, LosePower \/ TornReset(epoch, authorized)
       PROVE  Good
  <2>1. signed' = signed /\ kind' = kind /\ host' = AllDisturbed
    BY <1>12 DEF LosePower, TornReset
  <2>2. HostsOK'
    BY <2>1, PowerKeeps
  <2>3. QED
    BY <1>2, <2>1, <2>2
<1>13. ASSUME UNCHANGED cardVars
       PROVE  Good
  <2>1. HostsOK'
    BY <1>13 DEF CleanInv, HostsOK, cardVars
  <2>2. QED
    BY <1>2, <1>13, <2>1 DEF cardVars
<1>14. Good
  BY <1>3, <1>4, <1>5, <1>6, <1>7, <1>8, <1>9, <1>10, <1>11, <1>12, <1>13
     DEF CardNext, Rest, CleanInv, Good
<1>15. QED
  BY <1>1, <1>14 DEF CleanInv, Good

\* For every order of the groups that is prime, every choice of secret keys, nonces and
\* randomizers, and however the hosts' commands interleave, get lost or are cut off: what
\* was signed or set up without another command in between is accepted.  The signature
\* verifies under its randomized credential, its pseudonym is the whole key's under the
\* basename, and the registrar takes the keys.
THEOREM WhatIsUndisturbedIsAccepted == CardSpec => []UndisturbedIsAccepted
<1>1. CardInit => CleanInv
  BY InitCleanInv
<1>2. CleanInv /\ [CardNext]_cardVars => CleanInv'
  BY NextCleanInv
<1>3. CleanInv => UndisturbedIsAccepted
  <2> SUFFICES ASSUME CleanInv PROVE UndisturbedIsAccepted
    OBVIOUS
  <2>1. CleanKeysAccepted
    <3> SUFFICES ASSUME NEW h \in Hosts, host[h].pc = "refused", kind[h] # "mobile"
                 PROVE  ~ host[h].clean
      BY DEF CleanKeysAccepted
    <3>1. HostOK(h, kind[h], host[h], card)
      BY DEF CleanInv, HostsOK
    <3>2. QED
      BY <3>1 DEF HostOK
  <2>2. QED
    BY <2>1 DEF CleanInv, UndisturbedIsAccepted
<1>4. QED
  BY <1>1, <1>2, <1>3, PTL DEF CardSpec
-----------------------------------------------------------------------------
(***************************************************************************)
(* The sticks.                                                             *)
(***************************************************************************)
\* The fields of a stick; amounts and balances may be anything a command says.
Fields == {"phase", "amount", "chosen", "authorized", "buffer", "failed", "hasPin", "balance",
           "received", "epoch", "bloom", "selected"}

\* Two sticks in the same payment.
SamePayment(a, b) ==
    /\ a.phase = b.phase /\ a.amount = b.amount /\ a.chosen = b.chosen
    /\ a.authorized = b.authorized /\ a.buffer = b.buffer
SamePin(a, b) == a.failed = b.failed /\ a.hasPin = b.hasPin

Open(st) == st.phase \in {"proposed", "sent"}

\* A command that opens no proposal and closes none.
NothingAsked(c, r) == ~ (c.ins \in {"INITIATE", "TRANSFER"} /\ r.sw = "success")

\* What a command may do to a stick st that becomes t.
Ignored(st, c, r, t) == NothingAsked(c, r) /\ SamePayment(t, st)
Proposed(st, c, r, t) ==
    /\ c.ins = "INITIATE" /\ r.sw = "success" /\ st.phase = "idle"
    /\ t.phase = "proposed" /\ t.amount = c.amount /\ t.chosen
    /\ t.authorized = st.authorized /\ t.buffer = st.buffer
Sent(st, c, r, t) ==
    /\ NothingAsked(c, r) /\ st.phase = "proposed" /\ t.phase = "sent"
    /\ t.amount = st.amount /\ t.chosen = st.chosen
    /\ t.authorized = st.authorized /\ t.buffer = st.buffer
Settled(st, c, r, t) ==
    /\ c.ins = "TRANSFER" /\ r.sw = "success" /\ Open(st)
    /\ ~ PinRequired(st) /\ AttemptsRemaining(st) # 0
    /\ t.phase \in {"signed", "rejected"}
    /\ ~ t.authorized /\ ~ t.chosen /\ t.buffer = st.buffer
Spoiled(st, c, r, t) ==
    /\ NothingAsked(c, r) /\ Open(st) /\ ~ st.chosen

Effect(st, c, r, t) ==
    /\ SamePin(t, st) /\ DOMAIN t = Fields
    /\ \/ Ignored(st, c, r, t) \/ Proposed(st, c, r, t) \/ Sent(st, c, r, t)
       \/ Settled(st, c, r, t) \/ Spoiled(st, c, r, t)

Instructions == {"INITIATE", "TRANSFER", "RECEIVE", "TRANSACT", "GOSSIP", "SWEEP", "READ_TICKET",
                 "GET_BALANCE"}

LEMMA ReplyFields ==
    ASSUME NEW st, NEW sw
    PROVE  /\ Reply(st, sw).stick = st /\ Reply(st, sw).sw = sw
           /\ DOMAIN Reply(st, sw) = {"stick", "sw", "data"}
BY DEF Reply

LEMMA InitiateEffect ==
    ASSUME NEW st, DOMAIN st = Fields, NEW c, c.ins = "INITIATE"
    PROVE  LET r == HandleInitiate(st, c.amount) IN Effect(st, c, r, r.stick)
<1>1. CASE st.phase # "idle"
  BY <1>1 DEF HandleInitiate, Reply, Effect, SamePin, Ignored, NothingAsked, SamePayment, Fields
<1>2. CASE st.phase = "idle"
  <2> DEFINE t == [st EXCEPT !.phase = "proposed", !.amount = c.amount, !.chosen = TRUE]
             r == HandleInitiate(st, c.amount)
  <2>1. r.stick = t /\ r.sw = "success"
    BY <1>2 DEF HandleInitiate, Reply
  <2>2. /\ DOMAIN t = Fields /\ SamePin(t, st) /\ t.phase = "proposed" /\ t.amount = c.amount
        /\ t.chosen /\ t.authorized = st.authorized /\ t.buffer = st.buffer
    BY DEF Fields, SamePin
  <2>3. QED
    BY <1>2, <2>1, <2>2 DEF Effect, Proposed
<1>3. QED
  BY <1>1, <1>2

LEMMA TransferEffect ==
    ASSUME NEW st, DOMAIN st = Fields, NEW c, c.ins = "TRANSFER"
    PROVE  LET r == HandleTransfer(st, c.lc, c.accept) IN Effect(st, c, r, r.stick)
<1> DEFINE r == HandleTransfer(st, c.lc, c.accept)
           no == [st EXCEPT !.phase = "rejected", !.chosen = FALSE, !.authorized = FALSE]
           spoiled == [st EXCEPT !.phase = "rejected"]
           yes == [st EXCEPT !.phase = "signed", !.balance = Deduct(@, st.amount),
                             !.chosen = FALSE, !.authorized = FALSE]
<1>1. CASE ~ Open(st) \/ PinRequired(st) \/ AttemptsRemaining(st) = 0 \/ c.lc = 0
  <2>1. r.stick = st /\ r.sw \in {"conditions", "pin", "locked", "wrong data"}
    BY <1>1 DEF HandleTransfer, Reply, Open
  <2>2. QED
    BY <2>1 DEF Effect, SamePin, Ignored, NothingAsked, SamePayment
<1>2. CASE ~ (~ Open(st) \/ PinRequired(st) \/ AttemptsRemaining(st) = 0 \/ c.lc = 0)
  <2>1. \/ r.stick = no /\ r.sw = "success"
        \/ r.stick = spoiled /\ r.sw = "conditions" /\ ~ st.chosen
        \/ r.stick = yes /\ r.sw = "success"
    BY <1>2 DEF HandleTransfer, Reply, Open
  <2>2. /\ DOMAIN no = Fields /\ SamePin(no, st) /\ no.phase = "rejected"
        /\ no.chosen = FALSE /\ no.authorized = FALSE /\ no.buffer = st.buffer
    BY DEF Fields, SamePin
  <2>3. DOMAIN spoiled = Fields /\ SamePin(spoiled, st)
    BY DEF Fields, SamePin
  <2>4. /\ DOMAIN yes = Fields /\ SamePin(yes, st) /\ yes.phase = "signed"
        /\ yes.chosen = FALSE /\ yes.authorized = FALSE /\ yes.buffer = st.buffer
    BY DEF Fields, SamePin
  <2> HIDE DEF r, no, spoiled, yes
  <2>5. Effect(st, c, r, r.stick)
    <3>1. CASE r.stick = no /\ r.sw = "success"
      BY <1>2, <2>2, <3>1 DEF Effect, Settled
    <3>2. CASE r.stick = spoiled /\ r.sw = "conditions" /\ ~ st.chosen
      BY <1>2, <2>3, <3>2 DEF Effect, Spoiled, NothingAsked
    <3>3. CASE r.stick = yes /\ r.sw = "success"
      BY <1>2, <2>4, <3>3 DEF Effect, Settled
    <3>4. QED
      BY <2>1, <3>1, <3>2, <3>3
  <2>6. QED
    BY <2>5 DEF r
<1>3. QED
  BY <1>1, <1>2

LEMMA OtherEffect ==
    ASSUME NEW st, DOMAIN st = Fields, NEW c,
           c.ins \in {"RECEIVE", "TRANSACT", "GOSSIP", "SWEEP"}
    PROVE  /\ LET r == HandleReceive(st, c.lc) IN Effect(st, c, r, r.stick)
           /\ LET r == HandleTransact(st) IN Effect(st, c, r, r.stick)
           /\ LET r == HandleGossip(st, c.lc, c.epoch) IN Effect(st, c, r, r.stick)
           /\ LET r == HandleSweep(st) IN Effect(st, c, r, r.stick)
<1>1. \A r : NothingAsked(c, r)
  BY DEF NothingAsked
<1>2. ASSUME NEW t, DOMAIN t = Fields, SamePin(t, st), SamePayment(t, st), NEW r
      PROVE  Effect(st, c, r, t)
  BY <1>1, <1>2 DEF Effect, Ignored
<1>3. SamePin(st, st) /\ SamePayment(st, st)
  BY DEF SamePin, SamePayment
<1>4. LET r == HandleReceive(st, c.lc) IN Effect(st, c, r, r.stick)
  <2> DEFINE t == [st EXCEPT !.balance = @ + 1, !.received = @ + 1]
  <2>1. DOMAIN t = Fields /\ SamePin(t, st) /\ SamePayment(t, st)
    BY DEF Fields, SamePin, SamePayment
  <2>2. HandleReceive(st, c.lc).stick \in {st, t}
    BY DEF HandleReceive, Reply
  <2>3. QED
    BY <1>2, <1>3, <2>1, <2>2
<1>5. LET r == HandleTransact(st) IN Effect(st, c, r, r.stick)
  <2> DEFINE t == [st EXCEPT !.phase = "sent"]
  <2>1. DOMAIN t = Fields /\ SamePin(t, st) /\ t.phase = "sent" /\ t.amount = st.amount
        /\ t.chosen = st.chosen /\ t.authorized = st.authorized /\ t.buffer = st.buffer
    BY DEF Fields, SamePin
  <2>2. CASE st.phase = "proposed"
    <3>1. HandleTransact(st).stick = t
      BY <2>2 DEF HandleTransact, Reply
    <3>2. QED
      BY <1>1, <2>1, <2>2, <3>1 DEF Effect, Sent
  <2>3. CASE st.phase # "proposed"
    <3>1. HandleTransact(st).stick = st
      BY <2>3 DEF HandleTransact, Reply
    <3>2. QED
      BY <1>2, <1>3, <3>1
  <2>4. QED
    BY <2>2, <2>3
<1>6. LET r == HandleGossip(st, c.lc, c.epoch) IN Effect(st, c, r, r.stick)
  <2> DEFINE t == ResetForEpoch(st, c.epoch)
  <2>1. DOMAIN t = Fields /\ SamePin(t, st) /\ SamePayment(t, st)
    BY DEF ResetForEpoch, Fields, SamePin, SamePayment
  <2>2. HandleGossip(st, c.lc, c.epoch).stick \in {st, t}
    BY DEF HandleGossip, Reply
  <2>3. QED
    BY <1>2, <1>3, <2>1, <2>2
<1>7. LET r == HandleSweep(st) IN Effect(st, c, r, r.stick)
  <2> DEFINE t == [st EXCEPT !.received = 0]
  <2>1. DOMAIN t = Fields /\ SamePin(t, st) /\ SamePayment(t, st)
    BY DEF Fields, SamePin, SamePayment
  <2>2. HandleSweep(st).stick = t
    BY DEF HandleSweep, Reply
  <2>3. QED
    BY <1>2, <2>1, <2>2
<1>8. QED
  BY <1>4, <1>5, <1>6, <1>7

\* handle_apdu does one of five things to the payment a stick is in.
LEMMA ApduEffect ==
    ASSUME NEW st, DOMAIN st = Fields, NEW c, c.ins \in Instructions
    PROVE  LET r == HandleApdu(st, c) IN Effect(st, c, r, r.stick)
<1> DEFINE r == HandleApdu(st, c)
<1>1. ASSUME NEW sw, sw # "success" \/ c.ins \notin {"INITIATE", "TRANSFER"}, r = Reply(st, sw)
      PROVE  Effect(st, c, r, r.stick)
  <2> HIDE DEF r
  <2> QED BY <1>1, ReplyFields DEF Effect, SamePin, Ignored, NothingAsked, SamePayment
<1>2. CASE c.lc > c.size
  <2>1. r = Reply(st, "wrong length")
    BY <1>2 DEF HandleApdu
  <2>2. "wrong length" # "success"
    OBVIOUS
  <2>3. QED
    BY <1>1, <2>1, <2>2
<1>3. CASE ~ (c.lc > c.size)
  <2>1. CASE c.ins = "INITIATE"
    <3>1. r = Reply(st, "wrong data") \/ r = HandleInitiate(st, c.amount)
      BY <1>3, <2>1 DEF HandleApdu
    <3>2. QED
      BY <1>1, <2>1, <3>1, InitiateEffect
  <2>2. CASE c.ins = "TRANSFER"
    <3>1. r = HandleTransfer(st, c.lc, c.accept)
      BY <1>3, <2>2 DEF HandleApdu
    <3>2. QED
      BY <2>2, <3>1, TransferEffect
  <2>3. CASE c.ins \in {"RECEIVE", "TRANSACT", "GOSSIP", "SWEEP"}
    <3>1. \/ r = HandleReceive(st, c.lc) \/ r = HandleTransact(st)
          \/ r = HandleGossip(st, c.lc, c.epoch) \/ r = HandleSweep(st)
      BY <1>3, <2>3 DEF HandleApdu
    <3>2. QED
      BY <2>3, <3>1, OtherEffect
  <2>4. CASE c.ins \in {"READ_TICKET", "GET_BALANCE"}
    <3>1. r = Reply(st, "success")
      BY <1>3, <2>4 DEF HandleApdu
    <3>2. QED
      BY <1>1, <2>4, <3>1
  <2>5. QED
    BY <2>1, <2>2, <2>3, <2>4 DEF Instructions
<1>4. QED
  BY <1>2, <1>3

\* A session is the effect of its one command.
LEMMA SessionEffect ==
    ASSUME NEW s, DOMAIN sticks[s] = Fields, NEW c, c.ins \in Instructions
    PROVE  Effect(sticks[s], c, Session(s, c), Session(s, c).stick)
<1> DEFINE st == sticks[s]
           woken == [st EXCEPT !.selected = TRUE]
           r == HandleApdu(woken, c)
           t == FieldLost(r.stick)
<1>1. /\ DOMAIN woken = Fields /\ woken.selected
      /\ SamePin(woken, st) /\ SamePayment(woken, st)
  BY DEF Fields, SamePin, SamePayment
<1>2. Effect(woken, c, r, r.stick)
  <2> HIDE DEF woken
  <2> QED BY <1>1, ApduEffect
<1>3. HandleFrame(st, [ins |-> "SELECT"]).stick = woken
  BY DEF HandleFrame, Reply
<1>4. HandleFrame(woken, c) = r
  BY <1>1 DEF HandleFrame, Instructions
<1>5. DOMAIN r = {"stick", "sw", "data"}
  BY DEF HandleApdu, HandleInitiate, HandleTransfer, HandleReceive, HandleTransact, HandleGossip,
         HandleSweep, Reply, Instructions
<1> HIDE DEF r
<1>6. Session(s, c).stick = t /\ Session(s, c).sw = r.sw
  BY <1>3, <1>4, <1>5 DEF Session
<1>7. DOMAIN t = Fields /\ SamePin(t, r.stick) /\ SamePayment(t, r.stick)
  BY <1>2 DEF Effect, FieldLost, Fields, SamePin, SamePayment
<1> HIDE DEF woken, t
<1>8. PinRequired(woken) = PinRequired(st) /\ AttemptsRemaining(woken) = AttemptsRemaining(st)
  BY <1>1 DEF PinRequired, AttemptsRemaining, SamePin, SamePayment
<1>9. Effect(st, c, Session(s, c), t)
  <2>1. DOMAIN t = Fields /\ SamePin(t, st)
    BY <1>1, <1>2, <1>7 DEF Effect, SamePin
  <2>2. CASE Ignored(woken, c, r, r.stick)
    BY <1>1, <1>6, <1>7, <2>1, <2>2 DEF Effect, Ignored, NothingAsked, SamePayment
  <2>3. CASE Proposed(woken, c, r, r.stick)
    BY <1>1, <1>6, <1>7, <2>1, <2>3 DEF Effect, Proposed, SamePayment
  <2>4. CASE Sent(woken, c, r, r.stick)
    BY <1>1, <1>6, <1>7, <2>1, <2>4 DEF Effect, Sent, NothingAsked, SamePayment
  <2>5. CASE Settled(woken, c, r, r.stick)
    BY <1>1, <1>6, <1>7, <1>8, <2>1, <2>5 DEF Effect, Settled, Open, SamePayment
  <2>6. CASE Spoiled(woken, c, r, r.stick)
    BY <1>1, <1>6, <1>7, <2>1, <2>6 DEF Effect, Spoiled, NothingAsked, Open, SamePayment
  <2>7. QED
    BY <1>2, <2>2, <2>3, <2>4, <2>5, <2>6 DEF Effect
<1>10. QED
  BY <1>6, <1>9 DEF st
-----------------------------------------------------------------------------
(***************************************************************************)
(* The invariant, of one stick st with the proposal p its owner saw, the   *)
(* signature g it last made, and whether it once ran out of attempts.      *)
(***************************************************************************)
\* An open proposal is the one that the owner was shown, with its tokens, and only an
\* open one can be authorized.
ShownIsOpen(st, p) ==
    /\ Open(st) => p.state = "open" /\ p.amount = st.amount /\ st.chosen
    /\ st.authorized => Open(st) /\ p.approved

\* A PIN is only begun for an open proposal that asks for one.
PinIsAsked(st) == st.buffer # <<>> => Open(st) /\ PinRequired(st)

SignatureShown(g) ==
    /\ g.shown.state # "closed" /\ g.amount = g.shown.amount
    /\ g.amount >= PinThreshold /\ g.hasPin => g.shown.approved

StickOK(st) == DOMAIN st = Fields /\ st.hasPin \in BOOLEAN /\ st.failed \in Nat

ProposalOK(p) == DOMAIN p = {"amount", "approved", "state"}

Kept(st, p, g, lost) ==
    /\ StickOK(st) /\ ProposalOK(p) /\ ShownIsOpen(st, p) /\ PinIsAsked(st)
    /\ SignatureShown(g) /\ (lost => st.failed >= PinTries)

StickInv ==
    /\ DOMAIN sticks = Sticks /\ DOMAIN proposal = Sticks /\ DOMAIN signature = Sticks
    /\ locked \subseteq Sticks
    /\ \A s \in Sticks : Kept(sticks[s], proposal[s], signature[s], s \in locked)

\* A step that touches one stick keeps the invariant if it keeps it of that one.
Elsewhere(s) ==
    /\ DOMAIN sticks' = Sticks /\ DOMAIN proposal' = Sticks /\ DOMAIN signature' = Sticks
    /\ locked' \subseteq Sticks
    /\ \A v \in Sticks \ {s} :
          /\ sticks'[v] = sticks[v] /\ proposal'[v] = proposal[v] /\ signature'[v] = signature[v]
          /\ (v \in locked') = (v \in locked)

LEMMA OneStick ==
    ASSUME StickInv, NEW s \in Sticks, Elsewhere(s),
           Kept(sticks'[s], proposal'[s], signature'[s], s \in locked')
    PROVE  StickInv'
<1>1. ASSUME NEW v \in Sticks
      PROVE  Kept(sticks'[v], proposal'[v], signature'[v], v \in locked')
  <2>1. CASE v = s
    BY <2>1
  <2>2. CASE v # s
    BY <2>2 DEF StickInv, Elsewhere
  <2>3. QED
    BY <2>1, <2>2
<1>2. QED
  BY <1>1 DEF StickInv, Elsewhere

\* A command keeps the invariant, and a stick that has run out of attempts signs nothing.
LEMMA ObserveKeeps ==
    ASSUME StickInv, NEW s \in Sticks, NEW c, c.ins \in Instructions, Observe(s, c, Session(s, c))
    PROVE  StickInv' /\ \A v \in locked : signature'[v] = signature[v]
<1> DEFINE st == sticks[s]
           p == proposal[s]
           r == Session(s, c)
           t == r.stick
<1>1. Kept(st, p, signature[s], s \in locked) /\ PinTries \in Nat
  BY CredstickAssumption DEF StickInv
<1>2. Effect(st, c, r, t)
  BY <1>1, SessionEffect DEF Kept, StickOK
<1>3. /\ sticks' = [sticks EXCEPT ![s] = t] /\ proposal' = [proposal EXCEPT ![s] = Asked(s, c, r)]
      /\ signature' = IF c.ins = "TRANSFER" /\ t.phase # "rejected" /\ r.sw = "success"
                      THEN [signature EXCEPT ![s] = [shown |-> p, amount |-> st.amount,
                                                      hasPin |-> st.hasPin]]
                      ELSE signature
      /\ locked' = locked
  BY DEF Observe
<1>4. Elsewhere(s)
  BY <1>3 DEF Elsewhere, StickInv
<1>5. sticks'[s] = t /\ proposal'[s] = Asked(s, c, r) /\ (s \in locked') = (s \in locked)
  BY <1>3 DEF StickInv
<1>6. StickOK(t) /\ (s \in locked => t.failed >= PinTries)
  BY <1>1, <1>2 DEF Effect, SamePin, Kept, StickOK
<1> HIDE DEF st, p, r, t
<1>7. CASE NothingAsked(c, r)
  <2>1. signature' = signature /\ Asked(s, c, r) = p
    BY <1>3, <1>7 DEF NothingAsked, Asked, p
  <2>2. ShownIsOpen(t, p) /\ PinIsAsked(t)
    <3>1. CASE Ignored(st, c, r, t)
      BY <1>1, <1>2, <3>1 DEF Effect, Ignored, SamePayment, SamePin, Kept, ShownIsOpen, PinIsAsked,
                              Open, PinRequired
    <3>2. CASE Sent(st, c, r, t)
      BY <1>1, <1>2, <3>2 DEF Effect, Sent, SamePin, Kept, ShownIsOpen, PinIsAsked, Open, PinRequired
    <3>3. ~ Spoiled(st, c, r, t)
      BY <1>1 DEF Spoiled, Kept, ShownIsOpen
    <3>4. QED
      BY <1>2, <1>7, <3>1, <3>2, <3>3 DEF Effect, NothingAsked, Proposed, Settled
  <2>3. Kept(t, p, signature'[s], s \in locked)
    BY <1>1, <1>6, <2>1, <2>2 DEF Kept
  <2>4. QED
    BY <1>4, <1>5, <2>1, <2>3, OneStick
<1>8. CASE c.ins = "INITIATE" /\ r.sw = "success"
  <2>1. Proposed(st, c, r, t)
    BY <1>2, <1>8 DEF Effect, Ignored, Sent, Settled, Spoiled, NothingAsked
  <2>2. signature' = signature /\ Asked(s, c, r) = [amount |-> c.amount, approved |-> FALSE, state |-> "open"]
    BY <1>3, <1>8 DEF Asked
  <2>3. ~ t.authorized /\ t.buffer = <<>>
    BY <1>1, <2>1 DEF Proposed, Kept, ShownIsOpen, PinIsAsked, Open
  <2>4. ProposalOK(Asked(s, c, r)) /\ ShownIsOpen(t, Asked(s, c, r)) /\ PinIsAsked(t)
    BY <2>1, <2>2, <2>3 DEF ProposalOK, Proposed, ShownIsOpen, PinIsAsked
  <2>5. Kept(t, Asked(s, c, r), signature'[s], s \in locked)
    BY <1>1, <1>6, <2>2, <2>4 DEF Kept
  <2>6. QED
    BY <1>4, <1>5, <2>2, <2>5, OneStick
<1>9. CASE c.ins = "TRANSFER" /\ r.sw = "success"
  <2>1. Settled(st, c, r, t)
    BY <1>2, <1>9 DEF Effect, Ignored, Proposed, Sent, Spoiled, NothingAsked
  <2>2. Asked(s, c, r) = [p EXCEPT !.state = "closed"]
    BY <1>9 DEF Asked, p
  <2>3. ProposalOK(Asked(s, c, r))
    BY <1>1, <2>2 DEF ProposalOK, Kept
  <2>4. st.buffer = <<>> /\ ~ PinRequired(st) /\ Open(st)
    BY <1>1, <2>1 DEF Settled, Kept, PinIsAsked
  <2>5. ShownIsOpen(t, Asked(s, c, r)) /\ PinIsAsked(t)
    BY <2>1, <2>4 DEF Settled, ShownIsOpen, PinIsAsked, Open
  <2>6. s \notin locked
    <3>1. ASSUME s \in locked PROVE AttemptsRemaining(st) = 0
      BY <1>1, <3>1 DEF Kept, StickOK, AttemptsRemaining
    <3>2. QED
      BY <2>1, <3>1 DEF Settled
  <2>7. SignatureShown(signature'[s])
    <3>1. CASE signature' = signature
      BY <1>1, <3>1 DEF Kept
    <3>2. CASE signature' = [signature EXCEPT ![s] = [shown |-> p, amount |-> st.amount,
                                                       hasPin |-> st.hasPin]]
      <4>1. signature'[s] = [shown |-> p, amount |-> st.amount, hasPin |-> st.hasPin]
        BY <3>2 DEF StickInv
      <4>2. p.state = "open" /\ p.amount = st.amount
        BY <1>1, <2>4 DEF Kept, ShownIsOpen
      <4>3. st.amount >= PinThreshold /\ st.hasPin => p.approved
        BY <1>1, <2>4 DEF Kept, StickOK, ShownIsOpen, PinRequired
      <4>4. QED
        BY <4>1, <4>2, <4>3 DEF SignatureShown
    <3>3. QED
      BY <1>3, <3>1, <3>2
  <2>8. Kept(t, Asked(s, c, r), signature'[s], s \in locked)
    BY <1>6, <2>3, <2>5, <2>7 DEF Kept
  <2>9. \A v \in locked : signature'[v] = signature[v]
    BY <1>4, <2>6 DEF Elsewhere, StickInv
  <2>10. QED
    BY <1>4, <1>5, <2>8, <2>9, OneStick
<1>10. QED
  BY <1>7, <1>8, <1>9 DEF NothingAsked

\* What the buttons may do: nothing, a symbol of the PIN, a refusal, a right or a wrong PIN.
LEMMA ButtonEffect ==
    ASSUME NEW st, StickOK(st),
           NEW t \in {ButtonLeft(st), ButtonRight(st), ButtonBoth(st)}, t # st
    PROVE  /\ StickOK(t) /\ t.amount = st.amount /\ t.hasPin = st.hasPin
           /\ \/ /\ Open(st) /\ PinRequired(st) /\ t.phase = st.phase /\ t.chosen = st.chosen
                 /\ t.authorized = st.authorized /\ t.failed = st.failed
              \/ /\ t.phase = "idle" /\ ~ t.authorized /\ t.buffer = <<>> /\ t.failed = st.failed
              \/ /\ PinInProgress(st) /\ AttemptsRemaining(st) # 0
                 /\ t.phase = st.phase /\ t.chosen = st.chosen /\ t.buffer = <<>>
                 /\ t.authorized \/ t.authorized = st.authorized
<1> DEFINE left == PinInput(st, "left")
           right == PinInput(st, "right")
           cancelled == Cancel(st)
           good == [st EXCEPT !.buffer = <<>>, !.authorized = TRUE, !.failed = 0]
           bad == [st EXCEPT !.buffer = <<>>, !.failed = @ + 1]
<1>1. \/ t \in {left, right} /\ st.phase = "proposed" /\ PinRequired(st)
      \/ t = cancelled
      \/ t \in {good, bad} /\ PinInProgress(st) /\ AttemptsRemaining(st) # 0
  BY DEF ButtonLeft, ButtonRight, ButtonBoth, VerifyPin, PinInProgress
<1>2. CASE t \in {left, right} /\ st.phase = "proposed" /\ PinRequired(st)
  <2>1. PICK b : t = [st EXCEPT !.buffer = b]
    BY <1>2 DEF PinInput
  <2>2. StickOK(t) /\ t.phase = st.phase /\ t.amount = st.amount /\ t.hasPin = st.hasPin
        /\ t.chosen = st.chosen /\ t.authorized = st.authorized /\ t.failed = st.failed
    BY <2>1 DEF StickOK, Fields
  <2>3. QED
    BY <1>2, <2>2 DEF Open
<1>3. CASE t = cancelled
  BY <1>3 DEF Cancel, StickOK, Fields
<1>4. CASE t \in {good, bad} /\ PinInProgress(st) /\ AttemptsRemaining(st) # 0
  <2>1. CASE t = good
    BY <1>4, <2>1 DEF StickOK, Fields
  <2>2. CASE t = bad
    BY <1>4, <2>2 DEF StickOK, Fields
  <2>3. QED
    BY <1>4, <2>1, <2>2
<1>5. QED
  BY <1>1, <1>2, <1>3, <1>4

\* A button keeps the invariant and signs nothing.
LEMMA PressKeeps ==
    ASSUME StickInv, NEW s \in Sticks, PressLeft(s) \/ PressRight(s) \/ PressBoth(s)
    PROVE  StickInv' /\ signature' = signature
<1> DEFINE st == sticks[s]
           p == proposal[s]
           q == proposal'[s]
<1>1. PICK t \in {ButtonLeft(st), ButtonRight(st), ButtonBoth(st)} : Press(s, t)
  BY DEF PressLeft, PressRight, PressBoth
<1>2. /\ sticks' = [sticks EXCEPT ![s] = t] /\ t # st /\ signature' = signature
      /\ proposal' = [proposal EXCEPT ![s] =
            IF t.authorized /\ ~ st.authorized THEN [p EXCEPT !.approved = TRUE]
            ELSE IF t.phase = "idle" THEN [p EXCEPT !.state = "closed"] ELSE p]
      /\ locked' = IF t.failed >= PinTries THEN locked \cup {s} ELSE locked
  BY <1>1 DEF Press
<1>3. Kept(st, p, signature[s], s \in locked) /\ PinTries \in Nat
  BY CredstickAssumption DEF StickInv
<1>4. Elsewhere(s) /\ sticks'[s] = t
  BY <1>2 DEF Elsewhere, StickInv
<1>5. q = IF t.authorized /\ ~ st.authorized THEN [p EXCEPT !.approved = TRUE]
          ELSE IF t.phase = "idle" THEN [p EXCEPT !.state = "closed"] ELSE p
  BY <1>2 DEF StickInv
<1> HIDE DEF st, p, q
<1>6. /\ StickOK(t) /\ t.amount = st.amount /\ t.hasPin = st.hasPin
      /\ \/ /\ Open(st) /\ PinRequired(st) /\ t.phase = st.phase /\ t.chosen = st.chosen
            /\ t.authorized = st.authorized /\ t.failed = st.failed
         \/ /\ t.phase = "idle" /\ ~ t.authorized /\ t.buffer = <<>> /\ t.failed = st.failed
         \/ /\ PinInProgress(st) /\ AttemptsRemaining(st) # 0
            /\ t.phase = st.phase /\ t.chosen = st.chosen /\ t.buffer = <<>>
            /\ t.authorized \/ t.authorized = st.authorized
  BY <1>1, <1>2, <1>3, ButtonEffect DEF Kept, st
<1>7. ProposalOK(q) /\ q.amount = p.amount /\ (p.approved => q.approved)
      /\ (t.authorized /\ ~ st.authorized => q.approved)
      /\ (t.phase # "idle" => q.state = p.state)
  <2>1. CASE t.authorized /\ ~ st.authorized
    BY <1>3, <1>5, <2>1 DEF Kept, ProposalOK
  <2>2. CASE ~ (t.authorized /\ ~ st.authorized)
    BY <1>3, <1>5, <2>2 DEF Kept, ProposalOK
  <2>3. QED
    BY <2>1, <2>2
<1>8. st.hasPin = t.hasPin
  BY <1>6
<1>9. ShownIsOpen(t, q) /\ PinIsAsked(t)
  <2>1. CASE /\ Open(st) /\ PinRequired(st) /\ t.phase = st.phase /\ t.chosen = st.chosen
             /\ t.authorized = st.authorized /\ t.failed = st.failed
    BY <1>3, <1>6, <1>7, <1>8, <2>1 DEF Kept, ShownIsOpen, PinIsAsked, Open, PinRequired
  <2>2. CASE t.phase = "idle" /\ ~ t.authorized /\ t.buffer = <<>>
    BY <2>2 DEF ShownIsOpen, PinIsAsked, Open
  <2>3. CASE /\ PinInProgress(st) /\ t.phase = st.phase /\ t.chosen = st.chosen /\ t.buffer = <<>>
             /\ t.authorized \/ t.authorized = st.authorized
    BY <1>3, <1>6, <1>7, <2>3 DEF Kept, ShownIsOpen, PinIsAsked, Open, PinInProgress
  <2>4. QED
    BY <1>6, <2>1, <2>2, <2>3
<1>10. s \in locked' => t.failed >= PinTries
  <2>1. ASSUME s \in locked, AttemptsRemaining(st) # 0 PROVE FALSE
    BY <1>3, <2>1 DEF Kept, StickOK, AttemptsRemaining
  <2>2. QED
    BY <1>2, <1>3, <1>6, <2>1 DEF Kept
<1>11. Kept(t, q, signature'[s], s \in locked')
  BY <1>2, <1>3, <1>6, <1>7, <1>9, <1>10 DEF Kept
<1>12. QED
  BY <1>2, <1>4, <1>11, OneStick DEF q

\* A restart closes what was open; a locked stick is given its attempts back.
LEMMA RestartKeeps ==
    ASSUME StickInv, NEW s \in Sticks, NEW kept, Restart(s, kept)
    PROVE  StickInv' /\ signature' = signature
<1> DEFINE st == sticks[s]
           t == Restarted(st, kept)
           p == proposal[s]
           q == [p EXCEPT !.state = "closed"]
<1>1. Kept(st, p, signature[s], s \in locked)
  BY DEF StickInv
<1>2. /\ sticks' = [sticks EXCEPT ![s] = t] /\ proposal' = [proposal EXCEPT ![s] = q]
      /\ locked' = locked \ {s} /\ signature' = signature
  BY DEF Restart
<1>3. Elsewhere(s) /\ sticks'[s] = t /\ proposal'[s] = q /\ s \notin locked'
  BY <1>2 DEF Elsewhere, StickInv
<1>4. /\ DOMAIN t = Fields /\ t.hasPin \in BOOLEAN /\ t.failed = 0
      /\ t.phase = "idle" /\ t.authorized = FALSE /\ t.buffer = <<>>
  BY <1>1 DEF Restarted, NewStick, Fields, Kept, StickOK
<1>5. ProposalOK(q)
  BY <1>1 DEF Kept, ProposalOK
<1> HIDE DEF st, t, p, q
<1>6. Kept(t, q, signature'[s], s \in locked')
  BY <1>1, <1>2, <1>3, <1>4, <1>5 DEF Kept, StickOK, ShownIsOpen, PinIsAsked, Open
<1>7. QED
  BY <1>2, <1>3, <1>6, OneStick DEF q

LEMMA InitStickInv == Init => StickInv
<1> SUFFICES ASSUME Init PROVE StickInv
  OBVIOUS
<1>1. /\ sticks = [s \in Sticks |-> NewStick(s \in HasPin, Balance)]
      /\ proposal = [s \in Sticks |-> NoProposal]
      /\ signature = [s \in Sticks |-> NoSignature] /\ locked = {}
  BY DEF Init
<1>2. ASSUME NEW s \in Sticks
      PROVE  Kept(sticks[s], proposal[s], signature[s], s \in locked)
  <2> DEFINE st == NewStick(s \in HasPin, Balance)
  <2>1. /\ DOMAIN st = Fields /\ st.phase = "idle" /\ st.authorized = FALSE /\ st.buffer = <<>>
        /\ st.failed = 0 /\ st.hasPin \in BOOLEAN
    BY DEF NewStick, Fields
  <2> HIDE DEF st
  <2>2. sticks[s] = st
    BY <1>1 DEF st
  <2>3. StickOK(st) /\ ProposalOK(NoProposal) /\ ShownIsOpen(st, NoProposal) /\ PinIsAsked(st)
    BY <2>1 DEF StickOK, ProposalOK, NoProposal, ShownIsOpen, PinIsAsked, Open
  <2>4. SignatureShown(signature[s])
    BY <1>1 DEF SignatureShown, NoSignature, NoProposal
  <2>5. QED
    BY <1>1, <2>2, <2>3, <2>4 DEF Kept
<1>3. QED
  BY <1>1, <1>2 DEF StickInv

\* A step that leaves the sticks and what their owners saw alone.
LEMMA RestKeeps ==
    ASSUME StickInv, UNCHANGED <<sticks, proposal, signature, locked>>
    PROVE  StickInv'
BY DEF StickInv

LEMMA NextStickInv ==
    ASSUME StickInv, [Next]_vars
    PROVE  StickInv' /\ \A s \in locked : signature'[s] = signature[s]
<1>1. ASSUME NEW s \in Sticks, PressLeft(s) \/ PressRight(s) \/ PressBoth(s)
      PROVE  StickInv' /\ \A v \in locked : signature'[v] = signature[v]
  BY <1>1, PressKeeps
<1>2. ASSUME NEW s \in Sticks, OtherReader(s)
      PROVE  StickInv' /\ \A v \in locked : signature'[v] = signature[v]
  <2> DEFINE Cs == [ins : {"TRANSACT", "SWEEP"}, lc : {0}, size : {0}]
              \cup [ins : {"INITIATE"}, amount : OtherAmounts, lc : {8}, size : {8}]
              \cup [ins : {"TRANSFER"}, accept : {FALSE}, lc : {0, 1}, size : {1}]
              \cup [ins : {"GOSSIP"}, epoch : 1 .. MaxEpoch, lc : {3, 4}, size : {4}]
              \cup [ins : {"RECEIVE"}, lc : {100}, size : {100}]
  <2>1. \A c \in Cs : c.ins \in Instructions
    BY DEF Instructions
  <2>2. \E c \in Cs : Observe(s, c, Session(s, c))
    BY <1>2 DEF OtherReader
  <2> HIDE DEF Cs
  <2>3. PICK c \in Cs : Observe(s, c, Session(s, c))
    BY <2>2
  <2>4. QED
    BY <2>1, <2>3, ObserveKeeps
<1>2a. ASSUME NEW s \in Sticks, NEW kept, Restart(s, kept)
       PROVE  StickInv' /\ \A v \in locked : signature'[v] = signature[v]
  BY <1>2a, RestartKeeps
<1>3. ASSUME UNCHANGED <<sticks, proposal, signature, locked>>
      PROVE  StickInv' /\ \A v \in locked : signature'[v] = signature[v]
  BY <1>3, RestKeeps
<1>4. ASSUME NEW tap \in Taps, NEW s \in Sticks, NEW heard, NEW works, TapStick(tap, s, heard, works)
      PROVE  StickInv' /\ \A v \in locked : signature'[v] = signature[v]
  <2> DEFINE c == Command(tap, engine)
  <2>1. c.ins \in Instructions
    BY DEF Command, Taps, BuildReadTicket, BuildInitiate, BuildTransfer, BuildReceive, Instructions
  <2> HIDE DEF c
  <2>2. Observe(s, c, Session(s, c)) \/ UNCHANGED <<sticks, observed>>
    BY <1>4 DEF TapStick, c
  <2>3. QED
    BY <1>3, <2>1, <2>2, ObserveKeeps DEF observed
<1>5. ASSUME NEW tap \in Taps, Tapped(tap)
      PROVE  StickInv' /\ \A v \in locked : signature'[v] = signature[v]
  BY <1>3, <1>4, <1>5 DEF Tapped, NoTag, TapOther, observed
<1>6. CASE RelayStep
  <2>1. \/ \E tap \in Taps, works \in BOOLEAN : Poll(tap, works)
        \/ \E tap \in Taps : Tapped(tap)
    BY <1>6 DEF RelayStep, TapReceiver, TapSender, RetapSender, Deliver, Taps
  <2>2. QED
    BY <1>3, <1>5, <2>1 DEF Poll, observed
<1>7. CASE KeyOkFixed \/ RelayRestart \/ UNCHANGED vars
  BY <1>3, <1>7 DEF KeyOkFixed, RelayRestart, vars, observed
<1>8. ASSUME NEW keys \in Entries, KeyOk(keys)
      PROVE  StickInv' /\ \A v \in locked : signature'[v] = signature[v]
  BY <1>3, <1>8 DEF KeyOk, observed
<1>9. QED
  BY <1>1, <1>2, <1>2a, <1>6, <1>7, <1>8 DEF Next

\* The invariant holds whatever relay, owners and other readers do.
THEOREM StickInvHolds == Spec => []StickInv
<1>1. Init => StickInv
  BY InitStickInv
<1>2. StickInv /\ [Next]_vars => StickInv'
  BY NextStickInv
<1>3. QED
  BY <1>1, <1>2, PTL DEF Spec

\* Whatever commands readers send, repeat or lose, whatever buttons are pressed and
\* however often it is restarted, a stick (handle_transfer, verify_pin, cancel) signs the
\* amount its owner was shown, once, and while it has a PIN, from the threshold on only
\* with the PIN entered for that very proposal.
THEOREM SignaturesAreApproved == Spec => []SignedWasApproved
<1>1. StickInv => SignedWasApproved
  BY DEF StickInv, Kept, SignatureShown, SignedWasApproved
<1>2. QED
  BY <1>1, StickInvHolds, PTL

\* A stick that ran out of PIN attempts (pin_attempts_remaining) signs nothing before it is
\* restarted, for every number of attempts and every threshold.  A restart gives it all of
\* its attempts again (TransactionState::new): the lock is not final.
THEOREM LockHoldsUntilRestart == Spec => LockedUntilRestart
<1>1. StickInv /\ [Next]_vars => [\A s \in locked : signature'[s] = signature[s]]_vars
  BY NextStickInv
<1>2. QED
  BY <1>1, StickInvHolds, PTL DEF Spec, LockedUntilRestart
-----------------------------------------------------------------------------
(***************************************************************************)
(* The relay.                                                              *)
(***************************************************************************)
\* Between the taps of a payment: the tokens are there from the third tap to the fourth,
\* and nothing is complete yet.
InPayment(tap) ==
    /\ engine.phase # "Complete" /\ handed = 0
    /\ obtained = IF tap = "D" THEN 1 ELSE 0

RelayInv ==
    /\ at \in {Amount, Halted} \cup ({"poll", "tap"} \X Taps)
    /\ obtained \in 0 .. 1 /\ handed \in 0 .. obtained /\ fault \in BOOLEAN
    /\ engine.phase = "Complete" => handed = 1
    /\ at \notin {Amount, Halted} => InPayment(at[2])
    /\ StuckOnlyByFault

\* After a tap the relay is at the next one, with what that one needs, or at the amount.
LEMMA AnsweredKeeps ==
    ASSUME RelayInv, NEW tap \in Taps, at = <<"tap", tap>>, NEW r, NEW heard \in BOOLEAN,
           NEW from, NEW works \in BOOLEAN, Answered(tap, r, heard, from, works)
    PROVE  RelayInv'
<1> DEFINE next == IF heard /\ Went(tap, r) /\ tap # "D" THEN <<"poll", NextTap[tap]>> ELSE Amount
<1>1. /\ at' = next
      /\ engine' = IF heard THEN HandleResponse(tap, engine, r, from) ELSE engine
      /\ nfc' \in Deactivated(heard, works) /\ fault' = (fault \/ ~ works)
      /\ obtained' = IF tap = "T" /\ heard /\ Went("T", r) THEN obtained + 1 ELSE obtained
      /\ handed' = IF tap = "D" /\ CheckSw(r) THEN handed + 1 ELSE handed
  BY DEF Answered, After
<1>2. /\ engine.phase # "Complete" /\ handed = 0 /\ fault \in BOOLEAN
      /\ obtained = IF tap = "D" THEN 1 ELSE 0
  BY DEF RelayInv, InPayment, Amount, Halted
<1>3. fault' \in BOOLEAN /\ (nfc' = "Ready" \/ fault')
  BY <1>1, <1>2 DEF Deactivated
<1>4. CASE tap = "D"
  <2>1. at' = Amount /\ obtained' = 1 /\ handed' = IF CheckSw(r) THEN 1 ELSE 0
    BY <1>1, <1>2, <1>4
  <2>2. engine'.phase = "Complete" => CheckSw(r)
    <3>1. CASE heard
      <4>1. engine' = [engine EXCEPT !.phase =
                           IF CheckSw(r) /\ r.data = 1 THEN "Complete" ELSE "Failed"]
        BY <1>1, <1>4, <3>1 DEF HandleResponse, HandleReceiveResponse
      <4>2. engine'.phase \in {engine.phase, IF CheckSw(r) /\ r.data = 1 THEN "Complete" ELSE "Failed"}
        BY <4>1
      <4>3. QED
        BY <1>2, <4>2
    <3>2. QED
      BY <1>1, <1>2, <3>1
  <2>3. QED
    BY <1>3, <2>1, <2>2 DEF RelayInv, StuckOnlyByFault, Amount, Halted
<1>5. CASE tap # "D"
  <2>1. handed' = 0 /\ obtained' = IF tap = "T" /\ heard /\ Went("T", r) THEN 1 ELSE 0
    BY <1>1, <1>2, <1>5
  <2>2. engine'.phase # "Complete"
    BY <1>1, <1>2, <1>5 DEF Taps, HandleResponse, HandleReadTicketResponse, HandleInitiateResponse,
                            HandleTransferResponse
  <2>3. CASE at' = Amount
    BY <1>3, <2>1, <2>2, <2>3 DEF RelayInv, StuckOnlyByFault, Amount, Halted
  <2>4. CASE heard /\ Went(tap, r) /\ at' = <<"poll", NextTap[tap]>>
    <3>1. NextTap[tap] \in Taps /\ (NextTap[tap] = "D" <=> tap = "T")
      BY <1>5 DEF NextTap, Taps
    <3>2. QED
      BY <1>3, <2>1, <2>2, <2>4, <3>1 DEF RelayInv, InPayment, StuckOnlyByFault, Amount, Halted
  <2>5. QED
    BY <1>1, <1>5, <2>3, <2>4
<1>6. QED
  BY <1>4, <1>5

LEMMA BeginKeeps ==
    ASSUME RelayInv, NEW amount, Begin(amount), at = Amount, UNCHANGED <<nfc, fault>>
    PROVE  RelayInv'
<1>1. PICK tap \in {"R", "S"} : at' = <<"poll", tap>>
  BY DEF Begin
<1>2. engine' = Start(engine, amount) /\ obtained' = 0 /\ handed' = 0
  BY DEF Begin
<1>3. engine'.phase # "Complete"
  <2>1. engine'.phase \in {engine.phase, "ReceiverReady", "Idle"}
    BY <1>2 DEF Start
  <2>2. \A e : Start(e, amount).phase # "Complete" \/ e.phase = "Complete"
    BY DEF Start
  <2>3. QED
    BY <1>2, <2>1, <2>2 DEF Start
<1>4. QED
  BY <1>1, <1>2, <1>3 DEF RelayInv, InPayment, StuckOnlyByFault, Amount, Halted, Taps

LEMMA NextRelayInv ==
    ASSUME RelayInv, [Next]_vars
    PROVE  RelayInv'
<1>1. ASSUME UNCHANGED relay PROVE RelayInv'
  BY <1>1 DEF relay, RelayInv, InPayment, StuckOnlyByFault
<1>2. ASSUME NEW tap \in Taps, NEW works, Poll(tap, works) PROVE RelayInv'
  BY <1>2 DEF Poll, RelayInv, InPayment, StuckOnlyByFault, Amount, Halted
<1>3. ASSUME NEW tap \in Taps, Tapped(tap) PROVE RelayInv'
  <2>1. CASE NoTag(tap)
    BY <2>1 DEF NoTag, RelayInv, InPayment, StuckOnlyByFault, Amount, Halted
  <2>2. ASSUME NEW heard \in BOOLEAN, NEW works \in BOOLEAN, TapOther(tap, heard, works)
        PROVE  RelayInv'
    BY <2>2, AnsweredKeeps DEF TapOther
  <2>3. ASSUME NEW s \in Sticks, NEW heard \in BOOLEAN, NEW works \in BOOLEAN,
               TapStick(tap, s, heard, works)
        PROVE  RelayInv'
    BY <2>3, AnsweredKeeps DEF TapStick
  <2>4. QED
    BY <1>3, <2>1, <2>2, <2>3 DEF Tapped
<1>4. ASSUME NEW keys, KeyOk(keys) PROVE RelayInv'
  BY <1>4, BeginKeeps DEF KeyOk
<1>5. CASE KeyOkFixed
  BY <1>5, BeginKeeps DEF KeyOkFixed
<1>6. CASE RelayRestart
  <2>1. engine'.phase # "Complete"
    BY <1>6 DEF RelayRestart, NewEngine
  <2>2. at' = Amount /\ obtained' = 0 /\ handed' = 0 /\ fault' \in BOOLEAN
    BY <1>6 DEF RelayRestart
  <2>3. nfc' = "Ready" \/ fault'
    BY <1>6 DEF RelayRestart
  <2>4. QED
    BY <2>1, <2>2, <2>3 DEF RelayInv, StuckOnlyByFault, Amount, Halted
<1>7. ASSUME NEW s, PressLeft(s) \/ PressRight(s) \/ PressBoth(s) \/ OtherReader(s)
      PROVE  RelayInv'
  BY <1>1, <1>7 DEF PressLeft, PressRight, PressBoth, Press, OtherReader
<1>8. ASSUME NEW s, NEW kept, Restart(s, kept) PROVE RelayInv'
  BY <1>1, <1>8 DEF Restart
<1>9. CASE UNCHANGED vars
  BY <1>1, <1>9 DEF vars
<1>10. CASE RelayStep
  BY <1>2, <1>3, <1>10 DEF RelayStep, TapReceiver, TapSender, RetapSender, Deliver, Taps
<1>11. QED
  BY <1>4, <1>5, <1>6, <1>7, <1>8, <1>9, <1>10 DEF Next

\* The relay takes no delivery for done that no wallet has taken and delivers nothing twice,
\* and only a failing reader keeps it from the next payment, for every number of
\* payments, every configuration and whatever wallets are tapped, lost and answer (main,
\* handle_receive_response, wait_for_tag, deactivate).
THEOREM RelayStaysSound == Spec => []RelayIsSound
<1>1. Init => RelayInv
  <2> SUFFICES ASSUME Init PROVE RelayInv
    OBVIOUS
  <2>1. engine.phase # "Complete"
    BY DEF Init, NewEngine
  <2>2. at = Amount /\ obtained = 0 /\ handed = 0 /\ fault \in BOOLEAN
    BY DEF Init
  <2>3. nfc = "Ready" \/ fault
    BY DEF Init
  <2>4. QED
    BY <2>1, <2>2, <2>3 DEF RelayInv, StuckOnlyByFault, Amount, Halted
<1>2. RelayInv /\ [Next]_vars => RelayInv'
  BY NextRelayInv
<1>3. RelayInv => RelayIsSound
  BY DEF RelayInv, RelayIsSound, DeliveredOnce
<1>4. QED
  BY <1>1, <1>2, <1>3, PTL DEF Spec
=============================================================================
