-------------------------- MODULE EnrolmentProofs --------------------------
(***************************************************************************)
(* Theorems about the registrar, the services and the personalization of   *)
(* cards, for every number of wallets, services, runs of the tool, keys    *)
(* and crashes.                                                            *)
(***************************************************************************)
EXTENDS Enrolment, FiniteSetTheorems, SequenceTheorems, TLAPS

(***************************************************************************)
(* Personalization.  The card makes one key; the run of the tool that had  *)
(* it made is the only one that goes on to load a certificate.             *)
(***************************************************************************)
Busy(x) == x.at \in {"generated", "certified"}

CardOK ==
    /\ DOMAIN card = {"key", "made", "cert", "personalized"} /\ card.made \in Nat
    /\ card.cert # NoCert => card.key # CardKey(0) /\ card.cert = [signer |-> card.cert.signer, over |-> card.key]

ToolsOK ==
    /\ DOMAIN tool = Tools
    /\ \A t \in Tools :
          /\ DOMAIN tool[t] = {"at", "ca", "key"}
          /\ tool[t].at # "idle" => tool[t].ca # NoCa
          /\ Busy(tool[t]) => /\ card.key # CardKey(0) /\ tool[t].key = card.key /\ completed = {}
                              /\ \A u \in Tools : Busy(tool[u]) => u = t

CompletedOK ==
    \A k \in completed :
        k # NoCa /\ card.key # CardKey(0) /\ card.cert = [signer |-> k, over |-> card.key]

PersonalInv == CardOK /\ ToolsOK /\ CompletedOK

LEMMA CertsDiffer ==
    /\ \A k, key : k # NoCa => [signer |-> k, over |-> key] # NoCert
    /\ \A n \in Nat : CardKey(n + 1) # CardKey(0)
<1>1. \A k, key : [signer |-> k, over |-> key].signer = k
  OBVIOUS
<1>2. NoCert.signer = NoCa
  BY DEF NoCert
<1>3. \A n \in Nat : CardKey(n + 1)[2] = n + 1 /\ CardKey(0)[2] = 0
  BY DEF CardKey
<1>4. \A n \in Nat : n + 1 # 0
  OBVIOUS
<1>5. QED
  BY <1>1, <1>2, <1>3, <1>4

\* A step of the tools, the card's owner or the CA.
LEMMA PersonalKeeps ==
    ASSUME PersonalInv, PersonalNext
    PROVE  PersonalInv'
<1>1. CardOK /\ ToolsOK /\ CompletedOK
  BY DEF PersonalInv
<1>2. CASE GenerateCa \/ WriteCaPublicKey
  <2>1. UNCHANGED <<card, tool, completed>>
    BY <1>2 DEF GenerateCa, WriteCaPublicKey
  <2>2. QED
    BY <2>1 DEF PersonalInv, CardOK, ToolsOK, CompletedOK
<1>3. CASE FirstUse
  <2>1. card' = [card EXCEPT !.personalized = TRUE] /\ UNCHANGED <<tool, completed>>
    BY <1>3 DEF FirstUse
  <2>2. /\ DOMAIN card' = DOMAIN card /\ card'.key = card.key /\ card'.made = card.made
        /\ card'.cert = card.cert
    BY <1>1, <2>1 DEF CardOK
  <2>3. QED
    BY <2>1, <2>2 DEF PersonalInv, CardOK, ToolsOK, CompletedOK
<1>4. ASSUME NEW k, NEW c, k # NoCa, c = [signer |-> k, over |-> card.key], card.key # CardKey(0),
             card' = [card EXCEPT !.cert = c], completed' \subseteq {k}
      PROVE  CardOK' /\ CompletedOK' /\ card'.key = card.key
  <2>1. /\ DOMAIN card' = DOMAIN card /\ card'.key = card.key /\ card'.made = card.made
        /\ card'.cert = c
    BY <1>1, <1>4 DEF CardOK
  <2>2. c.signer = k
    BY <1>4
  <2>3. QED
    BY <1>1, <1>4, <2>1, <2>2 DEF CardOK, CompletedOK
<1>5. CASE SignKeyByHand
  <2> DEFINE c == [signer |-> ca.sk, over |-> card.key]
  <2>1. /\ ca.sk # NoCa /\ card.key # CardKey(0)
        /\ card' = [card EXCEPT !.cert = c] /\ UNCHANGED tool
        /\ completed' = IF completed = {} THEN {} ELSE {ca.sk}
    BY <1>5 DEF SignKeyByHand, MfrSetCert
  <2>2. completed' \subseteq {ca.sk} /\ (completed = {} => completed' = {})
    BY <2>1
  <2> HIDE DEF c
  <2>3. CardOK' /\ CompletedOK' /\ card'.key = card.key
    BY <1>4, <2>1, <2>2 DEF c
  <2>4. ToolsOK'
    BY <1>1, <2>1, <2>2, <2>3 DEF ToolsOK
  <2>5. QED
    BY <2>3, <2>4 DEF PersonalInv
<1>6. ASSUME NEW t \in Tools, NEW x, tool' = [tool EXCEPT ![t] = x], DOMAIN x = {"at", "ca", "key"},
             ~ Busy(x), x.at # "idle" => x.ca # NoCa, card' = card,
             completed' = completed \/ Busy(tool[t])
      PROVE  ToolsOK'
  <2>1. /\ DOMAIN tool' = Tools /\ tool'[t] = x
        /\ \A u \in Tools : u # t => tool'[u] = tool[u]
    BY <1>1, <1>6 DEF ToolsOK
  <2>2. ASSUME NEW u \in Tools, Busy(tool'[u])
        PROVE  u # t /\ Busy(tool[u]) /\ completed' = completed
    BY <1>1, <1>6, <2>1, <2>2 DEF ToolsOK
  <2>3. QED
    BY <1>1, <1>6, <2>1, <2>2 DEF ToolsOK
<1>7. ASSUME NEW t \in Tools, PersonalizeStart(t) \/ PersonalizeAbort(t)
      PROVE  PersonalInv'
  <2>1. UNCHANGED <<card, completed>>
    BY <1>7 DEF PersonalizeStart, PersonalizeAbort
  <2>2. PICK x : /\ tool' = [tool EXCEPT ![t] = x] /\ DOMAIN x = {"at", "ca", "key"} /\ ~ Busy(x)
                 /\ x.at # "idle" => x.ca # NoCa
    <3>1. CASE PersonalizeStart(t)
      <4> DEFINE x == [at |-> "selected", ca |-> ca.sk, key |-> CardKey(0)]
      <4>1. tool' = [tool EXCEPT ![t] = x] /\ ca.sk # NoCa
        BY <3>1 DEF PersonalizeStart
      <4>2. DOMAIN x = {"at", "ca", "key"} /\ ~ Busy(x) /\ x.ca = ca.sk
        BY DEF Busy
      <4>3. QED
        BY <4>1, <4>2
    <3>2. CASE PersonalizeAbort(t)
      <4>1. tool' = [tool EXCEPT ![t] = IdleTool]
        BY <3>2 DEF PersonalizeAbort
      <4>2. DOMAIN IdleTool = {"at", "ca", "key"} /\ ~ Busy(IdleTool) /\ IdleTool.at = "idle"
        BY DEF IdleTool, Busy
      <4>3. QED
        BY <4>1, <4>2
    <3>3. QED
      BY <1>7, <3>1, <3>2
  <2>3. ToolsOK'
    BY <1>6, <2>1, <2>2
  <2>4. QED
    BY <1>1, <2>1, <2>3 DEF PersonalInv, CardOK, CompletedOK
<1>8. ASSUME NEW t \in Tools, PersonalizeGenerate(t)
      PROVE  PersonalInv'
  <2> DEFINE k == CardKey(card.made + 1)
             x == [tool[t] EXCEPT !.at = "generated", !.key = k]
  <2>1. /\ tool[t].at = "selected" /\ card.key = CardKey(0) /\ completed' = completed
        /\ card' = [card EXCEPT !.made = @ + 1, !.key = k] /\ tool' = [tool EXCEPT ![t] = x]
    BY <1>8 DEF PersonalizeGenerate, MfrGenerateKey
  <2>2. k # CardKey(0) /\ card.made \in Nat
    BY <1>1, CertsDiffer DEF CardOK
  <2> HIDE DEF k
  <2>3. /\ DOMAIN card' = DOMAIN card /\ card'.key = k /\ card'.made = card.made + 1
        /\ card'.cert = card.cert
    BY <1>1, <2>1 DEF CardOK
  <2>4. /\ DOMAIN x = {"at", "ca", "key"} /\ x.at = "generated" /\ x.ca = tool[t].ca /\ x.key = k
    BY <1>1 DEF ToolsOK
  <2> HIDE DEF x
  <2>5. completed = {} /\ card.cert = NoCert
    BY <1>1, <2>1 DEF CompletedOK, CardOK
  <2>6. \A u \in Tools : ~ Busy(tool[u])
    BY <1>1, <2>1 DEF ToolsOK
  <2>7. /\ DOMAIN tool' = Tools /\ tool'[t] = x
        /\ \A u \in Tools : u # t => tool'[u] = tool[u]
    BY <1>1, <2>1 DEF ToolsOK
  <2>8. ToolsOK'
    BY <1>1, <2>1, <2>2, <2>3, <2>4, <2>5, <2>6, <2>7 DEF ToolsOK
  <2>9. CardOK' /\ CompletedOK'
    BY <1>1, <2>1, <2>2, <2>3, <2>5 DEF CardOK, CompletedOK
  <2>10. QED
    BY <2>8, <2>9 DEF PersonalInv
<1>9. ASSUME NEW t \in Tools, PersonalizeCertify(t)
      PROVE  PersonalInv'
  <2> DEFINE c == [signer |-> tool[t].ca, over |-> tool[t].key]
             x == [tool[t] EXCEPT !.at = "certified"]
  <2>1. /\ tool[t].at = "generated" /\ completed' = completed
        /\ card' = [card EXCEPT !.cert = c] /\ tool' = [tool EXCEPT ![t] = x]
    BY <1>9 DEF PersonalizeCertify
  <2>2. /\ tool[t].key = card.key /\ completed = {} /\ card.key # CardKey(0) /\ tool[t].ca # NoCa
        /\ \A u \in Tools : Busy(tool[u]) => u = t
    BY <1>1, <2>1 DEF ToolsOK, Busy
  <2>3. /\ DOMAIN x = {"at", "ca", "key"} /\ x.at = "certified" /\ x.ca = tool[t].ca
        /\ x.key = tool[t].key
    BY <1>1 DEF ToolsOK
  <2> HIDE DEF c, x
  <2>4. CardOK' /\ CompletedOK' /\ card'.key = card.key
    BY <1>4, <2>1, <2>2 DEF c
  <2>5. /\ DOMAIN tool' = Tools /\ tool'[t] = x
        /\ \A u \in Tools : u # t => tool'[u] = tool[u]
    BY <1>1, <2>1 DEF ToolsOK
  <2>6. ToolsOK'
    BY <1>1, <2>1, <2>2, <2>3, <2>4, <2>5 DEF ToolsOK
  <2>7. QED
    BY <2>4, <2>6 DEF PersonalInv
<1>10. ASSUME NEW t \in Tools, PersonalizeCheck(t)
       PROVE  PersonalInv'
  <2>1. /\ tool[t].at = "certified" /\ tool' = [tool EXCEPT ![t] = IdleTool] /\ card' = card
        /\ completed' = IF VerifyAttestation(tool[t].ca, Sha("random"), MfrAttest(card, Sha("random")))
                        THEN completed \cup {tool[t].ca} ELSE completed
    BY <1>10 DEF PersonalizeCheck
  <2>2. Busy(tool[t]) /\ tool[t].ca # NoCa /\ card.key # CardKey(0)
    BY <1>1, <2>1 DEF ToolsOK, Busy
  <2>3. DOMAIN IdleTool = {"at", "ca", "key"} /\ IdleTool.at = "idle" /\ ~ Busy(IdleTool)
    BY DEF IdleTool, Busy
  <2>4. ToolsOK'
    BY <1>6, <2>1, <2>2, <2>3
  <2>5. VerifyAttestation(tool[t].ca, Sha("random"), MfrAttest(card, Sha("random")))
           => card.cert = [signer |-> tool[t].ca, over |-> card.key]
    BY DEF VerifyAttestation, MfrAttest
  <2>6. CompletedOK'
    BY <1>1, <2>1, <2>2, <2>5 DEF CompletedOK
  <2>7. CardOK'
    BY <1>1, <2>1 DEF CardOK
  <2>8. QED
    BY <2>4, <2>6, <2>7 DEF PersonalInv
<1>11. QED
  BY <1>2, <1>3, <1>5, <1>7, <1>8, <1>9, <1>10 DEF PersonalNext

\* The other steps leave the card alone.
LEMMA PersonalOrNot ==
    ASSUME [Next]_vars
    PROVE  Personal \/ UNCHANGED personalVars
<1>1. CASE ReadOrGenerate \/ WriteGroupKey \/ Crash \/ Start \/ Rest \/ UNCHANGED vars
  BY <1>1 DEF vars, ReadOrGenerate, WriteGroupKey, Crash, Start, Rest
<1>2. ASSUME NEW w, NEW x, InitKeys(w, x) \/ Attest(w, x) \/ Create(w, x)
      PROVE  UNCHANGED personalVars
  BY <1>2 DEF InitKeys, Attest, Create
<1>3. ASSUME NEW w, RegisterWallet(w)
      PROVE  UNCHANGED personalVars
  BY <1>3 DEF RegisterWallet, RegisterWithAttestation
<1>4. ASSUME NEW s, ServiceRegister(s) \/ ServiceCrash(s)
      PROVE  UNCHANGED personalVars
  BY <1>4 DEF ServiceRegister, ServiceCrash
<1>5. QED
  BY <1>1, <1>2, <1>3, <1>4 DEF Next

LEMMA PersonalInitially ==
    ASSUME Init
    PROVE  PersonalInv
<1>1. CardOK
  BY DEF Init, PersonalInit, CardOK
<1>2. ToolsOK
  BY DEF Init, PersonalInit, ToolsOK, IdleTool, Busy
<1>3. CompletedOK
  BY DEF Init, PersonalInit, CompletedOK
<1>4. QED
  BY <1>1, <1>2, <1>3 DEF PersonalInv

LEMMA PersonalStep ==
    ASSUME PersonalInv, [Next]_vars
    PROVE  PersonalInv'
<1>1. CASE Personal
  BY <1>1, PersonalKeeps DEF Personal
<1>2. CASE UNCHANGED personalVars
  BY <1>2 DEF personalVars, PersonalInv, CardOK, ToolsOK, CompletedOK
<1>3. QED
  BY <1>1, <1>2, PersonalOrNot

\* However many runs of card-personalize share a card and wherever they are stopped, a
\* card that was reported complete attests for that CA from then on, as the tool and
\* the registrar check it, or for the CA whose certificate was loaded by hand since.
THEOREM CompletedAlwaysAttest == Spec => []CompletedCardsAttest
<1>1. Init => PersonalInv
  BY PersonalInitially
<1>2. PersonalInv /\ [Next]_vars => PersonalInv'
  BY PersonalStep
<1>3. PersonalInv => CompletedCardsAttest
  <2> SUFFICES ASSUME PersonalInv, NEW k \in completed
               PROVE  LET resp == MfrAttest(card, Challenge("hw", <<>>))
                      IN  /\ VerifyAttestation(k, Challenge("hw", <<>>), resp)
                          /\ VerifyCardP256Attestation("hw", [body |-> resp, key |-> NoBytes], {k}, <<>>).ok
    BY DEF CompletedCardsAttest
  <2>1. card.cert = [signer |-> k, over |-> card.key]
    BY DEF PersonalInv, CompletedOK
  <2>2. QED
    BY <2>1 DEF MfrAttest, VerifyAttestation, VerifyCardP256Attestation, Accepted
<1>4. QED
  BY <1>1, <1>2, <1>3, PTL DEF Spec
-----------------------------------------------------------------------------
(***************************************************************************)
(* Identities.  A pair of key files that is complete is never written      *)
(* again, and only complete pairs are used to issue credentials.           *)
(***************************************************************************)
Tiers == {"Low", "Medium", "High"}

In(x, s) == \E i \in 1 .. Len(s) : s[i] = x
Ordered(x) == In(x, BootOrder)

LEMMA InConcat ==
    ASSUME NEW S, NEW s \in Seq(S), NEW t \in Seq(S)
    PROVE  s \o t \in Seq(S) /\ \A x : In(x, s \o t) <=> In(x, s) \/ In(x, t)
<1>1. /\ s \o t \in Seq(S) /\ Len(s \o t) = Len(s) + Len(t) /\ Len(s) \in Nat /\ Len(t) \in Nat
  OBVIOUS
<1>2. \A i \in 1 .. Len(s) : i \in 1 .. Len(s \o t) /\ (s \o t)[i] = s[i]
  BY <1>1
<1>3. \A i \in 1 .. Len(t) : Len(s) + i \in 1 .. Len(s \o t) /\ (s \o t)[Len(s) + i] = t[i]
  BY <1>1
<1>4. \A i \in 1 .. Len(s \o t) : i \in 1 .. Len(s) \/ \E j \in 1 .. Len(t) : i = Len(s) + j
  <2>1. SUFFICES ASSUME NEW i \in 1 .. Len(s \o t), i \notin 1 .. Len(s)
                 PROVE  \E j \in 1 .. Len(t) : i = Len(s) + j
    OBVIOUS
  <2>2. i - Len(s) \in 1 .. Len(t) /\ i = Len(s) + (i - Len(s))
    BY <1>1, <2>1
  <2>3. QED
    BY <2>2
<1>5. ASSUME NEW x, In(x, s \o t)
      PROVE  In(x, s) \/ In(x, t)
  <2>1. PICK i \in 1 .. Len(s \o t) : (s \o t)[i] = x
    BY <1>5 DEF In
  <2>2. CASE i \in 1 .. Len(s)
    BY <1>2, <2>1, <2>2 DEF In
  <2>3. ASSUME NEW j \in 1 .. Len(t), i = Len(s) + j
        PROVE  In(x, t)
    BY <1>3, <2>1, <2>3 DEF In
  <2>4. QED
    BY <1>4, <2>2, <2>3
<1>6. ASSUME NEW x, In(x, s)
      PROVE  In(x, s \o t)
  BY <1>2, <1>6 DEF In
<1>7. ASSUME NEW x, In(x, t)
      PROVE  In(x, s \o t)
  BY <1>3, <1>7 DEF In
<1>8. QED
  BY <1>1, <1>5, <1>6, <1>7

\* The issuers that are started: the two groups and the tiers that are configured.
LEMMA BootOrderFacts ==
    /\ BootOrder \in Seq(Issuers) /\ Len(BootOrder) \in Nat
    /\ \A i \in 1 .. Len(BootOrder) : BootOrder[i] \in Issuers
    /\ Ordered("nac") /\ Ordered("ttc")
    /\ \A l \in Tiers : Ordered(l) <=> l \in scene.tiers
<1> DEFINE a == <<"nac", "ttc">>
<1>1. a \in Seq(Issuers) /\ In("nac", a) /\ In("ttc", a) /\ \A l \in Tiers : ~ In(l, a)
  <2>1. a \in Seq(Issuers) /\ Len(a) = 2 /\ a[1] = "nac" /\ a[2] = "ttc"
    BY DEF Issuers
  <2>2. \A l \in Tiers : l # "nac" /\ l # "ttc"
    BY DEF Tiers
  <2> HIDE DEF a
  <2>3. QED
    BY <2>1, <2>2 DEF In
<1>2. ASSUME NEW l \in Tiers
      PROVE  IfTier(l) \in Seq(Issuers) /\ \A x : In(x, IfTier(l)) <=> x = l /\ l \in scene.tiers
  <2>1. CASE l \in scene.tiers
    <3>1. IfTier(l) = <<l>> /\ l \in Issuers
      BY <2>1 DEF IfTier, Tiers, Issuers
    <3>2. <<l>> \in Seq(Issuers) /\ Len(<<l>>) = 1 /\ <<l>>[1] = l
      BY <3>1
    <3>3. QED
      BY <2>1, <3>1, <3>2 DEF In
  <2>2. CASE l \notin scene.tiers
    BY <2>2 DEF IfTier, In
  <2>3. QED
    BY <2>1, <2>2
<1> HIDE DEF a
<1> DEFINE b == a \o IfTier("Low")
           c == b \o IfTier("Medium")
           d == c \o IfTier("High")
<1>3. b \in Seq(Issuers) /\ \A x : In(x, b) <=> In(x, a) \/ In(x, IfTier("Low"))
  BY <1>1, <1>2, InConcat DEF Tiers
<1> HIDE DEF b
<1>4. c \in Seq(Issuers) /\ \A x : In(x, c) <=> In(x, b) \/ In(x, IfTier("Medium"))
  BY <1>2, <1>3, InConcat DEF Tiers
<1> HIDE DEF c
<1>5. d \in Seq(Issuers) /\ \A x : In(x, d) <=> In(x, c) \/ In(x, IfTier("High"))
  BY <1>2, <1>4, InConcat DEF Tiers
<1> HIDE DEF d
<1>6. BootOrder = d
  BY DEF BootOrder, a, b, c, d
<1>7. \A x : Ordered(x) <=> In(x, a) \/ (x \in Tiers /\ x \in scene.tiers)
  BY <1>2, <1>3, <1>4, <1>5, <1>6 DEF Ordered, Tiers
<1>8. BootOrder \in Seq(Issuers)
  BY <1>5, <1>6
<1>9. QED
  BY <1>1, <1>7, <1>8

\* Both files of s are there and are the pair that was written.
Complete(f) == f.gpk # NoFile /\ f.sk \in Nat \ {Empty}

FilesOK ==
    /\ scene \in Scenes /\ made \in Nat
    /\ DOMAIN files = Issuers
    /\ \A s \in Issuers :
          /\ DOMAIN files[s] = {"sk", "gpk"}
          /\ files[s].gpk # NoFile => Complete(files[s])
    /\ DOMAIN boot = {"on", "next", "key"} /\ boot.next \in Nat \ {0}
    /\ boot.key # Empty =>
          /\ boot.next <= Len(BootOrder) /\ boot.key \in Nat
          /\ files[BootOrder[boot.next]].sk = boot.key
          /\ files[BootOrder[boot.next]].gpk = NoFile

\* The keys in memory are those of complete pairs, and the issuers before the one that
\* is being started have theirs.
KeysOK ==
    /\ DOMAIN keys = Issuers
    /\ \A s \in Issuers : keys[s].sk # Empty =>
          Ordered(s) /\ Complete(files[s]) /\ keys[s].sk = files[s].sk
    /\ boot.on => \A i \in 1 .. Len(BootOrder) : i < boot.next => keys[BootOrder[i]].sk # Empty

GroupOf(level) == IF level \in scene.tiers THEN level ELSE "nac"

IssuedOK ==
    \A i \in issued :
        /\ i.level \in Tiers
        /\ Complete(files["ttc"]) /\ i.ttcKeys.sk = files["ttc"].sk
        /\ Complete(files[GroupOf(i.level)]) /\ i.nacKeys.sk = files[GroupOf(i.level)].sk

ServiceOK ==
    /\ DOMAIN service = Services
    /\ \A s \in Services :
          /\ DOMAIN service[s] = {"file", "made", "used"}
          /\ service[s].file \in Nat \cup {NoFile} /\ service[s].made \in Nat
          /\ service[s].used \subseteq {service[s].file}
          /\ service[s].file = NoFile => service[s].used = {}

IdentityInv == FilesOK /\ KeysOK /\ IssuedOK /\ ServiceOK

\* What a step does to the key files: complete pairs stay as they are.
CompleteStay == \A s \in Issuers : Complete(files[s]) => files'[s] = files[s]

LEMMA OrderStays ==
    ASSUME scene' = scene
    PROVE  BootOrder' = BootOrder /\ \A s : Ordered(s)' <=> Ordered(s)
<1>1. BootOrder' = BootOrder
  BY DEF BootOrder, IfTier
<1>2. QED
  BY <1>1 DEF Ordered, In

LEMMA IssuedStays ==
    ASSUME IssuedOK, CompleteStay, scene' = scene, issued' = issued
    PROVE  IssuedOK'
<1>1. \A l \in Tiers : GroupOf(l) \in Issuers /\ GroupOf(l)' = GroupOf(l)
  BY DEF GroupOf, Tiers, Issuers
<1>2. "ttc" \in Issuers
  BY DEF Issuers
<1>3. \A s \in Issuers : Complete(files[s]) => Complete(files'[s])
  BY DEF CompleteStay
<1>4. QED
  BY <1>1, <1>2, <1>3 DEF IssuedOK, CompleteStay

\* The start of the registrar, step by step.
LEMMA ReadOrGenerateKeeps ==
    ASSUME IdentityInv, ReadOrGenerate
    PROVE  FilesOK' /\ KeysOK' /\ CompleteStay
<1> DEFINE s == BootOrder[boot.next]
<1>1. FilesOK /\ KeysOK
  BY DEF IdentityInv
<1>2. /\ boot.on /\ boot.next <= Len(BootOrder) /\ boot.key = Empty /\ scene' = scene
  BY DEF ReadOrGenerate
<1>3. /\ s \in Issuers /\ Ordered(s) /\ boot.next \in 1 .. Len(BootOrder)
      /\ BootOrder' = BootOrder /\ \A x : Ordered(x)' <=> Ordered(x)
  BY <1>1, <1>2, BootOrderFacts, OrderStays DEF FilesOK, Ordered, In
<1>4. CASE Loaded(files[s])
  <2>1. /\ keys' = [keys EXCEPT ![s] = files[s]] /\ boot' = [boot EXCEPT !.next = @ + 1]
        /\ UNCHANGED <<files, made>>
    BY <1>4 DEF ReadOrGenerate
  <2> HIDE DEF s
  <2>2. /\ DOMAIN boot' = DOMAIN boot /\ boot'.on = boot.on /\ boot'.key = boot.key
        /\ boot'.next = boot.next + 1
    BY <1>1, <2>1 DEF FilesOK
  <2>3. /\ DOMAIN keys' = Issuers /\ keys'[s] = files[s]
        /\ \A x \in Issuers : x # s => keys'[x] = keys[x]
    BY <1>1, <1>3, <2>1 DEF KeysOK
  <2>4. Complete(files[s])
    BY <1>1, <1>3, <1>4 DEF FilesOK, Loaded
  <2>5. FilesOK'
    BY <1>1, <1>2, <1>3, <2>1, <2>2 DEF FilesOK
  <2>6. \A x \in Issuers : keys'[x].sk # Empty =>
           Ordered(x)' /\ Complete(files'[x]) /\ keys'[x].sk = files'[x].sk
    BY <1>1, <1>3, <2>1, <2>3, <2>4 DEF KeysOK
  <2>7. \A i \in 1 .. Len(BootOrder) : i < boot.next + 1 => keys'[BootOrder[i]].sk # Empty
    <3>1. SUFFICES ASSUME NEW i \in 1 .. Len(BootOrder), i < boot.next + 1
                   PROVE  keys'[BootOrder[i]].sk # Empty
      OBVIOUS
    <3>2. CASE BootOrder[i] = s
      BY <2>3, <2>4, <3>2 DEF Complete
    <3>3. CASE BootOrder[i] # s
      <4>1. i # boot.next /\ i < boot.next
        BY <1>1, <3>1, <3>3, BootOrderFacts DEF s, FilesOK
      <4>2. keys[BootOrder[i]].sk # Empty /\ BootOrder[i] \in Issuers
        BY <1>1, <1>2, <4>1, BootOrderFacts DEF KeysOK
      <4>3. QED
        BY <2>3, <3>3, <4>2
    <3>4. QED
      BY <3>2, <3>3
  <2>8. QED
    BY <1>3, <2>1, <2>2, <2>3, <2>5, <2>6, <2>7 DEF KeysOK, CompleteStay
<1>5. CASE ~ Loaded(files[s]) /\ MayGenerate(files[s])
  <2>1. /\ made' = made + 1 /\ files' = [files EXCEPT ![s].sk = made + 1]
        /\ boot' = [boot EXCEPT !.key = made + 1] /\ keys' = keys
    BY <1>5 DEF ReadOrGenerate
  <2> HIDE DEF s
  <2>2. /\ DOMAIN boot' = DOMAIN boot /\ boot'.on = boot.on /\ boot'.next = boot.next
        /\ boot'.key = made + 1
    BY <1>1, <2>1 DEF FilesOK
  <2>3. /\ DOMAIN files' = Issuers /\ DOMAIN files'[s] = DOMAIN files[s]
        /\ files'[s].sk = made + 1 /\ files'[s].gpk = files[s].gpk
        /\ \A x \in Issuers : x # s => files'[x] = files[x]
    BY <1>1, <1>3, <2>1 DEF FilesOK
  <2>4. files[s].gpk = NoFile
    BY <1>1, <1>3, <1>5, EnrolmentAssumption DEF FilesOK, Loaded, Complete
  <2>5. CompleteStay
    BY <2>3, <2>4 DEF CompleteStay, Complete
  <2>6. FilesOK'
    BY <1>1, <1>2, <1>3, <2>1, <2>2, <2>3, <2>4 DEF FilesOK, s
  <2>7. \A x \in Issuers : keys[x].sk # Empty => x # s /\ files'[x] = files[x]
    BY <1>1, <2>3, <2>4 DEF KeysOK, Complete
  <2>8. QED
    BY <1>1, <1>3, <2>1, <2>2, <2>5, <2>6, <2>7 DEF KeysOK
<1>6. CASE ~ Loaded(files[s]) /\ ~ MayGenerate(files[s])
  <2>1. boot' = [boot EXCEPT !.on = FALSE] /\ UNCHANGED <<keys, files, made>>
    BY <1>6 DEF ReadOrGenerate
  <2> HIDE DEF s
  <2>2. /\ DOMAIN boot' = DOMAIN boot /\ boot'.on = FALSE /\ boot'.next = boot.next
        /\ boot'.key = boot.key
    BY <1>1, <2>1 DEF FilesOK
  <2>3. QED
    BY <1>1, <1>2, <1>3, <2>1, <2>2 DEF FilesOK, KeysOK, CompleteStay
<1>7. QED
  BY <1>4, <1>5, <1>6

LEMMA WriteGroupKeyKeeps ==
    ASSUME IdentityInv, WriteGroupKey
    PROVE  FilesOK' /\ KeysOK' /\ CompleteStay
<1> DEFINE s == BootOrder[boot.next]
<1>1. FilesOK /\ KeysOK
  BY DEF IdentityInv
<1>2. /\ boot.on /\ boot.key # Empty /\ scene' = scene /\ made' = made
      /\ files' = [files EXCEPT ![s].gpk = boot.key]
      /\ keys' = [keys EXCEPT ![s] = GeneratedPair(s)]
      /\ boot' = [boot EXCEPT !.next = @ + 1, !.key = Empty]
  BY DEF WriteGroupKey
<1>3. /\ boot.next \in 1 .. Len(BootOrder) /\ boot.key \in Nat \ {Empty}
      /\ files[s].sk = boot.key /\ files[s].gpk = NoFile
  BY <1>1, <1>2, BootOrderFacts DEF FilesOK
<1>4. /\ s \in Issuers /\ Ordered(s)
      /\ BootOrder' = BootOrder /\ \A x : Ordered(x)' <=> Ordered(x)
  BY <1>2, <1>3, BootOrderFacts, OrderStays DEF Ordered, In
<1>5. GeneratedPair(s).sk = boot.key
  BY DEF GeneratedPair
<1> HIDE DEF s
<1>6. /\ DOMAIN boot' = DOMAIN boot /\ boot'.on = boot.on /\ boot'.key = Empty
      /\ boot'.next = boot.next + 1
  BY <1>1, <1>2 DEF FilesOK
<1>7. /\ DOMAIN files' = Issuers /\ DOMAIN files'[s] = DOMAIN files[s]
      /\ files'[s].sk = boot.key /\ files'[s].gpk = boot.key
      /\ \A x \in Issuers : x # s => files'[x] = files[x]
  BY <1>1, <1>2, <1>3, <1>4 DEF FilesOK
<1>8. /\ DOMAIN keys' = Issuers /\ keys'[s].sk = boot.key
      /\ \A x \in Issuers : x # s => keys'[x] = keys[x]
  BY <1>1, <1>2, <1>4, <1>5 DEF KeysOK
<1>9. Complete(files'[s])
  BY <1>3, <1>7, EnrolmentAssumption DEF Complete
<1>10. FilesOK'
  BY <1>1, <1>2, <1>3, <1>4, <1>6, <1>7, <1>9 DEF FilesOK
<1>11. CompleteStay
  BY <1>3, <1>7 DEF CompleteStay, Complete
<1>12. \A x \in Issuers : keys'[x].sk # Empty =>
           Ordered(x)' /\ Complete(files'[x]) /\ keys'[x].sk = files'[x].sk
  BY <1>1, <1>4, <1>7, <1>8, <1>9 DEF KeysOK
<1>13. ASSUME NEW i \in 1 .. Len(BootOrder), i < boot.next + 1
       PROVE  keys'[BootOrder[i]].sk # Empty
  <2>1. CASE BootOrder[i] = s
    BY <1>3, <1>8, <2>1
  <2>2. CASE BootOrder[i] # s
    <3>1. i < boot.next
      BY <1>3, <1>13, <2>2, BootOrderFacts DEF s
    <3>2. keys[BootOrder[i]].sk # Empty /\ BootOrder[i] \in Issuers
      BY <1>1, <1>2, <3>1, BootOrderFacts DEF KeysOK
    <3>3. QED
      BY <1>8, <2>2, <3>2
  <2>3. QED
    BY <2>1, <2>2
<1>14. QED
  BY <1>4, <1>6, <1>8, <1>10, <1>11, <1>12, <1>13 DEF KeysOK

LEMMA CrashKeeps ==
    ASSUME IdentityInv, Crash
    PROVE  FilesOK' /\ KeysOK' /\ CompleteStay
<1> DEFINE s == BootOrder[boot.next]
<1>1. FilesOK /\ KeysOK
  BY DEF IdentityInv
<1>2. /\ scene' = scene /\ made' = made /\ boot' = [on |-> FALSE, next |-> 1, key |-> Empty]
      /\ keys' = [x \in Issuers |-> NoPair] /\ files' \in TornFiles
  BY DEF Crash
<1>3. /\ DOMAIN boot' = DOMAIN boot /\ boot'.on = FALSE /\ boot'.next = 1 /\ boot'.key = Empty
  BY <1>1, <1>2 DEF FilesOK
<1>4. /\ DOMAIN keys' = Issuers /\ \A x \in Issuers : keys'[x].sk = Empty
  BY <1>2 DEF NoPair
<1>5. \/ files' = files
      \/ /\ boot.key # Empty
         /\ files' = [files EXCEPT ![s].gpk = Empty] \/ files' = [files EXCEPT ![s].sk = Empty]
  BY <1>2 DEF TornFiles
<1>6. CASE files' = files
  BY <1>1, <1>2, <1>3, <1>4, <1>6 DEF FilesOK, KeysOK, CompleteStay
<1>7. CASE boot.key # Empty /\ files' = [files EXCEPT ![s].gpk = Empty]
  <2>1. s \in Issuers /\ files[s].sk = boot.key /\ boot.key \in Nat \ {Empty} /\ files[s].gpk = NoFile
    BY <1>1, <1>7, BootOrderFacts DEF FilesOK
  <2> HIDE DEF s
  <2>2. /\ DOMAIN files' = Issuers /\ DOMAIN files'[s] = DOMAIN files[s]
        /\ files'[s].sk = boot.key
        /\ \A x \in Issuers : x # s => files'[x] = files[x]
    BY <1>1, <1>7, <2>1 DEF FilesOK
  <2>3. files'[s].gpk = Empty /\ Empty # NoFile
    BY <1>1, <1>7, <2>1, EnrolmentAssumption DEF FilesOK, Empty
  <2>4. Complete(files'[s])
    BY <2>1, <2>2, <2>3 DEF Complete
  <2>5. QED
    BY <1>1, <1>2, <1>3, <1>4, <2>1, <2>2, <2>4 DEF FilesOK, KeysOK, CompleteStay, Complete
<1>8. CASE boot.key # Empty /\ files' = [files EXCEPT ![s].sk = Empty]
  <2>1. s \in Issuers /\ files[s].gpk = NoFile
    BY <1>1, <1>8, BootOrderFacts DEF FilesOK
  <2> HIDE DEF s
  <2>2. /\ DOMAIN files' = Issuers /\ DOMAIN files'[s] = DOMAIN files[s]
        /\ files'[s].gpk = NoFile
        /\ \A x \in Issuers : x # s => files'[x] = files[x]
    BY <1>1, <1>8, <2>1 DEF FilesOK
  <2>3. QED
    BY <1>1, <1>2, <1>3, <1>4, <2>1, <2>2 DEF FilesOK, KeysOK, CompleteStay, Complete
<1>9. QED
  BY <1>5, <1>6, <1>7, <1>8

LEMMA StartKeeps ==
    ASSUME IdentityInv, Start
    PROVE  FilesOK' /\ KeysOK' /\ CompleteStay
<1>1. FilesOK /\ KeysOK
  BY DEF IdentityInv
<1>2. /\ boot' = [on |-> TRUE, next |-> 1, key |-> Empty] /\ UNCHANGED <<scene, files, keys, made>>
  BY DEF Start
<1>3. /\ DOMAIN boot' = DOMAIN boot /\ boot'.next = 1 /\ boot'.key = Empty
  BY <1>1, <1>2 DEF FilesOK
<1>4. BootOrder' = BootOrder /\ \A x : Ordered(x)' <=> Ordered(x)
  BY <1>2, OrderStays
<1>5. FilesOK'
  BY <1>1, <1>2, <1>3 DEF FilesOK
<1>6. QED
  BY <1>1, <1>2, <1>3, <1>4, <1>5 DEF KeysOK, CompleteStay

\* What the registrar issues is of the groups it has on file.
IssuedOf(r) ==
    /\ r.level \in Tiers
    /\ Complete(files["ttc"]) /\ r.ttcKeys.sk = files["ttc"].sk
    /\ Complete(files[GroupOf(r.level)]) /\ r.nacKeys.sk = files[GroupOf(r.level)].sk

LEMMA VerdictLevel ==
    ASSUME NEW hw, NEW sig, NEW nac, NEW ttc
    PROVE  VerifyAnyAttestation(hw, sig, <<nac, ttc>>).level \in {"Low", "Medium"}
<1>1. Refused.level = "Low" /\ \A n : Accepted(n).level = "Medium"
  BY DEF Refused, Accepted
<1>2. \A x : [ok |-> TRUE, level |-> "Low", nonce |-> x].level = "Low"
  OBVIOUS
<1>3. VerifyAndroidAttestation(hw, sig, Roots, <<nac, ttc>>).level \in {"Low", "Medium"}
  BY <1>1, <1>2 DEF VerifyAndroidAttestation
<1>4. VerifyIosAttestation(hw, sig, AppId, Roots, <<nac, ttc>>).level \in {"Low", "Medium"}
  BY <1>1, <1>2 DEF VerifyIosAttestation
<1>5. VerifyCardP256Attestation(hw, sig, CardCas, <<nac, ttc>>).level \in {"Low", "Medium"}
  BY <1>1, <1>2 DEF VerifyCardP256Attestation
<1>6. QED
  BY <1>1, <1>2, <1>3, <1>4, <1>5 DEF VerifyAnyAttestation

LEMMA RegisterCallIssues ==
    ASSUME IdentityInv, Up, NEW hw, NEW sig, NEW nac, NEW ttc, NEW proof,
           RegisterCall(hw, sig, nac, ttc, proof).error = "none"
    PROVE  IssuedOf(RegisterCall(hw, sig, nac, ttc, proof))
<1> DEFINE att == VerifyAnyAttestation(hw, sig, <<nac, ttc>>)
           level == EffectiveLevel(att, proof)
           r == RegisterCall(hw, sig, nac, ttc, proof)
<1>1. FilesOK /\ KeysOK
  BY DEF IdentityInv
<1>2. level \in Tiers
  <2>1. att.level \in {"Low", "Medium"}
    BY VerdictLevel
  <2> HIDE DEF att
  <2>2. QED
    BY <2>1 DEF EffectiveLevel, Tiers
<1>3. /\ r.level = level /\ r.nacKeys = NacKeysForLevel(level) /\ r.ttcKeys = keys["ttc"]
      /\ r.error = IF ~ att.ok THEN "InvalidHwidSignature"
                   ELSE IF ~ IssueCredential(nac, NacKeysForLevel(level).sk, ttc)
                   THEN "InvalidNetworkCredentialRequest"
                   ELSE IF ~ IssueCredential(ttc, keys["ttc"].sk, att.nonce)
                   THEN "InvalidTokenCredentialRequest" ELSE "none"
  BY DEF RegisterCall
<1> HIDE DEF att, level, r
<1>4. NacKeysForLevel(level).sk # Empty /\ keys["ttc"].sk # Empty
  <2>1. r.error = "none"
    BY DEF r
  <2>2. /\ "InvalidHwidSignature" # "none" /\ "InvalidNetworkCredentialRequest" # "none"
        /\ "InvalidTokenCredentialRequest" # "none"
    OBVIOUS
  <2>3. QED
    BY <1>3, <2>1, <2>2 DEF IssueCredential
<1>5. level \in Issuers /\ "ttc" \in Issuers /\ "nac" \in Issuers
  BY <1>2 DEF Tiers, Issuers
<1>6. Complete(files["ttc"]) /\ keys["ttc"].sk = files["ttc"].sk
  BY <1>1, <1>4, <1>5 DEF KeysOK
<1>7. CASE keys[level].sk # Empty
  <2>1. Ordered(level) /\ Complete(files[level]) /\ keys[level].sk = files[level].sk
    BY <1>1, <1>5, <1>7 DEF KeysOK
  <2>2. GroupOf(level) = level
    BY <1>2, <2>1, BootOrderFacts DEF GroupOf
  <2>3. QED
    BY <1>2, <1>3, <1>6, <1>7, <2>1, <2>2 DEF IssuedOf, NacKeysForLevel, r
<1>8. CASE keys[level].sk = Empty
  <2>1. ~ Ordered(level)
    <3>1. \A i \in 1 .. Len(BootOrder) : keys[BootOrder[i]].sk # Empty
      BY <1>1, BootOrderFacts DEF KeysOK, FilesOK, Up
    <3>2. QED
      BY <1>8, <3>1 DEF Ordered, In
  <2>2. GroupOf(level) = "nac"
    BY <1>2, <2>1, BootOrderFacts DEF GroupOf
  <2>3. Complete(files["nac"]) /\ keys["nac"].sk = files["nac"].sk
    BY <1>1, <1>4, <1>5, <1>8 DEF KeysOK, NacKeysForLevel
  <2>4. QED
    BY <1>2, <1>3, <1>6, <1>8, <2>2, <2>3 DEF IssuedOf, NacKeysForLevel, r
<1>9. QED
  BY <1>7, <1>8

\* A step that may issue a credential leaves the registrar's keys alone.
LEMMA IssueKeeps ==
    ASSUME IdentityInv, NEW r, r.error = "none" => IssuedOf(r),
           UNCHANGED <<scene, files, boot, keys, made>>,
           issued' = IF r.error = "none" THEN issued \cup {r} ELSE issued
    PROVE  FilesOK' /\ KeysOK' /\ IssuedOK'
<1>1. BootOrder' = BootOrder /\ \A x : Ordered(x)' <=> Ordered(x)
  BY OrderStays
<1>2. FilesOK' /\ KeysOK'
  BY <1>1 DEF IdentityInv, FilesOK, KeysOK
<1>3. \A i \in issued' : IssuedOf(i)
  BY DEF IdentityInv, IssuedOK, IssuedOf
<1>4. \A l : GroupOf(l)' = GroupOf(l)
  BY DEF GroupOf
<1>5. IssuedOK'
  BY <1>3, <1>4 DEF IssuedOK, IssuedOf
<1>6. QED
  BY <1>2, <1>5

LEMMA RegistrationKeeps ==
    ASSUME IdentityInv, NEW w, RegisterWallet(w) \/ \E rest \in BOOLEAN : Create(w, rest)
    PROVE  IdentityInv'
<1>1. PICK r : /\ r.error = "none" => IssuedOf(r)
               /\ issued' = IF r.error = "none" THEN issued \cup {r} ELSE issued
               /\ UNCHANGED <<scene, files, boot, keys, made, service>>
  <2>1. ASSUME NEW from, NEW proof, NEW rest, RegisterWithAttestation(w, from, proof, rest)
        PROVE  \E r : /\ r.error = "none" => IssuedOf(r)
                      /\ issued' = IF r.error = "none" THEN issued \cup {r} ELSE issued
                      /\ UNCHANGED <<scene, files, boot, keys, made, service>>
    <3> DEFINE sig == IF from = "nobody" THEN NoEvidence ELSE evidence[from]
               r == RegisterCall(HwId(w), sig, wallet[w].keys.nac, wallet[w].keys.ttc, proof)
    <3>1. /\ Up /\ issued' = (IF r.error = "none" THEN issued \cup {r} ELSE issued)
          /\ UNCHANGED <<scene, files, boot, keys, made, service>>
      BY <2>1 DEF RegisterWithAttestation, InitializeCredential, Issue
    <3>2. r.error = "none" => IssuedOf(r)
      BY <3>1, RegisterCallIssues
    <3> HIDE DEF r
    <3>3. QED
      BY <3>1, <3>2
  <2>2. ASSUME NEW rest, Create(w, rest)
        PROVE  \E r : /\ r.error = "none" => IssuedOf(r)
                      /\ issued' = IF r.error = "none" THEN issued \cup {r} ELSE issued
                      /\ UNCHANGED <<scene, files, boot, keys, made, service>>
    <3> DEFINE ks == InitializeKeys(w, HwId(w), wallet[w].keys.gen + 1)
               r == RegisterCall(HwId(w), NoEvidence, ks.nac, ks.ttc, <<>>)
    <3>1. /\ Up /\ issued' = (IF r.error = "none" THEN issued \cup {r} ELSE issued)
          /\ UNCHANGED <<scene, files, boot, keys, made, service>>
      BY <2>2 DEF Create, InitializeCredential, Issue
    <3> HIDE DEF ks
    <3>2. r.error = "none" => IssuedOf(r)
      BY <3>1, RegisterCallIssues
    <3> HIDE DEF r
    <3>3. QED
      BY <3>1, <3>2
  <2>3. QED
    BY <2>1, <2>2 DEF RegisterWallet
<1>2. FilesOK' /\ KeysOK' /\ IssuedOK'
  BY <1>1, IssueKeeps
<1>3. ServiceOK'
  BY <1>1 DEF IdentityInv, ServiceOK
<1>4. QED
  BY <1>2, <1>3 DEF IdentityInv

LEMMA ServiceKeeps ==
    ASSUME IdentityInv, NEW s \in Services, ServiceRegister(s) \/ ServiceCrash(s)
    PROVE  IdentityInv'
<1>1. ServiceOK /\ IssuedOK
  BY DEF IdentityInv
<1>2. CASE ServiceRegister(s)
  <2> DEFINE n == LoadOrCreateState(s)
             pk == [who |-> s, gen |-> n, nonce |-> <<"nonce", n>>]
             r == RegisterCall(<<"service", n>>, NoEvidence, pk, pk, <<>>)
  <2>1. /\ n # Empty
        /\ service' = [service EXCEPT ![s].file = n,
                          ![s].made = IF n > @ THEN n ELSE @,
                          ![s].used = IF Up THEN @ \cup {n} ELSE @]
        /\ issued' = (IF Up /\ r.error = "none" THEN issued \cup {r} ELSE issued)
        /\ UNCHANGED <<scene, files, boot, keys, made>>
    BY <1>2 DEF ServiceRegister
  <2>2. Up /\ r.error = "none" => IssuedOf(r)
    BY RegisterCallIssues
  <2>3. n \in Nat /\ (service[s].file # NoFile => n = service[s].file)
    BY <1>1 DEF LoadOrCreateState, ServiceOK
  <2> HIDE DEF n, r
  <2>4. /\ DOMAIN service' = Services /\ DOMAIN service'[s] = DOMAIN service[s]
        /\ service'[s].file = n /\ service'[s].used \subseteq service[s].used \cup {n}
        /\ service'[s].made = IF n > service[s].made THEN n ELSE service[s].made
        /\ \A x \in Services : x # s => service'[x] = service[x]
    BY <1>1, <2>1 DEF ServiceOK
  <2>5. service'[s].used \subseteq {n} /\ service'[s].made \in Nat /\ n # NoFile
    BY <1>1, <2>3, <2>4, EnrolmentAssumption DEF ServiceOK
  <2>6. ServiceOK'
    BY <1>1, <2>3, <2>4, <2>5 DEF ServiceOK
  <2>7. CASE Up
    <3>1. FilesOK' /\ KeysOK' /\ IssuedOK'
      BY <2>1, <2>2, <2>7, IssueKeeps
    <3>2. QED
      BY <2>6, <3>1 DEF IdentityInv
  <2>8. CASE ~ Up
    <3>1. CompleteStay /\ issued' = issued
      BY <2>1, <2>8 DEF CompleteStay
    <3>2. BootOrder' = BootOrder /\ \A x : Ordered(x)' <=> Ordered(x)
      BY <2>1, OrderStays
    <3>3. FilesOK' /\ KeysOK'
      BY <2>1, <3>2 DEF IdentityInv, FilesOK, KeysOK
    <3>4. QED
      BY <1>1, <2>1, <2>6, <3>1, <3>3, IssuedStays DEF IdentityInv
  <2>9. QED
    BY <2>7, <2>8
<1>3. CASE ServiceCrash(s)
  <2>1. /\ service[s].file = NoFile /\ service' = [service EXCEPT ![s].file = Empty]
        /\ UNCHANGED <<scene, files, boot, keys, made, issued>>
    BY <1>3 DEF ServiceCrash
  <2>2. /\ DOMAIN service' = Services /\ DOMAIN service'[s] = DOMAIN service[s]
        /\ service'[s].file = Empty /\ service'[s].used = service[s].used
        /\ service'[s].made = service[s].made
        /\ \A x \in Services : x # s => service'[x] = service[x]
    BY <1>1, <2>1 DEF ServiceOK
  <2>3. Empty \in Nat
    BY DEF Empty
  <2>4. ServiceOK'
    BY <1>1, <2>1, <2>2, <2>3 DEF ServiceOK
  <2>5. BootOrder' = BootOrder /\ \A x : Ordered(x)' <=> Ordered(x)
    BY <2>1, OrderStays
  <2>6. FilesOK' /\ KeysOK' /\ CompleteStay
    BY <2>1, <2>5 DEF IdentityInv, FilesOK, KeysOK, CompleteStay
  <2>7. QED
    BY <1>1, <2>1, <2>4, <2>6, IssuedStays DEF IdentityInv
<1>4. QED
  BY <1>2, <1>3

\* The steps that neither touch the keys nor issue anything.
LEMMA OthersKeep ==
    ASSUME IdentityInv, UNCHANGED <<scene, files, boot, keys, made, issued, service>>
    PROVE  IdentityInv'
<1>1. BootOrder' = BootOrder /\ (\A x : Ordered(x)' <=> Ordered(x)) /\ CompleteStay
  BY OrderStays DEF CompleteStay
<1>2. FilesOK' /\ KeysOK' /\ ServiceOK'
  BY <1>1 DEF IdentityInv, FilesOK, KeysOK, ServiceOK
<1>3. QED
  BY <1>1, <1>2, IssuedStays DEF IdentityInv

LEMMA IdentityInit ==
    ASSUME Init
    PROVE  IdentityInv
<1> DEFINE order == BootOrder
           of(s) == CHOOSE i \in 1 .. Len(order) : order[i] = s
           pair(s) == IF s \in ToSet(order) THEN [sk |-> of(s), gpk |-> of(s)] ELSE NoPair
           none == [sk |-> NoFile, gpk |-> NoFile]
<1>1. /\ scene \in Scenes
      /\ files = [s \in Issuers |-> IF scene.running /\ s \in ToSet(order) THEN pair(s) ELSE none]
      /\ keys = [s \in Issuers |-> IF scene.running THEN pair(s) ELSE NoPair]
      /\ boot = [on |-> scene.running, key |-> Empty,
                 next |-> IF scene.running THEN Len(order) + 1 ELSE 1]
      /\ made = IF scene.running THEN Len(order) ELSE 0
      /\ issued = {} /\ service = [s \in Services |-> [file |-> NoFile, made |-> 0, used |-> {}]]
  BY DEF Init
<1>2. \A s : s \in ToSet(order) <=> Ordered(s)
  BY BootOrderFacts DEF ToSet, Ordered, In
<1>3. ASSUME NEW s, Ordered(s)
      PROVE  of(s) \in 1 .. Len(order) /\ pair(s) = [sk |-> of(s), gpk |-> of(s)]
  <2>1. \E i \in 1 .. Len(order) : order[i] = s
    BY <1>3 DEF Ordered, In
  <2>2. of(s) \in 1 .. Len(order)
    BY <2>1
  <2>3. QED
    BY <1>2, <1>3, <2>2
<1> HIDE DEF of
<1>4. ASSUME NEW s \in Issuers
      PROVE  /\ DOMAIN files[s] = {"sk", "gpk"}
             /\ files[s].gpk # NoFile => Complete(files[s])
             /\ keys[s].sk # Empty => Ordered(s) /\ Complete(files[s]) /\ keys[s].sk = files[s].sk
             /\ scene.running /\ Ordered(s) => keys[s].sk # Empty
  <2>1. CASE scene.running /\ Ordered(s)
    <3>1. files[s] = [sk |-> of(s), gpk |-> of(s)] /\ keys[s] = [sk |-> of(s), gpk |-> of(s)]
      BY <1>1, <1>2, <1>3, <2>1
    <3>2. of(s) \in Nat \ {Empty} /\ of(s) # NoFile
      <4>1. of(s) \in 1 .. Len(order)
        BY <1>3, <2>1
      <4>2. NoFile \notin Nat /\ Len(order) \in Nat
        BY BootOrderFacts, EnrolmentAssumption
      <4>3. QED
        BY <4>1, <4>2 DEF Empty
    <3>3. QED
      BY <2>1, <3>1, <3>2 DEF Complete
  <2>2. CASE ~ (scene.running /\ Ordered(s))
    <3>1. files[s] = none /\ keys[s] = NoPair
      BY <1>1, <1>2, <2>2
    <3>2. QED
      BY <2>2, <3>1 DEF NoPair
  <2>3. QED
    BY <2>1, <2>2
<1>5. FilesOK
  <2>1. /\ DOMAIN boot = {"on", "next", "key"} /\ boot.next \in Nat \ {0} /\ boot.key = Empty
        /\ made \in Nat /\ DOMAIN files = Issuers
    BY <1>1, BootOrderFacts
  <2>2. QED
    BY <1>1, <1>4, <2>1 DEF FilesOK
<1>6. KeysOK
  <2>1. DOMAIN keys = Issuers /\ boot.on = scene.running
    BY <1>1
  <2>2. boot.on => \A i \in 1 .. Len(BootOrder) : keys[BootOrder[i]].sk # Empty
    BY <1>4, <2>1, BootOrderFacts DEF Ordered, In
  <2>3. QED
    BY <1>4, <2>1, <2>2 DEF KeysOK
<1>7. IssuedOK /\ ServiceOK
  BY <1>1 DEF IssuedOK, ServiceOK
<1>8. QED
  BY <1>5, <1>6, <1>7 DEF IdentityInv

THEOREM IdentityInvHolds == Spec => []IdentityInv
<1>1. Init => IdentityInv
  BY IdentityInit
<1>2. IdentityInv /\ [Next]_vars => IdentityInv'
  <2> SUFFICES ASSUME IdentityInv, [Next]_vars PROVE IdentityInv'
    OBVIOUS
  <2>1. ASSUME ReadOrGenerate \/ WriteGroupKey \/ Crash \/ Start
        PROVE  IdentityInv'
    <3>1. UNCHANGED <<scene, issued, service>>
      BY <2>1 DEF ReadOrGenerate, WriteGroupKey, Crash, Start
    <3>2. FilesOK' /\ KeysOK' /\ CompleteStay
      BY <2>1, ReadOrGenerateKeeps, WriteGroupKeyKeeps, CrashKeeps, StartKeeps
    <3>3. QED
      BY <3>1, <3>2, IssuedStays DEF IdentityInv, ServiceOK
  <2>2. ASSUME Personal \/ Rest \/ UNCHANGED vars
        PROVE  IdentityInv'
    BY <2>2, OthersKeep DEF Personal, Rest, vars, enrolVars
  <2>3. ASSUME NEW w, NEW x, InitKeys(w, x) \/ Attest(w, x)
        PROVE  IdentityInv'
    BY <2>3, OthersKeep DEF InitKeys, Attest
  <2>4. QED
    BY <2>1, <2>2, <2>3, RegistrationKeeps, ServiceKeeps DEF Next
<1>3. QED
  BY <1>1, <1>2, PTL DEF Spec

\* However often the registrar and the services are stopped, in the middle of a write
\* or between two, a level's wallets are always put in one NAC group and all wallets in
\* one TTC group, and a service registers under one identity.
THEOREM IdentitiesAlwaysStable == Spec => []IdentitiesAreStable
<1>1. IdentityInv => IdentitiesAreStable
  <2> SUFFICES ASSUME IdentityInv PROVE IdentitiesAreStable
    OBVIOUS
  <2>1. GroupsAreStable
    BY DEF IdentityInv, IssuedOK, GroupsAreStable
  <2>2. ASSUME NEW s \in Services
        PROVE  Cardinality(service[s].used) <= 1
    <3>1. service[s].used \in SUBSET {service[s].file}
      BY DEF IdentityInv, ServiceOK
    <3>2. IsFiniteSet({service[s].file}) /\ Cardinality({service[s].file}) = 1
      BY FS_Singleton
    <3>3. QED
      BY <3>1, <3>2, FS_Subset
  <2>3. QED
    BY <2>1, <2>2 DEF IdentitiesAreStable, ServiceIdentityStable
<1>2. QED
  BY <1>1, IdentityInvHolds, PTL
-----------------------------------------------------------------------------
(***************************************************************************)
(* Evidence.  An attestation convinces the registrar for one hw_id and one *)
(* pair of keys only: those that the wallet had when its hardware made it. *)
(* What follows up to CardEvidence is about single attestations, damaged   *)
(* or not, and any hw_id and keys they are presented for.                  *)
(***************************************************************************)
LEMMA ShaIsInjective == \A x, y : Sha(x) = Sha(y) => x = y
<1>1. \A x : Sha(x)[2] = x
  BY DEF Sha
<1>2. QED
  BY <1>1

LEMMA Concats ==
    ASSUME NEW a, NEW b, NEW c, NEW d
    PROVE  /\ <<a>> \o <<c, d>> = <<a, c, d>>
           /\ <<a>> \o <<>> \o <<c, d>> = <<a, c, d>>
           /\ <<a>> \o <<b>> \o <<c, d>> = <<a, b, c, d>>
           /\ <<a, b>> \o <<c, d>> = <<a, b, c, d>>
<1> DEFINE S == {a, b, c, d}
<1>1. ASSUME NEW s \in Seq(S), NEW x \in S, NEW y \in S, Len(s) \in {1, 2}
      PROVE  /\ s \o <<x, y>> \in Seq(S) /\ Len(s \o <<x, y>>) = Len(s) + 2
             /\ \A i \in 1 .. Len(s) : (s \o <<x, y>>)[i] = s[i]
             /\ (s \o <<x, y>>)[Len(s) + 1] = x /\ (s \o <<x, y>>)[Len(s) + 2] = y
  <2>1. <<x, y>> \in Seq(S) /\ Len(<<x, y>>) = 2 /\ <<x, y>>[1] = x /\ <<x, y>>[2] = y
    OBVIOUS
  <2> DEFINE t == <<x, y>>
  <2> HIDE DEF t, S
  <2>2. /\ s \o t \in Seq(S) /\ Len(s \o t) = Len(s) + 2
        /\ \A i \in 1 .. Len(s) + 2 : (s \o t)[i] = IF i <= Len(s) THEN s[i] ELSE t[i - Len(s)]
    BY <2>1, ConcatProperties DEF t
  <2>3. Len(s) \in Nat
    OBVIOUS
  <2>4. QED
    BY <1>1, <2>1, <2>2, <2>3 DEF t
<1>2. <<a>> \in Seq(S) /\ Len(<<a>>) = 1 /\ <<a>>[1] = a
  OBVIOUS
<1>3. <<a, b>> \in Seq(S) /\ Len(<<a, b>>) = 2 /\ <<a, b>>[1] = a /\ <<a, b>>[2] = b
  OBVIOUS
<1>4. /\ <<a, c, d>> \in Seq(S) /\ Len(<<a, c, d>>) = 3
      /\ <<a, c, d>>[1] = a /\ <<a, c, d>>[2] = c /\ <<a, c, d>>[3] = d
  OBVIOUS
<1>5. /\ <<a, b, c, d>> \in Seq(S) /\ Len(<<a, b, c, d>>) = 4
      /\ <<a, b, c, d>>[1] = a /\ <<a, b, c, d>>[2] = b /\ <<a, b, c, d>>[3] = c
      /\ <<a, b, c, d>>[4] = d
  OBVIOUS
<1>6. <<a>> \o <<>> = <<a>>
  BY <1>2, ConcatEmptySeq
<1>7. <<a>> \o <<b>> = <<a, b>>
  <2> DEFINE s == <<a>> \o <<b>>
  <2>1. s \in Seq(S) /\ Len(s) = 2 /\ s[1] = a /\ s[2] = b
    OBVIOUS
  <2> HIDE DEF s, S
  <2>2. s = <<a, b>>
    BY <1>3, <2>1, SeqEqual
  <2>3. QED
    BY <2>2 DEF s
<1>8. <<a>> \o <<c, d>> = <<a, c, d>>
  <2> DEFINE s == <<a>> \o <<c, d>>
  <2>1. s \in Seq(S) /\ Len(s) = 3 /\ s[1] = a /\ s[2] = c /\ s[3] = d
    BY <1>1, <1>2
  <2> HIDE DEF s, S
  <2>2. s = <<a, c, d>>
    BY <1>4, <2>1, SeqEqual
  <2>3. QED
    BY <2>2 DEF s
<1>9. <<a, b>> \o <<c, d>> = <<a, b, c, d>>
  <2> DEFINE s == <<a, b>> \o <<c, d>>
  <2>1. s \in Seq(S) /\ Len(s) = 4 /\ s[1] = a /\ s[2] = b /\ s[3] = c /\ s[4] = d
    BY <1>1, <1>3
  <2> HIDE DEF s, S
  <2>2. s = <<a, b, c, d>>
    BY <1>5, <2>1, SeqEqual
  <2>3. QED
    BY <2>2 DEF s
<1>10. QED
  BY <1>6, <1>7, <1>8, <1>9

Root == [subject |-> "root", issuer |-> "root", alg |-> "ecdsa", signer |-> "root", ext |-> NoExt]

\* The leaf carries the extension; a root of one's own is not the configured one.
LEMMA ChainShape ==
    ASSUME NEW damage, NEW alg, NEW ext
    PROVE  LET certs == Chain(damage, alg, ext)
           IN  /\ certs # <<>>
               /\ certs[1].ext = IF damage = "extension" THEN NoExt ELSE ext
               /\ damage = "root" => ~ RootTrusted(certs, {Root})
<1> DEFINE leaf == [subject |-> "leaf", issuer |-> IF damage = "link" THEN "other" ELSE "middle",
                 alg |-> IF damage = "unsigned" THEN "rsa" ELSE "ecdsa",
                 signer |-> IF damage \in {"signature", "unsigned"} THEN "other" ELSE "middle",
                 ext |-> IF damage = "extension" THEN NoExt ELSE ext]
           last == [subject |-> "root", issuer |-> "root", alg |-> "ecdsa", signer |-> "other",
                    ext |-> NoExt]
<1>1. leaf.ext = IF damage = "extension" THEN NoExt ELSE ext
  OBVIOUS
<1>2. Chain(damage, alg, ext)[1] = leaf
  BY DEF Chain
<1>3. Chain(damage, alg, ext) # <<>>
  BY DEF Chain
<1>4. ASSUME damage = "root"
      PROVE  ~ RootTrusted(Chain(damage, alg, ext), {Root})
  <2>1. Len(Chain(damage, alg, ext)) = 3 /\ Chain(damage, alg, ext)[3] = last
    BY <1>4 DEF Chain
  <2>2. last.signer # Root.signer /\ last \notin {Root}
    BY DEF Root
  <2> HIDE DEF last
  <2>3. QED
    BY <2>1, <2>2 DEF RootTrusted
<1>5. QED
  BY <1>1, <1>2, <1>3, <1>4

LEMMA UndamagedChain ==
    ASSUME NEW alg, NEW ext, NEW roots, roots \in {{}, {Root}}
    PROVE  LET certs == Chain("none", alg, ext)
           IN  Len(certs) = 3 /\ ChainHolds(certs) /\ RootTrusted(certs, roots)
<1> DEFINE leaf == [subject |-> "leaf", issuer |-> "middle", alg |-> "ecdsa", signer |-> "middle",
                    ext |-> ext]
           middle == [subject |-> "middle", issuer |-> "root", alg |-> alg, signer |-> "root",
                   ext |-> NoExt]
           certs == Chain("none", alg, ext)
<1>1. certs = <<leaf, middle, Root>>
  BY DEF Chain, Root
<1>2. Len(certs) = 3 /\ certs[1] = leaf /\ certs[2] = middle /\ certs[3] = Root
  BY <1>1
<1> HIDE DEF certs
<1>3. VerifyCertSignature(leaf, middle) /\ VerifyCertSignature(middle, Root)
  BY DEF VerifyCertSignature, Root
<1>4. leaf.issuer = middle.subject /\ middle.issuer = Root.subject
  BY DEF Root
<1> HIDE DEF leaf, middle
<1>5. ChainHolds(certs)
  BY <1>2, <1>3, <1>4 DEF ChainHolds
<1>6. RootTrusted(certs, roots)
  BY <1>2 DEF RootTrusted
<1>7. QED
  BY <1>2, <1>5, <1>6 DEF certs

Entry(k, t, v) == [key |-> k, type |-> t, value |-> v]

\* find_cbor_...: the only entry with the key.
LEMMA FindsEntry ==
    ASSUME NEW m, NEW key, NEW type, Len(m) \in Nat, NEW i \in 1 .. Len(m),
           m[i].key = key, \A j \in 1 .. Len(m) : m[j].key = key => j = i
    PROVE  /\ m[i].type = type => FindCbor(m, key, type) = [found |-> TRUE, value |-> m[i].value]
           /\ m[i].type # type => FindCbor(m, key, type) = [found |-> FALSE]
<1> DEFINE I == {j \in 1 .. Len(m) : m[j].key = key /\ m[j].type = type}
           k == IF I # {} THEN Min(I) ELSE 0
<1>1. FindCbor(m, key, type) = IF k = 0 THEN [found |-> FALSE] ELSE [found |-> TRUE, value |-> m[k].value]
  BY DEF FindCbor, SelectInSeq
<1>2. I = IF m[i].type = type THEN {i} ELSE {}
  OBVIOUS
<1>3. Min({i}) = i /\ i # 0
  BY DEF Min
<1>4. k = IF m[i].type = type THEN i ELSE 0
  BY <1>2, <1>3
<1> HIDE DEF k
<1>5. CASE m[i].type = type
  BY <1>1, <1>3, <1>4, <1>5, Zenon
<1>6. CASE m[i].type # type
  BY <1>1, <1>4, <1>6, Zenon
<1>7. QED
  BY <1>5, <1>6

LEMMA Preimages ==
    /\ \A hw, nac, ttc : Challenge(hw, <<nac, ttc>>) = Sha(<<hw, nac, ttc>>)
    /\ \A hw, nac, ttc : <<hw>> \o <<>> \o <<nac, ttc>> = <<hw, nac, ttc>>
    /\ \A hw, key, nac, ttc : /\ <<hw, key>> \o <<nac, ttc>> = <<hw, key, nac, ttc>>
                              /\ <<hw>> \o <<key>> \o <<nac, ttc>> = <<hw, key, nac, ttc>>
BY Concats, Zenon DEF Challenge

LEMMA VerdictShape ==
    /\ ~ Refused.ok /\ \A n : Accepted(n).ok /\ Accepted(n).nonce = n /\ Accepted(n).level = "Medium"
    /\ Refused.level = "Low"
BY DEF Refused, Accepted

\* An Android attestation is good for one hw_id and one pair of keys only, and it is
\* good for those if it arrives undamaged.
Claimed(kit, damage) == IF damage \in MadeUp THEN 2 ELSE kit.level
AndroidBody(v, kit, damage, n, t) ==
    [truncated |-> damage = "truncated",
     certs |-> Chain(damage, kit.chain,
         [level |-> Claimed(kit, damage), challenge |-> Sha(<<HwId(v), n, t>>), uid |-> kit.uid])]

AndroidBinds(sig, v, kit, damage, n, t) ==
    \A roots \in {{}, {Root}} : \A hw, nac, ttc :
        VerifyAndroidAttestation(hw, sig, roots, <<nac, ttc>>).ok =>
            /\ hw = HwId(v) /\ nac = n /\ ttc = t
            /\ Claimed(kit, damage) \in {1, 2} /\ (damage = "root" => roots = {})
AndroidConvinces(sig, v, kit, n, t) ==
    \A roots \in {{}, {Root}} :
        VerifyAndroidAttestation(HwId(v), sig, roots, <<n, t>>) =
            Accepted(IF kit.uid = NoBytes THEN Sha(<<HwId(v), sig.key>>) ELSE Sha(kit.uid))

LEMMA AndroidEvidence ==
    ASSUME NEW v, NEW kit, NEW damage, NEW n, NEW t, NEW sig,
           sig.body = AndroidBody(v, kit, damage, n, t)
    PROVE  /\ AndroidBinds(sig, v, kit, damage, n, t)
           /\ damage = "none" /\ kit.level \in {1, 2} => AndroidConvinces(sig, v, kit, n, t)
<1> DEFINE level == Claimed(kit, damage)
           ext == [level |-> level, challenge |-> Sha(<<HwId(v), n, t>>), uid |-> kit.uid]
           chain == Chain(damage, kit.chain, ext)
           certs == ParseCertChain(sig.body)
           desc == ParseAndroidKeyDescription(certs[1].ext)
           holds(hw, roots, nac, ttc) ==
               /\ Len(certs) >= 2 /\ ChainHolds(certs) /\ RootTrusted(certs, roots)
               /\ certs[1].ext # NoExt /\ desc.challenge = Challenge(hw, <<nac, ttc>>) /\ desc.level # 0
<1>1. /\ sig.body.truncated = (damage = "truncated") /\ sig.body.certs = chain
  BY DEF AndroidBody
<1>2. certs = IF damage = "truncated" THEN <<>> ELSE chain
  BY <1>1 DEF ParseCertChain
<1> HIDE DEF level, ext
<1>3. /\ chain[1].ext = IF damage = "extension" THEN NoExt ELSE ext
      /\ damage = "root" => ~ RootTrusted(chain, {Root})
  BY ChainShape
<1> USE DEF ext
<1>4. /\ ext # NoExt
      /\ ParseAndroidKeyDescription(ext).challenge = Sha(<<HwId(v), n, t>>)
      /\ ParseAndroidKeyDescription(ext).uid = kit.uid
      /\ ParseAndroidKeyDescription(ext).level = IF level \in {1, 2} THEN level ELSE 0
  <2>1. "level" \in DOMAIN ext /\ "level" \notin DOMAIN NoExt
    BY DEF NoExt
  <2>2. QED
    BY <2>1 DEF ParseAndroidKeyDescription
<1>5. \A hw, roots, nac, ttc : VerifyAndroidAttestation(hw, sig, roots, <<nac, ttc>>) =
         IF holds(hw, roots, nac, ttc) THEN Accepted(AndroidNonce(hw, sig, desc)) ELSE Refused
  BY DEF VerifyAndroidAttestation
<1> HIDE DEF ext, chain
<1>6. ASSUME NEW roots \in {{}, {Root}}, NEW hw, NEW nac, NEW ttc, holds(hw, roots, nac, ttc)
      PROVE  /\ hw = HwId(v) /\ nac = n /\ ttc = t
             /\ level \in {1, 2} /\ (damage = "root" => roots = {})
  <2>1. Len(<<>>) = 0 /\ ~ (0 >= 2)
    OBVIOUS
  <2>2. certs = chain
    BY <1>2, <1>6, <2>1
  <2>3. certs[1].ext = ext
    BY <1>3, <1>6, <2>2
  <2>4. /\ Sha(<<HwId(v), n, t>>) = Challenge(hw, <<nac, ttc>>)
        /\ (IF level \in {1, 2} THEN level ELSE 0) # 0
    BY <1>4, <1>6, <2>3
  <2>5. <<HwId(v), n, t>> = <<hw, nac, ttc>>
    <3>1. Challenge(hw, <<nac, ttc>>) = Sha(<<hw, nac, ttc>>)
      BY Preimages
    <3>2. QED
      BY <2>4, <3>1, ShaIsInjective
  <2>6. damage = "root" => roots = {}
    BY <1>3, <1>6, <2>2
  <2>7. QED
    BY <2>4, <2>5, <2>6
<1>7. ASSUME damage = "none", kit.level \in {1, 2}, NEW roots \in {{}, {Root}}
      PROVE  /\ holds(HwId(v), roots, n, t)
             /\ AndroidNonce(HwId(v), sig, desc) =
                   IF kit.uid = NoBytes THEN Sha(<<HwId(v), sig.key>>) ELSE Sha(kit.uid)
  <2>1. "none" # "truncated" /\ "none" # "extension" /\ level = kit.level
    BY <1>7 DEF level, Claimed, MadeUp
  <2>2. certs = chain /\ certs[1].ext = ext
    BY <1>2, <1>3, <1>7, <2>1
  <2>3. Len(chain) = 3 /\ ChainHolds(chain) /\ RootTrusted(chain, roots)
    BY <1>7, UndamagedChain DEF chain
  <2>4. desc.challenge = Challenge(HwId(v), <<n, t>>) /\ desc.level # 0 /\ desc.uid = kit.uid
    BY <1>4, <1>7, <2>1, <2>2, Preimages
  <2>5. 3 >= 2
    OBVIOUS
  <2> HIDE DEF certs, desc
  <2>6. QED
    BY <1>4, <2>2, <2>3, <2>4, <2>5 DEF AndroidNonce
<1> HIDE DEF holds
<1>8. AndroidBinds(sig, v, kit, damage, n, t)
  <2>1. SUFFICES ASSUME NEW roots \in {{}, {Root}}, NEW hw, NEW nac, NEW ttc,
                        VerifyAndroidAttestation(hw, sig, roots, <<nac, ttc>>).ok
                 PROVE  /\ hw = HwId(v) /\ nac = n /\ ttc = t
                        /\ level \in {1, 2} /\ (damage = "root" => roots = {})
    BY DEF AndroidBinds, level
  <2>2. holds(hw, roots, nac, ttc)
    BY <1>5, <2>1, VerdictShape
  <2>3. QED
    BY <1>6, <2>2
<1>9. damage = "none" /\ kit.level \in {1, 2} => AndroidConvinces(sig, v, kit, n, t)
  BY <1>5, <1>7 DEF AndroidConvinces
<1>10. QED
  BY <1>8, <1>9

\* The same for an iOS attestation.
IosAuth(damage) ==
    [short |-> damage = "short", rpId |-> Sha(IF damage = "link" THEN "other" ELSE AppId)]
IosBody(v, kit, damage, key, n, t) ==
    [map |-> <<Entry("fmt", "text", "apple-appattest"),
               Entry("authData", IF damage = "truncated" THEN "text" ELSE "bytes", IosAuth(damage)),
               Entry("attStmt", "map",
                   <<Entry("x5c", "array",
                       Chain(damage, kit.chain,
                          Sha(<<IosAuth(damage), Sha(<<HwId(v), key, n, t>>)>>)))>>)>>]

IosBinds(sig, v, damage, n, t) ==
    \A roots \in {{}, {Root}} : \A hw, nac, ttc :
        VerifyIosAttestation(hw, sig, AppId, roots, <<nac, ttc>>).ok =>
            hw = HwId(v) /\ nac = n /\ ttc = t /\ (damage = "root" => roots = {})
IosConvinces(sig, v, n, t) ==
    \A roots \in {{}, {Root}} :
        VerifyIosAttestation(HwId(v), sig, AppId, roots, <<n, t>>) = Accepted(Sha(sig.key))

LEMMA IosEvidence ==
    ASSUME NEW v, NEW kit, NEW damage, NEW n, NEW t, NEW sig,
           sig.body = IosBody(v, kit, damage, sig.key, n, t)
    PROVE  /\ IosBinds(sig, v, damage, n, t)
           /\ damage = "none" /\ sig.key # NoBytes => IosConvinces(sig, v, n, t)
<1> DEFINE auth == IosAuth(damage)
           ext == Sha(<<auth, Sha(<<HwId(v), sig.key, n, t>>)>>)
           chain == Chain(damage, kit.chain, ext)
           body == sig.body.map
           authType == IF damage = "truncated" THEN "text" ELSE "bytes"
           inner == <<Entry("x5c", "array", chain)>>
           fmt == FindCbor(body, "fmt", "text")
           stmt == FindCbor(body, "attStmt", "map")
           found == FindCbor(body, "authData", "bytes")
           x5c == FindCbor(stmt.value, "x5c", "array")
           holds(hw, roots, nac, ttc) ==
               /\ fmt.found /\ fmt.value = "apple-appattest" /\ stmt.found /\ found.found
               /\ x5c.found /\ x5c.value # <<>>
               /\ ChainHolds(x5c.value) /\ RootTrusted(x5c.value, roots)
               /\ x5c.value[1].ext # NoExt
               /\ x5c.value[1].ext = Sha(<<found.value, Sha(<<hw, sig.key>> \o <<nac, ttc>>)>>)
               /\ ~ found.value.short /\ found.value.rpId = Sha(AppId)
<1>1. /\ Len(body) = 3 /\ body[1] = Entry("fmt", "text", "apple-appattest")
      /\ body[2] = Entry("authData", authType, auth) /\ body[3] = Entry("attStmt", "map", inner)
  BY DEF IosBody
<1>2. /\ body[1].key = "fmt" /\ body[1].type = "text" /\ body[1].value = "apple-appattest"
      /\ body[2].key = "authData" /\ body[2].type = authType /\ body[2].value = auth
      /\ body[3].key = "attStmt" /\ body[3].type = "map" /\ body[3].value = inner
  BY <1>1 DEF Entry
<1>3. Len(inner) = 1 /\ inner[1].key = "x5c" /\ inner[1].type = "array" /\ inner[1].value = chain
  BY DEF Entry
<1>4. \A hw, roots, nac, ttc : VerifyIosAttestation(hw, sig, AppId, roots, <<nac, ttc>>) =
         IF ~ holds(hw, roots, nac, ttc) THEN Refused
         ELSE Accepted(IF sig.key = NoBytes THEN Sha(hw) ELSE Sha(sig.key))
  BY DEF VerifyIosAttestation
<1>5. /\ chain # <<>> /\ chain[1].ext = IF damage = "extension" THEN NoExt ELSE ext
      /\ damage = "root" => ~ RootTrusted(chain, {Root})
  BY ChainShape
<1> HIDE DEF body, inner, authType, chain, ext
<1>6. fmt.found /\ fmt.value = "apple-appattest"
  <2>1. \A j \in 1 .. Len(body) : body[j].key = "fmt" => j = 1
    BY <1>1, <1>2
  <2>2. Len(body) \in Nat /\ 1 \in 1 .. Len(body)
    BY <1>1
  <2>3. FindCbor(body, "fmt", "text") = [found |-> TRUE, value |-> body[1].value]
    BY <1>2, <2>1, <2>2, FindsEntry
  <2>4. QED
    BY <1>2, <2>3
<1>7. stmt.found /\ stmt.value = inner
  <2>1. \A j \in 1 .. Len(body) : body[j].key = "attStmt" => j = 3
    BY <1>1, <1>2
  <2>2. Len(body) \in Nat /\ 3 \in 1 .. Len(body)
    BY <1>1
  <2>3. FindCbor(body, "attStmt", "map") = [found |-> TRUE, value |-> body[3].value]
    BY <1>2, <2>1, <2>2, FindsEntry
  <2>4. QED
    BY <1>2, <2>3
<1>8. found = IF authType = "bytes" THEN [found |-> TRUE, value |-> auth] ELSE [found |-> FALSE]
  <2>1. \A j \in 1 .. Len(body) : body[j].key = "authData" => j = 2
    BY <1>1, <1>2
  <2>2. Len(body) \in Nat /\ 2 \in 1 .. Len(body)
    BY <1>1
  <2>3. QED
    BY <1>1, <1>2, <2>1, <2>2, FindsEntry
<1>9. x5c.found /\ x5c.value = chain
  <2>1. \A j \in 1 .. Len(inner) : inner[j].key = "x5c" => j = 1
    BY <1>3
  <2>2. Len(inner) \in Nat /\ 1 \in 1 .. Len(inner)
    BY <1>3
  <2>3. FindCbor(inner, "x5c", "array") = [found |-> TRUE, value |-> inner[1].value]
    <3>1. inner[1].key = "x5c" /\ inner[1].type = "array"
      BY <1>3
    <3>2. QED
      BY <2>1, <2>2, <3>1, FindsEntry
  <2>4. x5c = FindCbor(inner, "x5c", "array")
    BY <1>7
  <2>5. QED
    BY <1>3, <2>3, <2>4
<1> HIDE DEF fmt, stmt, found, x5c
<1>10. ext # NoExt
  BY DEF ext, NoExt, Sha
<1>11. x5c.value = chain /\ x5c.found /\ fmt.found /\ fmt.value = "apple-appattest" /\ stmt.found
  BY <1>6, <1>7, <1>9
<1>12. ASSUME NEW roots \in {{}, {Root}}, NEW hw, NEW nac, NEW ttc, holds(hw, roots, nac, ttc)
       PROVE  hw = HwId(v) /\ nac = n /\ ttc = t /\ (damage = "root" => roots = {})
  <2>1. chain[1].ext = ext /\ found.found
    BY <1>5, <1>11, <1>12
  <2>2. found.value = auth
    BY <1>8, <2>1
  <2>3. ext = Sha(<<auth, Sha(<<hw, sig.key, nac, ttc>>)>>)
    <3>1. <<hw, sig.key>> \o <<nac, ttc>> = <<hw, sig.key, nac, ttc>>
      BY Preimages
    <3>2. ext = Sha(<<auth, Sha(<<hw, sig.key>> \o <<nac, ttc>>)>>)
      BY <1>11, <1>12, <2>1, <2>2
    <3>3. QED
      BY <3>1, <3>2
  <2>4. <<auth, Sha(<<HwId(v), sig.key, n, t>>)>> = <<auth, Sha(<<hw, sig.key, nac, ttc>>)>>
    BY <2>3, ShaIsInjective DEF ext
  <2>5. <<HwId(v), sig.key, n, t>> = <<hw, sig.key, nac, ttc>>
    BY <2>4, ShaIsInjective
  <2>6. damage = "root" => roots = {}
    BY <1>5, <1>11, <1>12
  <2>7. QED
    BY <2>5, <2>6
<1>13. ASSUME damage = "none", NEW roots \in {{}, {Root}}
       PROVE  holds(HwId(v), roots, n, t)
  <2>1. "none" # "truncated" /\ "none" # "extension" /\ "none" # "short" /\ "none" # "link"
    OBVIOUS
  <2>2. found.found /\ found.value = auth
    BY <1>8, <1>13, <2>1 DEF authType
  <2>3. ~ auth.short /\ auth.rpId = Sha(AppId)
    BY <1>13, <2>1 DEF IosAuth
  <2>4. Len(chain) = 3 /\ ChainHolds(chain) /\ RootTrusted(chain, roots)
    BY <1>13, UndamagedChain DEF chain
  <2>5. chain[1].ext = ext /\ ext = Sha(<<auth, Sha(<<HwId(v), sig.key>> \o <<n, t>>)>>)
    <3>1. <<HwId(v), sig.key>> \o <<n, t>> = <<HwId(v), sig.key, n, t>>
      BY Preimages
    <3>2. QED
      BY <1>5, <1>13, <2>1, <3>1 DEF ext
  <2>6. QED
    BY <1>5, <1>10, <1>11, <2>2, <2>3, <2>4, <2>5
<1> HIDE DEF holds
<1>14. IosBinds(sig, v, damage, n, t)
  BY <1>4, <1>12, VerdictShape DEF IosBinds
<1>15. damage = "none" /\ sig.key # NoBytes => IosConvinces(sig, v, n, t)
  BY <1>4, <1>13 DEF IosConvinces
<1>16. QED
  BY <1>14, <1>15

\* The same for a card's.
CardBody(key, cert, short, digest) ==
    [short |-> short, sig |-> [signer |-> key, over |-> digest], cert |-> cert, pubkey |-> key]

CardBinds(sig, v, n, t) ==
    \A hw, cas, nac, ttc : VerifyCardP256Attestation(hw, sig, cas, <<nac, ttc>>).ok =>
        /\ hw = HwId(v) /\ nac = n /\ ttc = t
        /\ sig.body.cert.signer = NoCa /\ NoCa \notin cas => cas = {}
CardConvinces(sig, v, n, t, key, cert) ==
    \A cas : cas = {} \/ cert.signer \in cas =>
        VerifyCardP256Attestation(HwId(v), sig, cas, <<n, t>>) = Accepted(Sha(key))

LEMMA CardEvidence ==
    ASSUME NEW v, NEW n, NEW t, NEW sig, NEW cert, NEW key, NEW short, NEW digest,
           sig.body = CardBody(key, cert, short, digest)
    PROVE  /\ digest \in {Sha(<<HwId(v), n, t>>), Sha(<<>>)} => CardBinds(sig, v, n, t)
           /\ digest = Sha(<<HwId(v), n, t>>) /\ short = FALSE
              /\ cert = [signer |-> cert.signer, over |-> key] => CardConvinces(sig, v, n, t, key, cert)
<1> DEFINE holds(hw, cas, nac, ttc) ==
               /\ ~ sig.body.short
               /\ sig.body.sig = [signer |-> sig.body.pubkey, over |-> Challenge(hw, <<nac, ttc>>)]
               /\ cas = {} \/ \E k \in cas : sig.body.cert = [signer |-> k, over |-> sig.body.pubkey]
<1>1. /\ sig.body.short = short /\ sig.body.sig = [signer |-> key, over |-> digest]
      /\ sig.body.cert = cert /\ sig.body.pubkey = key
  BY DEF CardBody
<1>2. \A hw, cas, nac, ttc : VerifyCardP256Attestation(hw, sig, cas, <<nac, ttc>>) =
         IF holds(hw, cas, nac, ttc) THEN Accepted(Sha(key)) ELSE Refused
  BY <1>1 DEF VerifyCardP256Attestation
<1>3. ASSUME digest \in {Sha(<<HwId(v), n, t>>), Sha(<<>>)}, NEW hw, NEW cas, NEW nac, NEW ttc,
             holds(hw, cas, nac, ttc)
      PROVE  /\ hw = HwId(v) /\ nac = n /\ ttc = t
             /\ sig.body.cert.signer = NoCa /\ NoCa \notin cas => cas = {}
  <2>1. digest = Sha(<<hw, nac, ttc>>)
    <3>1. [signer |-> key, over |-> digest].over = [signer |-> key, over |-> Challenge(hw, <<nac, ttc>>)].over
      BY <1>1, <1>3
    <3>2. QED
      BY <3>1, Preimages
  <2>2. <<hw, nac, ttc>> # <<>>
    OBVIOUS
  <2>3. <<hw, nac, ttc>> = <<HwId(v), n, t>>
    BY <1>3, <2>1, <2>2, ShaIsInjective
  <2>4. ASSUME cas # {}
        PROVE  sig.body.cert.signer \in cas
    <3>1. PICK k \in cas : sig.body.cert = [signer |-> k, over |-> sig.body.pubkey]
      BY <1>3, <2>4
    <3>2. sig.body.cert.signer = k
      BY <3>1
    <3>3. QED
      BY <3>2
  <2>5. QED
    BY <2>3, <2>4
<1>4. ASSUME digest = Sha(<<HwId(v), n, t>>), short = FALSE, cert = [signer |-> cert.signer, over |-> key],
             NEW cas, cas = {} \/ cert.signer \in cas
      PROVE  holds(HwId(v), cas, n, t)
  BY <1>1, <1>4, Preimages
<1> HIDE DEF holds
<1>5. digest \in {Sha(<<HwId(v), n, t>>), Sha(<<>>)} => CardBinds(sig, v, n, t)
  BY <1>2, <1>3, VerdictShape DEF CardBinds
<1>6. ASSUME digest = Sha(<<HwId(v), n, t>>), short = FALSE, cert = [signer |-> cert.signer, over |-> key]
      PROVE  CardConvinces(sig, v, n, t, key, cert)
  BY <1>2, <1>4, <1>6 DEF CardConvinces
<1>7. QED
  BY <1>5, <1>6
-----------------------------------------------------------------------------
\* The verdict on evidence of some kind, for any configuration of trusted keys.
Kinds == {"android", "ios", "card"}
Checked(hw, sig, roots, cas, pks) ==
    CASE sig.alg = "android" -> VerifyAndroidAttestation(hw, sig, roots, pks)
      [] sig.alg = "ios" -> VerifyIosAttestation(hw, sig, AppId, roots, pks)
      [] OTHER -> VerifyCardP256Attestation(hw, sig, cas, pks)

NonceFrom(v, kit, key) ==
    CASE kit.alg = "android" -> IF kit.uid = NoBytes THEN Sha(<<HwId(v), key>>) ELSE Sha(kit.uid)
      [] kit.alg = "none" -> HwId(v)
      [] OTHER -> Sha(key)

KeyOf(v, kit, cardKey) == IF kit.alg = "card" THEN cardKey ELSE <<"hwkey", v>>

LEMMA HardwareDerives ==
    ASSUME NEW v, NEW kit
    PROVE  /\ HardwareKey(v, kit) = KeyOf(v, kit, card.key)
           /\ DerivedNonce(v, kit) = NonceFrom(v, kit, KeyOf(v, kit, card.key))
BY DEF HardwareKey, KeyOf, DerivedNonce, NonceFrom

KeysOf(v, ks) == ks.ttc.who = v /\ ks.ttc.gen = ks.gen /\ ks.nac.nonce = ks.ttc

\* Evidence that a root of its own or no hardware is behind is told apart as far as the
\* trusted keys go.
Binds(e, v, kit, ks) ==
    \A roots \in {{}, {Root}} : \A hw, cas, nac, ttc :
        NoCa \notin cas /\ Checked(hw, e, roots, cas, <<nac, ttc>>).ok =>
            /\ hw = HwId(v) /\ nac = ks.nac /\ ttc = ks.ttc
            /\ e.damage \notin MadeUp => kit.level \in {1, 2}
            /\ e.damage = "root" => (IF e.alg = "card" THEN cas ELSE roots) = {}

Convinces(e, v, kit, ks) ==
    e.damage = "none" /\ kit.level \in {1, 2} =>
        \A roots \in {{}, {Root}} : \A cas :
            (e.alg = "card" => cas = {} \/ e.body.cert.signer \in cas) =>
                Checked(HwId(v), e, roots, cas, <<ks.nac, ks.ttc>>) = Accepted(NonceFrom(v, kit, e.key))

\* The evidence e of wallet v is about keys that v had, and still has if it has not
\* made new ones.
Shown(e, v, wl) ==
    \E ks : /\ KeysOf(v, ks) /\ ks.gen = e.gen
            /\ wl.keys.gen = e.gen => wl.keys.nac = ks.nac /\ wl.keys.ttc = ks.ttc
            /\ Binds(e, v, wl.kit, ks) /\ Convinces(e, v, wl.kit, ks)

WalletOK ==
    /\ scene \in Scenes /\ DOMAIN wallet = Wallets
    /\ \A w \in Wallets :
          /\ DOMAIN wallet[w] = {"client", "cred", "keys", "kit", "attested"}
          /\ wallet[w].kit = scene.kits[w] /\ wallet[w].keys.gen \in Nat
          /\ wallet[w].keys.gen > 0 => KeysOf(w, wallet[w].keys)
          /\ wallet[w].client = "aware" =>
                /\ wallet[w].keys.gen > 0
                /\ wallet[w].keys.ttc.nonce =
                      NonceFrom(w, wallet[w].kit, KeyOf(w, wallet[w].kit, card.key))
                /\ wallet[w].kit.alg = "card" => card.key # CardKey(0)

EvidenceOK ==
    /\ DOMAIN evidence = Wallets
    /\ \A v \in Wallets : evidence[v].alg # "none" =>
          /\ evidence[v].alg = wallet[v].kit.alg
          /\ evidence[v].key = KeyOf(v, wallet[v].kit, card.key)
          /\ wallet[v].kit.alg = "card" => card.key # CardKey(0)
          /\ evidence[v].gen \in wallet[v].attested
          /\ evidence[v].gen \in Nat /\ evidence[v].gen <= wallet[v].keys.gen
          /\ Shown(evidence[v], v, wallet[v])

\* A credential above Low is for keys of a wallet that its evidence was made for.
Earned(i) ==
    i.level # "Low" =>
        /\ i.ttc.who \in Wallets /\ i.hw = HwId(i.ttc.who)
        /\ i.ttc.gen \in wallet[i.ttc.who].attested /\ i.nac.nonce = i.ttc
        /\ i.damage \notin MadeUp => wallet[i.ttc.who].kit.level \in {1, 2}
        /\ i.damage = "root" => ~ i.anchored

EvidenceInv ==
    WalletOK /\ EvidenceOK /\ (\A i \in issued : Earned(i)) /\ GenuineEvidenceAccepted

\* A key that the card has is there to stay.
KeyStays == card.key # CardKey(0) => card'.key = card.key

LEMMA CardKeyStays ==
    ASSUME PersonalInv, [Next]_vars
    PROVE  KeyStays
<1>1. CASE UNCHANGED personalVars
  BY <1>1 DEF personalVars, KeyStays
<1>2. CASE PersonalNext
  <2>1. CASE GenerateCa \/ WriteCaPublicKey
    BY <2>1 DEF GenerateCa, WriteCaPublicKey, KeyStays
  <2>2. CASE SignKeyByHand \/ FirstUse
    BY <2>2 DEF SignKeyByHand, FirstUse, KeyStays, PersonalInv, CardOK
  <2>3. ASSUME NEW t \in Tools, PersonalizeStart(t) \/ PersonalizeGenerate(t) \/ PersonalizeCertify(t)
                              \/ PersonalizeCheck(t) \/ PersonalizeAbort(t)
        PROVE  KeyStays
    BY <2>3 DEF PersonalizeStart, PersonalizeGenerate, PersonalizeCertify, PersonalizeCheck,
                PersonalizeAbort, MfrGenerateKey, KeyStays, PersonalInv, CardOK
  <2>4. QED
    BY <1>2, <2>1, <2>2, <2>3 DEF PersonalNext
<1>3. QED
  BY <1>1, <1>2, PersonalOrNot DEF Personal

\* What the hardware makes of a challenge binds it to the keys of the wallet.
LEMMA AttestShows ==
    ASSUME PersonalInv, WalletOK, EvidenceOK, NEW v \in Wallets, NEW damage, Attest(v, damage)
    PROVE  /\ evidence'[v].alg = wallet[v].kit.alg /\ evidence'[v].damage = damage
           /\ evidence'[v].key = HardwareKey(v, wallet[v].kit)
           /\ evidence'[v].gen = wallet[v].keys.gen
           /\ wallet[v].kit.alg = "card" => card.key # CardKey(0)
           /\ Binds(evidence'[v], v, wallet[v].kit, wallet[v].keys)
           /\ Convinces(evidence'[v], v, wallet[v].kit, wallet[v].keys)
<1> DEFINE kit == wallet[v].kit
           ks == wallet[v].keys
           e == evidence'[v]
           key == HardwareKey(v, kit)
<1>1. /\ e.alg = kit.alg /\ e.damage = damage /\ e.key = key /\ e.gen = ks.gen
      /\ e.body = AttestationBody(kit, damage, AttestationChallengePreimage(v))
  BY DEF Attest, EvidenceOK
<1>2. /\ kit.alg # "none" /\ (kit.alg = "card" => card.cert # NoCert)
      /\ damage \notin MadeUp /\ kit.alg = "ios" => kit.level \in {1, 2}
  BY DEF Attest
<1>3. /\ kit.alg \in Kinds
      /\ damage \notin MadeUp /\ kit.alg \in {"ios", "card"} => kit.level \in {1, 2}
  BY <1>2, EnrolmentAssumption DEF WalletOK, Kinds
<1>4. kit.alg = "card" =>
         card.key # CardKey(0) /\ card.cert = [signer |-> card.cert.signer, over |-> card.key]
  BY <1>2 DEF PersonalInv, CardOK
<1>5. AttestationChallengePreimage(v) = IF kit.alg = "ios" THEN <<HwId(v), key, ks.nac, ks.ttc>>
                                        ELSE <<HwId(v), ks.nac, ks.ttc>>
  <2>1. CASE kit.alg = "ios"
    <3>1. AttestationChallengePreimage(v) = <<HwId(v)>> \o <<key>> \o <<ks.nac, ks.ttc>>
      BY <2>1 DEF AttestationChallengePreimage
    <3>2. QED
      BY <2>1, <3>1, Preimages
  <2>2. CASE kit.alg # "ios"
    <3>1. AttestationChallengePreimage(v) = <<HwId(v)>> \o <<>> \o <<ks.nac, ks.ttc>>
      BY <2>2 DEF AttestationChallengePreimage
    <3>2. QED
      BY <2>2, <3>1, Preimages
  <2>3. QED
    BY <2>1, <2>2
<1> DEFINE pre == <<HwId(v), ks.nac, ks.ttc>>
<1> HIDE DEF e, ks, kit, key
<1>6. CASE kit.alg = "android"
  <2>1. e.body = AndroidBody(v, kit, damage, ks.nac, ks.ttc)
    BY <1>1, <1>5, <1>6 DEF AttestationBody, AndroidBody, Claimed
  <2>2. \A hw, roots, cas, pks : Checked(hw, e, roots, cas, pks) = VerifyAndroidAttestation(hw, e, roots, pks)
    BY <1>1, <1>6 DEF Checked
  <2>3. /\ AndroidBinds(e, v, kit, damage, ks.nac, ks.ttc)
        /\ damage = "none" /\ kit.level \in {1, 2} => AndroidConvinces(e, v, kit, ks.nac, ks.ttc)
    BY <2>1, AndroidEvidence
  <2>4. Binds(e, v, kit, ks)
    BY <1>1, <1>6, <2>2, <2>3 DEF Binds, AndroidBinds, Claimed
  <2>5. NonceFrom(v, kit, e.key) = IF kit.uid = NoBytes THEN Sha(<<HwId(v), e.key>>) ELSE Sha(kit.uid)
    BY <1>6 DEF NonceFrom
  <2>6. Convinces(e, v, kit, ks)
    BY <1>1, <2>2, <2>3, <2>5 DEF Convinces, AndroidConvinces
  <2>7. QED
    BY <1>1, <1>4, <2>4, <2>6 DEF e, ks, kit, key
<1>7. CASE kit.alg = "ios"
  <2>1. e.body = IosBody(v, kit, damage, e.key, ks.nac, ks.ttc)
    BY <1>1, <1>5, <1>7 DEF AttestationBody, Entry, IosBody, IosAuth
  <2>2. \A hw, roots, cas, pks :
           Checked(hw, e, roots, cas, pks) = VerifyIosAttestation(hw, e, AppId, roots, pks)
    BY <1>1, <1>7 DEF Checked
  <2>3. e.key # NoBytes
    BY <1>1, <1>7 DEF key, HardwareKey, NoBytes
  <2>4. /\ IosBinds(e, v, damage, ks.nac, ks.ttc)
        /\ damage = "none" => IosConvinces(e, v, ks.nac, ks.ttc)
    BY <2>1, <2>3, IosEvidence
  <2>5. Binds(e, v, kit, ks)
    BY <1>1, <1>3, <1>7, <2>2, <2>4 DEF Binds, IosBinds
  <2>6. NonceFrom(v, kit, e.key) = Sha(e.key)
    BY <1>7 DEF NonceFrom
  <2>7. Convinces(e, v, kit, ks)
    BY <1>1, <2>2, <2>4, <2>6 DEF Convinces, IosConvinces
  <2>8. QED
    BY <1>1, <1>4, <1>7, <2>5, <2>7 DEF e, ks, kit, key
<1>8. CASE kit.alg = "card"
  <2> DEFINE digest == IF damage \in {"signature", "unsigned"} THEN Sha(<<>>) ELSE Sha(pre)
             short == damage \in {"short", "truncated"}
             cert == IF damage = "root" THEN [card.cert EXCEPT !.signer = NoCa] ELSE card.cert
  <2>1. e.body = CardBody(card.key, cert, short, digest)
    BY <1>1, <1>5, <1>8 DEF AttestationBody, MfrAttest, CardBody
  <2>2. \A hw, roots, cas, pks :
           Checked(hw, e, roots, cas, pks) = VerifyCardP256Attestation(hw, e, cas, pks)
    BY <1>1, <1>8 DEF Checked
  <2>3. /\ digest \in {Sha(pre), Sha(<<>>)}
        /\ damage = "none" => digest = Sha(pre) /\ short = FALSE /\ cert = card.cert
        /\ damage = "root" => cert.signer = NoCa
    BY <1>4, <1>8
  <2>4. e.body.cert = cert /\ e.key = card.key
    BY <1>1, <1>8, <2>1 DEF key, HardwareKey, CardBody
  <2> HIDE DEF digest, short, cert
  <2>5. CardBinds(e, v, ks.nac, ks.ttc)
    BY <2>1, <2>3, CardEvidence
  <2>6. damage = "none" => CardConvinces(e, v, ks.nac, ks.ttc, card.key, card.cert)
    BY <1>4, <1>8, <2>1, <2>3, CardEvidence
  <2>7. Binds(e, v, kit, ks)
    BY <1>1, <1>3, <1>8, <2>2, <2>3, <2>4, <2>5 DEF Binds, CardBinds
  <2>8. NonceFrom(v, kit, e.key) = Sha(card.key)
    BY <1>8, <2>4 DEF NonceFrom
  <2>9. Convinces(e, v, kit, ks)
    BY <1>1, <1>8, <2>2, <2>3, <2>4, <2>6, <2>8 DEF Convinces, CardConvinces
  <2>10. QED
    BY <1>1, <1>4, <2>7, <2>9 DEF e, ks, kit, key
<1>9. QED
  BY <1>3, <1>6, <1>7, <1>8 DEF Kinds

\* A credential that is issued for presented evidence was earned.
LEMMA IssuedIsEarned ==
    ASSUME EvidenceInv, NEW sig, sig = NoEvidence \/ \E v \in Wallets : sig = evidence[v],
           NEW hw, NEW nac, NEW ttc, NEW proof,
           RegisterCall(hw, sig, nac, ttc, proof).error = "none"
    PROVE  Earned(RegisterCall(hw, sig, nac, ttc, proof))
<1> DEFINE att == VerifyAnyAttestation(hw, sig, <<nac, ttc>>)
           level == EffectiveLevel(att, proof)
           r == RegisterCall(hw, sig, nac, ttc, proof)
<1>1. /\ r.level = level /\ r.hw = hw /\ r.nac = nac /\ r.ttc = ttc
      /\ r.damage = sig.damage /\ r.anchored = (Trusted(sig.alg) # {})
      /\ r.error = IF ~ att.ok THEN "InvalidHwidSignature"
                   ELSE IF ~ IssueCredential(nac, NacKeysForLevel(level).sk, ttc)
                   THEN "InvalidNetworkCredentialRequest"
                   ELSE IF ~ IssueCredential(ttc, keys["ttc"].sk, att.nonce)
                   THEN "InvalidTokenCredentialRequest" ELSE "none"
  BY DEF RegisterCall
<1>2. att.ok
  <2>1. "InvalidHwidSignature" # "none" /\ r.error = "none"
    OBVIOUS
  <2> HIDE DEF r, att, level
  <2>2. QED
    BY <1>1, <2>1
<1>3. att.level \in {"Low", "Medium"}
  BY VerdictLevel
<1>4. sig.alg \notin Kinds => att.level = "Low"
  <2>1. \A x : [ok |-> TRUE, level |-> "Low", nonce |-> x].level = "Low"
    OBVIOUS
  <2>2. QED
    BY <2>1, VerdictShape DEF VerifyAnyAttestation, Kinds
<1>5. sig.alg \in Kinds => att = Checked(hw, sig, Roots, CardCas, <<nac, ttc>>)
  BY DEF VerifyAnyAttestation, Checked, Kinds
<1> HIDE DEF att
<1>6. level # "Low" => att.level = "Medium"
  BY <1>3 DEF EffectiveLevel, LevelNumber
<1>7. Roots \in {{}, {Root}} /\ NoCa \notin CardCas
  BY DEF Roots, Root, CardCas
<1> HIDE DEF level, r
<1>8. ASSUME level # "Low"
      PROVE  /\ ttc.who \in Wallets /\ hw = HwId(ttc.who)
             /\ ttc.gen \in wallet[ttc.who].attested /\ nac.nonce = ttc
             /\ sig.damage \notin MadeUp => wallet[ttc.who].kit.level \in {1, 2}
             /\ sig.damage = "root" => Trusted(sig.alg) = {}
  <2>1. sig.alg \in Kinds /\ Checked(hw, sig, Roots, CardCas, <<nac, ttc>>).ok
    BY <1>2, <1>4, <1>5, <1>6, <1>8
  <2>2. NoEvidence.alg = "none" /\ "none" \notin Kinds
    BY DEF NoEvidence, Kinds
  <2>3. PICK v \in Wallets : sig = evidence[v]
    BY <2>1, <2>2
  <2>4. Shown(sig, v, wallet[v]) /\ sig.gen \in wallet[v].attested
    BY <2>1, <2>2, <2>3 DEF EvidenceInv, EvidenceOK
  <2>5. PICK ks : KeysOf(v, ks) /\ ks.gen = sig.gen /\ Binds(sig, v, wallet[v].kit, ks)
    BY <2>4 DEF Shown
  <2>6. /\ hw = HwId(v) /\ nac = ks.nac /\ ttc = ks.ttc
        /\ sig.damage \notin MadeUp => wallet[v].kit.level \in {1, 2}
        /\ sig.damage = "root" => Trusted(sig.alg) = {}
    BY <1>7, <2>1, <2>5 DEF Binds, Trusted
  <2>7. QED
    BY <2>4, <2>5, <2>6 DEF KeysOf
<1>9. Earned(r)
  BY <1>1, <1>8 DEF Earned
<1>10. QED
  BY <1>9 DEF r

\* Genuine evidence for the keys that are registered is accepted.
LEMMA GenuineIsAccepted ==
    ASSUME EvidenceInv, NEW w \in Wallets, NEW proof, Genuine(w, w), wallet[w].client = "aware",
           keys["ttc"].sk # Empty,
           NacKeysForLevel(RegisterCall(HwId(w), evidence[w], wallet[w].keys.nac, wallet[w].keys.ttc,
                                        proof).level).sk # Empty
    PROVE  RegisterCall(HwId(w), evidence[w], wallet[w].keys.nac, wallet[w].keys.ttc, proof).error = "none"
<1> DEFINE sig == evidence[w]
           ks == wallet[w].keys
           kit == wallet[w].kit
           att == VerifyAnyAttestation(HwId(w), sig, <<ks.nac, ks.ttc>>)
           level == EffectiveLevel(att, proof)
           r == RegisterCall(HwId(w), sig, ks.nac, ks.ttc, proof)
<1>1. /\ r.level = level
      /\ r.error = IF ~ att.ok THEN "InvalidHwidSignature"
                   ELSE IF ~ IssueCredential(ks.nac, NacKeysForLevel(level).sk, ks.ttc)
                   THEN "InvalidNetworkCredentialRequest"
                   ELSE IF ~ IssueCredential(ks.ttc, keys["ttc"].sk, att.nonce)
                   THEN "InvalidTokenCredentialRequest" ELSE "none"
  BY DEF RegisterCall
<1>2. /\ sig.alg # "none" /\ kit.level \in {1, 2} /\ sig.damage = "none" /\ sig.gen = ks.gen
      /\ sig.alg = "card" => CardCas = {} \/ sig.body.cert.signer \in CardCas
  BY DEF Genuine
<1>3. /\ sig.alg = kit.alg /\ Shown(sig, w, wallet[w]) /\ ks.gen > 0 /\ KeysOf(w, ks)
      /\ ks.ttc.nonce = NonceFrom(w, kit, sig.key)
  BY <1>2 DEF EvidenceInv, EvidenceOK, WalletOK
<1>4. sig.alg \in Kinds
  BY <1>2, <1>3, EnrolmentAssumption DEF EvidenceInv, WalletOK, Kinds
<1>5. att = Checked(HwId(w), sig, Roots, CardCas, <<ks.nac, ks.ttc>>)
  BY <1>4 DEF VerifyAnyAttestation, Checked, Kinds
<1>7. Roots \in {{}, {Root}}
  BY DEF Roots, Root
<1> HIDE DEF att, level, r
<1>8. att = Accepted(NonceFrom(w, kit, sig.key))
  <2>1. PICK k : /\ k.nac = ks.nac /\ k.ttc = ks.ttc /\ Convinces(sig, w, kit, k)
    BY <1>2, <1>3 DEF Shown
  <2>2. QED
    BY <1>2, <1>5, <1>7, <2>1 DEF Convinces
<1>9. att.ok /\ att.nonce = ks.ttc.nonce /\ ks.nac.nonce = ks.ttc
  BY <1>3, <1>8, VerdictShape DEF KeysOf
<1>10. NacKeysForLevel(level).sk # Empty
  BY <1>1 DEF r
<1>11. r.error = "none"
  BY <1>1, <1>9, <1>10 DEF IssueCredential
<1>12. QED
  BY <1>11 DEF r

\* A wallet as a step leaves it, apart from its credential.
Same(w) ==
    /\ DOMAIN wallet'[w] = DOMAIN wallet[w] /\ wallet'[w].client = wallet[w].client
    /\ wallet'[w].keys = wallet[w].keys /\ wallet'[w].kit = wallet[w].kit
    /\ wallet'[w].attested = wallet[w].attested

LEMMA HardwareStays ==
    ASSUME KeyStays
    PROVE  \A v, kit : (kit.alg = "card" => card.key # CardKey(0)) =>
              /\ KeyOf(v, kit, card'.key) = KeyOf(v, kit, card.key)
              /\ kit.alg = "card" => card'.key # CardKey(0)
BY DEF KeyStays, KeyOf

\* Steps after which this wallet has the keys and evidence it had.
LEMMA SameIsOK ==
    ASSUME EvidenceInv, KeyStays, scene' = scene, NEW w \in Wallets, Same(w),
           evidence'[w] = evidence[w]
    PROVE  /\ DOMAIN wallet'[w] = {"client", "cred", "keys", "kit", "attested"}
           /\ wallet'[w].kit = scene'.kits[w] /\ wallet'[w].keys.gen \in Nat
           /\ wallet'[w].keys.gen > 0 => KeysOf(w, wallet'[w].keys)
           /\ wallet'[w].client = "aware" =>
                 /\ wallet'[w].keys.gen > 0
                 /\ wallet'[w].keys.ttc.nonce =
                       NonceFrom(w, wallet'[w].kit, KeyOf(w, wallet'[w].kit, card'.key))
                 /\ wallet'[w].kit.alg = "card" => card'.key # CardKey(0)
           /\ evidence'[w].alg # "none" =>
                 /\ evidence'[w].alg = wallet'[w].kit.alg
                 /\ evidence'[w].key = KeyOf(w, wallet'[w].kit, card'.key)
                 /\ wallet'[w].kit.alg = "card" => card'.key # CardKey(0)
                 /\ evidence'[w].gen \in wallet'[w].attested
                 /\ evidence'[w].gen \in Nat /\ evidence'[w].gen <= wallet'[w].keys.gen
                 /\ Shown(evidence'[w], w, wallet'[w])
<1>1. WalletOK /\ EvidenceOK
  BY DEF EvidenceInv
<1>2. Shown(evidence[w], w, wallet[w]) => Shown(evidence[w], w, wallet'[w])
  BY DEF Shown, Same
<1>3. QED
  BY <1>1, <1>2, HardwareStays DEF WalletOK, EvidenceOK, Same

\* Steps that only make a credential or none, for every wallet.
LEMMA SameKeeps ==
    ASSUME EvidenceInv, KeyStays, DOMAIN wallet' = Wallets, \A w \in Wallets : Same(w),
           UNCHANGED <<scene, evidence>>, \A i \in issued' : i \in issued \/ Earned(i),
           GenuineEvidenceAccepted'
    PROVE  EvidenceInv'
<1>1. WalletOK' /\ EvidenceOK'
  BY SameIsOK DEF EvidenceInv, WalletOK, EvidenceOK
<1>2. \A i \in issued' : Earned(i)
  BY DEF EvidenceInv
<1>3. \A i \in issued' : Earned(i)'
  BY <1>2 DEF Earned, Same
<1>4. QED
  BY <1>1, <1>3 DEF EvidenceInv

\* Steps that give one wallet new keys.
LEMMA NewKeysKeep ==
    ASSUME EvidenceInv, KeyStays, NEW w \in Wallets, NEW ks,
           DOMAIN wallet' = Wallets, \A v \in Wallets : v # w => Same(v),
           DOMAIN wallet'[w] = DOMAIN wallet[w], wallet'[w].kit = wallet[w].kit,
           wallet'[w].attested = wallet[w].attested, wallet'[w].keys = ks,
           ks.gen = wallet[w].keys.gen + 1, KeysOf(w, ks),
           wallet'[w].client = "aware" =>
              /\ ks.ttc.nonce = NonceFrom(w, wallet[w].kit, KeyOf(w, wallet[w].kit, card.key))
              /\ wallet[w].kit.alg = "card" => card.key # CardKey(0),
           UNCHANGED <<scene, evidence>>, \A i \in issued' : i \in issued \/ Earned(i),
           GenuineEvidenceAccepted'
    PROVE  EvidenceInv'
<1>1. WalletOK /\ EvidenceOK
  BY DEF EvidenceInv
<1>2. wallet[w].keys.gen \in Nat /\ ks.gen \in Nat /\ ks.gen > 0
  BY <1>1 DEF WalletOK
<1>3. /\ wallet'[w].kit = scene'.kits[w] /\ wallet'[w].keys.gen \in Nat
      /\ wallet'[w].keys.gen > 0 /\ KeysOf(w, wallet'[w].keys)
      /\ wallet'[w].client = "aware" =>
            /\ wallet'[w].keys.ttc.nonce =
                  NonceFrom(w, wallet'[w].kit, KeyOf(w, wallet'[w].kit, card'.key))
            /\ wallet'[w].kit.alg = "card" => card'.key # CardKey(0)
  BY <1>1, <1>2, HardwareStays DEF WalletOK
<1>4. WalletOK'
  BY <1>1, <1>3, SameIsOK DEF WalletOK
<1>5. ASSUME evidence[w].alg # "none"
      PROVE  /\ evidence[w].key = KeyOf(w, wallet'[w].kit, card'.key)
             /\ wallet'[w].kit.alg = "card" => card'.key # CardKey(0)
             /\ evidence[w].gen \in Nat /\ evidence[w].gen < wallet'[w].keys.gen
             /\ Shown(evidence[w], w, wallet'[w])
  <2>1. /\ evidence[w].gen \in Nat /\ evidence[w].gen <= wallet[w].keys.gen
        /\ Shown(evidence[w], w, wallet[w])
    BY <1>1, <1>5 DEF EvidenceOK
  <2>2. evidence[w].gen < ks.gen
    BY <1>2, <2>1
  <2>3. ks.gen # evidence[w].gen
    BY <1>2, <2>1, <2>2
  <2>4. Shown(evidence[w], w, wallet'[w])
    BY <2>1, <2>3 DEF Shown
  <2>5. QED
    BY <1>1, <1>5, <2>1, <2>2, <2>4, HardwareStays DEF EvidenceOK
<1>6. EvidenceOK'
  <2>1. ASSUME NEW v \in Wallets, evidence'[v].alg # "none"
        PROVE  /\ evidence'[v].alg = wallet'[v].kit.alg
               /\ evidence'[v].key = KeyOf(v, wallet'[v].kit, card'.key)
               /\ wallet'[v].kit.alg = "card" => card'.key # CardKey(0)
               /\ evidence'[v].gen \in wallet'[v].attested
               /\ evidence'[v].gen \in Nat /\ evidence'[v].gen <= wallet'[v].keys.gen
               /\ Shown(evidence'[v], v, wallet'[v])
    <3>1. CASE v # w
      BY <2>1, <3>1, SameIsOK
    <3>2. CASE v = w
      <4>1. evidence[w].gen <= wallet'[w].keys.gen
        BY <1>2, <1>5, <2>1, <3>2
      <4>2. QED
        BY <1>1, <1>5, <2>1, <3>2, <4>1 DEF EvidenceOK
    <3>3. QED
      BY <3>1, <3>2
  <2>2. DOMAIN evidence' = Wallets
    BY <1>1 DEF EvidenceOK
  <2>3. QED
    BY <2>1, <2>2 DEF EvidenceOK
<1>7. \A v \in Wallets : wallet'[v].attested = wallet[v].attested /\ wallet'[v].kit = wallet[v].kit
  BY DEF Same
<1>8. \A i \in issued' : Earned(i)'
  BY <1>7 DEF Earned, EvidenceInv
<1>9. QED
  BY <1>4, <1>6, <1>8 DEF EvidenceInv

LEMMA AttestKeeps ==
    ASSUME PersonalInv, EvidenceInv, NEW w \in Wallets, NEW damage, Attest(w, damage)
    PROVE  EvidenceInv'
<1>1. WalletOK /\ EvidenceOK
  BY DEF EvidenceInv
<1>2. /\ wallet' = [wallet EXCEPT ![w].attested = @ \cup {wallet[w].keys.gen}]
      /\ wallet[w].keys.gen > 0
      /\ \E e : evidence' = [evidence EXCEPT ![w] = e]
      /\ UNCHANGED <<scene, issued, outcome, card>>
  BY DEF Attest, personalVars
<1>3. /\ DOMAIN wallet' = Wallets /\ DOMAIN evidence' = Wallets
      /\ \A v \in Wallets : v # w => wallet'[v] = wallet[v] /\ evidence'[v] = evidence[v]
      /\ DOMAIN wallet'[w] = DOMAIN wallet[w] /\ wallet'[w].client = wallet[w].client
      /\ wallet'[w].keys = wallet[w].keys /\ wallet'[w].kit = wallet[w].kit
      /\ wallet'[w].attested = wallet[w].attested \cup {wallet[w].keys.gen}
  BY <1>1, <1>2 DEF WalletOK, EvidenceOK
<1>4. KeyStays
  BY <1>2 DEF KeyStays
<1>5. /\ evidence'[w].alg = wallet[w].kit.alg
      /\ evidence'[w].key = KeyOf(w, wallet[w].kit, card.key)
      /\ evidence'[w].gen = wallet[w].keys.gen
      /\ wallet[w].kit.alg = "card" => card.key # CardKey(0)
      /\ Binds(evidence'[w], w, wallet[w].kit, wallet[w].keys)
      /\ Convinces(evidence'[w], w, wallet[w].kit, wallet[w].keys)
  BY <1>1, AttestShows, HardwareDerives
<1>6. WalletOK'
  BY <1>1, <1>2, <1>3 DEF WalletOK
<1>7. Shown(evidence'[w], w, wallet'[w])
  <2>1. KeysOf(w, wallet[w].keys)
    BY <1>1, <1>2 DEF WalletOK
  <2>2. QED
    BY <1>3, <1>5, <2>1 DEF Shown
<1>8. EvidenceOK'
  <2>1. /\ evidence'[w].alg = wallet'[w].kit.alg
        /\ evidence'[w].key = KeyOf(w, wallet'[w].kit, card'.key)
        /\ wallet'[w].kit.alg = "card" => card'.key # CardKey(0)
        /\ evidence'[w].gen \in wallet'[w].attested
        /\ evidence'[w].gen \in Nat /\ evidence'[w].gen <= wallet'[w].keys.gen
    BY <1>1, <1>2, <1>3, <1>5 DEF WalletOK
  <2>2. ASSUME NEW v \in Wallets, v # w, evidence'[v].alg # "none"
        PROVE  /\ evidence'[v].alg = wallet'[v].kit.alg
               /\ evidence'[v].key = KeyOf(v, wallet'[v].kit, card'.key)
               /\ wallet'[v].kit.alg = "card" => card'.key # CardKey(0)
               /\ evidence'[v].gen \in wallet'[v].attested
               /\ evidence'[v].gen \in Nat /\ evidence'[v].gen <= wallet'[v].keys.gen
               /\ Shown(evidence'[v], v, wallet'[v])
    BY <1>1, <1>2, <1>3, <2>2 DEF EvidenceOK
  <2>3. QED
    BY <1>3, <1>7, <2>1, <2>2 DEF EvidenceOK
<1>9. \A i \in issued' : Earned(i)'
  <2>1. \A v \in Wallets : wallet[v].attested \subseteq wallet'[v].attested /\ wallet'[v].kit = wallet[v].kit
    BY <1>3
  <2>2. QED
    BY <1>2, <2>1 DEF EvidenceInv, Earned
<1>10. GenuineEvidenceAccepted'
  BY <1>2 DEF EvidenceInv, GenuineEvidenceAccepted
<1>11. QED
  BY <1>6, <1>8, <1>9, <1>10 DEF EvidenceInv

LEMMA InitKeysKeeps ==
    ASSUME EvidenceInv, NEW w \in Wallets, NEW client, InitKeys(w, client)
    PROVE  EvidenceInv'
<1> DEFINE nonce == IF client = "phone" THEN HwId(w) ELSE DerivedNonce(w, wallet[w].kit)
           ks == InitializeKeys(w, nonce, wallet[w].keys.gen + 1)
           x == [client |-> client, cred |-> FALSE, keys |-> ks, kit |-> wallet[w].kit,
                 attested |-> wallet[w].attested]
<1>1. WalletOK /\ EvidenceOK
  BY DEF EvidenceInv
<1>2. /\ wallet[w].kit.alg = "card" => card.key # CardKey(0)
      /\ wallet' = [wallet EXCEPT ![w] = x]
      /\ UNCHANGED <<scene, evidence, issued, outcome, card>>
  BY DEF InitKeys, personalVars
<1>3. /\ ks.gen = wallet[w].keys.gen + 1 /\ KeysOf(w, ks) /\ ks.ttc.nonce = nonce
  BY DEF InitializeKeys, KeysOf
<1>4. client = "aware" => nonce = NonceFrom(w, wallet[w].kit, KeyOf(w, wallet[w].kit, card.key))
  BY HardwareDerives
<1> HIDE DEF nonce, ks
<1>5. /\ DOMAIN x = {"client", "cred", "keys", "kit", "attested"} /\ x.client = client /\ x.keys = ks
      /\ x.kit = wallet[w].kit /\ x.attested = wallet[w].attested
  OBVIOUS
<1> HIDE DEF x
<1>6. /\ DOMAIN wallet' = Wallets /\ wallet'[w] = x
      /\ \A v \in Wallets : v # w => Same(v)
  BY <1>1, <1>2 DEF WalletOK, Same
<1>7. DOMAIN wallet'[w] = DOMAIN wallet[w]
  BY <1>1, <1>5, <1>6 DEF WalletOK
<1>8. KeyStays /\ GenuineEvidenceAccepted'
  BY <1>2 DEF KeyStays, GenuineEvidenceAccepted, EvidenceInv
<1>9. QED
  BY <1>2, <1>3, <1>4, <1>5, <1>6, <1>7, <1>8, NewKeysKeep

LEMMA RegisterWalletKeeps ==
    ASSUME EvidenceInv, NEW w \in Wallets, RegisterWallet(w)
    PROVE  EvidenceInv'
<1>0. PICK from \in Wallets \cup {"nobody"} :
              \E proof, rest : RegisterWithAttestation(w, from, proof, rest)
  BY DEF RegisterWallet
<1>1. PICK proof, rest : RegisterWithAttestation(w, from, proof, rest)
  BY <1>0
<1> DEFINE sig == IF from = "nobody" THEN NoEvidence ELSE evidence[from]
           r == RegisterCall(HwId(w), sig, wallet[w].keys.nac, wallet[w].keys.ttc, proof)
<1>2. /\ issued' = (IF r.error = "none" THEN issued \cup {r} ELSE issued)
      /\ wallet' = [wallet EXCEPT ![w].cred = @ \/ (r.error = "none" /\ rest)]
      /\ outcome' = [error |-> r.error, client |-> wallet[w].client,
                     genuine |-> from \in Wallets /\ Genuine(w, from)
                                 /\ keys["ttc"].sk # Empty /\ NacKeysForLevel(r.level).sk # Empty]
      /\ UNCHANGED <<scene, evidence, card>>
  BY <1>1 DEF RegisterWithAttestation, InitializeCredential, Issue, personalVars
<1>3. r.error = "none" => Earned(r)
  <2>1. sig = NoEvidence \/ \E v \in Wallets : sig = evidence[v]
    OBVIOUS
  <2> HIDE DEF sig
  <2>2. QED
    BY <2>1, IssuedIsEarned
<1>4. GenuineEvidenceAccepted'
  <2>1. SUFFICES ASSUME outcome'.genuine, outcome'.client = "aware"
                 PROVE  outcome'.error = "none"
    BY DEF GenuineEvidenceAccepted
  <2>2. /\ from \in Wallets /\ Genuine(w, from) /\ keys["ttc"].sk # Empty
        /\ NacKeysForLevel(r.level).sk # Empty /\ wallet[w].client = "aware"
        /\ outcome'.error = r.error
    BY <1>2, <2>1
  <2>3. from = w /\ from # "nobody"
    BY <2>2, EnrolmentAssumption DEF Genuine
  <2>4. r = RegisterCall(HwId(w), evidence[w], wallet[w].keys.nac, wallet[w].keys.ttc, proof)
    BY <2>3
  <2> HIDE DEF r
  <2>5. r.error = "none"
    BY <2>2, <2>3, <2>4, GenuineIsAccepted
  <2>6. QED
    BY <2>2, <2>5
<1> HIDE DEF r
<1>5. DOMAIN wallet' = Wallets /\ \A v \in Wallets : Same(v)
  BY <1>2 DEF EvidenceInv, WalletOK, Same
<1>6. KeyStays
  BY <1>2 DEF KeyStays
<1>7. \A i \in issued' : i \in issued \/ Earned(i)
  BY <1>2, <1>3
<1>8. QED
  BY <1>2, <1>4, <1>5, <1>6, <1>7, SameKeeps

LEMMA CreateKeeps ==
    ASSUME EvidenceInv, NEW w \in Wallets, NEW rest, Create(w, rest)
    PROVE  EvidenceInv'
<1> DEFINE ks == InitializeKeys(w, HwId(w), wallet[w].keys.gen + 1)
           r == RegisterCall(HwId(w), NoEvidence, ks.nac, ks.ttc, <<>>)
<1>1. /\ issued' = (IF r.error = "none" THEN issued \cup {r} ELSE issued)
      /\ wallet' = IF r.error = "none" /\ rest
                   THEN [wallet EXCEPT ![w].cred = TRUE, ![w].keys = ks, ![w].client = "phone"]
                   ELSE wallet
      /\ outcome' = [error |-> r.error, client |-> "phone", genuine |-> FALSE]
      /\ UNCHANGED <<scene, evidence, card>>
  BY DEF Create, InitializeCredential, Issue, personalVars
<1>2. ks.gen = wallet[w].keys.gen + 1 /\ KeysOf(w, ks)
  BY DEF InitializeKeys, KeysOf
<1> HIDE DEF ks
<1>3. r.error = "none" => Earned(r)
  BY IssuedIsEarned
<1> HIDE DEF r
<1>4. GenuineEvidenceAccepted' /\ KeyStays /\ \A i \in issued' : i \in issued \/ Earned(i)
  BY <1>1, <1>3 DEF GenuineEvidenceAccepted, KeyStays
<1>5. CASE wallet' = wallet
  <2>1. DOMAIN wallet' = Wallets /\ \A v \in Wallets : Same(v)
    BY <1>5 DEF EvidenceInv, WalletOK, Same
  <2>2. QED
    BY <1>1, <1>4, <2>1, SameKeeps
<1>6. CASE wallet' = [wallet EXCEPT ![w].cred = TRUE, ![w].keys = ks, ![w].client = "phone"]
  <2>1. /\ DOMAIN wallet' = Wallets /\ DOMAIN wallet'[w] = DOMAIN wallet[w]
        /\ wallet'[w].keys = ks /\ wallet'[w].client = "phone" /\ wallet'[w].kit = wallet[w].kit
        /\ wallet'[w].attested = wallet[w].attested
        /\ \A v \in Wallets : v # w => Same(v)
    BY <1>6 DEF EvidenceInv, WalletOK, Same
  <2>2. wallet'[w].client # "aware"
    BY <2>1
  <2>3. QED
    BY <1>1, <1>2, <1>4, <2>1, <2>2, NewKeysKeep
<1>7. QED
  BY <1>1, <1>5, <1>6

LEMMA OtherEvidenceKeeps ==
    ASSUME EvidenceInv, KeyStays, UNCHANGED <<scene, wallet, evidence, outcome>>,
           \A i \in issued' : i \in issued \/ Earned(i)
    PROVE  EvidenceInv'
<1>1. DOMAIN wallet' = Wallets /\ (\A v \in Wallets : Same(v)) /\ GenuineEvidenceAccepted'
  BY DEF EvidenceInv, WalletOK, Same, GenuineEvidenceAccepted
<1>2. QED
  BY <1>1, SameKeeps

\* For any number of wallets, attestations and registrations, a registration is decided
\* by the evidence: a credential above Low is only issued for the hw_id and keys that the
\* evidence was made for, by hardware as far as roots and signatures are checked, and
\* undamaged evidence for the registered keys is accepted.
THEOREM EvidenceAlwaysDecides == Spec => []EvidenceDecides
<1> DEFINE Inv == PersonalInv /\ EvidenceInv
<1>1. Init => Inv
  <2> SUFFICES ASSUME Init PROVE Inv
    OBVIOUS
  <2>1. PersonalInv
    BY PersonalInitially
  <2>2. /\ scene \in Scenes /\ issued = {} /\ outcome = NoOutcome
        /\ wallet = [w \in Wallets |->
              [client |-> "phone", cred |-> FALSE, keys |-> NoKeys, kit |-> scene.kits[w],
               attested |-> {}]]
        /\ evidence = [w \in Wallets |-> NoEvidence]
    BY DEF Init
  <2>3. NoKeys.gen = 0 /\ NoEvidence.alg = "none" /\ NoOutcome.genuine = FALSE
    BY DEF NoKeys, NoEvidence, NoOutcome
  <2>4. WalletOK
    BY <2>2, <2>3 DEF WalletOK
  <2>5. EvidenceOK
    BY <2>2, <2>3 DEF EvidenceOK
  <2>6. QED
    BY <2>1, <2>2, <2>3, <2>4, <2>5 DEF EvidenceInv, GenuineEvidenceAccepted
<1>2. Inv /\ [Next]_vars => Inv'
  <2> SUFFICES ASSUME PersonalInv, EvidenceInv, [Next]_vars PROVE PersonalInv' /\ EvidenceInv'
    OBVIOUS
  <2>1. PersonalInv'
    BY PersonalStep
  <2>2. KeyStays
    BY CardKeyStays
  <2>3. CASE ReadOrGenerate \/ WriteGroupKey \/ Crash \/ Start
    <3>1. UNCHANGED <<scene, wallet, evidence, outcome, issued>>
      BY <2>3 DEF ReadOrGenerate, WriteGroupKey, Crash, Start
    <3>2. QED
      BY <2>1, <2>2, <3>1, OtherEvidenceKeeps
  <2>4. CASE Personal \/ Rest \/ UNCHANGED vars
    <3>1. UNCHANGED <<scene, wallet, evidence, outcome, issued>>
      BY <2>4 DEF Personal, Rest, vars, enrolVars
    <3>2. QED
      BY <2>1, <2>2, <3>1, OtherEvidenceKeeps
  <2>5. ASSUME NEW s \in Services, ServiceRegister(s) \/ ServiceCrash(s)
        PROVE  EvidenceInv'
    <3>1. UNCHANGED <<scene, wallet, evidence, outcome>>
      BY <2>5 DEF ServiceRegister, ServiceCrash
    <3>2. \A i \in issued' : i \in issued \/ Earned(i)
      <4>1. CASE ServiceRegister(s)
        <5> DEFINE n == LoadOrCreateState(s)
                   pk == [who |-> s, gen |-> n, nonce |-> <<"nonce", n>>]
                   r == RegisterCall(<<"service", n>>, NoEvidence, pk, pk, <<>>)
        <5>1. issued' = IF Up /\ r.error = "none" THEN issued \cup {r} ELSE issued
          BY <4>1 DEF ServiceRegister
        <5> HIDE DEF pk, n
        <5>2. r.error = "none" => Earned(r)
          BY IssuedIsEarned
        <5> HIDE DEF r
        <5>3. QED
          BY <5>1, <5>2
      <4>2. CASE ServiceCrash(s)
        BY <4>2 DEF ServiceCrash
      <4>3. QED
        BY <2>5, <4>1, <4>2
    <3>3. QED
      BY <2>2, <3>1, <3>2, OtherEvidenceKeeps
  <2>6. QED
    BY <2>1, <2>3, <2>4, <2>5, InitKeysKeeps, AttestKeeps, RegisterWalletKeeps, CreateKeeps DEF Next
<1>3. Inv => EvidenceDecides
  BY DEF EvidenceInv, Earned, EvidenceDecides, TierIsEarned
<1> HIDE DEF Inv
<1>4. QED
  BY <1>1, <1>2, <1>3, PTL DEF Spec
=============================================================================
