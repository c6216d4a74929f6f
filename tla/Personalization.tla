-------------------------- MODULE Personalization --------------------------
(***************************************************************************)
(* The manufacturer's side of a card: the CA key files, the runs of the    *)
(* card-personalize tool and the applet's MFR commands                     *)
(* (src/src/card-personalize/src/main.rs, BrioletteApplet.java).           *)
(*                                                                         *)
(* Two runs of the tool share one card.  Every command to the card is a    *)
(* step; the card may be taken away, and the tool killed, between any two. *)
(***************************************************************************)
EXTENDS Attestation, FiniteSets

CONSTANTS
    Tools,      \* runs of card-personalize
    MaxCas,     \* bound: CA keypairs generated
    MaxCardKeys \* bound: keys generated on the card

VARIABLES
    ca,         \* the CA's two key files and how many pairs were generated
    card,       \* manufacturer key and certificate of the card
    tool,       \* each run of the tool
    completed   \* the CA keys for which the card was said to be complete

personalVars == <<ca, card, tool, completed>>

NoCa == 0
CardKey(n) == <<"card", n>>
NoCert == [signer |-> NoCa, over |-> CardKey(0)]
IdleTool == [at |-> "idle", ca |-> NoCa, key |-> CardKey(0)]

PersonalInit ==
    /\ ca = [sk |-> NoCa, pk |-> NoCa, made |-> 0]
    /\ card = [key |-> CardKey(0), made |-> 0, cert |-> NoCert, personalized |-> FALSE]
    /\ tool = [t \in Tools |-> IdleTool]
    /\ completed = {}

PersonalTypeOK ==
    /\ ca \in [sk : 0 .. MaxCas, pk : 0 .. MaxCas, made : 0 .. MaxCas]
    /\ card.made \in 0 .. MaxCardKeys /\ card.key = CardKey(card.made)
    /\ card.cert \in [signer : 0 .. MaxCas, over : {CardKey(n) : n \in 0 .. MaxCardKeys}]
    /\ tool \in [Tools -> [at : {"idle", "selected", "generated", "certified"}, ca : 0 .. MaxCas,
                           key : {CardKey(n) : n \in 0 .. MaxCardKeys}]]
    /\ completed \subseteq 1 .. MaxCas

\* The private key is written, and then the public one.
GenerateCa ==
    /\ ca.made < MaxCas
    /\ ca' = [ca EXCEPT !.made = @ + 1, !.sk = ca.made + 1]
    /\ UNCHANGED <<card, tool, completed>>

WriteCaPublicKey ==
    /\ ca.sk # ca.pk
    /\ ca' = [ca EXCEPT !.pk = ca.sk]
    /\ UNCHANGED <<card, tool, completed>>

\* MFR_GENERATE_KEY by any caller, at any time.
MfrGenerateAgain(c) == TRUE

\* MFR_GENERATE_KEY is answered only once.
MfrGenerateKey(c) == c.key = CardKey(0)

\* MFR_SET_CERT
MfrSetCert(c) == c.key # CardKey(0) /\ ~ c.personalized

\* MFR_ATTEST's answer to a challenge.
MfrAttest(c, challenge) ==
    [short |-> FALSE, sig |-> [signer |-> c.key, over |-> challenge], cert |-> c.cert,
     pubkey |-> c.key]

\* The tool's verify_attestation, on a response that parsed.
VerifyAttestation(caKey, challenge, resp) ==
    /\ ~ resp.short
    /\ resp.sig = [signer |-> resp.pubkey, over |-> challenge]
    /\ resp.cert = [signer |-> caKey, over |-> resp.pubkey]

\* cmd_personalize up to the status of the card.
PersonalizeStart(t) ==
    /\ tool[t].at = "idle" /\ ca.sk # NoCa
    /\ card.cert = NoCert /\ card.key = CardKey(0)
    /\ tool' = [tool EXCEPT ![t] = [at |-> "selected", ca |-> ca.sk, key |-> CardKey(0)]]
    /\ UNCHANGED <<ca, card, completed>>

PersonalizeGenerate(t) ==
    /\ tool[t].at = "selected" /\ MfrGenerateKey(card) /\ card.made < MaxCardKeys
    /\ card' = [card EXCEPT !.made = @ + 1, !.key = CardKey(card.made + 1)]
    /\ tool' = [tool EXCEPT ![t].at = "generated", ![t].key = CardKey(card.made + 1)]
    /\ UNCHANGED <<ca, completed>>

\* Sign the key and load the certificate.
PersonalizeCertify(t) ==
    /\ tool[t].at = "generated" /\ MfrSetCert(card)
    /\ card' = [card EXCEPT !.cert = [signer |-> tool[t].ca, over |-> tool[t].key]]
    /\ tool' = [tool EXCEPT ![t].at = "certified"]
    /\ UNCHANGED <<ca, completed>>

\* The test attestation at the end, for a random challenge.
PersonalizeCheck(t) ==
    /\ tool[t].at = "certified"
    /\ completed' = IF VerifyAttestation(tool[t].ca, Sha("random"), MfrAttest(card, Sha("random")))
                    THEN completed \cup {tool[t].ca} ELSE completed
    /\ tool' = [tool EXCEPT ![t] = IdleTool]
    /\ UNCHANGED <<ca, card>>

\* The card is out of reach or refuses, or the tool is killed.
PersonalizeAbort(t) ==
    /\ tool[t].at # "idle"
    /\ tool' = [tool EXCEPT ![t] = IdleTool]
    /\ UNCHANGED <<ca, card, completed>>

\* cmd_sign_key for the card's key, and its certificate loaded by hand.
SignKeyByHand ==
    /\ ca.sk # NoCa /\ MfrSetCert(card)
    /\ card' = [card EXCEPT !.cert = [signer |-> ca.sk, over |-> card.key]]
    /\ completed' = IF completed = {} THEN {} ELSE {ca.sk}
    /\ UNCHANGED <<ca, tool>>

\* The first JOIN_COMMIT or SIGN_COMMIT ends personalization.
FirstUse ==
    /\ ~ card.personalized /\ card' = [card EXCEPT !.personalized = TRUE]
    /\ UNCHANGED <<ca, tool, completed>>

PersonalNext ==
    \/ GenerateCa \/ WriteCaPublicKey \/ SignKeyByHand \/ FirstUse
    \/ \E t \in Tools : \/ PersonalizeStart(t) \/ PersonalizeGenerate(t) \/ PersonalizeCertify(t)
                        \/ PersonalizeCheck(t) \/ PersonalizeAbort(t)

(* A card that the tool reported complete for a CA key keeps on attesting  *)
(* for that key (cmd_personalize: "Card personalization complete!"), as    *)
(* both the tool's test and the registrar check it, whatever other runs of *)
(* the tool do to the card.  Only its operator can change that: the applet *)
(* takes another certificate until the card is used, and the card then     *)
(* attests for the CA that signed this one and no longer for the first.    *)
CompletedCardsAttest ==
    \A k \in completed :
        LET resp == MfrAttest(card, Challenge("hw", <<>>))
        IN  /\ VerifyAttestation(k, Challenge("hw", <<>>), resp)
            /\ VerifyCardP256Attestation("hw", [body |-> resp, key |-> NoBytes], {k}, <<>>).ok
=============================================================================
