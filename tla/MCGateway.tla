----------------------------- MODULE MCGateway -----------------------------
(***************************************************************************)
(* A small gateway: one transaction of two tokens or of one that is        *)
(* addressed to somebody else, wallets with tokens of one, three quarters  *)
(* and a half, and two buckets for three addresses.                        *)
(***************************************************************************)
EXTENDS Gateway

CONSTANTS coin1, coin2, me, other, client

MCEpochs == {1, 2}
MCValue == [t \in {coin1, coin2} |-> 1]
MCVerifiable == [e \in MCEpochs |-> {coin1, coin2}]
Pay(t, to) == [token |-> t, to |-> to]
MCPayments == {<<Pay(coin1, me), Pay(coin2, me)>>, <<Pay(coin1, me), Pay(coin2, other)>>}
MCUpdates == {[epoch |-> 2, signed |-> TRUE, body |-> "complete"], NoData}

Ticket(owner) == [owner |-> owner, created |-> 0, expires |-> 9]
MCPayTicket == Ticket(me)
MCTokenValue == [id \in 1 .. 4 |-> [whole |-> IF id = 1 THEN 1 ELSE 0,
                                    micros |-> CASE id = 1 -> 0 [] id \in {2, 4} -> 3 [] id = 3 -> 2]]
MCRequirements == {[whole |-> 1, micros |-> 0], [whole |-> 1, micros |-> 1], [whole |-> 0, micros |-> 3]}

\* The fourth token is not the client's to transfer.
Holding(ids) ==
    [W!NewWallet(client) EXCEPT !.tokens =
        [i \in DOMAIN ids |-> W!Minted(ids[i], Ticket(IF ids[i] = 4 THEN other ELSE client))]]

\* The mint and a service that the operation is not for; the third has a credential
\* under another group key.
MCGroupOf == [c \in Callers |-> IF c = "bridge" THEN "ServiceBridge" ELSE "ServiceMint"]
MCKeyOf == [c \in Callers |-> IF c = "stranger" THEN "other" ELSE "nac"]
MCSkews == {[c \in Callers |-> s] : s \in {-1, 0, 1, 2, 4}}

MCPurses == {Holding(<<1, 2, 3>>), Holding(<<3, 2, 2, 1>>), Holding(<<3, 4, 2>>), Holding(<<1, 1, 3, 3>>)}
=============================================================================
