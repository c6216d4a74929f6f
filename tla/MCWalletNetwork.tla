--------------------------- MODULE MCWalletNetwork ---------------------------
(***************************************************************************)
(* A small instance of WalletNetwork: the app, the command line and a      *)
(* program with a card.                                                    *)
(***************************************************************************)
EXTENDS WalletNetwork, TLC

CONSTANTS phone, other, till, h1, h2

\* The other user's first token is worth a half.
MCValue == [id \in 1 .. MaxId |-> IF id = 6 THEN 0 ELSE 1]
MCFloat == <<1, 2, 3, 4>>
MCPurse == [u \in Users |-> IF u = phone THEN <<5>> ELSE <<6, 7>>]
\* The phone pays by the command line and the other user by the app, or the phone by
\* the app and the other user with a card.
MCKinds == {[u \in Users |-> IF u = phone THEN "cli" ELSE "app"],
            [u \in Users |-> IF u = phone THEN "app" ELSE "card"]}
MCMaxOps == [u \in Users |-> IF u = phone THEN 2 ELSE 1]
BothHandlers == Permutations({h1, h2})
=============================================================================
