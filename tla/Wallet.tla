------------------------------- MODULE Wallet -------------------------------
(***************************************************************************)
(* Tokens, tickets and what a wallet does with them, as operators: the     *)
(* token library (src/src/proto/src/briolette/token.rs) and the wallet     *)
(* library (src/src/wallet/src/lib.rs).                                    *)
(*                                                                         *)
(* A token is its mint id and a chain of signed transfers, the first by    *)
(* the mint.  A transfer names a ticket, the key that signed it and a mark *)
(* that no two signatures share.  Keys, clerk and mint signatures that     *)
(* verify by construction are left out: what is kept of a signature is who *)
(* made it and when.                                                       *)
(***************************************************************************)
EXTENDS Integers, SequencesExt

Mint == "mint"

\* Bytes that do not decode as a signed ticket.
Malformed == [owner |-> "nobody", created |-> 0, expires |-> 0]

\* A finite set of numbers in ascending order.
InOrder(S) == [k \in 1 .. Cardinality(S) |-> CHOOSE i \in S : Cardinality({j \in S : j <= i}) = k]

\* What a mint's transfer to a ticket makes.
Minted(id, ticket) == [id |-> id, chain |-> <<[to |-> ticket, by |-> Mint, sig |-> 0]>>]

\* The ticket that a token is addressed to.
CurrentTicket(token) == Last(token.chain).to

\* The last entry is overwritten.
TransferredOver(token, ticket, key, sig) ==
    [token EXCEPT !.chain = Append(Front(@), [to |-> ticket, by |-> key, sig |-> sig])]

\* Token::transfer, transfer_split: signing never fails and never looks whether
\* the key is the one of the current ticket.
Transferred(token, ticket, key, sig) ==
    [token EXCEPT !.chain = Append(@, [to |-> ticket, by |-> key, sig |-> sig])]

\* SignedTicket::verify, the part about time.
TicketValid(ticket, now) == ticket.created < now /\ now <= ticket.expires

\* verify_base: the mint signed the first transfer.  verify_history: the key of the ticket
\* before signed this one.
VerifyBase(entry) == entry.by = Mint
VerifyHistory(entry, bound) == entry.by = bound.owner

\* Token::verify: every transfer is signed with the key of the ticket before
\* it, and only the last ticket has to be valid now.
Verified(token, now) ==
    /\ VerifyBase(token.chain[1])
    /\ \A i \in 2 .. Len(token.chain) : VerifyHistory(token.chain[i], token.chain[i - 1].to)
    /\ TicketValid(CurrentTicket(token), now)
-----------------------------------------------------------------------------
\* WalletData::new, and the fields that payments use.
NewWallet(key) == [key |-> key, tokens |-> <<>>, pending |-> <<>>, tickets |-> <<>>]

\* The loop reads the tokens and leaves them where they are.
TransferKeepsToken(w, amount, recipient, refused, sig) ==
    LET n == Len(w.tokens)
    IN  IF n < amount THEN [ok |-> FALSE, w |-> w]
        ELSE [ok |-> TRUE,
              w |-> [w EXCEPT !.pending = @ \o [i \in 1 .. amount |->
                        Transferred(w.tokens[n + 1 - i], recipient, w.key, sig)]]]

\* transfer_inner.  Tokens are taken from the end; the loop takes one more than
\* it sends, if there is one.  A recipient that does not decode sends nothing
\* and is no error.  `refused` is the number of the signature that the card
\* refuses, 0 if none is: the token at hand is then gone.
TransferInner(w, amount, recipient, refused, sig) ==
    LET n == Len(w.tokens)
        sent == IF refused = 0 THEN amount ELSE refused - 1
        rest == IF refused = 0 THEN n - amount - 1 ELSE n - refused
        Sign(i) == Transferred(w.tokens[n + 1 - i], recipient, w.key, sig)
    IN  CASE n < amount -> [ok |-> FALSE, w |-> w]
          [] n >= amount /\ recipient = Malformed -> [ok |-> TRUE, w |-> w]
          [] OTHER -> [ok |-> refused = 0,
                       w |-> [w EXCEPT !.tokens = SubSeq(@, 1, rest),
                                       !.pending = @ \o [i \in 1 .. sent |-> Sign(i)]]]

\* transfer_with_swap_retry: a failed attempt is repeated for the whole amount
\* once the swap server has authorized the last token that is left.
TransferWithSwapRetry(w, amount, recipient, refused, again, authorized, sig) ==
    LET first == TransferInner(w, amount, recipient, refused, sig)
    IN  IF first.ok \/ first.w.tokens = <<>> \/ ~ authorized THEN first
        ELSE TransferInner(first.w, amount, recipient, again, sig)

\* withdraw: the last ticket is used up, the tokens are not verified.
Withdrawn(w, reply) == [w EXCEPT !.tickets = Front(@), !.tokens = @ \o reply]

\* verify_signature_and_key of a ticket in the clerk's reply.
VerifySignatureAndKey(entry) == entry.signed

\* get_tickets: the tickets of the reply up to the first bad one are kept.
GetTickets(w, reply) ==
    LET bad == {i \in DOMAIN reply : ~ VerifySignatureAndKey(reply[i])}
        n == IF bad = {} THEN Len(reply) ELSE Min(bad) - 1
    IN  [ok |-> bad = {},
         w |-> [w EXCEPT !.tickets = @ \o [i \in 1 .. n |-> reply[i].ticket]]]

\* refresh_tickets: tickets are replaced in place, bad ones are passed over; an
\* index out of range stops everything.
RefreshTickets(w, indices, reply) ==
    LET At(j) == {i \in DOMAIN indices : VerifySignatureAndKey(reply[i]) /\ indices[i] = j}
    IN  IF \E i \in DOMAIN indices : indices[i] \notin DOMAIN w.tickets THEN w
        ELSE [w EXCEPT !.tickets = [j \in DOMAIN w.tickets |->
                IF At(j) = {} THEN w.tickets[j] ELSE reply[Max(At(j))].ticket]]

\* self_transfer_expired: tokens of expired tickets go to the valid ticket that
\* expires first, and to the end of the wallet.
SelfTransferExpired(w, now, sig) ==
    LET valid == {i \in DOMAIN w.tickets : w.tickets[i].expires > now}
        dest == CHOOSE i \in valid :
                   \A j \in valid : \/ w.tickets[i].expires < w.tickets[j].expires
                                    \/ w.tickets[i].expires = w.tickets[j].expires /\ i <= j
        expired == {i \in DOMAIN w.tokens : CurrentTicket(w.tokens[i]).expires < now}
        kept == InOrder(DOMAIN w.tokens \ expired)
        moved == Reverse(InOrder(expired))
        Move(token) == Transferred(token, w.tickets[dest], w.key, sig)
    IN  IF valid = {} THEN w
        ELSE [w EXCEPT !.tokens = [i \in DOMAIN kept |-> w.tokens[kept[i]]]
                                    \o [i \in DOMAIN moved |-> Move(w.tokens[moved[i]])]]
=============================================================================
