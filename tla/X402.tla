-------------------------------- MODULE X402 --------------------------------
(***************************************************************************)
(* Payments over HTTP (src/src/x402): the paywall in front of a resource,  *)
(* the facilitator that verifies a payment, and the client that answers a  *)
(* 402 by paying from its wallet.                                          *)
(*                                                                         *)
(* The client hands the `pay_to` of the requirements, JSON text, to the    *)
(* wallet as an encoded ticket, which it never is: the wallet moves no     *)
(* token and reports success.  What the client sends are the tokens that   *)
(* are pending in the wallet, which the application has transferred        *)
(* beforehand.                                                             *)
(***************************************************************************)
EXTENDS Integers, Sequences

CONSTANTS
    Purses,             \* the wallets that a client may begin with
    TokenValue,         \* the value of a token, by its id
    Requirements,       \* the amounts that a paywall may ask for
    MicrosPerWhole,
    Owners,             \* the keys that tickets are for and wallets sign with
    PayTicket, Now,     \* the gateway's ticket, and the time
    MaxGets             \* bound on requests

W == INSTANCE Wallet

\* Amounts have less than a whole unit in micros.
Amount == [whole : Nat, micros : 0 .. MicrosPerWhole - 1]

XTicket == [owner : Owners, created : Nat, expires : Nat]

HeldToken ==
    [id : DOMAIN TokenValue,
     chain : Seq([to : XTicket, by : Owners \cup {W!Mint}, sig : Nat])]

Purse == [key : Owners, tokens : Seq(HeldToken), pending : Seq(HeldToken), tickets : {<<>>}]

ASSUME X402Assumption ==
    /\ MicrosPerWhole \in Nat \ {0}
    /\ TokenValue \in [DOMAIN TokenValue -> Amount]
    /\ Requirements \subseteq Amount
    /\ Purses \subseteq Purse
    /\ PayTicket \in XTicket

VARIABLES
    purse,
    required,   \* PaywallConfig::required_amount
    get,        \* the request in progress
    verdict     \* the facilitator's last answer, and the tokens it was about

xVars == <<purse, required, get, verdict>>

NoGet == [pc |-> "idle", tokens |-> <<>>]
NoVerdict == [paid |-> FALSE, tokens |-> <<>>]

\* Amount::add of amounts of one currency.
AddAmounts(a, b) ==
    LET micros == a.micros + b.micros
    IN  [whole |-> a.whole + b.whole + micros \div MicrosPerWhole, micros |-> micros % MicrosPerWhole]

SumAmounts(tokens) ==
    LET sum[n \in 0 .. Len(tokens)] ==
            IF n = 0 THEN [whole |-> 0, micros |-> 0]
            ELSE AddAmounts(sum[n - 1], TokenValue[tokens[n].id])
    IN  sum[Len(tokens)]

\* Each part is compared by itself.
InsufficientInEither(total, need) == total.whole < need.whole \/ total.micros < need.micros

Insufficient(total, need) ==
    \/ total.whole < need.whole
    \/ total.whole = need.whole /\ total.micros < need.micros

\* Facilitator::verify_payment
VerifyPayment(tokens) ==
    /\ tokens # <<>>
    /\ \A i \in DOMAIN tokens : W!Verified(tokens[i], Now)
    /\ ~ Insufficient(SumAmounts(tokens), required)
-----------------------------------------------------------------------------
\* The application transfers tokens to the gateway's ticket.
ApplicationTransfer(n) ==
    /\ get = NoGet
    /\ LET result == W!TransferInner(purse, n, PayTicket, 0, Len(purse.pending) + 1)
       IN  result.ok /\ purse' = result.w
    /\ UNCHANGED <<required, get, verdict>>

\* X402Client::get without a payment: the middleware answers 402.
GetUnpaid ==
    /\ get = NoGet
    /\ get' = [get EXCEPT !.pc = "challenged"]
    /\ UNCHANGED <<purse, required, verdict>>

\* prepare_payment: as many tokens as the whole units of the amount; all that is pending.
PreparePayment ==
    LET result == W!TransferInner(purse, required.whole, W!Malformed, 0, 0)
    IN  /\ get.pc = "challenged"
        /\ purse' = result.w
        /\ get' = IF result.ok THEN [pc |-> "paying", tokens |-> result.w.pending] ELSE NoGet
        /\ UNCHANGED <<required, verdict>>

\* The request with the payment: PaywallMiddleware::call.  It keeps nothing of the tokens.
GetPaid ==
    /\ get.pc = "paying"
    /\ verdict' = [paid |-> VerifyPayment(get.tokens), tokens |-> get.tokens]
    /\ get' = NoGet
    /\ UNCHANGED <<purse, required>>

\* It does not arrive.
GetLost == get # NoGet /\ get' = NoGet /\ UNCHANGED <<purse, required, verdict>>

XInit == purse \in Purses /\ required \in Requirements /\ get = NoGet /\ verdict = NoVerdict
XNext == \/ \E n \in 1 .. MaxGets : ApplicationTransfer(n)
         \/ GetUnpaid \/ PreparePayment \/ GetPaid \/ GetLost
-----------------------------------------------------------------------------
Micros(a) == a.whole * MicrosPerWhole + a.micros

(* The resource is given for a payment exactly when it has tokens, all     *)
(* genuine and signed over to somebody in time, and they are together      *)
(* worth what is asked, however whole and fractional parts add up and      *)
(* carry; whatever the wallet has made of its tokens before.               *)
PaidExactly ==
    verdict.tokens # <<>> =>
        (verdict.paid <=>
            /\ \A i \in DOMAIN verdict.tokens : W!Verified(verdict.tokens[i], Now)
            /\ Micros(SumAmounts(verdict.tokens)) >= Micros(required))
=============================================================================
