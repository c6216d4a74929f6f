--------------------------- MODULE BridgeContract ---------------------------
(***************************************************************************)
(* The L1 bridge contract (src/contracts/src/BrioletteBridge.sol): the     *)
(* deposits that back Briolette tokens, the withdrawals that redeem them   *)
(* after a challenge period, and the epoch commitments.                    *)
(*                                                                         *)
(* `store` is the contract's storage and balance.  Every external function *)
(* is one atomic action, except completeWithdrawal: it hands control to    *)
(* the recipient, who may call the contract again before it returns.  An   *)
(* open call is a frame that keeps the storage of the moment the function  *)
(* was entered, and a call that fails rolls back to it.                    *)
(*                                                                         *)
(* The operator is an externally owned account (alloy_client.rs signs with *)
(* its private key), so its functions never run inside another call.  The  *)
(* key registry functions touch none of this state.                        *)
(***************************************************************************)
EXTENDS Integers, Sequences, Functions

CONSTANTS
    Addresses,        \* accounts
    Amounts,          \* the values a deposit or a withdrawal may have
    TicketHashes,     \* non-zero ticket hashes
    EpochNums,        \* epoch numbers
    DataHashes,       \* non-zero hashes of epoch data
    CHALLENGE_PERIOD,
    MaxDeposits, MaxWithdrawals, MaxReceived, MaxTime, MaxDepth   \* bounds

ASSUME BridgeAssumption ==
    /\ Amounts \subseteq Nat \ {0}
    /\ EpochNums \subseteq Nat
    /\ CHALLENGE_PERIOD \in Nat
    /\ MaxTime \in Nat

VARIABLES
    store,         \* deposits, withdrawals, totals and balance
    calls,         \* the open calls to recipients, innermost last
    operator,
    epochs,        \* the commitments by epoch number
    latestEpoch,
    now            \* block.timestamp

vars == <<store, calls, operator, epochs, latestEpoch, now>>
-----------------------------------------------------------------------------
Deposit == [amount : Amounts, ticketHash : TicketHashes, processed : BOOLEAN]

\* `paid` is what the recipient's account got for this withdrawal.
Withdrawal ==
    [recipient : Addresses, amount : Amounts, initiatedAt : Nat,
     completed : BOOLEAN, challenged : BOOLEAN, paid : Nat]

Store ==
    [deposits : Seq(Deposit), withdrawals : Seq(Withdrawal),
     totalDeposited : Nat, totalMinted : Nat, balance : Nat]

NoEpoch == [published |-> FALSE]

EpochCommitment ==
    [published : {TRUE}, dataHash : DataHashes, challenged : BOOLEAN]

\* Storage is well-formed, here and in every state a failing call would fall
\* back to: in particular no total ever goes below zero.
TypeOK ==
    /\ store \in Store
    /\ calls \in Seq([id : Nat, saved : Store])
    /\ operator \in Addresses
    /\ epochs \in [EpochNums -> EpochCommitment \cup {NoEpoch}]
    /\ latestEpoch \in Nat
    /\ now \in 0 .. MaxTime

Init ==
    /\ store = [deposits |-> <<>>, withdrawals |-> <<>>,
                totalDeposited |-> 0, totalMinted |-> 0, balance |-> 0]
    /\ calls = <<>>
    /\ operator \in Addresses
    /\ epochs = [n \in EpochNums |-> NoEpoch]
    /\ latestEpoch = 0
    /\ now = 0

TopLevel == calls = <<>>
-----------------------------------------------------------------------------
\* deposit: the ether moves with the call.
DepositEther(amount, ticketHash) ==
    /\ Len(store.deposits) < MaxDeposits
    /\ store' = [deposits       |-> Append(store.deposits,
                                       [amount     |-> amount,
                                        ticketHash |-> ticketHash,
                                        processed  |-> FALSE]),
                 withdrawals    |-> store.withdrawals,
                 totalDeposited |-> store.totalDeposited + amount,
                 totalMinted    |-> store.totalMinted,
                 balance        |-> store.balance + amount]
    /\ UNCHANGED <<calls, operator, epochs, latestEpoch, now>>

\* receive: ether that backs no deposit.
Receive(amount) ==
    /\ store.balance + amount <= MaxReceived
    /\ store' = [deposits       |-> store.deposits,
                 withdrawals    |-> store.withdrawals,
                 totalDeposited |-> store.totalDeposited + amount,
                 totalMinted    |-> store.totalMinted,
                 balance        |-> store.balance + amount]
    /\ UNCHANGED <<calls, operator, epochs, latestEpoch, now>>

\* Mutant: a deposit may be marked twice.
MarkDepositProcessedAgain(c, id) ==
    /\ TopLevel /\ c = operator
    /\ store' = [store EXCEPT !.deposits[id].processed = TRUE,
                              !.totalMinted = @ + store.deposits[id].amount]
    /\ UNCHANGED <<calls, operator, epochs, latestEpoch, now>>

markDepositProcessed(c, id) ==
    LET dep == store.deposits[id]
    IN  /\ TopLevel /\ c = operator
        /\ ~ dep.processed
        /\ store' = [deposits       |-> [store.deposits EXCEPT ![id] =
                                           [amount     |-> dep.amount,
                                            ticketHash |-> dep.ticketHash,
                                            processed  |-> TRUE]],
                     withdrawals    |-> store.withdrawals,
                     totalDeposited |-> store.totalDeposited,
                     totalMinted    |-> store.totalMinted + dep.amount,
                     balance        |-> store.balance]
        /\ UNCHANGED <<calls, operator, epochs, latestEpoch, now>>

\* Mutant: the minted total is not charged when the withdrawal starts.
InitiateWithdrawalUncharged(c, recipient, amount) ==
    /\ TopLevel /\ c = operator
    /\ Len(store.withdrawals) < MaxWithdrawals
    /\ store.balance >= amount
    /\ store' = [store EXCEPT !.withdrawals =
                    Append(@, [recipient   |-> recipient,
                               amount      |-> amount,
                               initiatedAt |-> now,
                               completed   |-> FALSE,
                               challenged  |-> FALSE,
                               paid        |-> 0])]
    /\ UNCHANGED <<calls, operator, epochs, latestEpoch, now>>

\* Mutant: `totalMinted -= amount` as unchecked arithmetic.
InitiateWithdrawalUnchecked(c, recipient, amount) ==
    /\ TopLevel /\ c = operator
    /\ Len(store.withdrawals) < MaxWithdrawals
    /\ store.balance >= amount
    /\ store' = [store EXCEPT !.withdrawals =
                    Append(@, [recipient   |-> recipient,
                               amount      |-> amount,
                               initiatedAt |-> now,
                               completed   |-> FALSE,
                               challenged  |-> FALSE,
                               paid        |-> 0]),
                              !.totalMinted = @ - amount]
    /\ UNCHANGED <<calls, operator, epochs, latestEpoch, now>>

\* `totalMinted -= amount` is checked: it reverts below zero.
initiateWithdrawal(c, recipient, amount) ==
    /\ TopLevel /\ c = operator
    /\ Len(store.withdrawals) < MaxWithdrawals
    /\ store.balance >= amount
    /\ store.totalMinted >= amount
    /\ store' = [deposits       |-> store.deposits,
                 withdrawals    |-> Append(store.withdrawals,
                                       [recipient   |-> recipient,
                                        amount      |-> amount,
                                        initiatedAt |-> now,
                                        completed   |-> FALSE,
                                        challenged  |-> FALSE,
                                        paid        |-> 0]),
                 totalDeposited |-> store.totalDeposited,
                 totalMinted    |-> store.totalMinted - amount,
                 balance        |-> store.balance]
    /\ UNCHANGED <<calls, operator, epochs, latestEpoch, now>>

\* Neither paid nor cancelled.
IsPending(w) == ~ w.completed /\ ~ w.challenged

\* Mutant: the withdrawal is marked completed only after the call.
CompleteWithdrawalLate(id) ==
    LET w == store.withdrawals[id]
    IN  /\ IsPending(w)
        /\ now >= w.initiatedAt + CHALLENGE_PERIOD
        /\ store.totalDeposited >= w.amount
        /\ store.balance >= w.amount
        /\ Len(calls) < MaxDepth
        /\ store' = [store EXCEPT !.withdrawals[id].paid = @ + w.amount,
                                  !.totalDeposited = @ - w.amount,
                                  !.balance = @ - w.amount]
        /\ calls' = Append(calls, [id |-> id, saved |-> store])
        /\ UNCHANGED <<operator, epochs, latestEpoch, now>>

\* completeWithdrawal up to `recipient.call`, which moves the ether and then
\* runs the recipient.  Anyone may call it; EVM gas bounds the depth.
completeWithdrawal(id) ==
    LET w == store.withdrawals[id]
    IN  /\ IsPending(w)
        /\ now >= w.initiatedAt + CHALLENGE_PERIOD
        /\ store.totalDeposited >= w.amount
        /\ store.balance >= w.amount
        /\ Len(calls) < MaxDepth
        /\ store' = [deposits       |-> store.deposits,
                     withdrawals    |-> [store.withdrawals EXCEPT ![id] =
                                           [recipient   |-> w.recipient,
                                            amount      |-> w.amount,
                                            initiatedAt |-> w.initiatedAt,
                                            completed   |-> TRUE,
                                            challenged  |-> FALSE,
                                            paid        |-> w.paid + w.amount]],
                     totalDeposited |-> store.totalDeposited - w.amount,
                     totalMinted    |-> store.totalMinted,
                     balance        |-> store.balance - w.amount]
        /\ calls' = Append(calls, [id |-> id, saved |-> store])
        /\ UNCHANGED <<operator, epochs, latestEpoch, now>>

\* The recipient returns: `require(sent)` holds.
CallSucceeds ==
    /\ calls # <<>>
    /\ calls' = SubSeq(calls, 1, Len(calls) - 1)
    /\ UNCHANGED <<store, operator, epochs, latestEpoch, now>>

\* The recipient reverts, or the function that called it does.
CallFails ==
    /\ calls # <<>>
    /\ store' = calls[Len(calls)].saved
    /\ calls' = SubSeq(calls, 1, Len(calls) - 1)
    /\ UNCHANGED <<operator, epochs, latestEpoch, now>>

\* The verifier's answer on the submitted pairing inputs is left open.
challengeWithdrawal(id) ==
    LET w == store.withdrawals[id]
    IN  /\ IsPending(w)
        /\ now < w.initiatedAt + CHALLENGE_PERIOD
        /\ store' = [deposits       |-> store.deposits,
                     withdrawals    |-> [store.withdrawals EXCEPT ![id] =
                                           [recipient   |-> w.recipient,
                                            amount      |-> w.amount,
                                            initiatedAt |-> w.initiatedAt,
                                            completed   |-> FALSE,
                                            challenged  |-> TRUE,
                                            paid        |-> w.paid]],
                     totalDeposited |-> store.totalDeposited,
                     totalMinted    |-> store.totalMinted + w.amount,
                     balance        |-> store.balance]
        /\ UNCHANGED <<calls, operator, epochs, latestEpoch, now>>
-----------------------------------------------------------------------------
\* Mutant: an epoch may be published behind the latest one.
PublishAnyEpoch(c, n, dataHash) ==
    /\ TopLevel /\ c = operator
    /\ epochs[n] = NoEpoch
    /\ epochs' = [epochs EXCEPT ![n] = [published  |-> TRUE,
                                        dataHash   |-> dataHash,
                                        challenged |-> FALSE]]
    /\ latestEpoch' = n
    /\ UNCHANGED <<store, calls, operator, now>>

publishEpoch(c, n, dataHash) ==
    /\ TopLevel /\ c = operator
    /\ n > latestEpoch \/ latestEpoch = 0
    /\ epochs[n] = NoEpoch
    /\ epochs' = [epochs EXCEPT ![n] = [published  |-> TRUE,
                                        dataHash   |-> dataHash,
                                        challenged |-> FALSE]]
    /\ latestEpoch' = n
    /\ UNCHANGED <<store, calls, operator, now>>

\* Inside a recipient's call this is the same step as just before it.
challengeEpoch(n) ==
    /\ TopLevel
    /\ epochs[n] # NoEpoch
    /\ ~ epochs[n].challenged
    /\ epochs' = [epochs EXCEPT ![n].challenged = TRUE]
    /\ UNCHANGED <<store, calls, operator, latestEpoch, now>>

transferOperator(c, newOperator) ==
    /\ TopLevel /\ c = operator
    /\ operator' = newOperator
    /\ UNCHANGED <<store, calls, epochs, latestEpoch, now>>

\* Blocks are mined between transactions.
Tick ==
    /\ TopLevel
    /\ now < MaxTime
    /\ now' = now + 1
    /\ UNCHANGED <<store, calls, operator, epochs, latestEpoch>>

OperatorStep(c) ==
    \/ \E id \in DOMAIN store.deposits : markDepositProcessed(c, id)
    \/ \E r \in Addresses, a \in Amounts : initiateWithdrawal(c, r, a)
    \/ \E n \in EpochNums, h \in DataHashes : publishEpoch(c, n, h)
    \/ \E new \in Addresses : transferOperator(c, new)

PublicStep ==
    \/ \E a \in Amounts, h \in TicketHashes : DepositEther(a, h)
    \/ \E a \in Amounts : Receive(a)
    \/ \E id \in DOMAIN store.withdrawals :
          completeWithdrawal(id) \/ challengeWithdrawal(id)
    \/ \E n \in EpochNums : challengeEpoch(n)

Next ==
    \/ \E c \in Addresses : OperatorStep(c)
    \/ PublicStep
    \/ CallSucceeds
    \/ CallFails
    \/ Tick

Spec == Init /\ [][Next]_vars
-----------------------------------------------------------------------------
\* What is still to be minted, and still to be paid out, by position.
Unprocessed(s) ==
    [i \in DOMAIN s.deposits |->
        IF s.deposits[i].processed THEN 0 ELSE s.deposits[i].amount]

Pending(s) ==
    [i \in DOMAIN s.withdrawals |->
        IF IsPending(s.withdrawals[i]) THEN s.withdrawals[i].amount ELSE 0]

(***************************************************************************)
(* Properties.                                                             *)
(***************************************************************************)
\* The bridge is solvent: its ether covers every deposit still to be minted,
\* every token minted and not redeemed, and every withdrawal in its challenge
\* period, also while a recipient runs and may call the contract again.
Solvent ==
    SumFunction(Unprocessed(store)) + store.totalMinted
        + SumFunction(Pending(store)) <= store.balance

\* A withdrawal that nobody challenged can be paid: neither the subtraction
\* in completeWithdrawal nor the transfer of the ether fails for want of
\* funds, whatever was paid or challenged since it was initiated.
PendingIsPayable ==
    \A id \in DOMAIN store.withdrawals :
        IsPending(store.withdrawals[id]) =>
            /\ store.withdrawals[id].amount <= store.totalDeposited
            /\ store.withdrawals[id].amount <= store.balance

\* A withdrawal is paid once and in full when it is completed, and never when
\* it is pending or cancelled, although the recipient may call
\* completeWithdrawal again from within the payment.
PaidExactlyOnce ==
    \A id \in DOMAIN store.withdrawals :
        LET w == store.withdrawals[id]
        IN  /\ w.paid = IF w.completed THEN w.amount ELSE 0
            /\ ~ (w.completed /\ w.challenged)

\* latestEpoch is the newest published epoch: none was published behind it,
\* the epoch with number zero included.
LatestEpochIsNewest ==
    \A n \in EpochNums : epochs[n] # NoEpoch => n <= latestEpoch
=============================================================================
