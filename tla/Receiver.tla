------------------------------ MODULE Receiver ------------------------------
(***************************************************************************)
(* The receiver of a payment (src/src/receiver/src/server.rs): the four    *)
(* requests Initiate, Gossip, Transact and Transfer of a peer that pays,   *)
(* and one timer task per transaction that aborts it when it stalls.       *)
(*                                                                         *)
(* The map of transactions and the wallet have a lock each.  A handler     *)
(* takes them one after the other, never together, so its lookup of the    *)
(* transaction, its use of the wallet and its insertion of the next state  *)
(* are steps between which other handlers and the timer run.  What the     *)
(* handler keeps from one to the next is in `rpc`, one slot per request.   *)
(* A request that fails its lookup changes nothing and is left out.        *)
(*                                                                         *)
(* The amount to pay is set once, before the server starts to listen.  An  *)
(* Initiate that finds the wallet poisoned only uses up an id, and is left *)
(* out too.                                                                *)
(***************************************************************************)
EXTENDS Naturals, Sequences, Functions

CONSTANTS
    Peers,          \* socket addresses of payers
    Tokens,
    Value,          \* Value[t]: the amount of a token
    Epochs,         \* epoch numbers
    Verifiable,     \* Verifiable[e]: the tokens that epoch e's keys verify
    InitialEpoch,   \* what the wallet synchronized before it listens
    Price,          \* next_tx_amount
    Tickets, Me,    \* recipients' tickets, and the last one of this wallet
    Payments,       \* the token sequences that a peer may propose or transfer
    Updates,        \* the EpochUpdates that a peer may send
    NoData,         \* an update whose data is missing altogether
    NoUpdate,       \* no update
    Workers,        \* slots for requests in flight
    MaxTx,          \* bound on transactions
    MaxRequests     \* bound on Gossip, Transact and Transfer requests

Ids == 1 .. MaxTx

\* body: what is wrong with the part of an update that the signature does not
\* cover, if anything.
Update == [epoch : Epochs, signed : BOOLEAN,
           body : {"complete", "absent", "mismatched"}]

Payment == Seq([token : Tokens, to : Tickets])

ASSUME ReceiverAssumption ==
    /\ Value \in [Tokens -> Nat]
    /\ Epochs \subseteq Nat
    /\ InitialEpoch \in Epochs
    /\ Verifiable \in [Epochs -> SUBSET Tokens]
    /\ Price \in Nat \ {0}
    /\ Me \in Tickets
    /\ Payments \subseteq Payment
    /\ Updates \subseteq Update \cup {NoData}
    /\ NoData \notin Update /\ NoUpdate \notin Epochs
    /\ MaxTx \in Nat
    /\ MaxRequests \in Nat

VARIABLES
    transactions,  \* the entry of every id
    next_id,
    timer,         \* the timer task of every id
    wallet,        \* epoch, update and keys: of which epoch the wallet holds them
    poisoned,      \* a handler panicked while it was writing the wallet
    received,      \* wallet.tokens, in order, with the transaction of each
    rpc,           \* the requests in flight
    opened,        \* opened[id]: the peer that Initiate gave the id to
    accepted,      \* the <<id, payment>> of Transfers answered with accepted
    requests       \* number of requests that were looked up

vars == <<transactions, next_id, timer, wallet, poisoned, received, rpc,
          opened, accepted, requests>>
-----------------------------------------------------------------------------
TransactionStates == {"Gossip", "Transact", "Transfer", "Complete"}

Transaction == [state : TransactionStates, peer : Peers]

NoTransaction == [state |-> "none"]

\* The timer reads the state, waits for a tick, compares, and removes the entry
\* up to twice.  A panicked timer found no entry where it expected one.
Timer == [pc : {"off", "read", "panicked"}]
           \cup [pc : {"wait"}, last : TransactionStates]
           \cup [pc : {"remove"}, times : 1 .. 2]

Off == [pc |-> "off"]

Idle == [pc |-> "idle"]

\* A request holds its copy of the transaction.
Request == [pc : {"idle"}]
             \cup [pc : {"gossip"}, id : Ids, peer : Peers,
                   update : Updates \cup {NoUpdate}]
             \cup [pc : {"gossiped", "proposed"}, id : Ids, peer : Peers]
             \cup [pc : {"transact", "transfer"}, id : Ids, peer : Peers,
                   payment : Payments]
             \cup [pc : {"push"}, id : Ids, peer : Peers, payment : Payments,
                   next : Nat \ {0}]

\* The receiver's maps and the requests in flight are well-formed.
TypeOK ==
    /\ transactions \in [Ids -> Transaction \cup {NoTransaction}]
    /\ next_id \in 1 .. (MaxTx + 1)
    /\ timer \in [Ids -> Timer]
    /\ wallet \in [epoch : Epochs, update : Epochs \cup {NoUpdate}, keys : Epochs]
    /\ poisoned \in BOOLEAN
    /\ received \in Seq([tx : Ids, token : Tokens, from : Peers])
    /\ rpc \in [Workers -> Request]
    /\ opened \in Seq(Peers) /\ Len(opened) = next_id - 1
    /\ accepted \subseteq Ids \X Payments
    /\ requests \in 0 .. MaxRequests

Init ==
    /\ transactions = [id \in Ids |-> NoTransaction]
    /\ next_id = 1
    /\ timer = [id \in Ids |-> Off]
    /\ wallet = [epoch |-> InitialEpoch, update |-> InitialEpoch,
                 keys |-> InitialEpoch]
    /\ poisoned = FALSE
    /\ received = <<>>
    /\ rpc = [w \in Workers |-> Idle]
    /\ opened = <<>>
    /\ accepted = {}
    /\ requests = 0

Goto(w, request) == rpc' = [rpc EXCEPT ![w] = request]

Reply(w) == Goto(w, Idle)

Insert(id, state, peer) ==
    transactions' = [transactions EXCEPT ![id] = [state |-> state, peer |-> peer]]
-----------------------------------------------------------------------------
(***************************************************************************)
(* initiate_impl.  The id is known to nobody before the reply, so that the *)
(* handler is one step.                                                    *)
(***************************************************************************)
\* The state depends on the epoch that the request carries, if any.
FirstState(epoch) == IF epoch = wallet.epoch THEN "Transact" ELSE "Gossip"

\* A wallet without an update panics after the entry was inserted and before
\* its timer is spawned.
Initiate(peer, epoch) ==
    /\ next_id <= MaxTx
    /\ ~ poisoned
    /\ Insert(next_id, FirstState(epoch), peer)
    /\ opened' = Append(opened, peer)
    /\ next_id' = next_id + 1
    /\ timer' = IF wallet.update = NoUpdate THEN timer
                ELSE [timer EXCEPT ![next_id] = [pc |-> "read"]]
    /\ UNCHANGED <<wallet, poisoned, received, rpc, accepted, requests>>
-----------------------------------------------------------------------------
(***************************************************************************)
(* The lookup that the other three handlers start with.  None of them      *)
(* looks at the state that the transaction is in.                          *)
(***************************************************************************)
\* Mutant: the peer of the request is not compared.
LookupAnyPeer(w, id, peer) ==
    /\ rpc[w] = Idle
    /\ requests < MaxRequests
    /\ requests' = requests + 1
    /\ transactions[id] # NoTransaction

Lookup(w, id, peer) ==
    /\ rpc[w] = Idle
    /\ requests < MaxRequests
    /\ requests' = requests + 1
    /\ transactions[id] # NoTransaction
    /\ transactions[id].peer = peer

Gossip(w, id, peer, update) ==
    /\ Lookup(w, id, peer)
    /\ Goto(w, [pc |-> "gossip", id |-> id, peer |-> peer, update |-> update])
    /\ UNCHANGED <<transactions, next_id, timer, wallet, poisoned, received,
                   opened, accepted>>

Transact(w, id, peer, payment) ==
    /\ Lookup(w, id, peer)
    /\ Goto(w, [pc |-> "transact", id |-> id, peer |-> peer,
                payment |-> payment])
    /\ UNCHANGED <<transactions, next_id, timer, wallet, poisoned, received,
                   opened, accepted>>

Transfer(w, id, peer, payment) ==
    /\ Lookup(w, id, peer)
    /\ Goto(w, [pc |-> "transfer", id |-> id, peer |-> peer,
                payment |-> payment])
    /\ UNCHANGED <<transactions, next_id, timer, wallet, poisoned, received,
                   opened, accepted>>
-----------------------------------------------------------------------------
(***************************************************************************)
(* The rest of gossip_impl.                                                *)
(***************************************************************************)
\* gossip_synchronize, once an update is newer.  A bad body is noticed when
\* part of the update is already in the wallet.
SynchronizedWallet(update) ==
    CASE ~ update.signed               -> wallet
      [] update.signed /\ update.body = "absent"
                                       -> [wallet EXCEPT !.update = update.epoch]
      [] update.signed /\ update.body = "mismatched"
                                       -> [wallet EXCEPT !.epoch = update.epoch,
                                                         !.update = NoUpdate]
      [] update.signed /\ update.body = "complete"
                                       -> [epoch  |-> update.epoch,
                                           update |-> update.epoch,
                                           keys   |-> update.epoch]

Synchronizes(update) == update.signed /\ update.body = "complete"

Gossiped(w) == Goto(w, [pc |-> "gossiped", id |-> rpc[w].id,
                        peer |-> rpc[w].peer])

\* Mutant: an older update is taken over as well.
GossipDifferent(w) ==
    /\ rpc[w].pc = "gossip"
    /\ ~ poisoned
    /\ rpc[w].update \notin {NoUpdate, NoData}
    /\ rpc[w].update.epoch # wallet.epoch
    /\ wallet' = SynchronizedWallet(rpc[w].update)
    /\ IF Synchronizes(rpc[w].update) THEN Gossiped(w) ELSE Reply(w)
    /\ UNCHANGED <<transactions, next_id, timer, poisoned, received, opened,
                   accepted, requests>>

\* The wallet takes over a newer update.
GossipNewer(w) ==
    /\ rpc[w].pc = "gossip"
    /\ ~ poisoned
    /\ rpc[w].update \notin {NoUpdate, NoData}
    /\ rpc[w].update.epoch > wallet.epoch
    /\ wallet' = SynchronizedWallet(rpc[w].update)
    /\ IF Synchronizes(rpc[w].update) THEN Gossiped(w) ELSE Reply(w)
    /\ UNCHANGED <<transactions, next_id, timer, poisoned, received, opened,
                   accepted, requests>>

\* No update, or none that is newer.
GossipOther(w) ==
    /\ rpc[w].pc = "gossip"
    /\ ~ poisoned
    /\ rpc[w].update # NoData
    /\ rpc[w].update # NoUpdate => rpc[w].update.epoch <= wallet.epoch
    /\ Gossiped(w)
    /\ UNCHANGED <<transactions, next_id, timer, wallet, poisoned, received,
                   opened, accepted, requests>>

\* An update without data panics in `data.as_ref().unwrap()` while the wallet
\* is locked for writing.
GossipPanic(w) ==
    /\ rpc[w].pc = "gossip"
    /\ ~ poisoned
    /\ rpc[w].update = NoData
    /\ poisoned' = TRUE
    /\ Reply(w)
    /\ UNCHANGED <<transactions, next_id, timer, wallet, received, opened,
                   accepted, requests>>

GossipInsert(w) ==
    /\ rpc[w].pc = "gossiped"
    /\ Insert(rpc[w].id, "Transact", rpc[w].peer)
    /\ Reply(w)
    /\ UNCHANGED <<next_id, timer, wallet, poisoned, received, opened,
                   accepted, requests>>
-----------------------------------------------------------------------------
(***************************************************************************)
(* The rest of transact_impl and transfer_impl.                            *)
(***************************************************************************)
verify_tokens(payment) ==
    \A i \in DOMAIN payment : payment[i].token \in Verifiable[wallet.keys]

Total(payment) ==
    SumFunction([i \in DOMAIN payment |-> Value[payment[i].token]])

Settles(payment) ==
    /\ Total(payment) = Price
    /\ \A i \in DOMAIN payment : payment[i].to = Me

\* The proposal is checked, all its methods as one; only an accepted one will
\* change the state.
TransactVerify(w) ==
    /\ rpc[w].pc = "transact"
    /\ ~ poisoned
    /\ LET accept == /\ verify_tokens(rpc[w].payment)
                     /\ Total(rpc[w].payment) = Price
       IN  \/ accept /\ Goto(w, [pc |-> "proposed", id |-> rpc[w].id,
                                 peer |-> rpc[w].peer])
           \/ ~ accept /\ Reply(w)
    /\ UNCHANGED <<transactions, next_id, timer, wallet, poisoned, received,
                   opened, accepted, requests>>

TransactInsert(w) ==
    /\ rpc[w].pc = "proposed"
    /\ Insert(rpc[w].id, "Transfer", rpc[w].peer)
    /\ Reply(w)
    /\ UNCHANGED <<next_id, timer, wallet, poisoned, received, opened,
                   accepted, requests>>

TransferVerify(w) ==
    /\ rpc[w].pc = "transfer"
    /\ ~ poisoned
    /\ LET accept == verify_tokens(rpc[w].payment) /\ Settles(rpc[w].payment)
       IN  \/ accept /\ Goto(w, [pc |-> "push", id |-> rpc[w].id,
                                 peer |-> rpc[w].peer, next |-> 1,
                                 payment |-> rpc[w].payment])
           \/ ~ accept /\ Reply(w)
    /\ UNCHANGED <<transactions, next_id, timer, wallet, poisoned, received,
                   opened, accepted, requests>>

\* One token goes to the wallet, which is locked for it alone.
TransferPush(w) ==
    /\ rpc[w].pc = "push"
    /\ ~ poisoned
    /\ rpc[w].next <= Len(rpc[w].payment)
    /\ received' = Append(received,
                          [tx    |-> rpc[w].id,
                           token |-> rpc[w].payment[rpc[w].next].token,
                           from  |-> rpc[w].peer])
    /\ Goto(w, [rpc[w] EXCEPT !.next = @ + 1])
    /\ UNCHANGED <<transactions, next_id, timer, wallet, poisoned, opened,
                   accepted, requests>>

\* Mutant: the transaction completes with the first token.
TransferInsertEarly(w) ==
    /\ rpc[w].pc = "push"
    /\ rpc[w].next > 1
    /\ Insert(rpc[w].id, "Complete", rpc[w].peer)
    /\ accepted' = accepted \cup {<<rpc[w].id, rpc[w].payment>>}
    /\ Reply(w)
    /\ UNCHANGED <<next_id, timer, wallet, poisoned, received, opened, requests>>

TransferInsert(w) ==
    /\ rpc[w].pc = "push"
    /\ rpc[w].next > Len(rpc[w].payment)
    /\ Insert(rpc[w].id, "Complete", rpc[w].peer)
    /\ accepted' = accepted \cup {<<rpc[w].id, rpc[w].payment>>}
    /\ Reply(w)
    /\ UNCHANGED <<next_id, timer, wallet, poisoned, received, opened, requests>>

\* Every use of a poisoned wallet panics, and with it the request.
PoisonedPanic(w) ==
    /\ poisoned
    /\ \/ rpc[w].pc \in {"gossip", "transact", "transfer"}
       \/ rpc[w].pc = "push" /\ rpc[w].next <= Len(rpc[w].payment)
    /\ Reply(w)
    /\ UNCHANGED <<transactions, next_id, timer, wallet, poisoned, received,
                   opened, accepted, requests>>
-----------------------------------------------------------------------------
(***************************************************************************)
(* The timer task of a transaction.                                        *)
(***************************************************************************)
SetTimer(id, t) == timer' = [timer EXCEPT ![id] = t]

TimerRead(id) ==
    /\ timer[id].pc = "read"
    /\ IF transactions[id] = NoTransaction
       THEN SetTimer(id, Off)
       ELSE SetTimer(id, [pc |-> "wait", last |-> transactions[id].state])
    /\ UNCHANGED <<transactions, next_id, wallet, poisoned, received, rpc,
                   opened, accepted, requests>>

\* How often the code after a tick removes the entry: once for a state that did
\* not change, once for a complete one.
Removals(state, last) ==
    (IF state = last THEN 1 ELSE 0) + (IF state = "Complete" THEN 1 ELSE 0)

\* Mutant: a transaction that moved on is removed as well.
TimerTickAlways(id) ==
    /\ timer[id].pc = "wait"
    /\ IF transactions[id] = NoTransaction
       THEN SetTimer(id, [pc |-> "panicked"])
       ELSE SetTimer(id, [pc |-> "remove",
                          times |-> Removals(transactions[id].state,
                                             timer[id].last)])
    /\ UNCHANGED <<transactions, next_id, wallet, poisoned, received, rpc,
                   opened, accepted, requests>>

\* 5 seconds have passed.
TimerTick(id) ==
    /\ timer[id].pc = "wait"
    /\ IF transactions[id] = NoTransaction
       THEN SetTimer(id, [pc |-> "panicked"])
       ELSE LET n == Removals(transactions[id].state, timer[id].last)
            IN  SetTimer(id, IF n = 0 THEN [pc |-> "read"]
                             ELSE [pc |-> "remove", times |-> n])
    /\ UNCHANGED <<transactions, next_id, wallet, poisoned, received, rpc,
                   opened, accepted, requests>>

\* Mutant: the task of a stalled transaction waits on after removing it.
TimerRemoveAndWait(id) ==
    /\ timer[id].pc = "remove"
    /\ transactions' = [transactions EXCEPT ![id] = NoTransaction]
    /\ SetTimer(id, [pc |-> "wait", last |-> "Gossip"])
    /\ UNCHANGED <<next_id, wallet, poisoned, received, rpc, opened, accepted,
                   requests>>

\* Mutant: only a complete transaction is removed.
TimerRemoveComplete(id) ==
    /\ timer[id].pc = "remove"
    /\ transactions' = IF transactions[id] # NoTransaction
                            /\ transactions[id].state = "Complete"
                       THEN [transactions EXCEPT ![id] = NoTransaction]
                       ELSE transactions
    /\ SetTimer(id, [pc |-> "read"])
    /\ UNCHANGED <<next_id, wallet, poisoned, received, rpc, opened, accepted,
                   requests>>

TimerRemove(id) ==
    /\ timer[id].pc = "remove"
    /\ transactions' = [transactions EXCEPT ![id] = NoTransaction]
    /\ SetTimer(id, IF timer[id].times = 2 THEN [pc |-> "remove", times |-> 1]
                    ELSE [pc |-> "read"])
    /\ UNCHANGED <<next_id, wallet, poisoned, received, rpc, opened, accepted,
                   requests>>
-----------------------------------------------------------------------------
Call(w) ==
    \E id \in Ids, peer \in Peers :
        \/ \E update \in Updates \cup {NoUpdate} : Gossip(w, id, peer, update)
        \/ \E payment \in Payments : Transact(w, id, peer, payment)
        \/ \E payment \in Payments : Transfer(w, id, peer, payment)

Step(w) ==
    \/ GossipNewer(w) \/ GossipOther(w) \/ GossipPanic(w) \/ GossipInsert(w)
    \/ TransactVerify(w) \/ TransactInsert(w)
    \/ TransferVerify(w) \/ TransferPush(w) \/ TransferInsert(w)
    \/ PoisonedPanic(w)

TimerStep(id) == TimerRead(id) \/ TimerTick(id) \/ TimerRemove(id)

\* All transactions and requests that the bounds allow are over.
Done ==
    /\ next_id > MaxTx \/ poisoned
    /\ \A w \in Workers : rpc[w] = Idle
    /\ \A id \in Ids : timer[id].pc \in {"off", "panicked"}
    /\ UNCHANGED vars

Next ==
    \/ \E peer \in Peers, epoch \in Epochs \cup {NoUpdate} : Initiate(peer, epoch)
    \/ \E w \in Workers : Call(w) \/ Step(w)
    \/ \E id \in Ids : TimerStep(id)
    \/ Done

Spec == Init /\ [][Next]_vars

-----------------------------------------------------------------------------
(***************************************************************************)
(* Properties.                                                             *)
(***************************************************************************)
\* The `unwrap` of the timer's second lookup never panics: while a timer waits
\* for its tick its transaction is on the map, whatever the handlers do.
TimersDoNotPanic == \A id \in Ids : timer[id].pc # "panicked"

\* A transaction belongs to one peer for as long as its id is used, also when
\* a handler inserts it again from the copy it took before: the entry and the
\* tokens received for it are of the peer that Initiate gave the id to.
PeerBinding ==
    /\ \A id \in Ids :
          transactions[id] # NoTransaction =>
              id < next_id /\ transactions[id].peer = opened[id]
    /\ \A n \in DOMAIN received :
          /\ received[n].tx < next_id
          /\ received[n].from = opened[received[n].tx]

Kept(id, token) ==
    \E n \in DOMAIN received : received[n].tx = id /\ received[n].token = token

\* A payer deletes its copies once Transfer answers `accepted`: by then every
\* one of the tokens is in the receiver's wallet, they are worth the price and
\* addressed to the receiver; and a transaction is Complete only after such an
\* answer.
AcceptedTokensAreKept ==
    /\ \A a \in accepted :
          /\ Settles(a[2])
          /\ \A i \in DOMAIN a[2] : Kept(a[1], a[2][i].token)
    /\ \A id \in Ids :
          transactions[id].state = "Complete" =>
              \E a \in accepted : a[1] = id

\* Gossip never takes the receiver's wallet back to an older epoch, though
\* several peers' updates race.
EpochNeverGoesBack ==
    [][wallet'.epoch >= wallet.epoch /\ wallet'.keys >= wallet.keys]_vars

\* As long as its timer runs, a transaction comes to an end: the entry leaves the map.
\* The exception is real: a handler that looked the entry up before the timer removed it
\* and inserts its copy afterwards leaves an entry behind that has no timer any more, and
\* an Initiate that panics leaves one that never had any; such entries stay for good.
\* That requests come to an end is a bound of the model (MaxRequests): every request
\* changes the state that the timer compares, so that a peer who keeps sending within
\* every five seconds keeps its entry.
TransactionsEnd ==
    \A id \in Ids :
        (transactions[id] # NoTransaction)
            ~> (transactions[id] = NoTransaction \/ timer[id].pc = "off")

-----------------------------------------------------------------------------
(***************************************************************************)
(* What has to be known of the tasks in flight for the properties above to *)
(* be inductive.                                                           *)
(***************************************************************************)
\* The timer alone removes its entry, and never while it waits.
WaitingIsOpen ==
    \A id \in Ids :
        timer[id].pc = "wait" => transactions[id] # NoTransaction

\* The copy a handler inserts again is of the peer that opened the transaction.
RequestsAreBound ==
    \A w \in Workers :
        rpc[w].pc # "idle" =>
            rpc[w].id < next_id /\ rpc[w].peer = opened[rpc[w].id]

\* What transfer_impl has pushed so far is in the wallet.
PushedIsKept ==
    \A w \in Workers :
        rpc[w].pc = "push" =>
            /\ Settles(rpc[w].payment)
            /\ \A i \in DOMAIN rpc[w].payment :
                  i < rpc[w].next => Kept(rpc[w].id, rpc[w].payment[i].token)

KeysNotAhead == wallet.keys <= wallet.epoch
=============================================================================
