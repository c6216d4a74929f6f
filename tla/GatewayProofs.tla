--------------------------- MODULE GatewayProofs ---------------------------
(***************************************************************************)
(* Theorems about the receiver, the gateway over it and what runs in       *)
(* front of it, for every number of peers, addresses, callers, requests,   *)
(* tasks and tokens: the receiver, the rate limiter, the authentication of *)
(* services, the tasks, over which the receiver's theorems carry over, and *)
(* the paywall.                                                            *)
(***************************************************************************)
EXTENDS Gateway, SequenceTheorems, FiniteSetTheorems, TLAPS

-----------------------------------------------------------------------------
(***************************************************************************)
(* The receiver.                                                           *)
(***************************************************************************)
\* What a request in flight carries, by the step it is at.
LEMMA RequestFields ==
    ASSUME NEW r \in Request
    PROVE  /\ r.pc # "idle" => r.id \in Ids /\ r.peer \in Peers
           /\ r.pc = "gossip" => r.update \in Updates \cup {NoUpdate}
           /\ r.pc \in {"transact", "transfer", "push"} => r.payment \in Payments
           /\ r.pc = "push" => r.next \in Nat \ {0}
BY DEF Request

\* An answered request leaves an idle slot.
LEMMA IdleType == Idle \in Request
BY DEF Idle, Request

\* transfer_impl goes on to the next token.
LEMMA NextPushType ==
    ASSUME NEW r \in [pc : {"push"}, id : Ids, peer : Peers,
                      payment : Payments, next : Nat \ {0}]
    PROVE  [r EXCEPT !.next = @ + 1] \in Request
BY DEF Request

\* The tokens of a payment are tokens.
LEMMA PaymentType ==
    ASSUME NEW p \in Payments, NEW i \in DOMAIN p
    PROVE  p[i].token \in Tokens
<1> DEFINE S == [token : Tokens, to : Tickets]
<1>1. p \in Seq(S)
  BY ReceiverAssumption DEF Payment
<1>2. p[i] \in S
  <2> HIDE DEF S
  <2>1. QED
    BY <1>1
<1>3. QED
  BY <1>2

\* What a handler inserts into the map is a transaction.
LEMMA EntryType ==
    ASSUME NEW state \in TransactionStates, NEW peer \in Peers
    PROVE  [state |-> state, peer |-> peer] \in Transaction
BY DEF Transaction

\* gossip_synchronize leaves a wallet, also when it stops half way.
LEMMA WalletType ==
    ASSUME NEW update \in Update,
           wallet \in [epoch : Epochs, update : Epochs \cup {NoUpdate},
                       keys : Epochs]
    PROVE  SynchronizedWallet(update) \in
               [epoch : Epochs, update : Epochs \cup {NoUpdate}, keys : Epochs]
<1>1. /\ update.epoch \in Epochs /\ update.signed \in BOOLEAN
      /\ update.body \in {"complete", "absent", "mismatched"}
  BY DEF Update
<1>2. QED
  BY <1>1 DEF SynchronizedWallet
-----------------------------------------------------------------------------
\* One step keeps every variable well-formed.
LEMMA StepKeepsType ==
    ASSUME TypeOK, [Next]_vars
    PROVE  TypeOK'
<1> USE DEF TypeOK
<1>1. ASSUME NEW peer \in Peers, NEW epoch \in Epochs \cup {NoUpdate},
             Initiate(peer, epoch)
      PROVE  TypeOK'
  <2>1. next_id \in Ids /\ next_id' \in 1 .. (MaxTx + 1)
    BY <1>1, ReceiverAssumption DEF Initiate, Ids
  <2>2. [state |-> FirstState(epoch), peer |-> peer] \in Transaction
    BY EntryType DEF FirstState, TransactionStates
  <2>3. opened' \in Seq(Peers) /\ Len(opened') = next_id' - 1
    BY <1>1, <2>1 DEF Initiate
  <2>4. [pc |-> "read"] \in Timer
    BY DEF Timer
  <2>5. timer' \in [Ids -> Timer]
    BY <1>1, <2>4 DEF Initiate
  <2>6. QED
    BY <1>1, <2>1, <2>2, <2>3, <2>5 DEF Initiate, Insert
<1>2. ASSUME NEW w \in Workers, NEW id \in Ids, NEW peer \in Peers,
             NEW update \in Updates \cup {NoUpdate},
             Gossip(w, id, peer, update)
      PROVE  TypeOK'
  <2>1. [pc |-> "gossip", id |-> id, peer |-> peer, update |-> update]
          \in Request
    BY DEF Request
  <2>2. requests' \in 0 .. MaxRequests
    BY <1>2, ReceiverAssumption DEF Gossip, Lookup
  <2>3. QED
    BY <1>2, <2>1, <2>2 DEF Gossip, Goto
<1>3. ASSUME NEW w \in Workers, NEW id \in Ids, NEW peer \in Peers,
             NEW payment \in Payments, Transact(w, id, peer, payment)
      PROVE  TypeOK'
  <2>1. [pc |-> "transact", id |-> id, peer |-> peer, payment |-> payment]
          \in Request
    BY DEF Request
  <2>2. requests' \in 0 .. MaxRequests
    BY <1>3, ReceiverAssumption DEF Transact, Lookup
  <2>3. QED
    BY <1>3, <2>1, <2>2 DEF Transact, Goto
<1>4. ASSUME NEW w \in Workers, NEW id \in Ids, NEW peer \in Peers,
             NEW payment \in Payments, Transfer(w, id, peer, payment)
      PROVE  TypeOK'
  <2>1. [pc |-> "transfer", id |-> id, peer |-> peer, payment |-> payment]
          \in Request
    BY DEF Request
  <2>2. requests' \in 0 .. MaxRequests
    BY <1>4, ReceiverAssumption DEF Transfer, Lookup
  <2>3. QED
    BY <1>4, <2>1, <2>2 DEF Transfer, Goto
<1>5. ASSUME NEW w \in Workers, GossipNewer(w) PROVE TypeOK'
  <2>1. rpc[w] \in Request /\ rpc[w].pc = "gossip"
    BY <1>5 DEF GossipNewer
  <2>2. /\ rpc[w].id \in Ids /\ rpc[w].peer \in Peers
        /\ rpc[w].update \in Updates \cup {NoUpdate}
    BY <2>1, RequestFields
  <2>3. rpc[w].update \in Update
    BY <1>5, <2>2, ReceiverAssumption DEF GossipNewer
  <2>4. wallet' \in [epoch : Epochs, update : Epochs \cup {NoUpdate},
                     keys : Epochs]
    BY <1>5, <2>3, WalletType DEF GossipNewer
  <2>5. [pc |-> "gossiped", id |-> rpc[w].id, peer |-> rpc[w].peer] \in Request
    BY <2>2 DEF Request
  <2>6. rpc' \in [Workers -> Request]
    BY <1>5, <2>5, IdleType DEF GossipNewer, Gossiped, Reply, Goto
  <2>7. QED
    BY <1>5, <2>4, <2>6 DEF GossipNewer
<1>6. ASSUME NEW w \in Workers, GossipOther(w) PROVE TypeOK'
  <2>1. rpc[w] \in Request /\ rpc[w].pc = "gossip"
    BY <1>6 DEF GossipOther
  <2>2. rpc[w].id \in Ids /\ rpc[w].peer \in Peers
    BY <2>1, RequestFields
  <2>3. [pc |-> "gossiped", id |-> rpc[w].id, peer |-> rpc[w].peer] \in Request
    BY <2>2 DEF Request
  <2>4. QED
    BY <1>6, <2>3 DEF GossipOther, Gossiped, Goto
<1>7. ASSUME NEW w \in Workers, GossipPanic(w) PROVE TypeOK'
  BY <1>7, IdleType DEF GossipPanic, Reply, Goto
<1>8. ASSUME NEW w \in Workers, GossipInsert(w) PROVE TypeOK'
  <2>1. rpc[w] \in Request /\ rpc[w].pc = "gossiped"
    BY <1>8 DEF GossipInsert
  <2>2. rpc[w].id \in Ids /\ rpc[w].peer \in Peers
    BY <2>1, RequestFields
  <2>3. [state |-> "Transact", peer |-> rpc[w].peer] \in Transaction
    BY <2>2, EntryType DEF TransactionStates
  <2>4. QED
    BY <1>8, <2>2, <2>3, IdleType DEF GossipInsert, Insert, Reply, Goto
<1>9. ASSUME NEW w \in Workers, TransactInsert(w) PROVE TypeOK'
  <2>1. rpc[w] \in Request /\ rpc[w].pc = "proposed"
    BY <1>9 DEF TransactInsert
  <2>2. rpc[w].id \in Ids /\ rpc[w].peer \in Peers
    BY <2>1, RequestFields
  <2>3. [state |-> "Transfer", peer |-> rpc[w].peer] \in Transaction
    BY <2>2, EntryType DEF TransactionStates
  <2>4. QED
    BY <1>9, <2>2, <2>3, IdleType DEF TransactInsert, Insert, Reply, Goto
<1>10. ASSUME NEW w \in Workers, TransferVerify(w) PROVE TypeOK'
  <2>1. rpc[w] \in Request /\ rpc[w].pc = "transfer"
    BY <1>10 DEF TransferVerify
  <2>2. rpc[w].id \in Ids /\ rpc[w].peer \in Peers /\ rpc[w].payment \in Payments
    BY <2>1, RequestFields
  <2>3. [pc |-> "push", id |-> rpc[w].id, peer |-> rpc[w].peer,
         next |-> 1, payment |-> rpc[w].payment] \in Request
    BY <2>2 DEF Request
  <2>4. rpc' \in [Workers -> Request]
    BY <1>10, <2>3, IdleType DEF TransferVerify, Reply, Goto
  <2>5. QED
    BY <1>10, <2>4 DEF TransferVerify
<1>11. ASSUME NEW w \in Workers, TransferPush(w) PROVE TypeOK'
  <2> DEFINE r == rpc[w]
  <2>1. r \in [pc : {"push"}, id : Ids, peer : Peers, payment : Payments,
               next : Nat \ {0}]
    BY <1>11 DEF TransferPush, Request
  <2>2. [r EXCEPT !.next = @ + 1] \in Request
    BY <2>1, NextPushType
  <2>3. [tx |-> r.id, token |-> r.payment[r.next].token, from |-> r.peer]
          \in [tx : Ids, token : Tokens, from : Peers]
    <3>1. /\ r.payment \in Payments /\ r.next \in Nat \ {0}
          /\ r.id \in Ids /\ r.peer \in Peers
      BY <2>1
    <3>2. r.next <= Len(r.payment)
      BY <1>11 DEF TransferPush
    <3>3. r.payment \in Seq([token : Tokens, to : Tickets])
      BY <3>1, ReceiverAssumption DEF Payment
    <3> HIDE DEF r
    <3>4. r.next \in DOMAIN r.payment
      BY <3>1, <3>2, <3>3
    <3>5. QED
      BY <3>1, <3>4, PaymentType
  <2>4. received' \in Seq([tx : Ids, token : Tokens, from : Peers])
    BY <1>11, <2>3 DEF TransferPush
  <2>5. QED
    BY <1>11, <2>2, <2>4 DEF TransferPush, Goto
<1>12. ASSUME NEW w \in Workers, TransferInsert(w) PROVE TypeOK'
  <2>1. rpc[w] \in Request /\ rpc[w].pc = "push"
    BY <1>12 DEF TransferInsert
  <2>2. rpc[w].id \in Ids /\ rpc[w].peer \in Peers /\ rpc[w].payment \in Payments
    BY <2>1, RequestFields
  <2>3. [state |-> "Complete", peer |-> rpc[w].peer] \in Transaction
    BY <2>2, EntryType DEF TransactionStates
  <2>4. QED
    BY <1>12, <2>2, <2>3, IdleType DEF TransferInsert, Insert, Reply, Goto
<1>13. ASSUME NEW w \in Workers, PoisonedPanic(w) PROVE TypeOK'
  BY <1>13, IdleType DEF PoisonedPanic, Reply, Goto
<1>14. ASSUME NEW id \in Ids, TimerRead(id) PROVE TypeOK'
  <2>1. CASE transactions[id] = NoTransaction
    <3>1. Off \in Timer
      BY DEF Off, Timer
    <3>2. QED
      BY <1>14, <2>1, <3>1 DEF TimerRead, SetTimer
  <2>2. CASE transactions[id] # NoTransaction
    <3>1. transactions[id].state \in TransactionStates
      BY <2>2 DEF Transaction
    <3>2. [pc |-> "wait", last |-> transactions[id].state] \in Timer
      BY <3>1 DEF Timer
    <3>3. QED
      BY <1>14, <2>2, <3>2 DEF TimerRead, SetTimer
  <2>3. QED
    BY <2>1, <2>2
<1>15. ASSUME NEW id \in Ids, TimerTick(id) PROVE TypeOK'
  <2> DEFINE n == Removals(transactions[id].state, timer[id].last)
  <2>1. n \in 0 .. 2
    BY DEF Removals
  <2> HIDE DEF n
  <2>2. /\ [pc |-> "panicked"] \in Timer
        /\ [pc |-> "read"] \in Timer
        /\ n # 0 => [pc |-> "remove", times |-> n] \in Timer
    BY <2>1 DEF Timer
  <2>3. timer' \in [Ids -> Timer]
    BY <1>15, <2>2 DEF TimerTick, SetTimer, n
  <2>4. QED
    BY <1>15, <2>3 DEF TimerTick
<1>16. ASSUME NEW id \in Ids, TimerRemove(id) PROVE TypeOK'
  <2>1. [pc |-> "read"] \in Timer /\ [pc |-> "remove", times |-> 1] \in Timer
    BY DEF Timer
  <2>2. timer' \in [Ids -> Timer]
    BY <1>16, <2>1 DEF TimerRemove, SetTimer
  <2>3. QED
    BY <1>16, <2>2 DEF TimerRemove
<1>17. ASSUME NEW w \in Workers, TransactVerify(w) PROVE TypeOK'
  <2>1. rpc[w] \in Request /\ rpc[w].pc = "transact"
    BY <1>17 DEF TransactVerify
  <2>2. rpc[w].id \in Ids /\ rpc[w].peer \in Peers
    BY <2>1, RequestFields
  <2>3. [pc |-> "proposed", id |-> rpc[w].id, peer |-> rpc[w].peer] \in Request
    BY <2>2 DEF Request
  <2>4. rpc' \in [Workers -> Request]
    BY <1>17, <2>3, IdleType DEF TransactVerify, Reply, Goto
  <2>5. QED
    BY <1>17, <2>4 DEF TransactVerify
<1>18. CASE UNCHANGED vars
  BY <1>18 DEF vars
<1>19. QED
  BY <1>1, <1>2, <1>3, <1>4, <1>5, <1>6, <1>7, <1>8, <1>9, <1>10, <1>11,
     <1>12, <1>13, <1>14, <1>15, <1>16, <1>17, <1>18
  DEF Next, Call, Step, TimerStep, Done

\* Every step of the handlers and of the timers keeps the receiver's maps and
\* the requests in flight well-formed.
THEOREM StateWellFormed == Spec => []TypeOK
<1>1. Init => TypeOK
  <2> SUFFICES ASSUME Init PROVE TypeOK
    OBVIOUS
  <2>1. Off \in Timer
    BY DEF Off, Timer
  <2>2. wallet \in [epoch : Epochs, update : Epochs \cup {NoUpdate}, keys : Epochs]
    BY ReceiverAssumption DEF Init
  <2>3. opened \in Seq(Peers) /\ Len(opened) = next_id - 1
    BY DEF Init
  <2>4. next_id \in 1 .. (MaxTx + 1) /\ requests \in 0 .. MaxRequests
    BY ReceiverAssumption DEF Init
  <2>5. received \in Seq([tx : Ids, token : Tokens, from : Peers])
    BY DEF Init
  <2>6. /\ rpc \in [Workers -> Request] /\ timer \in [Ids -> Timer]
        /\ transactions \in [Ids -> Transaction \cup {NoTransaction}]
    BY <2>1, IdleType DEF Init
  <2>7. poisoned \in BOOLEAN /\ accepted \subseteq Ids \X Payments
    BY DEF Init
  <2>8. QED
    BY <2>2, <2>3, <2>4, <2>5, <2>6, <2>7 DEF TypeOK
<1>2. TypeOK /\ [Next]_vars => TypeOK'
  BY StepKeepsType
<1>3. QED
  BY <1>1, <1>2, PTL DEF Spec
-----------------------------------------------------------------------------
\* Inserting a state touches one entry and leaves a transaction there.
LEMMA InsertOpens ==
    ASSUME TypeOK, NEW id \in Ids, NEW state \in TransactionStates, NEW peer,
           Insert(id, state, peer)
    PROVE  /\ transactions'[id].state = state
           /\ transactions'[id].peer = peer
           /\ transactions'[id] # NoTransaction
           /\ \A j \in Ids : j # id => transactions'[j] = transactions[j]
<1>1. /\ transactions'[id] = [state |-> state, peer |-> peer]
      /\ \A j \in Ids : j # id => transactions'[j] = transactions[j]
  BY DEF Insert, TypeOK
<1>2. [state |-> state, peer |-> peer] # NoTransaction
  <2>1. NoTransaction.state = "none" /\ state # "none"
    BY DEF NoTransaction, TransactionStates
  <2>2. QED
    BY <2>1
<1>3. QED
  BY <1>1, <1>2

\* The entry that an Insert of a handler is for.
LEMMA HandlerInserts ==
    ASSUME TypeOK, NEW w \in Workers,
           \/ GossipInsert(w) \/ TransactInsert(w) \/ TransferInsert(w)
    PROVE  /\ UNCHANGED <<timer, next_id, opened, received, wallet>>
           /\ rpc[w].pc # "idle" /\ rpc[w].id \in Ids
           /\ rpc' = [rpc EXCEPT ![w] = Idle]
           /\ \E state \in TransactionStates :
                 /\ Insert(rpc[w].id, state, rpc[w].peer)
                 /\ state = "Complete" => TransferInsert(w)
<1>1. rpc[w].pc \in {"gossiped", "proposed", "push"}
  BY DEF GossipInsert, TransactInsert, TransferInsert
<1>2. rpc[w].id \in Ids
  BY <1>1, RequestFields DEF TypeOK
<1>3. QED
  BY <1>1, <1>2 DEF GossipInsert, TransactInsert, TransferInsert, Reply, Goto,
                    TransactionStates

\* The steps of handlers that leave the map of transactions alone.
HandlerStep(w) ==
    \/ \E id \in Ids, peer \in Peers, update \in Updates \cup {NoUpdate} :
          Gossip(w, id, peer, update)
    \/ \E id \in Ids, peer \in Peers, payment \in Payments :
          Transact(w, id, peer, payment) \/ Transfer(w, id, peer, payment)
    \/ GossipNewer(w) \/ GossipOther(w) \/ GossipPanic(w)
    \/ TransactVerify(w) \/ TransferVerify(w) \/ TransferPush(w)
    \/ PoisonedPanic(w)

\* They leave the ids, the timers and what was accepted alone too.
LEMMA HandlerStepKeeps ==
    ASSUME NEW w, HandlerStep(w)
    PROVE  UNCHANGED <<transactions, timer, next_id, opened, accepted>>
BY DEF HandlerStep, Gossip, Transact, Transfer, GossipNewer, GossipOther,
       GossipPanic, TransactVerify, TransferVerify, TransferPush,
       PoisonedPanic

\* The steps of the receiver, grouped by what they do to the map.
LEMMA Cases ==
    ASSUME Next
    PROVE  \/ \E peer \in Peers, epoch \in Epochs \cup {NoUpdate} :
                 Initiate(peer, epoch)
           \/ \E w \in Workers : HandlerStep(w)
           \/ \E w \in Workers : GossipInsert(w) \/ TransactInsert(w)
                                   \/ TransferInsert(w)
           \/ \E id \in Ids : TimerStep(id)
           \/ UNCHANGED vars
BY DEF Next, Call, Step, HandlerStep, Done
-----------------------------------------------------------------------------
\* The timer task's unwrap never panics: its entry is on the map whenever it
\* waits, because nobody else removes it.
THEOREM TimersNeverPanic == Spec => []TimersDoNotPanic
<1> DEFINE Inv == WaitingIsOpen /\ TimersDoNotPanic
<1>1. Init => Inv
  BY DEF Init, WaitingIsOpen, TimersDoNotPanic, Off
<1>2. TypeOK /\ Inv /\ [Next]_vars => Inv'
  <2> SUFFICES ASSUME TypeOK, Inv, [Next]_vars PROVE Inv'
    OBVIOUS
  <2> USE DEF WaitingIsOpen, TimersDoNotPanic
  <2>1. ASSUME NEW peer \in Peers, NEW epoch \in Epochs \cup {NoUpdate},
               Initiate(peer, epoch)
        PROVE  Inv'
    <3>1. next_id \in Ids /\ FirstState(epoch) \in TransactionStates
      BY <2>1, ReceiverAssumption DEF Initiate, Ids, FirstState,
                                      TransactionStates, TypeOK
    <3>2. /\ transactions'[next_id] # NoTransaction
          /\ \A j \in Ids : j # next_id => transactions'[j] = transactions[j]
      BY <2>1, <3>1, InsertOpens DEF Initiate
    <3>3. \/ timer' = timer
          \/ timer' = [timer EXCEPT ![next_id] = [pc |-> "read"]]
      BY <2>1 DEF Initiate
    <3>4. \A j \in Ids : timer'[j].pc = "read" \/ timer'[j] = timer[j]
      BY <3>1, <3>3 DEF TypeOK
    <3>5. QED
      BY <3>2, <3>4
  <2>2. ASSUME NEW w \in Workers, HandlerStep(w) PROVE Inv'
    BY <2>2, HandlerStepKeeps
  <2>3. ASSUME NEW w \in Workers,
               GossipInsert(w) \/ TransactInsert(w) \/ TransferInsert(w)
        PROVE  Inv'
    <3>1. timer' = timer /\ rpc[w].id \in Ids
      BY <2>3, HandlerInserts
    <3>2. \A j \in Ids : transactions[j] # NoTransaction
                            => transactions'[j] # NoTransaction
      <4>1. ASSUME NEW state \in TransactionStates,
                   Insert(rpc[w].id, state, rpc[w].peer)
            PROVE  \A j \in Ids : transactions[j] # NoTransaction
                                     => transactions'[j] # NoTransaction
        BY <3>1, <4>1, InsertOpens
      <4>2. QED
        BY <2>3, <4>1, HandlerInserts
    <3>3. QED
      BY <3>1, <3>2
  <2>4. ASSUME NEW id \in Ids, TimerRead(id) PROVE Inv'
    <3>1. CASE transactions[id] = NoTransaction
      BY <2>4, <3>1 DEF TimerRead, SetTimer, Off, TypeOK
    <3>2. CASE transactions[id] # NoTransaction
      <4>1. /\ timer'[id].pc = "wait" /\ transactions' = transactions
            /\ \A j \in Ids : j # id => timer'[j] = timer[j]
        BY <2>4, <3>2 DEF TimerRead, SetTimer, TypeOK
      <4>2. QED
        BY <3>2, <4>1
    <3>3. QED
      BY <3>1, <3>2
  <2>5. ASSUME NEW id \in Ids, TimerTick(id) PROVE Inv'
    <3>1. transactions[id] # NoTransaction
      BY <2>5 DEF TimerTick
    <3>2. \A j \in Ids : timer'[j] = timer[j] \/ timer'[j].pc \in {"read", "remove"}
      BY <2>5, <3>1 DEF TimerTick, SetTimer, TypeOK
    <3>3. QED
      BY <2>5, <3>2 DEF TimerTick
  <2>6. ASSUME NEW id \in Ids, TimerRemove(id) PROVE Inv'
    <3>1. /\ timer'[id].pc \in {"read", "remove"}
          /\ \A j \in Ids : j # id => /\ timer'[j] = timer[j]
                                      /\ transactions'[j] = transactions[j]
      BY <2>6 DEF TimerRemove, SetTimer, TypeOK
    <3>2. QED
      BY <3>1
  <2>7. CASE UNCHANGED vars
    BY <2>7 DEF vars
  <2>8. QED
    BY <2>1, <2>2, <2>3, <2>4, <2>5, <2>6, <2>7, Cases DEF TimerStep
<1>3. Inv => TimersDoNotPanic
  OBVIOUS
<1>4. QED
  BY <1>1, <1>2, <1>3, StateWellFormed, PTL DEF Spec
-----------------------------------------------------------------------------
\* Gossip only moves the wallet's epoch and keys forward: the comparison and
\* the update are made under one lock.
THEOREM EpochMovesForward == Spec => EpochNeverGoesBack
<1>1. Init => KeysNotAhead
  BY ReceiverAssumption DEF Init, KeysNotAhead
<1>2. ASSUME TypeOK, KeysNotAhead, [Next]_vars
      PROVE  /\ KeysNotAhead'
             /\ wallet'.epoch >= wallet.epoch /\ wallet'.keys >= wallet.keys
  <2> DEFINE Goal == /\ KeysNotAhead'
                     /\ wallet'.epoch >= wallet.epoch
                     /\ wallet'.keys >= wallet.keys
  <2>1. wallet.epoch \in Nat /\ wallet.keys \in Nat /\ wallet.keys <= wallet.epoch
    BY <1>2, ReceiverAssumption DEF TypeOK, KeysNotAhead
  <2>2. CASE wallet' = wallet
    BY <2>1, <2>2 DEF KeysNotAhead
  <2>3. ASSUME NEW w \in Workers, GossipNewer(w) PROVE Goal
    <3>1. rpc[w] \in Request /\ rpc[w].pc = "gossip"
      BY <1>2, <2>3 DEF GossipNewer, TypeOK
    <3>2. rpc[w].update \in Update
      BY <2>3, <3>1, RequestFields, ReceiverAssumption DEF GossipNewer
    <3> DEFINE u == rpc[w].update
    <3>3. /\ u.epoch \in Nat /\ u.epoch > wallet.epoch
          /\ u.body \in {"complete", "absent", "mismatched"}
          /\ u.signed \in BOOLEAN
      BY <2>3, <3>2, ReceiverAssumption DEF GossipNewer, Update
    <3>4. \/ wallet'.epoch = wallet.epoch /\ wallet'.keys = wallet.keys
          \/ wallet'.epoch = u.epoch /\ wallet'.keys = wallet.keys
          \/ wallet'.epoch = u.epoch /\ wallet'.keys = u.epoch
      BY <1>2, <2>3, <3>3 DEF GossipNewer, SynchronizedWallet, TypeOK
    <3> HIDE DEF u
    <3>5. QED
      BY <2>1, <3>3, <3>4 DEF KeysNotAhead
  <2>4. (\E w \in Workers : GossipNewer(w)) \/ wallet' = wallet
    BY <1>2 DEF Next, Call, Step, TimerStep, Done, vars, Initiate, Gossip,
                Transact, Transfer, GossipOther, GossipPanic, GossipInsert,
                TransactVerify, TransactInsert, TransferVerify, TransferPush,
                TransferInsert, PoisonedPanic, TimerRead, TimerTick, TimerRemove
  <2>5. QED
    BY <2>2, <2>3, <2>4
<1>3. TypeOK /\ KeysNotAhead /\ [Next]_vars
        => KeysNotAhead' /\ [wallet'.epoch >= wallet.epoch
                               /\ wallet'.keys >= wallet.keys]_vars
  BY <1>2
<1>4. QED
  BY <1>1, <1>3, StateWellFormed, PTL DEF Spec, EpochNeverGoesBack
-----------------------------------------------------------------------------
\* What a step does to the slots for requests: the slot of one worker changes,
\* and a request that goes on keeps its transaction and its peer.
LEMMA SlotsKeepTransaction ==
    ASSUME TypeOK, NEW w \in Workers,
           \/ GossipNewer(w) \/ GossipOther(w) \/ GossipPanic(w)
           \/ TransactVerify(w) \/ TransferVerify(w) \/ TransferPush(w)
           \/ PoisonedPanic(w)
    PROVE  /\ \A v \in Workers : v # w => rpc'[v] = rpc[v]
           /\ \/ rpc'[w].pc = "idle"
              \/ /\ rpc[w].pc # "idle"
                 /\ rpc'[w].id = rpc[w].id
                 /\ rpc'[w].peer = rpc[w].peer
<1>1. rpc \in [Workers -> Request]
  BY DEF TypeOK
<1>2. CASE GossipNewer(w) \/ GossipOther(w)
  BY <1>1, <1>2 DEF GossipNewer, GossipOther, Gossiped, Reply, Goto, Idle
<1>3. CASE GossipPanic(w) \/ PoisonedPanic(w)
  BY <1>1, <1>3 DEF GossipPanic, PoisonedPanic, Reply, Goto, Idle
<1>4. CASE TransactVerify(w) \/ TransferVerify(w)
  BY <1>1, <1>4 DEF TransactVerify, TransferVerify, Reply, Goto, Idle
<1>5. CASE TransferPush(w)
  <2>1. rpc[w] \in [pc : {"push"}, id : Ids, peer : Peers, payment : Payments,
                    next : Nat \ {0}]
    BY <1>1, <1>5 DEF TransferPush, Request
  <2>2. /\ rpc'[w] = [rpc[w] EXCEPT !.next = @ + 1]
        /\ \A v \in Workers : v # w => rpc'[v] = rpc[v]
    BY <1>1, <1>5 DEF TransferPush, Goto
  <2>3. rpc'[w].id = rpc[w].id /\ rpc'[w].peer = rpc[w].peer
    BY <2>1, <2>2
  <2>4. QED
    BY <2>1, <2>2, <2>3
<1>6. QED
  BY <1>2, <1>3, <1>4, <1>5

\* What the wallet receives in a step: nothing, or one token of the payment
\* that a request is pushing.
LEMMA ReceivedGrows ==
    ASSUME [Next]_vars
    PROVE  \/ received' = received
           \/ \E w \in Workers : TransferPush(w)
BY DEF Next, Call, Step, TimerStep, Done, vars, Initiate, Gossip, Transact,
       Transfer, GossipNewer, GossipOther, GossipPanic, GossipInsert,
       TransactVerify, TransactInsert, TransferVerify, TransferInsert,
       PoisonedPanic, TimerRead, TimerTick, TimerRemove

\* A transaction and the tokens received for it belong to the peer that opened
\* it, although handlers insert entries again from copies that may be older
\* than the removal of the entry.
THEOREM PeersStayBound == Spec => []PeerBinding
<1> DEFINE Inv == PeerBinding /\ RequestsAreBound
<1>1. Init => Inv
  BY DEF Init, PeerBinding, RequestsAreBound, Idle
<1>2. TypeOK /\ Inv /\ [Next]_vars => Inv'
  <2> SUFFICES ASSUME TypeOK, Inv, [Next]_vars PROVE Inv'
    OBVIOUS
  <2>0. /\ next_id \in Nat /\ opened \in Seq(Peers) /\ Len(opened) = next_id - 1
        /\ rpc \in [Workers -> Request]
        /\ received \in Seq([tx : Ids, token : Tokens, from : Peers])
        /\ \A i \in Ids : i \in Nat
    BY ReceiverAssumption DEF TypeOK, Ids
  <2>1. ASSUME NEW peer \in Peers, NEW epoch \in Epochs \cup {NoUpdate},
               Initiate(peer, epoch)
        PROVE  Inv'
    <3>1. next_id \in Ids /\ FirstState(epoch) \in TransactionStates
      BY <2>1, ReceiverAssumption DEF Initiate, Ids, FirstState,
                                      TransactionStates, TypeOK
    <3>2. /\ transactions'[next_id].peer = peer
          /\ \A j \in Ids : j # next_id => transactions'[j] = transactions[j]
      BY <2>1, <3>1, InsertOpens DEF Initiate
    <3>3. rpc' = rpc /\ received' = received
      BY <2>1 DEF Initiate
    <3>4. /\ opened'[next_id] = peer
          /\ \A j \in Ids : j < next_id => opened'[j] = opened[j]
      BY <2>0, <2>1, <3>1 DEF Initiate, Ids
    <3>9. \A j \in Ids : j < next_id' <=> (j < next_id \/ j = next_id)
      BY <2>0, <2>1 DEF Initiate
    <3>5. ASSUME NEW j \in Ids, transactions'[j] # NoTransaction
          PROVE  j < next_id' /\ transactions'[j].peer = opened'[j]
      <4>1. CASE j = next_id
        BY <3>2, <3>4, <3>9, <4>1
      <4>2. CASE j # next_id
        <5>1. j < next_id /\ transactions[j].peer = opened[j]
          BY <3>2, <3>5, <4>2 DEF PeerBinding
        <5>2. QED
          BY <3>2, <3>4, <3>9, <4>2, <5>1
      <4>3. QED
        BY <4>1, <4>2
    <3>6. ASSUME NEW n \in DOMAIN received'
          PROVE  /\ received'[n].tx < next_id'
                 /\ received'[n].from = opened'[received'[n].tx]
      <4> DEFINE S == [tx : Ids, token : Tokens, from : Peers]
      <4>4. received \in Seq(S) /\ n \in DOMAIN received
        BY <2>0, <3>3
      <4>1. received[n] \in S
        <5> HIDE DEF S
        <5>1. QED
          BY <4>4
      <4>2. received[n].tx < next_id /\ received[n].from = opened[received[n].tx]
        BY <3>3 DEF PeerBinding
      <4>3. QED
        BY <3>3, <3>4, <3>9, <4>1, <4>2
    <3>7. RequestsAreBound'
      <4>1. ASSUME NEW w \in Workers, rpc[w].pc # "idle"
            PROVE  rpc[w].id < next_id' /\ rpc[w].peer = opened'[rpc[w].id]
        <5>1. rpc[w].id \in Ids
          BY <2>0, <4>1, RequestFields
        <5>2. rpc[w].id < next_id /\ rpc[w].peer = opened[rpc[w].id]
          BY <4>1 DEF RequestsAreBound
        <5>3. QED
          BY <3>4, <3>9, <5>1, <5>2
      <4>2. QED
        BY <3>3, <4>1 DEF RequestsAreBound
    <3>8. QED
      BY <3>5, <3>6, <3>7 DEF PeerBinding
  <2>2. ASSUME NEW w \in Workers,
               \/ GossipInsert(w) \/ TransactInsert(w) \/ TransferInsert(w)
        PROVE  Inv'
    <3>1. /\ UNCHANGED <<next_id, opened, received>>
          /\ rpc[w].pc # "idle" /\ rpc[w].id \in Ids
          /\ rpc' = [rpc EXCEPT ![w] = Idle]
      BY <2>2, HandlerInserts
    <3>2. ASSUME NEW j \in Ids, transactions'[j] # NoTransaction
          PROVE  j < next_id /\ transactions'[j].peer = opened[j]
      <4>1. ASSUME NEW state \in TransactionStates,
                   Insert(rpc[w].id, state, rpc[w].peer)
            PROVE  j < next_id /\ transactions'[j].peer = opened[j]
        <5>1. /\ transactions'[rpc[w].id].peer = rpc[w].peer
              /\ j # rpc[w].id => transactions'[j] = transactions[j]
          BY <3>1, <4>1, InsertOpens
        <5>2. rpc[w].id < next_id /\ rpc[w].peer = opened[rpc[w].id]
          BY <3>1 DEF RequestsAreBound
        <5>3. QED
          BY <3>2, <5>1, <5>2 DEF PeerBinding
      <4>2. QED
        BY <2>2, <4>1, HandlerInserts
    <3>3. RequestsAreBound'
      BY <2>0, <3>1 DEF RequestsAreBound, Idle
    <3>4. QED
      BY <3>1, <3>2, <3>3 DEF PeerBinding
  <2>3. ASSUME NEW w \in Workers, HandlerStep(w) PROVE Inv'
    <3>1. UNCHANGED <<transactions, next_id, opened>>
      BY <2>3, HandlerStepKeeps
    <3>2. RequestsAreBound'
      <4>1. CASE \/ GossipNewer(w) \/ GossipOther(w) \/ GossipPanic(w)
                 \/ TransactVerify(w) \/ TransferVerify(w) \/ TransferPush(w)
                 \/ PoisonedPanic(w)
        BY <3>1, <4>1, SlotsKeepTransaction DEF RequestsAreBound
      <4>2. ASSUME NEW id \in Ids, NEW peer \in Peers, Lookup(w, id, peer),
                   \E r : /\ rpc' = [rpc EXCEPT ![w] = r]
                          /\ r.id = id /\ r.peer = peer
            PROVE  RequestsAreBound'
        <5>1. id < next_id /\ peer = opened[id]
          BY <4>2 DEF Lookup, PeerBinding
        <5>2. QED
          BY <2>0, <3>1, <4>2, <5>1 DEF RequestsAreBound
      <4>3. ASSUME NEW id \in Ids, NEW peer \in Peers,
                   NEW update \in Updates \cup {NoUpdate},
                   Gossip(w, id, peer, update)
            PROVE  RequestsAreBound'
        <5> DEFINE r == [pc |-> "gossip", id |-> id, peer |-> peer,
                         update |-> update]
        <5>1. Lookup(w, id, peer) /\ rpc' = [rpc EXCEPT ![w] = r]
          BY <4>3 DEF Gossip, Goto
        <5>2. r.id = id /\ r.peer = peer
          OBVIOUS
        <5> HIDE DEF r
        <5>3. QED
          BY <4>2, <5>1, <5>2
      <4>4. ASSUME NEW id \in Ids, NEW peer \in Peers, NEW payment \in Payments,
                   Transact(w, id, peer, payment)
            PROVE  RequestsAreBound'
        <5> DEFINE r == [pc |-> "transact", id |-> id, peer |-> peer,
                         payment |-> payment]
        <5>1. Lookup(w, id, peer) /\ rpc' = [rpc EXCEPT ![w] = r]
          BY <4>4 DEF Transact, Goto
        <5>2. r.id = id /\ r.peer = peer
          OBVIOUS
        <5> HIDE DEF r
        <5>3. QED
          BY <4>2, <5>1, <5>2
      <4>5. ASSUME NEW id \in Ids, NEW peer \in Peers, NEW payment \in Payments,
                   Transfer(w, id, peer, payment)
            PROVE  RequestsAreBound'
        <5> DEFINE r == [pc |-> "transfer", id |-> id, peer |-> peer,
                         payment |-> payment]
        <5>1. Lookup(w, id, peer) /\ rpc' = [rpc EXCEPT ![w] = r]
          BY <4>5 DEF Transfer, Goto
        <5>2. r.id = id /\ r.peer = peer
          OBVIOUS
        <5> HIDE DEF r
        <5>3. QED
          BY <4>2, <5>1, <5>2
      <4>6. QED
        BY <2>3, <4>1, <4>3, <4>4, <4>5 DEF HandlerStep
    <3>3. ASSUME NEW n \in DOMAIN received'
          PROVE  /\ received'[n].tx < next_id'
                 /\ received'[n].from = opened'[received'[n].tx]
      <4>1. CASE received' = received
        BY <3>1, <3>3, <4>1 DEF PeerBinding
      <4>2. ASSUME NEW v \in Workers, TransferPush(v)
            PROVE  /\ received'[n].tx < next_id'
                   /\ received'[n].from = opened'[received'[n].tx]
        <5> DEFINE x == [tx    |-> rpc[v].id,
                         token |-> rpc[v].payment[rpc[v].next].token,
                         from  |-> rpc[v].peer]
        <5>1. received' = Append(received, x) /\ rpc[v].pc # "idle"
          BY <4>2 DEF TransferPush
        <5>2. x.tx < next_id /\ x.from = opened[x.tx]
          BY <5>1 DEF RequestsAreBound
        <5> HIDE DEF x
        <5>3. CASE n = Len(received) + 1
          BY <2>0, <3>1, <5>1, <5>2, <5>3
        <5>4. CASE n \in DOMAIN received
          <6>1. received'[n] = received[n]
            BY <2>0, <5>1, <5>4
          <6>2. QED
            BY <3>1, <5>4, <6>1 DEF PeerBinding
        <5>5. QED
          BY <2>0, <3>3, <5>1, <5>3, <5>4
      <4>3. QED
        BY <4>1, <4>2, ReceivedGrows
    <3>4. QED
      BY <3>1, <3>2, <3>3 DEF PeerBinding
  <2>4. ASSUME NEW id \in Ids, TimerStep(id) PROVE Inv'
    <3>1. /\ UNCHANGED <<next_id, opened, received, rpc>>
          /\ \A j \in Ids : transactions'[j] \in {transactions[j], NoTransaction}
      BY <2>4 DEF TimerStep, TimerRead, TimerTick, TimerRemove, TypeOK
    <3>2. QED
      BY <3>1 DEF PeerBinding, RequestsAreBound
  <2>5. CASE UNCHANGED vars
    BY <2>5 DEF vars, PeerBinding, RequestsAreBound
  <2>6. QED
    BY <2>1, <2>2, <2>3, <2>4, <2>5, Cases
<1>3. Inv => PeerBinding
  OBVIOUS
<1>4. QED
  BY <1>1, <1>2, <1>3, StateWellFormed, PTL DEF Spec
-----------------------------------------------------------------------------
\* The wallet only grows: what is kept stays kept.
LEMMA KeptStaysKept ==
    ASSUME TypeOK, [Next]_vars, NEW id, NEW token, Kept(id, token)
    PROVE  Kept(id, token)'
<1>1. received \in Seq([tx : Ids, token : Tokens, from : Peers])
  BY DEF TypeOK
<1>2. CASE received' = received
  BY <1>2 DEF Kept
<1>3. ASSUME NEW w \in Workers, TransferPush(w) PROVE Kept(id, token)'
  <2> DEFINE x == [tx    |-> rpc[w].id,
                   token |-> rpc[w].payment[rpc[w].next].token,
                   from  |-> rpc[w].peer]
  <2>1. received' = Append(received, x)
    BY <1>3 DEF TransferPush
  <2> HIDE DEF x
  <2>2. \A n \in DOMAIN received :
            n \in DOMAIN received' /\ received'[n] = received[n]
    BY <1>1, <2>1
  <2>3. QED
    BY <2>2 DEF Kept
<1>4. QED
  BY <1>2, <1>3, ReceivedGrows

\* A token that transfer_impl pushes is kept.
LEMMA PushKeeps ==
    ASSUME TypeOK, NEW w \in Workers, TransferPush(w), NEW id, NEW token,
           id = rpc[w].id, token = rpc[w].payment[rpc[w].next].token
    PROVE  Kept(id, token)'
<1> DEFINE x == [tx |-> id, token |-> token, from |-> rpc[w].peer]
<1>1. received \in Seq([tx : Ids, token : Tokens, from : Peers])
  BY DEF TypeOK
<1>2. received' = Append(received, x) /\ x.tx = id /\ x.token = token
  BY DEF TransferPush
<1> HIDE DEF x
<1>3. /\ Len(received) + 1 \in DOMAIN received'
      /\ received'[Len(received) + 1] = x
  BY <1>1, <1>2
<1>4. \E n \in DOMAIN received' : received'[n].tx = id /\ received'[n].token = token
  BY <1>2, <1>3
<1>5. QED
  BY <1>4 DEF Kept

\* Which requests are pushing after a step, and what they push.
LEMMA Pushing ==
    ASSUME TypeOK, [Next]_vars, NEW w \in Workers, rpc'[w].pc = "push"
    PROVE  \/ rpc'[w] = rpc[w]
           \/ /\ TransferVerify(w) /\ rpc'[w].next = 1
              /\ Settles(rpc'[w].payment)
           \/ /\ TransferPush(w) /\ rpc[w].pc = "push"
              /\ rpc'[w].id = rpc[w].id
              /\ rpc'[w].payment = rpc[w].payment
              /\ rpc'[w].next = rpc[w].next + 1
<1>1. rpc \in [Workers -> Request]
  BY DEF TypeOK
<1> DEFINE Goal == \/ rpc'[w] = rpc[w]
                   \/ /\ TransferVerify(w) /\ rpc'[w].next = 1
                      /\ Settles(rpc'[w].payment)
                   \/ /\ TransferPush(w) /\ rpc[w].pc = "push"
                      /\ rpc'[w].id = rpc[w].id
                      /\ rpc'[w].payment = rpc[w].payment
                      /\ rpc'[w].next = rpc[w].next + 1
<1>2. ASSUME NEW v \in Workers, HandlerStep(v) PROVE Goal
  <2>1. CASE v # w
    <3>1. \E r : rpc' = [rpc EXCEPT ![v] = r]
      BY <1>2 DEF HandlerStep, Gossip, Transact, Transfer, GossipNewer,
                  GossipOther, GossipPanic, TransactVerify, TransferVerify,
                  TransferPush, PoisonedPanic, Gossiped, Reply, Goto
    <3>2. QED
      BY <1>1, <2>1, <3>1
  <2>2. CASE v = w
    <3>1. CASE TransferVerify(w)
      BY <1>1, <3>1 DEF TransferVerify, Reply, Goto, Idle
    <3>2. CASE TransferPush(w)
      <4>1. rpc[w] \in [pc : {"push"}, id : Ids, peer : Peers,
                        payment : Payments, next : Nat \ {0}]
        BY <1>1, <3>2 DEF TransferPush, Request
      <4>2. rpc'[w] = [rpc[w] EXCEPT !.next = @ + 1]
        BY <1>1, <3>2 DEF TransferPush, Goto
      <4>3. /\ rpc'[w].id = rpc[w].id /\ rpc'[w].payment = rpc[w].payment
            /\ rpc'[w].next = rpc[w].next + 1 /\ rpc[w].pc = "push"
        BY <4>1, <4>2
      <4>4. QED
        BY <3>2, <4>3
    <3>3. CASE \/ GossipNewer(w) \/ GossipOther(w) \/ GossipPanic(w)
               \/ TransactVerify(w) \/ PoisonedPanic(w)
      BY <1>1, <3>3 DEF GossipNewer, GossipOther, GossipPanic, TransactVerify,
                        PoisonedPanic, Gossiped, Reply, Goto, Idle
    <3>4. ASSUME NEW id \in Ids, NEW peer \in Peers, NEW payment \in Payments,
                 Transact(w, id, peer, payment) \/ Transfer(w, id, peer, payment)
          PROVE  Goal
      BY <1>1, <3>4 DEF Transact, Transfer, Goto
    <3>5. ASSUME NEW id \in Ids, NEW peer \in Peers,
                 NEW update \in Updates \cup {NoUpdate},
                 Gossip(w, id, peer, update)
          PROVE  Goal
      BY <1>1, <3>5 DEF Gossip, Goto
    <3>6. QED
      BY <1>2, <2>2, <3>1, <3>2, <3>3, <3>4, <3>5 DEF HandlerStep
  <2>3. QED
    BY <2>1, <2>2
<1>3. ASSUME NEW v \in Workers,
             \/ GossipInsert(v) \/ TransactInsert(v) \/ TransferInsert(v)
      PROVE  Goal
  <2>1. rpc' = [rpc EXCEPT ![v] = Idle]
    BY <1>3, HandlerInserts
  <2>2. QED
    BY <1>1, <2>1 DEF Idle
<1>4. ASSUME rpc' = rpc PROVE Goal
  BY <1>4
<1>5. QED
  BY <1>2, <1>3, <1>4, Cases DEF Initiate, TimerStep, TimerRead, TimerTick,
                                 TimerRemove, vars

\* When Transfer has answered `accepted`, all tokens of the payment are in the
\* receiver's wallet and they settle the price: the payer may delete its own.
THEOREM AcceptedTokensStayKept == Spec => []AcceptedTokensAreKept
<1> DEFINE Inv == AcceptedTokensAreKept /\ PushedIsKept
<1>1. Init => Inv
  BY DEF Init, AcceptedTokensAreKept, PushedIsKept, Idle, NoTransaction
<1>2. TypeOK /\ Inv /\ [Next]_vars => Inv'
  <2> SUFFICES ASSUME TypeOK, Inv, [Next]_vars PROVE Inv'
    OBVIOUS
  <2> DEFINE KeptNext(id, token) ==
               \E n \in DOMAIN received' :
                   received'[n].tx = id /\ received'[n].token = token
  <2>1. ASSUME NEW id, NEW token, Kept(id, token) PROVE KeptNext(id, token)
    <3>1. Kept(id, token)'
      BY <2>1, KeptStaysKept
    <3>2. QED
      BY <3>1 DEF Kept
  <2>2. PushedIsKept'
    <3>1. ASSUME NEW w \in Workers, rpc'[w].pc = "push"
          PROVE  /\ Settles(rpc'[w].payment)
                 /\ \A i \in DOMAIN rpc'[w].payment :
                       i < rpc'[w].next =>
                           KeptNext(rpc'[w].id, rpc'[w].payment[i].token)
      <4> HIDE DEF KeptNext
      <4>0. rpc[w] \in Request /\ rpc'[w] \in Request
        BY StepKeepsType DEF TypeOK
      <4>1. CASE rpc'[w] = rpc[w]
        BY <2>1, <3>1, <4>1 DEF PushedIsKept
      <4>2. CASE rpc'[w].next = 1 /\ Settles(rpc'[w].payment)
        <5>1. rpc'[w].payment \in Payments
          BY <3>1, <4>0, RequestFields
        <5>2. \A i \in DOMAIN rpc'[w].payment : ~ (i < 1)
          BY <5>1, ReceiverAssumption DEF Payment
        <5>3. QED
          BY <4>2, <5>2
      <4>3. CASE /\ TransferPush(w) /\ rpc[w].pc = "push"
                 /\ rpc'[w].id = rpc[w].id
                 /\ rpc'[w].payment = rpc[w].payment
                 /\ rpc'[w].next = rpc[w].next + 1
        <5> DEFINE id == rpc[w].id
                   p == rpc[w].payment
                   k == rpc[w].next
        <5>1. /\ Settles(p)
              /\ \A i \in DOMAIN p : i < k => Kept(id, p[i].token)
          BY <4>3 DEF PushedIsKept
        <5>2. KeptNext(id, p[k].token)
          BY <4>3, PushKeeps DEF Kept, KeptNext
        <5>3. k \in Nat /\ p \in Payment
          BY <4>0, <4>3, RequestFields, ReceiverAssumption
        <5>4. \A i \in DOMAIN p : i \in Nat
          BY <5>3 DEF Payment
        <5> HIDE DEF id, p, k
        <5>5. \A i \in DOMAIN p : i < k + 1 => i < k \/ i = k
          BY <5>3, <5>4
        <5>6. \A i \in DOMAIN p : i < k + 1 => KeptNext(id, p[i].token)
          BY <2>1, <5>1, <5>2, <5>5
        <5>7. QED
          BY <4>3, <5>1, <5>6 DEF id, p, k
      <4>4. QED
        BY <3>1, <4>1, <4>2, <4>3, Pushing
    <3>2. QED
      BY <3>1 DEF PushedIsKept, Kept, Settles, Total
  <2>3. ASSUME NEW a \in accepted
        PROVE  /\ Settles(a[2])
               /\ \A i \in DOMAIN a[2] : KeptNext(a[1], a[2][i].token)
    <3> HIDE DEF KeptNext
    <3>1. QED
      BY <2>1 DEF AcceptedTokensAreKept
  <2>4. CASE accepted' = accepted /\ \A id \in Ids :
                transactions'[id].state = "Complete"
                  => transactions[id].state = "Complete"
    <3>1. \A id \in Ids : transactions'[id].state = "Complete" =>
             \E a \in accepted' : a[1] = id
      BY <2>4 DEF AcceptedTokensAreKept
    <3>2. \A a \in accepted' :
             /\ Settles(a[2])
             /\ \A i \in DOMAIN a[2] : KeptNext(a[1], a[2][i].token)
      BY <2>3, <2>4
    <3>3. AcceptedTokensAreKept'
      BY <3>1, <3>2 DEF AcceptedTokensAreKept, Kept, Settles, Total
    <3>4. QED
      BY <2>2, <3>3
  <2>5. ASSUME NEW w \in Workers, TransferInsert(w) PROVE Inv'
    <3> DEFINE id == rpc[w].id
               p == rpc[w].payment
               new == <<id, p>>
    <3>1. /\ rpc[w].pc = "push" /\ rpc[w].next > Len(p)
          /\ accepted' = accepted \cup {new}
          /\ Insert(id, "Complete", rpc[w].peer)
      BY <2>5 DEF TransferInsert
    <3>2. id \in Ids /\ p \in Payment /\ rpc[w].next \in Nat
      BY <3>1, RequestFields, ReceiverAssumption DEF TypeOK
    <3>3. \A i \in DOMAIN p : i < rpc[w].next
      BY <3>1, <3>2 DEF Payment
    <3>4. Settles(p) /\ \A i \in DOMAIN p : KeptNext(id, p[i].token)
      <4>1. Settles(p) /\ \A i \in DOMAIN p : Kept(id, p[i].token)
        BY <3>1, <3>3 DEF PushedIsKept
      <4> HIDE DEF KeptNext, id, p
      <4>2. QED
        BY <2>1, <4>1
    <3>5. new[1] = id /\ new[2] = p
      OBVIOUS
    <3> HIDE DEF new
    <3>6. \A a \in accepted' :
             /\ Settles(a[2])
             /\ \A i \in DOMAIN a[2] : KeptNext(a[1], a[2][i].token)
      <4> HIDE DEF KeptNext, id, p
      <4>1. QED
        BY <2>3, <3>1, <3>4, <3>5
    <3>7. \A j \in Ids : transactions'[j].state = "Complete" =>
             \E a \in accepted' : a[1] = j
      <4>1. "Complete" \in TransactionStates
        BY DEF TransactionStates
      <4>2. \A j \in Ids : j # id => transactions'[j] = transactions[j]
        BY <3>1, <3>2, <4>1, InsertOpens
      <4>3. QED
        BY <3>1, <3>5, <4>2 DEF AcceptedTokensAreKept
    <3>8. AcceptedTokensAreKept'
      BY <3>6, <3>7 DEF AcceptedTokensAreKept, Kept, Settles, Total
    <3>9. QED
      BY <2>2, <3>8
  <2>6. ASSUME NEW w \in Workers, GossipInsert(w) \/ TransactInsert(w),
               ~ TransferInsert(w)
        PROVE  Inv'
    <3>1. accepted' = accepted /\ rpc[w].id \in Ids
      BY <2>6, HandlerInserts DEF GossipInsert, TransactInsert
    <3>2. \A j \in Ids : transactions'[j].state = "Complete"
                            => transactions[j].state = "Complete"
      <4>1. ASSUME NEW state \in TransactionStates \ {"Complete"},
                   Insert(rpc[w].id, state, rpc[w].peer)
            PROVE  \A j \in Ids : transactions'[j].state = "Complete"
                                     => transactions[j].state = "Complete"
        BY <3>1, <4>1, InsertOpens
      <4>2. QED
        BY <2>6, <4>1, HandlerInserts
    <3>3. QED
      BY <2>4, <3>1, <3>2
  <2>7. ASSUME NEW peer \in Peers, NEW epoch \in Epochs \cup {NoUpdate},
               Initiate(peer, epoch)
        PROVE  Inv'
    <3>1. /\ next_id \in Ids /\ FirstState(epoch) \in TransactionStates
          /\ FirstState(epoch) # "Complete"
      BY <2>7, ReceiverAssumption DEF Initiate, Ids, FirstState,
                                      TransactionStates, TypeOK
    <3>2. /\ transactions'[next_id].state = FirstState(epoch)
          /\ \A j \in Ids : j # next_id => transactions'[j] = transactions[j]
      BY <2>7, <3>1, InsertOpens DEF Initiate
    <3>3. accepted' = accepted
      BY <2>7 DEF Initiate
    <3>4. QED
      BY <2>4, <3>1, <3>2, <3>3
  <2>8. ASSUME NEW w \in Workers, HandlerStep(w) PROVE Inv'
    BY <2>4, <2>8, HandlerStepKeeps
  <2>9. ASSUME NEW id \in Ids, TimerStep(id) PROVE Inv'
    <3>1. /\ accepted' = accepted
          /\ \A j \in Ids : transactions'[j] \in {transactions[j], NoTransaction}
      BY <2>9 DEF TimerStep, TimerRead, TimerTick, TimerRemove, TypeOK
    <3>2. NoTransaction.state # "Complete"
      BY DEF NoTransaction
    <3>3. QED
      BY <2>4, <3>1, <3>2
  <2>10. CASE UNCHANGED vars
    BY <2>4, <2>10 DEF vars
  <2>11. QED
    BY <2>5, <2>6, <2>7, <2>8, <2>9, <2>10, Cases
<1>3. Inv => AcceptedTokensAreKept
  OBVIOUS
<1>4. QED
  BY <1>1, <1>2, <1>3, StateWellFormed, PTL DEF Spec

-----------------------------------------------------------------------------
(***************************************************************************)
(* The rate limiter.                                                       *)
(***************************************************************************)
Bucket == [tokens : Nat, last_refill : Nat, since : Nat, allowed : Nat]

\* A bucket has not allowed more than the burst and its refills.
WithinRate(b) ==
    b.allowed * Cost + b.tokens <= Burst * Cost + PerTick * (b.last_refill - b.since)

\* The invariant: what is in the table are buckets, none refilled in the future.
LimiterInv ==
    /\ clock \in Nat
    /\ DOMAIN buckets = Ips
    /\ \A ip \in Tracked :
          /\ buckets[ip] \in Bucket
          /\ buckets[ip].last_refill <= clock
          /\ WithinRate(buckets[ip])
    /\ IsFiniteSet(Tracked) /\ Cardinality(Tracked) <= MaxEntries

\* A request leaves its bucket within the rate, refilled by the time that has passed.
LEMMA ConsumeWithinRate ==
    ASSUME clock \in Nat, NEW b \in Bucket, b.last_refill <= clock, WithinRate(b)
    PROVE  /\ TryConsume(b) \in Bucket
           /\ TryConsume(b).last_refill <= clock
           /\ WithinRate(TryConsume(b))
<1> DEFINE gain == (clock - b.last_refill) * PerTick
           r == Refill(b)
<1>1. /\ b.tokens \in Nat /\ b.last_refill \in Nat /\ b.since \in Nat /\ b.allowed \in Nat
      /\ Burst \in Nat /\ PerTick \in Nat /\ Cost \in Nat \ {0} /\ Burst * Cost \in Nat
  BY LimiterAssumption DEF Bucket
<1>2. gain \in Nat
  BY <1>1
<1>3. PerTick * (clock - b.since) = PerTick * (b.last_refill - b.since) + gain
  BY <1>1
<1> HIDE DEF gain
<1>4. /\ Capped(b.tokens + gain) \in Nat
      /\ Capped(b.tokens + gain) <= b.tokens + gain
  BY <1>1, <1>2 DEF Capped
<1>5. r = [tokens |-> Capped(b.tokens + gain), last_refill |-> clock,
           since |-> b.since, allowed |-> b.allowed]
  <2> DEFINE c == Capped(b.tokens + gain)
  <2>1. r = [b EXCEPT !.tokens = c, !.last_refill = clock]
    BY DEF Refill, gain
  <2> HIDE DEF c, r
  <2>2. r = [tokens |-> c, last_refill |-> clock, since |-> b.since, allowed |-> b.allowed]
    BY <2>1 DEF Bucket
  <2>3. QED
    BY <2>2 DEF c
<1>6. r \in Bucket /\ r.last_refill = clock
  BY <1>1, <1>4, <1>5 DEF Bucket
<1>7. WithinRate(r)
  <2>1. b.allowed * Cost + b.tokens <= Burst * Cost + PerTick * (b.last_refill - b.since)
    BY DEF WithinRate
  <2>2. b.allowed * Cost \in Int /\ PerTick * (b.last_refill - b.since) \in Int
    BY <1>1
  <2>3. b.allowed * Cost + Capped(b.tokens + gain) <= Burst * Cost + PerTick * (clock - b.since)
    BY <1>1, <1>2, <1>3, <1>4, <2>1, <2>2
  <2>4. QED
    BY <1>5, <2>3 DEF WithinRate
<1> HIDE DEF r
<1>8. CASE r.tokens >= Cost
  <2> DEFINE s == [tokens |-> r.tokens - Cost, last_refill |-> r.last_refill,
                   since |-> r.since, allowed |-> r.allowed + 1]
  <2>1. TryConsume(b) = s
    BY <1>6, <1>8 DEF TryConsume, Bucket, r
  <2>2. s \in Bucket /\ s.last_refill = clock
    BY <1>1, <1>6, <1>8 DEF Bucket
  <2>3. /\ r.tokens \in Nat /\ r.since \in Nat /\ r.allowed \in Nat
        /\ r.allowed * Cost \in Int /\ PerTick * (r.last_refill - r.since) \in Int
    BY <1>1, <1>6 DEF Bucket
  <2>4. (r.allowed + 1) * Cost = r.allowed * Cost + Cost
    BY <1>1, <2>3
  <2>5. (r.allowed + 1) * Cost + (r.tokens - Cost)
          <= Burst * Cost + PerTick * (r.last_refill - r.since)
    BY <1>1, <1>7, <2>3, <2>4 DEF WithinRate
  <2>6. WithinRate(s)
    BY <2>5 DEF WithinRate
  <2>7. QED
    BY <2>1, <2>2, <2>6
<1>9. CASE ~ (r.tokens >= Cost)
  <2>1. TryConsume(b) = r
    BY <1>9 DEF TryConsume, r
  <2>2. QED
    BY <1>6, <1>7, <2>1
<1>10. QED
  BY <1>8, <1>9

\* A bucket starts full, within the rate.
LEMMA NewWithinRate ==
    ASSUME clock \in Nat
    PROVE  NewBucket \in Bucket /\ NewBucket.last_refill <= clock /\ WithinRate(NewBucket)
<1>1. Burst \in Nat /\ PerTick \in Nat /\ Cost \in Nat /\ Burst * Cost \in Nat
  BY LimiterAssumption
<1>2. PerTick * (clock - clock) = 0 /\ 0 * Cost = 0
  BY <1>1
<1>3. QED
  BY <1>1, <1>2 DEF NewBucket, Bucket, WithinRate

\* What check does to the table: at most one address is new, and one is gone if it was full.
LEMMA CheckWithinLimits ==
    ASSUME LimiterInv, NEW ip \in Ips, Check(ip)
    PROVE  LimiterInv'
<1>1. PICK table \in Evicted(ip) :
          buckets' = [table EXCEPT ![ip] = TryConsume(IF @ = NoBucket THEN NewBucket ELSE @)]
  BY DEF Check
<1>2. /\ clock' = clock /\ clock \in Nat /\ MaxEntries \in Nat \ {0}
      /\ IsFiniteSet(Tracked) /\ Cardinality(Tracked) \in Nat
      /\ Cardinality(Tracked) <= MaxEntries
  BY LimiterAssumption, FS_CardinalityType DEF Check, LimiterInv
<1>3. \/ table = buckets /\ (ip \in Tracked \/ Cardinality(Tracked) < MaxEntries)
      \/ \E old \in Tracked : /\ table = [buckets EXCEPT ![old] = NoBucket] /\ ip \notin Tracked
  <2>1. CASE Cardinality(Tracked) >= MaxEntries /\ ip \notin Tracked
    BY <2>1 DEF Evicted, Oldest
  <2>2. CASE ~ (Cardinality(Tracked) >= MaxEntries /\ ip \notin Tracked)
    BY <1>2, <2>2 DEF Evicted
  <2>3. QED
    BY <2>1, <2>2
<1>4. /\ DOMAIN table = Ips
      /\ \A i \in Ips : table[i] = NoBucket \/ (i \in Tracked /\ table[i] = buckets[i])
  BY <1>3 DEF LimiterInv, Tracked
<1> DEFINE b == IF table[ip] = NoBucket THEN NewBucket ELSE table[ip]
<1>5. /\ DOMAIN buckets' = Ips
      /\ buckets'[ip] = TryConsume(b)
      /\ \A i \in Ips : i # ip => buckets'[i] = table[i]
  BY <1>1, <1>4
<1>6. b \in Bucket /\ b.last_refill <= clock /\ WithinRate(b)
  BY <1>2, <1>4, NewWithinRate DEF LimiterInv
<1> HIDE DEF b
<1>7. /\ TryConsume(b) \in Bucket
      /\ TryConsume(b).last_refill <= clock
      /\ WithinRate(TryConsume(b))
  BY <1>2, <1>6, ConsumeWithinRate
<1>8. \A i \in Tracked' : /\ buckets'[i] \in Bucket
                          /\ buckets'[i].last_refill <= clock'
                          /\ WithinRate(buckets'[i])
  BY <1>2, <1>4, <1>5, <1>7 DEF Tracked, LimiterInv
<1>9. IsFiniteSet(Tracked') /\ Cardinality(Tracked') <= MaxEntries
  <2>1. CASE ip \in Tracked
    <3>1. Tracked' \subseteq Tracked
      BY <1>4, <1>5, <2>1 DEF Tracked
    <3>2. QED
      BY <1>2, <3>1, FS_Subset, FS_CardinalityType
  <2>2. CASE ip \notin Tracked /\ Cardinality(Tracked) < MaxEntries
    <3>1. Tracked' \subseteq Tracked \cup {ip}
      BY <1>4, <1>5 DEF Tracked
    <3>2. IsFiniteSet(Tracked \cup {ip})
          /\ Cardinality(Tracked \cup {ip}) = Cardinality(Tracked) + 1
      BY <1>2, <2>2, FS_AddElement
    <3>3. IsFiniteSet(Tracked') /\ Cardinality(Tracked') <= Cardinality(Tracked \cup {ip})
      BY <3>1, <3>2, FS_Subset
    <3>4. QED
      BY <1>2, <2>2, <3>2, <3>3, FS_CardinalityType
  <2>3. CASE \E old \in Tracked : table = [buckets EXCEPT ![old] = NoBucket] /\ ip \notin Tracked
    <3>1. PICK old \in Tracked : table = [buckets EXCEPT ![old] = NoBucket] /\ ip \notin Tracked
      BY <2>3
    <3> DEFINE rest == Tracked \ {old}
    <3>2. Tracked' \subseteq rest \cup {ip}
      BY <1>4, <1>5, <3>1 DEF Tracked, LimiterInv
    <3>3. IsFiniteSet(rest) /\ Cardinality(rest) = Cardinality(Tracked) - 1
      BY <1>2, FS_RemoveElement
    <3>4. ip \notin rest
      BY <3>1
    <3> HIDE DEF rest
    <3>5. IsFiniteSet(rest \cup {ip}) /\ Cardinality(rest \cup {ip}) = Cardinality(rest) + 1
      BY <3>3, <3>4, FS_AddElement
    <3>6. IsFiniteSet(Tracked') /\ Cardinality(Tracked') <= Cardinality(rest \cup {ip})
      BY <3>2, <3>5, FS_Subset
    <3>7. QED
      BY <1>2, <3>3, <3>5, <3>6, FS_CardinalityType
  <2>4. QED
    BY <1>3, <2>1, <2>2, <2>3
<1>10. QED
  BY <1>2, <1>5, <1>8, <1>9 DEF LimiterInv, WithinRate, Tracked

\* Neither the rate of an address nor the size of the table exceeds its limit, for any
\* number of addresses, any configuration and any pattern of requests.
THEOREM LimitsAlwaysHold == GatewaySpec => []LimitsHold
<1>1. GatewayInit => LimiterInv
  <2> SUFFICES ASSUME LimiterInit PROVE LimiterInv
    BY DEF GatewayInit
  <2>1. Tracked = {}
    BY DEF LimiterInit, Tracked
  <2>2. QED
    BY <2>1, FS_EmptySet, LimiterAssumption DEF LimiterInit, LimiterInv
<1>2. LimiterInv /\ [GatewayNext]_gatewayVars => LimiterInv'
  <2> SUFFICES ASSUME LimiterInv, [GatewayNext]_gatewayVars PROVE LimiterInv'
    OBVIOUS
  <2>1. ASSUME UNCHANGED limiterVars PROVE LimiterInv'
    BY <2>1 DEF limiterVars, LimiterInv, Tracked, WithinRate
  <2>2. CASE Tick
    BY <2>2 DEF Tick, LimiterInv, Tracked, WithinRate, Bucket
  <2>3. QED
    BY <2>1, <2>2, CheckWithinLimits
       DEF GatewayNext, A2A, Paywall, Limiter, Authentication, Rest, gatewayVars, LimiterNext
<1>3. LimiterInv => LimitsHold
  BY DEF LimiterInv, LimitsHold, RateBound, TableBounded, WithinRate
<1>4. QED
  BY <1>1, <1>2, <1>3, PTL DEF GatewaySpec
-----------------------------------------------------------------------------
(***************************************************************************)
(* The authentication of services.                                         *)
(***************************************************************************)
\* A packet is as its caller signed it.
AsSigned(p) ==
    /\ p.from \in Callers /\ p.sent \in Int /\ p.number \in Nat
    /\ p.auth = SignRequest(p.from, p.body, p.sent + skew[p.from])

\* The packet that a grant is for, and the window in which it was granted.
GrantOf(g, p) ==
    /\ g.number = p.number /\ g.body = p.body
    /\ g.at - (p.sent + skew[p.from]) \in - Tolerance .. MaxAge

\* The invariant: packets are numbered in the order in which they were sent.
AuthInv ==
    /\ wall \in Nat /\ skew \in [Callers -> Int]
    /\ IsFiniteSet(packets)
    /\ \A p \in packets : AsSigned(p) /\ p.number < Cardinality(packets)
    /\ \A p, q \in packets : p.number = q.number => p = q
    /\ \A g \in granted : g.at \in Int /\ \E p \in packets : GrantOf(g, p)
    /\ PunctualIsGranted

\* Sending gives the next number.
LEMMA SendKeepsAuth ==
    ASSUME AuthInv, NEW c \in Callers, NEW body \in Bodies, Send(c, body)
    PROVE  AuthInv'
<1> DEFINE p == [auth |-> SignRequest(c, body, wall + skew[c]), body |-> body,
                 from |-> c, sent |-> wall, number |-> Cardinality(packets)]
<1>1. /\ packets' = packets \cup {p}
      /\ UNCHANGED <<wall, skew, granted, answer>>
  BY DEF Send
<1>2. IsFiniteSet(packets) /\ Cardinality(packets) \in Nat
  BY FS_CardinalityType DEF AuthInv
<1>3. p.number = Cardinality(packets)
  OBVIOUS
<1>4. AsSigned(p)
  BY <1>2 DEF AuthInv, AsSigned
<1> HIDE DEF p
<1>5. \A q \in packets : q.number \in Nat /\ q.number < p.number
  BY <1>3 DEF AuthInv, AsSigned
<1>6. p \notin packets
  BY <1>2, <1>3, <1>5
<1>7. IsFiniteSet(packets') /\ Cardinality(packets') = Cardinality(packets) + 1
  BY <1>1, <1>2, <1>6, FS_AddElement
<1>8. \A q \in packets' : AsSigned(q) /\ q.number < Cardinality(packets')
  BY <1>1, <1>2, <1>3, <1>4, <1>5, <1>7 DEF AuthInv
<1>9. \A q, r \in packets' : q.number = r.number => q = r
  BY <1>1, <1>2, <1>3, <1>5 DEF AuthInv
<1>10. QED
  BY <1>1, <1>7, <1>8, <1>9 DEF AuthInv, AsSigned, GrantOf, PunctualIsGranted, SignRequest, Message

\* A delivery is granted in the packet's window, and granted if it is punctual.
LEMMA DeliverKeepsAuth ==
    ASSUME AuthInv, NEW p \in packets, NEW body \in Bodies, Deliver(p, body)
    PROVE  AuthInv'
<1> DEFINE t == p.sent + skew[p.from]
           ok == VerifyServiceAuth(p.auth, body) /\ AuthorizeCaller(p.auth.group)
           g == [number |-> p.number, body |-> body, at |-> wall]
<1>1. /\ UNCHANGED <<wall, skew, packets>>
      /\ granted' = granted \/ (ok /\ granted' = granted \cup {g})
      /\ answer'.ok = ok
      /\ answer'.punctual = (/\ body = p.body /\ GroupOf[p.from] \in Allowed
                             /\ KeyOf[p.from] = ServerKey
                             /\ wall - p.sent - skew[p.from] \in - Tolerance .. MaxAge)
  BY DEF Deliver
<1>2. /\ AsSigned(p) /\ p.sent \in Int /\ skew[p.from] \in Int /\ t \in Int /\ wall \in Nat
      /\ MaxAge \in Nat /\ Tolerance \in Nat
  BY ServiceAuthAssumption DEF AuthInv, AsSigned
<1>3. /\ p.auth.timestamp = t /\ p.auth.key = KeyOf[p.from] /\ p.auth.group = GroupOf[p.from]
      /\ p.auth.message = Message(p.body, t)
  BY <1>2 DEF AsSigned, SignRequest
<1>4. wall - p.sent - skew[p.from] = wall - t
  BY <1>2
<1> HIDE DEF t
<1>5. TimestampAccepted(t) <=> wall - t \in - Tolerance .. MaxAge
  BY <1>2 DEF TimestampAccepted, Age
<1>6. Message(body, t) = Message(p.body, t) <=> body = p.body
  BY DEF Message
<1>7. ok => body = p.body /\ wall - t \in - Tolerance .. MaxAge
  BY <1>3, <1>5, <1>6 DEF VerifyServiceAuth
<1>8. (/\ body = p.body /\ GroupOf[p.from] \in Allowed /\ KeyOf[p.from] = ServerKey
       /\ wall - t \in - Tolerance .. MaxAge) => ok
  BY <1>3, <1>5, <1>6, ServiceAuthAssumption DEF VerifyServiceAuth, AuthorizeCaller
<1> HIDE DEF ok
<1>9. PunctualIsGranted'
  BY <1>1, <1>4, <1>8 DEF PunctualIsGranted
<1>10. ok => g.at \in Int /\ GrantOf(g, p)
  BY <1>2, <1>7 DEF GrantOf, t
<1> HIDE DEF g
<1>11. \A h \in granted' : h.at \in Int /\ \E q \in packets : GrantOf(h, q)
  BY <1>1, <1>10 DEF AuthInv
<1>12. QED
  BY <1>1, <1>9, <1>11 DEF AuthInv, AsSigned, GrantOf, SignRequest, Message

\* A signed request is let through in one window of the server's time, with the body
\* that was signed, and always within that window, whatever the clocks.
THEOREM WindowIsAlwaysExact == GatewaySpec => []WindowIsExact
<1>1. GatewayInit => AuthInv
  <2> SUFFICES ASSUME AuthInit PROVE AuthInv
    BY DEF GatewayInit
  <2>1. skew \in [Callers -> Int]
    BY ServiceAuthAssumption DEF AuthInit
  <2>2. QED
    BY <2>1, FS_EmptySet DEF AuthInit, AuthInv, PunctualIsGranted, NoAnswer
<1>2. AuthInv /\ [GatewayNext]_gatewayVars => AuthInv'
  <2> SUFFICES ASSUME AuthInv, [GatewayNext]_gatewayVars PROVE AuthInv'
    OBVIOUS
  <2>1. ASSUME UNCHANGED <<skew, packets, granted, answer>>, wall' = wall \/ wall' = wall + 1
        PROVE  AuthInv'
    BY <2>1 DEF AuthInv, AsSigned, GrantOf, PunctualIsGranted, SignRequest, Message
  <2>2. QED
    BY <2>1, SendKeepsAuth, DeliverKeepsAuth
       DEF GatewayNext, A2A, Paywall, Limiter, Authentication, Rest, gatewayVars, authVars,
           AuthNext, WallTick
<1>3. AuthInv => WindowIsExact
  <2> SUFFICES ASSUME AuthInv PROVE GrantsInOneWindow
    BY DEF WindowIsExact, AuthInv
  <2> SUFFICES ASSUME NEW g \in granted, NEW h \in granted, g.number = h.number
               PROVE  g.at - h.at <= MaxAge + Tolerance /\ g.body = h.body
    BY DEF GrantsInOneWindow
  <2>1. PICK p \in packets : GrantOf(g, p)
    BY DEF AuthInv
  <2>2. PICK q \in packets : GrantOf(h, q)
    BY DEF AuthInv
  <2>3. p = q
    BY <2>1, <2>2 DEF AuthInv, GrantOf
  <2> DEFINE t == p.sent + skew[p.from]
  <2>4. t \in Int /\ g.at \in Int /\ h.at \in Int /\ MaxAge \in Nat /\ Tolerance \in Nat
    BY ServiceAuthAssumption DEF AuthInv, AsSigned
  <2>5. /\ g.at - t \in - Tolerance .. MaxAge /\ h.at - t \in - Tolerance .. MaxAge
        /\ g.body = h.body
    BY <2>1, <2>2, <2>3 DEF GrantOf
  <2> HIDE DEF t
  <2>6. QED
    BY <2>4, <2>5
<1>4. QED
  BY <1>1, <1>2, <1>3, PTL DEF GatewaySpec
-----------------------------------------------------------------------------
(***************************************************************************)
(* The tasks.  Whatever the task manager does, it only uses the receiver   *)
(* as its gRPC clients do, so that the receiver keeps what it promises.    *)
(***************************************************************************)
Task == [state : TaskStates \cup {"none"}, end : Ended \cup {"none"}, raced : BOOLEAN]

CallRecord == [pc : {"none"}]
                \cup [pc : {"read", "receiver"}, task : Ids, peer : Peers, payment : Payments,
                      kind : {"transact", "transfer"}]
                \cup [pc : {"replied"}, task : Ids, kind : {"transact", "transfer"},
                      accept : BOOLEAN]

TasksTyped ==
    /\ tasks \in [Ids -> Task]
    /\ calls \in [Workers -> CallRecord]

\* The fields of an A2A request.
LEMMA CallFields ==
    ASSUME NEW c \in CallRecord
    PROVE  /\ c.pc \in {"none", "read", "receiver", "replied"}
           /\ c.pc # "none" => c.task \in Ids /\ c.kind \in {"transact", "transfer"}
           /\ c.pc \in {"read", "receiver"} => c.peer \in Peers /\ c.payment \in Payments
           /\ c.pc = "replied" => c.accept \in BOOLEAN
           /\ c.pc = "read" => [c EXCEPT !.pc = "receiver"] \in CallRecord
BY DEF CallRecord

\* The answer to a request of which the receiver is through.
LEMMA AnswerType ==
    ASSUME NEW w \in Workers, calls[w] \in CallRecord, calls[w].pc = "receiver"
    PROVE  /\ NoCall \in CallRecord /\ Answer(w) \in CallRecord
           /\ Answer(w).pc \in {"none", "replied"}
           /\ Answer(w).pc = "replied" =>
                 /\ Answer(w).task = calls[w].task /\ Answer(w).kind = calls[w].kind
                 /\ Answer(w).accept = Accepts(w)
<1>1. Accepts(w) \in BOOLEAN
  BY DEF Accepts
<1>2. calls[w].task \in Ids /\ calls[w].kind \in {"transact", "transfer"}
  BY CallFields
<1>3. NoCall \in CallRecord
  BY DEF NoCall, CallRecord
<1> DEFINE r == [pc |-> "replied", task |-> calls[w].task, kind |-> calls[w].kind,
                 accept |-> Accepts(w)]
<1>4. r \in CallRecord
  BY <1>1, <1>2 DEF CallRecord
<1>5. Answer(w) = NoCall \/ Answer(w) = r
  BY DEF Answer
<1>6. QED
  BY <1>3, <1>4, <1>5 DEF NoCall

\* What a task becomes.
LEMMA OutcomeType ==
    ASSUME NEW kind \in {"transact", "transfer"}, NEW accept \in BOOLEAN
    PROVE  /\ Outcome(kind, accept) \in TaskStates
           /\ Outcome(kind, accept) = "Completed" => kind = "transfer" /\ accept
BY DEF Outcome, TaskStates

\* What a task becomes when a state is written over it: the first end is kept, and so is
\* that a request was in flight then.
LEMMA SetTaskEffect ==
    ASSUME TasksTyped, NEW id, NEW state \in TaskStates, NEW others
    PROVE  /\ SetTask(id, state, others) \in [Ids -> Task]
           /\ \A i \in Ids : i # id => SetTask(id, state, others)[i] = tasks[i]
           /\ id \in Ids =>
                LET t == SetTask(id, state, others)[id]
                IN  /\ t.state = state
                    /\ t.end = IF tasks[id].end = "none" /\ state \in Ended THEN state
                               ELSE tasks[id].end
                    /\ t.raced = (tasks[id].raced \/ (state \in Ended /\ others # {}))
<1> DEFINE t(u) == [state |-> state,
                    end |-> IF u.end = "none" /\ state \in Ended THEN state ELSE u.end,
                    raced |-> u.raced \/ (state \in Ended /\ others # {})]
<1>1. ASSUME NEW u \in Task PROVE t(u) \in Task
  BY <1>1 DEF Task
<1>2. SetTask(id, state, others) = [tasks EXCEPT ![id] = t(tasks[id])]
  BY DEF SetTask
<1>3. /\ \A i \in Ids : i # id => SetTask(id, state, others)[i] = tasks[i]
      /\ id \in Ids => SetTask(id, state, others)[id] = t(tasks[id])
  <2> HIDE DEF t
  <2> QED
    BY <1>2 DEF TasksTyped
<1>4. SetTask(id, state, others) \in [Ids -> Task]
  <2>1. id \in Ids => t(tasks[id]) \in Task
    BY <1>1 DEF TasksTyped
  <2> HIDE DEF t
  <2>2. QED
    BY <1>2, <2>1 DEF TasksTyped
<1>5. QED
  BY <1>3, <1>4

\* One step of the gateway keeps tasks and requests well-formed.
LEMMA StepKeepsTasksTyped ==
    ASSUME TasksTyped, [GatewayNext]_gatewayVars
    PROVE  TasksTyped'
<1>1. NoCall \in CallRecord /\ \A id : InFlight(id) \subseteq Workers
  BY DEF NoCall, CallRecord, InFlight
<1>2. ASSUME NEW peer \in Peers, CreateTask(peer) PROVE TasksTyped'
  <2>1. NewTask \in Task
    BY DEF Task, TaskStates, NewTask
  <2>2. QED
    BY <1>2, <2>1 DEF CreateTask, TasksTyped
<1>3. ASSUME NEW w \in Workers, NEW id \in Ids, NEW peer \in Peers, NEW payment \in Payments,
             Continue(w, id, peer, payment)
      PROVE  TasksTyped'
  <2> DEFINE c == [pc |-> "read", task |-> id, peer |-> peer, payment |-> payment,
                   kind |-> IF tasks[id].state = "InputRequired" THEN "transact" ELSE "transfer"]
  <2>1. c \in CallRecord
    BY DEF CallRecord
  <2>2. calls' = [calls EXCEPT ![w] = c] /\ tasks' = tasks
    BY <1>3 DEF Continue
  <2> HIDE DEF c
  <2>3. QED
    BY <2>1, <2>2 DEF TasksTyped
<1>4. ASSUME NEW w \in Workers, CallReceiver(w) PROVE TasksTyped'
  <2>1. [calls[w] EXCEPT !.pc = "receiver"] \in CallRecord
    BY <1>4, CallFields DEF CallReceiver, TasksTyped
  <2>2. QED
    BY <1>1, <1>4, <2>1 DEF CallReceiver, TasksTyped
<1>5. ASSUME NEW w \in Workers, ReceiverStep(w) PROVE TasksTyped'
  <2>1. calls[w].pc = "receiver" => Answer(w) \in CallRecord
    BY AnswerType DEF TasksTyped
  <2>2. QED
    BY <1>5, <2>1 DEF ReceiverStep, TasksTyped
<1>6. ASSUME NEW w \in Workers, UpdateTask(w) PROVE TasksTyped'
  <2> DEFINE c == calls[w]
  <2>1. c.kind \in {"transact", "transfer"} /\ c.accept \in BOOLEAN
    BY <1>6, CallFields DEF UpdateTask, TasksTyped
  <2>2. SetTask(c.task, Outcome(c.kind, c.accept), InFlight(c.task) \ {w}) \in [Ids -> Task]
    BY <2>1, OutcomeType, SetTaskEffect
  <2>3. /\ calls' = [calls EXCEPT ![w] = NoCall]
        /\ tasks' = SetTask(c.task, Outcome(c.kind, c.accept), InFlight(c.task) \ {w})
    BY <1>6 DEF UpdateTask
  <2>4. QED
    BY <1>1, <2>2, <2>3 DEF TasksTyped
<1>7. ASSUME NEW id \in Ids, Cancel(id) PROVE TasksTyped'
  <2>1. SetTask(id, "Canceled", InFlight(id)) \in [Ids -> Task]
    BY SetTaskEffect DEF TaskStates
  <2>2. QED
    BY <1>7, <2>1 DEF Cancel, TasksTyped
<1>8. ASSUME UNCHANGED taskVars PROVE TasksTyped'
  BY <1>8 DEF taskVars, TasksTyped
<1>9. QED
  BY <1>2, <1>3, <1>4, <1>5, <1>6, <1>7, <1>8
     DEF GatewayNext, A2A, Paywall, Limiter, Authentication, Rest, gatewayVars, TaskNext,
         GrpcCall, GatewayTimer

\* One step of the gateway is a step of the receiver, or none.
LEMMA GatewayStepIsReceiverStep ==
    ASSUME TasksTyped, [GatewayNext]_gatewayVars
    PROVE  [Next]_vars
<1>1. ASSUME NEW w \in Workers, CallReceiver(w) PROVE [Next]_vars
  <2> DEFINE c == calls[w]
  <2>1. c.task \in Ids /\ c.peer \in Peers /\ c.payment \in Payments
    BY <1>1, CallFields DEF CallReceiver, TasksTyped
  <2>2. \/ Transact(w, c.task, c.peer, c.payment)
        \/ Transfer(w, c.task, c.peer, c.payment)
        \/ UNCHANGED vars
    BY <1>1 DEF CallReceiver
  <2>3. CASE \/ Transact(w, c.task, c.peer, c.payment)
             \/ Transfer(w, c.task, c.peer, c.payment)
    <3> HIDE DEF c
    <3>1. Call(w)
      BY <2>1, <2>3 DEF Call
    <3>2. QED
      BY <3>1 DEF Next
  <2>4. QED
    BY <2>2, <2>3
<1>2. ASSUME NEW peer \in Peers, CreateTask(peer) PROVE [Next]_vars
  BY <1>2 DEF CreateTask, Next
<1>3. ASSUME NEW w \in Workers, ReceiverStep(w) \/ GrpcCall(w) PROVE [Next]_vars
  BY <1>3 DEF ReceiverStep, GrpcCall, Next
<1>4. ASSUME NEW id \in Ids, GatewayTimer(id) PROVE [Next]_vars
  BY <1>4 DEF GatewayTimer, Next
<1>5. ASSUME NEW peer \in Peers, NEW epoch \in Epochs \cup {NoUpdate}, Initiate(peer, epoch)
      PROVE  [Next]_vars
  BY <1>5 DEF Next
<1>6. QED
  BY <1>1, <1>2, <1>3, <1>4, <1>5
     DEF GatewayNext, A2A, Paywall, Limiter, Authentication, Rest, gatewayVars, TaskNext,
         Continue, UpdateTask, Cancel

\* The gateway implements the receiver: agents that pay through A2A tasks and wallets that
\* pay over gRPC together do nothing to the receiver that gRPC requests alone could not do.
THEOREM GatewayRunsReceiver == GatewaySpec => Spec
<1>1. GatewayInit => TasksTyped /\ Init
  BY DEF GatewayInit, TaskInit, TasksTyped, NoTask, Task, NoCall, CallRecord
<1>2. TasksTyped /\ [GatewayNext]_gatewayVars => TasksTyped' /\ [Next]_vars
  BY StepKeepsTasksTyped, GatewayStepIsReceiverStep
<1>3. QED
  BY <1>1, <1>2, PTL DEF GatewaySpec, Spec

\* The receiver has accepted a payment for a transaction.
Paid(id) == \E a \in accepted : a[1] = id

\* What the receiver has of an A2A request.
Underway(c, r) ==
    /\ r.id = c.task
    /\ c.kind = "transact" => r.pc \in {"transact", "proposed"}
    /\ c.kind = "transfer" => r.pc \in {"transfer", "push"}

\* Nobody is left to write over a task whose end was not raced.
EndsAreQuiet ==
    \A id \in Ids :
        tasks[id].end # "none" /\ ~ tasks[id].raced =>
            /\ InFlight(id) = {}
            /\ tasks[id].state = tasks[id].end /\ tasks[id].state \in Ended

\* The invariant: an answer that is on its way to a task is as good as the task.
TaskInv ==
    /\ \A w \in Workers : calls[w].pc = "receiver" => Underway(calls[w], rpc[w])
    /\ \A w \in Workers :
          calls[w].pc = "replied" /\ calls[w].kind = "transfer" /\ calls[w].accept
              => Paid(calls[w].task)
    /\ \A id \in Ids : tasks[id].state = "Completed" => Paid(id)
    /\ EndsAreQuiet

\* No answer is taken back.
LEMMA PaidStaysPaid ==
    ASSUME [Next]_vars
    PROVE  accepted \subseteq accepted'
BY DEF Next, Call, Step, TimerStep, Done, vars, Initiate, Gossip, Transact,
       Transfer, GossipNewer, GossipOther, GossipPanic, GossipInsert,
       TransactVerify, TransactInsert, TransferVerify, TransferPush, TransferInsert,
       PoisonedPanic, TimerRead, TimerTick, TimerRemove

\* A step of the receiver for an A2A request goes on with it, or answers it; a transfer
\* is answered with accepted only when the receiver has recorded it.
LEMMA UnderwayStaysUnderway ==
    ASSUME TypeOK, NEW w \in Workers, NEW c \in CallRecord, c.pc = "receiver",
           Underway(c, rpc[w]), Step(w)
    PROVE  /\ rpc'[w] # Idle => Underway(c, rpc'[w])
           /\ c.kind = "transfer" /\ Accepts(w) => \E a \in accepted' : a[1] = c.task
<1>1. /\ rpc \in [Workers -> Request] /\ rpc[w] \in Request
      /\ c.kind \in {"transact", "transfer"}
  BY CallFields DEF TypeOK
<1>2. /\ rpc[w].pc \in {"transact", "proposed", "transfer", "push"} /\ rpc[w].id = c.task
      /\ c.kind = "transact" => rpc[w].pc \in {"transact", "proposed"}
      /\ c.kind = "transfer" => rpc[w].pc \in {"transfer", "push"}
  BY <1>1 DEF Underway
<1>3. CASE TransactVerify(w)
  BY <1>1, <1>2, <1>3 DEF TransactVerify, Reply, Goto, Underway, Accepts
<1>4. CASE TransactInsert(w)
  BY <1>1, <1>2, <1>4 DEF TransactInsert, Reply, Goto, Underway
<1>5. CASE TransferVerify(w)
  BY <1>1, <1>2, <1>5 DEF TransferVerify, Reply, Goto, Underway, Accepts
<1>6. CASE TransferPush(w)
  <2> DEFINE r == [rpc[w] EXCEPT !.next = @ + 1]
  <2>1. rpc[w] \in [pc : {"push"}, id : Ids, peer : Peers, payment : Payments,
                    next : Nat \ {0}]
    BY <1>1, <1>6 DEF TransferPush, Request
  <2>2. r.pc = "push" /\ r.id = rpc[w].id
    BY <2>1
  <2>3. rpc' = [rpc EXCEPT ![w] = r]
    BY <1>6 DEF TransferPush, Goto
  <2> HIDE DEF r
  <2>4. rpc'[w] = r
    BY <1>1, <2>3
  <2>5. rpc[w].next \in Nat /\ Len(rpc[w].payment) \in Nat
    <3>1. rpc[w].payment \in Seq([token : Tokens, to : Tickets])
      BY <2>1, ReceiverAssumption DEF Payment
    <3>2. QED
      BY <2>1, <3>1, LenProperties
  <2>6. ~ Accepts(w)
    BY <1>6, <2>1, <2>5 DEF TransferPush, Accepts
  <2>7. QED
    BY <1>2, <1>6, <2>2, <2>4, <2>6 DEF Underway, TransferPush
<1>7. CASE TransferInsert(w)
  <2>1. rpc'[w] = Idle /\ <<rpc[w].id, rpc[w].payment>> \in accepted'
    BY <1>1, <1>7 DEF TransferInsert, Reply, Goto
  <2>2. QED
    BY <1>2, <2>1
<1>8. CASE PoisonedPanic(w)
  <2>1. rpc'[w] = Idle
    BY <1>1, <1>8 DEF PoisonedPanic, Reply, Goto
  <2>2. c.kind = "transfer" => ~ Accepts(w)
    <3> SUFFICES ASSUME rpc[w].pc = "push", rpc[w].next <= Len(rpc[w].payment)
                 PROVE  ~ (rpc[w].next > Len(rpc[w].payment))
      BY <1>2, <1>8 DEF PoisonedPanic, Accepts
    <3>1. rpc[w].payment \in Payments /\ rpc[w].next \in Nat
      BY <1>1, RequestFields
    <3>2. rpc[w].payment \in Seq([token : Tokens, to : Tickets])
      BY <3>1, ReceiverAssumption DEF Payment
    <3>3. QED
      BY <3>1, <3>2, LenProperties
  <2>3. QED
    BY <2>1, <2>2
<1>9. QED
  BY <1>2, <1>3, <1>4, <1>5, <1>6, <1>7, <1>8
     DEF Step, GossipNewer, GossipOther, GossipPanic, GossipInsert

\* A step that leaves the tasks alone, and of the requests changes at most one, which does
\* not become one for another task.
LEMMA RequestKeepsTaskInv ==
    ASSUME TypeOK, TasksTyped, TaskInv, [Next]_vars, NEW w \in Workers, NEW c \in CallRecord,
           tasks' = tasks, calls' = [calls EXCEPT ![w] = c],
           \A v \in Workers : v # w => rpc'[v] = rpc[v],
           c.pc # "none" => calls[w].pc # "none" /\ c.task = calls[w].task,
           c.pc = "receiver" => Underway(c, rpc'[w]),
           c.pc = "replied" /\ c.kind = "transfer" /\ c.accept =>
               \E a \in accepted' : a[1] = c.task
    PROVE  TaskInv'
<1>1. accepted \subseteq accepted'
  BY PaidStaysPaid
<1>2. /\ calls'[w] = c /\ \A v \in Workers : v # w => calls'[v] = calls[v]
  BY DEF TasksTyped
<1>3. \A v \in Workers : calls'[v].pc = "receiver" => Underway(calls'[v], rpc'[v])
  BY <1>2 DEF TaskInv
<1>4. \A v \in Workers :
          calls'[v].pc = "replied" /\ calls'[v].kind = "transfer" /\ calls'[v].accept
              => \E a \in accepted' : a[1] = calls'[v].task
  BY <1>1, <1>2 DEF TaskInv, Paid
<1>5. \A id \in Ids : tasks'[id].state = "Completed" => \E a \in accepted' : a[1] = id
  BY <1>1 DEF TaskInv, Paid
<1>6. EndsAreQuiet'
  <2>1. \A id \in Ids : InFlight(id) = {} => InFlight(id)' = {}
    BY <1>2 DEF InFlight
  <2>2. QED
    BY <2>1 DEF TaskInv, EndsAreQuiet
<1>7. QED
  BY <1>3, <1>4, <1>5, <1>6 DEF TaskInv, Paid, Underway

\* Writing a state over a task that did not end quietly leaves a quiet end only if nobody
\* but the writer was in flight.
LEMMA WritingKeepsQuiet ==
    ASSUME TasksTyped, EndsAreQuiet, NEW id \in Ids, NEW state \in TaskStates, NEW others,
           tasks' = SetTask(id, state, others),
           tasks[id].end = "none" \/ tasks[id].raced,
           \A i \in Ids : i # id /\ InFlight(i) = {} => InFlight(i)' = {},
           state \in Ended /\ others = {} => InFlight(id)' = {}
    PROVE  EndsAreQuiet'
<1>1. /\ \A i \in Ids : i # id => tasks'[i] = tasks[i]
      /\ tasks'[id].state = state
      /\ tasks'[id].end = IF tasks[id].end = "none" /\ state \in Ended THEN state
                          ELSE tasks[id].end
      /\ tasks'[id].raced = (tasks[id].raced \/ (state \in Ended /\ others # {}))
  BY SetTaskEffect
<1>2. \A i \in Ids : i # id /\ tasks'[i].end # "none" /\ ~ tasks'[i].raced =>
          /\ InFlight(i)' = {}
          /\ tasks'[i].state = tasks'[i].end /\ tasks'[i].state \in Ended
  BY <1>1 DEF EndsAreQuiet
<1>3. ASSUME tasks'[id].end # "none", ~ tasks'[id].raced
      PROVE  /\ InFlight(id)' = {}
             /\ tasks'[id].state = tasks'[id].end /\ tasks'[id].state \in Ended
  <2>1. tasks[id].raced \in BOOLEAN
    BY DEF TasksTyped, Task
  <2>2. ~ tasks[id].raced
    BY <1>1, <1>3, <2>1
  <2>3. tasks[id].end = "none"
    BY <2>2
  <2>4. state \in Ended /\ others = {}
    BY <1>1, <1>3, <2>3
  <2>5. QED
    BY <1>1, <2>3, <2>4
<1>4. QED
  BY <1>2, <1>3 DEF EndsAreQuiet

\* A step that leaves the requests and their progress alone and writes one task.
LEMMA WritingKeepsTaskInv ==
    ASSUME TypeOK, TasksTyped, TaskInv, [Next]_vars, NEW id \in Ids, NEW state \in TaskStates,
           tasks' = SetTask(id, state, InFlight(id)), calls' = calls, rpc' = rpc,
           state # "Completed", tasks[id].state \notin Ended
    PROVE  TaskInv'
<1>1. accepted \subseteq accepted'
  BY PaidStaysPaid
<1>2. \A i \in Ids : tasks'[i].state = "Completed" => tasks[i].state = "Completed"
  BY SetTaskEffect
<1>3. \A i \in Ids : tasks'[i].state = "Completed" => \E a \in accepted' : a[1] = i
  BY <1>1, <1>2 DEF TaskInv, Paid
<1>4. \A i : InFlight(i)' = InFlight(i)
  BY DEF InFlight
<1>5. tasks[id].end = "none" \/ tasks[id].raced
  BY DEF TaskInv, EndsAreQuiet
<1>6. EndsAreQuiet'
  BY <1>4, <1>5, WritingKeepsQuiet DEF TaskInv
<1>7. QED
  BY <1>1, <1>3, <1>6 DEF TaskInv, Paid, Underway

\* A task is completed only for a payment that the receiver has accepted and kept, and
\* one that ended while no other request for it was in flight stays as it ended, for any
\* number of agents, wallets and tasks, whatever is canceled and times out meanwhile.  An
\* end that is raced by a request is not final, and nothing is proved of it but the first.
THEOREM TasksAlwaysFollowPayments == GatewaySpec => []TasksFollowPayments
<1>1. GatewayInit => TasksTyped /\ TaskInv
  BY DEF GatewayInit, TaskInit, TasksTyped, NoCall, NoTask, Task, CallRecord, TaskInv,
         EndsAreQuiet, Ended
<1>2. TypeOK /\ TasksTyped /\ TaskInv /\ [GatewayNext]_gatewayVars => TasksTyped' /\ TaskInv'
  <2> SUFFICES ASSUME TypeOK, TasksTyped, TaskInv, [GatewayNext]_gatewayVars PROVE TaskInv'
    BY StepKeepsTasksTyped
  <2>0. /\ [Next]_vars /\ rpc \in [Workers -> Request] /\ calls \in [Workers -> CallRecord]
        /\ NoCall \in CallRecord
    BY GatewayStepIsReceiverStep DEF TypeOK, TasksTyped, NoCall, CallRecord
  <2>1. ASSUME NEW peer \in Peers, CreateTask(peer) PROVE TaskInv'
    <3>1. NewTask.end = "none" /\ NewTask.state # "Completed"
      BY DEF NewTask
    <3>2. /\ calls' = calls /\ rpc' = rpc
          /\ tasks' = tasks \/ tasks' = [tasks EXCEPT ![next_id] = NewTask]
      BY <2>1 DEF CreateTask, Initiate
    <3>3. accepted \subseteq accepted' /\ \A i : InFlight(i)' = InFlight(i)
      BY <2>0, <3>2, PaidStaysPaid DEF InFlight
    <3>4. \A i \in Ids : tasks'[i] \in {tasks[i], NewTask}
      BY <3>2 DEF TasksTyped
    <3>5. QED
      BY <3>1, <3>2, <3>3, <3>4 DEF TaskInv, Paid, Underway, EndsAreQuiet
  <2>2. ASSUME NEW w \in Workers, NEW id \in Ids, NEW peer \in Peers, NEW payment \in Payments,
               Continue(w, id, peer, payment)
        PROVE  TaskInv'
    <3> DEFINE c == [pc |-> "read", task |-> id, peer |-> peer, payment |-> payment,
                     kind |-> IF tasks[id].state = "InputRequired" THEN "transact" ELSE "transfer"]
    <3>1. /\ UNCHANGED <<tasks, rpc, accepted>> /\ calls' = [calls EXCEPT ![w] = c]
          /\ tasks[id].state \notin Ended
      BY <2>2 DEF Continue, MayContinue, vars, Ended
    <3>2. c.pc = "read" /\ c.task = id
      OBVIOUS
    <3> HIDE DEF c
    <3>3. calls'[w] = c /\ \A v \in Workers : v # w => calls'[v] = calls[v]
      BY <2>0, <3>1
    <3>4. EndsAreQuiet'
      <4>1. \A i \in Ids : i # id /\ InFlight(i) = {} => InFlight(i)' = {}
        BY <3>2, <3>3 DEF InFlight
      <4>2. QED
        BY <3>1, <4>1 DEF TaskInv, EndsAreQuiet
    <3>5. QED
      BY <3>1, <3>2, <3>3, <3>4 DEF TaskInv, Paid, Underway
  <2>3. ASSUME NEW w \in Workers, CallReceiver(w) PROVE TaskInv'
    <3> DEFINE c == calls[w]
               d == [c EXCEPT !.pc = "receiver"]
    <3>1. /\ c \in CallRecord /\ c.pc = "read" /\ tasks' = tasks
          /\ c.kind \in {"transact", "transfer"} /\ d \in CallRecord
      BY <2>0, <2>3, CallFields DEF CallReceiver
    <3>2. d.pc = "receiver" /\ d.task = c.task /\ d.kind = c.kind
      BY <3>1 DEF CallRecord
    <3>3. CASE calls' = [calls EXCEPT ![w] = NoCall] /\ UNCHANGED vars
      BY <2>0, <3>1, <3>3, RequestKeepsTaskInv DEF NoCall, vars
    <3>4. CASE /\ IF c.kind = "transact" THEN Transact(w, c.task, c.peer, c.payment)
                  ELSE Transfer(w, c.task, c.peer, c.payment)
               /\ calls' = [calls EXCEPT ![w] = d]
      <4>1. /\ \A v \in Workers : v # w => rpc'[v] = rpc[v]
            /\ rpc'[w].pc = c.kind /\ rpc'[w].id = c.task
        BY <2>0, <3>1, <3>4 DEF Transact, Transfer, Goto
      <4>2. Underway(d, rpc'[w])
        BY <3>1, <3>2, <4>1 DEF Underway
      <4> HIDE DEF d
      <4>3. QED
        BY <2>0, <3>1, <3>2, <3>4, <4>1, <4>2, RequestKeepsTaskInv
    <3>5. QED
      BY <2>3, <3>3, <3>4 DEF CallReceiver
  <2>4. ASSUME NEW w \in Workers, ReceiverStep(w) PROVE TaskInv'
    <3> DEFINE c == calls[w]
    <3>1. /\ Step(w) /\ tasks' = tasks /\ c \in CallRecord
          /\ \A v \in Workers : v # w => rpc'[v] = rpc[v]
      BY <2>0, <2>4 DEF ReceiverStep, Step, GossipNewer, GossipOther, GossipPanic, GossipInsert,
            TransactVerify, TransactInsert, TransferVerify, TransferPush, TransferInsert,
            PoisonedPanic, Gossiped, Reply, Goto
    <3>2. c.pc = "receiver" =>
             /\ rpc'[w] # Idle => Underway(c, rpc'[w])
             /\ c.kind = "transfer" /\ Accepts(w) => \E a \in accepted' : a[1] = c.task
      BY <3>1, UnderwayStaysUnderway DEF TaskInv
    <3>3. CASE c.pc = "receiver" /\ rpc'[w] = Idle
      <4>1. calls' = [calls EXCEPT ![w] = Answer(w)]
        BY <2>4, <3>3 DEF ReceiverStep
      <4>2. /\ Answer(w) \in CallRecord /\ Answer(w).pc \in {"none", "replied"}
            /\ Answer(w).pc = "replied" =>
                 /\ Answer(w).task = c.task /\ Answer(w).kind = c.kind
                 /\ Answer(w).accept = Accepts(w)
        BY <3>1, <3>3, AnswerType
      <4>3. PICK d \in CallRecord : d = Answer(w)
        BY <4>2
      <4>4. QED
        BY <2>0, <3>1, <3>2, <3>3, <4>1, <4>2, <4>3, RequestKeepsTaskInv
    <3>4. CASE ~ (c.pc = "receiver" /\ rpc'[w] = Idle)
      <4>1. calls' = calls /\ calls = [calls EXCEPT ![w] = c]
        BY <2>0, <2>4, <3>4 DEF ReceiverStep
      <4>2. c.pc = "replied" /\ c.kind = "transfer" /\ c.accept => \E a \in accepted' : a[1] = c.task
        BY <2>0, PaidStaysPaid DEF TaskInv, Paid
      <4> HIDE DEF c
      <4>3. QED
        BY <2>0, <3>1, <3>2, <3>4, <4>1, <4>2, RequestKeepsTaskInv DEF c
    <3>5. QED
      BY <3>3, <3>4
  <2>5. ASSUME NEW w \in Workers, UpdateTask(w) PROVE TaskInv'
    <3>0. /\ calls[w].pc = "replied" /\ calls[w].task \in Ids
          /\ calls[w].kind \in {"transact", "transfer"} /\ calls[w].accept \in BOOLEAN
          /\ Outcome(calls[w].kind, calls[w].accept) \in TaskStates
      BY <2>0, <2>5, CallFields, OutcomeType DEF UpdateTask
    <3> PICK id \in Ids : id = calls[w].task
      BY <3>0
    <3> PICK state \in TaskStates : state = Outcome(calls[w].kind, calls[w].accept)
      BY <3>0
    <3> PICK others : others = InFlight(id) \ {w}
      OBVIOUS
    <3>1. /\ UNCHANGED <<rpc, accepted>> /\ calls' = [calls EXCEPT ![w] = NoCall]
          /\ tasks' = SetTask(id, state, others)
      BY <2>5 DEF UpdateTask, vars
    <3>2. state = "Completed" => Paid(id)
      BY <3>0, OutcomeType DEF TaskInv
    <3>3. calls'[w].pc = "none" /\ \A v \in Workers : v # w => calls'[v] = calls[v]
      BY <2>0, <3>1 DEF NoCall
    <3>4. /\ w \in InFlight(id)
          /\ \A i \in Ids : InFlight(i) = {} => InFlight(i)' = {}
          /\ others = {} => InFlight(id)' = {}
      BY <3>0, <3>3 DEF InFlight
    <3>5. tasks[id].end = "none" \/ tasks[id].raced
      BY <3>4 DEF TaskInv, EndsAreQuiet
    <3>6. EndsAreQuiet'
      BY <3>1, <3>4, <3>5, WritingKeepsQuiet DEF TaskInv
    <3>7. \A i \in Ids : tasks'[i].state = "Completed" => Paid(i)
      BY <3>1, <3>2, SetTaskEffect DEF TaskInv
    <3>8. /\ \A v \in Workers : calls'[v].pc = "receiver" => Underway(calls'[v], rpc'[v])
          /\ \A v \in Workers :
                calls'[v].pc = "replied" /\ calls'[v].kind = "transfer" /\ calls'[v].accept
                    => Paid(calls'[v].task)
      BY <3>1, <3>3 DEF TaskInv
    <3>9. QED
      BY <3>1, <3>6, <3>7, <3>8 DEF TaskInv, Paid, Underway
  <2>6. ASSUME NEW id \in Ids, Cancel(id) PROVE TaskInv'
    <3>1. /\ tasks' = SetTask(id, "Canceled", InFlight(id)) /\ calls' = calls /\ rpc' = rpc
          /\ tasks[id].state \notin Ended
      BY <2>6 DEF Cancel, vars
    <3>2. "Canceled" \in TaskStates
      BY DEF TaskStates
    <3>3. QED
      BY <2>0, <3>1, <3>2, WritingKeepsTaskInv
  <2>7. ASSUME NEW w \in Workers, GrpcCall(w) PROVE TaskInv'
    <3>1. /\ UNCHANGED <<tasks, calls>> /\ calls[w].pc = "none"
          /\ \A v \in Workers : v # w => rpc'[v] = rpc[v]
      BY <2>0, <2>7 DEF GrpcCall, NoCall, Call, Gossip, Transact, Transfer, Goto, taskVars
    <3>2. calls' = [calls EXCEPT ![w] = calls[w]]
      BY <2>0, <3>1
    <3>3. QED
      BY <2>0, <3>1, <3>2, RequestKeepsTaskInv
  <2>8. ASSUME UNCHANGED <<tasks, calls, rpc>> PROVE TaskInv'
    <3>1. accepted \subseteq accepted'
      BY <2>0, PaidStaysPaid
    <3>2. QED
      BY <2>8, <3>1 DEF TaskInv, Paid, Underway, EndsAreQuiet, InFlight
  <2>9. ASSUME NEW id \in Ids, GatewayTimer(id) PROVE TaskInv'
    BY <2>8, <2>9 DEF GatewayTimer, TimerStep, TimerRead, TimerTick, TimerRemove, taskVars
  <2>10. ASSUME NEW peer \in Peers, NEW epoch, Initiate(peer, epoch), UNCHANGED taskVars
         PROVE  TaskInv'
    BY <2>8, <2>10 DEF Initiate, taskVars
  <2>11. ASSUME UNCHANGED <<vars, taskVars>> PROVE TaskInv'
    BY <2>8, <2>11 DEF vars, taskVars
  <2>12. QED
    BY <2>1, <2>2, <2>3, <2>4, <2>5, <2>6, <2>7, <2>9, <2>10, <2>11
       DEF GatewayNext, A2A, Paywall, Limiter, Authentication, Rest, gatewayVars, TaskNext
<1>3. TaskInv /\ AcceptedTokensAreKept => TasksFollowPayments
  BY DEF TaskInv, Paid, AcceptedTokensAreKept, TasksFollowPayments, CompletedIsPaid,
         EndsAreQuiet, EndIsFinal
<1>4. QED
  BY <1>1, <1>2, <1>3, GatewayRunsReceiver, StateWellFormed, AcceptedTokensStayKept, PTL
     DEF GatewaySpec
-----------------------------------------------------------------------------
(***************************************************************************)
(* The paywall.                                                            *)
(***************************************************************************)
\* A non-empty set of naturals has a least element.
LEMMA LeastNatural ==
    ASSUME NEW S \in SUBSET Nat, S # {}
    PROVE  \E n \in S : \A m \in S : n <= m
<1> DEFINE R == {ss \in Nat \X Nat : ss[1] < ss[2]}
<1>1. IsWellFoundedOn(R, Nat)
  BY NatLessThanWellFounded DEF OpToRel
<1> HIDE DEF R
<1>2. PICK n \in S : \A m \in S : <<m, n>> \notin R
  BY <1>1, WFMin
<1>3. ASSUME NEW m \in S PROVE n <= m
  <2>1. m \in Nat /\ n \in Nat /\ <<m, n>> \notin R
    BY <1>2
  <2>2. ~ (m < n)
    BY <2>1 DEF R
  <2>3. QED
    BY <2>1, <2>2
<1>4. QED
  BY <1>3

\* Amount::add carries into the whole units and loses nothing.
LEMMA AddAmountsExact ==
    ASSUME NEW a \in Amount, NEW b \in Amount
    PROVE  /\ AddAmounts(a, b) \in Amount
           /\ Micros(AddAmounts(a, b)) = Micros(a) + Micros(b)
<1> DEFINE M == MicrosPerWhole
           m == a.micros + b.micros
           carry == m \div M
           rest == m % M
<1>1. /\ M \in Nat \ {0} /\ a.whole \in Nat /\ b.whole \in Nat
      /\ a.micros \in Nat /\ b.micros \in Nat /\ m \in Nat
  BY X402Assumption DEF Amount
<1> HIDE DEF m, M
<1>2. carry \in Nat /\ rest \in 0 .. M - 1 /\ m = carry * M + rest
  BY <1>1
<1>3. AddAmounts(a, b) = [whole |-> a.whole + b.whole + carry, micros |-> rest]
  BY DEF AddAmounts, m, M
<1> HIDE DEF carry, rest
<1>4. (a.whole + b.whole + carry) * M + rest = (a.whole * M + a.micros) + (b.whole * M + b.micros)
  <2>1. (a.whole + b.whole + carry) * M = a.whole * M + b.whole * M + carry * M
    BY <1>1, <1>2
  <2>2. a.whole * M \in Int /\ b.whole * M \in Int /\ carry * M \in Int
    BY <1>1, <1>2
  <2>3. a.micros + b.micros = carry * M + rest /\ rest \in Int
    BY <1>1, <1>2 DEF m
  <2> DEFINE u == a.whole * M
             v == b.whole * M
             z == carry * M
  <2>4. u \in Int /\ v \in Int /\ z \in Int /\ a.micros + b.micros = z + rest
    BY <2>2, <2>3
  <2> HIDE DEF u, v, z
  <2>5. (u + v + z) + rest = (u + a.micros) + (v + b.micros)
    BY <1>1, <2>3, <2>4
  <2>6. QED
    BY <2>1, <2>5 DEF u, v, z
<1>5. QED
  BY <1>1, <1>2, <1>3, <1>4 DEF Amount, Micros, M

\* Comparing whole units first and micros then compares values.
LEMMA InsufficientCompares ==
    ASSUME NEW a \in Amount, NEW b \in Amount
    PROVE  ~ Insufficient(a, b) <=> Micros(a) >= Micros(b)
<1> DEFINE M == MicrosPerWhole
           x == a.whole
           y == b.whole
<1>1. /\ M \in Nat \ {0} /\ x \in Nat /\ y \in Nat
      /\ a.micros \in 0 .. M - 1 /\ b.micros \in 0 .. M - 1
  BY X402Assumption DEF Amount
<1>2. /\ Micros(a) = x * M + a.micros /\ Micros(b) = y * M + b.micros
      /\ Insufficient(a, b) <=> x < y \/ (x = y /\ a.micros < b.micros)
  BY DEF Micros, Insufficient
<1> HIDE DEF M, x, y
<1>3. ASSUME NEW u \in Nat, NEW v \in Nat, u < v PROVE u * M + M <= v * M
  <2>1. PICK d \in Nat : v = u + 1 + d
    <3>1. v - (u + 1) \in Nat /\ v = u + 1 + (v - (u + 1))
      BY <1>3
    <3>2. QED
      BY <3>1
  <2>2. (u + 1 + d) * M = u * M + M + d * M /\ d * M >= 0 /\ u * M \in Nat
    BY <1>1
  <2>3. QED
    BY <1>1, <2>1, <2>2
<1>4. x * M \in Nat /\ y * M \in Nat
  BY <1>1
<1>5. CASE x < y
  BY <1>1, <1>2, <1>3, <1>4, <1>5
<1>6. CASE y < x
  BY <1>1, <1>2, <1>3, <1>4, <1>6
<1>7. CASE x = y
  BY <1>1, <1>2, <1>4, <1>7
<1>8. QED
  BY <1>1, <1>5, <1>6, <1>7

Nothing == [whole |-> 0, micros |-> 0]

\* The totals of the first 0, 1, .. n tokens of a payment.
RunningTotals(tokens, n) ==
    {f \in [0 .. n -> Amount] :
        /\ f[0] = Nothing
        /\ \A i \in 1 .. n : f[i] = AddAmounts(f[i - 1], TokenValue[tokens[i].id])}

\* Every payment has running totals.
LEMMA TotalsExist ==
    ASSUME NEW tokens \in Seq(HeldToken)
    PROVE  \A n \in 0 .. Len(tokens) : RunningTotals(tokens, n) # {}
<1> DEFINE Bad == {n \in 0 .. Len(tokens) : RunningTotals(tokens, n) = {}}
<1> SUFFICES ASSUME Bad # {} PROVE FALSE
  OBVIOUS
<1>1. Bad \in SUBSET Nat /\ Len(tokens) \in Nat
  OBVIOUS
<1>2. PICK n \in Bad : \A m \in Bad : n <= m
  BY <1>1, LeastNatural
<1>3. n \in 0 .. Len(tokens) /\ RunningTotals(tokens, n) = {}
  OBVIOUS
<1>4. CASE n = 0
  <2> DEFINE f == [i \in 0 .. 0 |-> Nothing]
  <2>1. Nothing \in Amount
    BY X402Assumption DEF Nothing, Amount
  <2>2. f \in RunningTotals(tokens, 0)
    BY <2>1 DEF RunningTotals
  <2>3. QED
    BY <1>3, <1>4, <2>2
<1>5. CASE n # 0
  <2>1. n - 1 \in 0 .. Len(tokens) /\ n - 1 \notin Bad /\ n \in Nat
    BY <1>1, <1>2, <1>3, <1>5
  <2>2. PICK f : f \in RunningTotals(tokens, n - 1)
    BY <2>1
  <2> DEFINE v == TokenValue[tokens[n].id]
             g == [i \in 0 .. n |-> IF i = n THEN AddAmounts(f[n - 1], v) ELSE f[i]]
  <2>3. /\ f \in [0 .. n - 1 -> Amount] /\ f[0] = Nothing
        /\ \A i \in 1 .. n - 1 : f[i] = AddAmounts(f[i - 1], TokenValue[tokens[i].id])
    BY <2>2 DEF RunningTotals
  <2>4. v \in Amount
    <3>1. tokens[n] \in HeldToken
      BY <1>3, <1>5
    <3>2. QED
      BY <3>1, X402Assumption DEF HeldToken
  <2>5. AddAmounts(f[n - 1], v) \in Amount
    BY <2>1, <2>3, <2>4, AddAmountsExact
  <2>6. /\ g \in [0 .. n -> Amount] /\ g[0] = Nothing
    BY <1>5, <2>1, <2>3, <2>5
  <2>7. \A i \in 1 .. n : g[i] = AddAmounts(g[i - 1], TokenValue[tokens[i].id])
    BY <2>1, <2>3
  <2>8. QED
    BY <1>3, <2>6, <2>7 DEF RunningTotals
<1>6. QED
  BY <1>4, <1>5

\* What a payment adds up to is an amount.
LEMMA SumIsAmount ==
    ASSUME NEW tokens \in Seq(HeldToken)
    PROVE  SumAmounts(tokens) \in Amount
<1> DEFINE N == Len(tokens)
           Totals(f) == [n \in 0 .. N |->
                            IF n = 0 THEN [whole |-> 0, micros |-> 0]
                            ELSE AddAmounts(f[n - 1], TokenValue[tokens[n].id])]
           sum == CHOOSE f : f = Totals(f)
<1>1. N \in Nat
  OBVIOUS
<1>2. PICK f : f \in RunningTotals(tokens, N)
  BY <1>1, TotalsExist
<1>3. f = Totals(f)
  <2>1. /\ f \in [0 .. N -> Amount] /\ f[0] = [whole |-> 0, micros |-> 0]
        /\ \A i \in 1 .. N : f[i] = AddAmounts(f[i - 1], TokenValue[tokens[i].id])
    BY <1>2 DEF RunningTotals, Nothing
  <2>2. \A n \in 0 .. N : f[n] = Totals(f)[n]
    BY <1>1, <2>1
  <2>3. QED
    BY <2>1, <2>2
<1>4. sum = Totals(sum)
  <2> HIDE DEF Totals
  <2> QED BY <1>3
<1>5. SumAmounts(tokens) = sum[N]
  BY DEF SumAmounts
<1> HIDE DEF sum
<1>6. /\ sum[0] = Nothing
      /\ \A n \in 1 .. N : sum[n] = AddAmounts(sum[n - 1], TokenValue[tokens[n].id])
  <2>1. \A n \in 0 .. N : sum[n] = Totals(sum)[n]
    <3> HIDE DEF Totals
    <3> QED BY <1>4
  <2>2. \A n \in 0 .. N : sum[n] = IF n = 0 THEN Nothing
                                   ELSE AddAmounts(sum[n - 1], TokenValue[tokens[n].id])
    BY <2>1 DEF Nothing
  <2>3. QED
    BY <1>1, <2>2
<1> HIDE DEF Totals
<1> DEFINE Bad == {n \in 0 .. N : sum[n] \notin Amount}
<1>7. SUFFICES ASSUME Bad # {} PROVE FALSE
  BY <1>1, <1>5
<1>8. PICK n \in Bad : \A m \in Bad : n <= m
  <2>1. Bad \in SUBSET Nat
    BY <1>1
  <2>2. QED
    BY <1>7, <2>1, LeastNatural
<1>9. n \in 0 .. N /\ sum[n] \notin Amount
  OBVIOUS
<1>10. CASE n = 0
  BY <1>6, <1>9, <1>10, X402Assumption DEF Nothing, Amount
<1>11. CASE n # 0
  <2>1. n - 1 \in 0 .. N /\ n - 1 \notin Bad /\ n \in 1 .. N
    BY <1>1, <1>8, <1>9, <1>11
  <2>2. sum[n - 1] \in Amount
    BY <2>1
  <2>3. TokenValue[tokens[n].id] \in Amount
    <3>1. tokens[n] \in HeldToken
      BY <2>1
    <3>2. QED
      BY <3>1, X402Assumption DEF HeldToken
  <2>4. QED
    BY <1>6, <1>9, <2>1, <2>2, <2>3, AddAmountsExact
<1>12. QED
  BY <1>10, <1>11

\* Token::transfer adds to the token's chain.
LEMMA TransferredType ==
    ASSUME NEW t \in HeldToken, NEW key \in Owners, NEW sig \in Nat
    PROVE  W!Transferred(t, PayTicket, key, sig) \in HeldToken
<1> DEFINE C == [to : XTicket, by : Owners \cup {W!Mint}, sig : Nat]
           c == [to |-> PayTicket, by |-> key, sig |-> sig]
<1>1. c \in C
  BY X402Assumption
<1>2. t.chain \in Seq(C) /\ t.id \in DOMAIN TokenValue
  BY DEF HeldToken
<1> HIDE DEF c
<1>3. Append(t.chain, c) \in Seq(C)
  BY <1>1, <1>2
<1>4. W!Transferred(t, PayTicket, key, sig) = [t EXCEPT !.chain = Append(t.chain, c)]
  BY DEF W!Transferred, c
<1>5. QED
  BY <1>2, <1>3, <1>4 DEF HeldToken

\* transfer_inner leaves a wallet of tokens.
LEMMA TransferInnerType ==
    ASSUME NEW w \in Purse, NEW amount \in Nat, NEW sig \in Nat
    PROVE  W!TransferInner(w, amount, PayTicket, 0, sig).w \in Purse
<1> DEFINE n == Len(w.tokens)
           sent == [i \in 1 .. amount |-> W!Transferred(w.tokens[n + 1 - i], PayTicket, w.key, sig)]
           after == [w EXCEPT !.tokens = SubSeq(w.tokens, 1, n - amount - 1),
                              !.pending = w.pending \o sent]
<1>1. /\ w.tokens \in Seq(HeldToken) /\ w.pending \in Seq(HeldToken) /\ w.key \in Owners
      /\ w.tickets \in {<<>>} /\ n \in Nat
  BY DEF Purse
<1>2. CASE n < amount \/ PayTicket = W!Malformed
  BY <1>2 DEF W!TransferInner
<1>3. CASE ~ (n < amount) /\ PayTicket # W!Malformed
  <2>1. W!TransferInner(w, amount, PayTicket, 0, sig).w = after
    BY <1>1, <1>3 DEF W!TransferInner
  <2>2. SubSeq(w.tokens, 1, n - amount - 1) \in Seq(HeldToken)
    BY <1>1, <1>3
  <2>3. sent \in Seq(HeldToken)
    <3>1. ASSUME NEW i \in 1 .. amount PROVE sent[i] \in HeldToken
      <4>1. n + 1 - i \in 1 .. n
        BY <1>1, <1>3
      <4>2. w.tokens[n + 1 - i] \in HeldToken
        BY <1>1, <4>1
      <4>3. QED
        BY <1>1, <4>2, TransferredType
    <3> HIDE DEF sent
    <3>2. sent \in [1 .. amount -> HeldToken]
      BY <3>1 DEF sent
    <3>3. QED
      BY <3>2, IsASeq
  <2>4. w.pending \o sent \in Seq(HeldToken)
    <3> HIDE DEF sent
    <3> QED BY <1>1, <2>3
  <2>5. after \in Purse
    <3> HIDE DEF sent
    <3> QED BY <1>1, <2>2, <2>4 DEF Purse
  <2>6. QED
    BY <2>1, <2>5
<1>4. QED
  BY <1>2, <1>3

\* The invariant: the wallet and what was taken from it are tokens, and the last verdict is
\* what verify_payment says.
XInv ==
    /\ purse \in Purse /\ required \in Amount
    /\ get \in [pc : {"idle", "challenged", "paying"}, tokens : Seq(HeldToken)]
    /\ verdict.tokens \in Seq(HeldToken)
    /\ verdict.tokens # <<>> => (verdict.paid <=> VerifyPayment(verdict.tokens))

\* The resource is given for a payment exactly when its tokens verify and are worth what is
\* asked, for any wallet, any tokens and any price, however fractions add up and carry.
THEOREM PaidIsAlwaysExact == GatewaySpec => []PaidExactly
<1>1. GatewayInit => XInv
  BY X402Assumption DEF GatewayInit, XInit, XInv, NoGet, NoVerdict
<1>2. XInv /\ [GatewayNext]_gatewayVars => XInv'
  <2> SUFFICES ASSUME XInv, [GatewayNext]_gatewayVars PROVE XInv'
    OBVIOUS
  <2>0. required' = required => \A tokens : VerifyPayment(tokens)' <=> VerifyPayment(tokens)
    BY DEF VerifyPayment
  <2>1. ASSUME NEW n \in 1 .. MaxGets, ApplicationTransfer(n) PROVE XInv'
    <3> DEFINE sig == Len(purse.pending) + 1
               result == W!TransferInner(purse, n, PayTicket, 0, sig)
    <3>1. n \in Nat /\ sig \in Nat
      BY DEF XInv, Purse
    <3>2. purse' = result.w /\ UNCHANGED <<required, get, verdict>>
      BY <2>1 DEF ApplicationTransfer
    <3> HIDE DEF sig
    <3>3. result.w \in Purse
      BY <3>1, TransferInnerType DEF XInv
    <3> HIDE DEF result
    <3>4. QED
      BY <2>0, <3>2, <3>3 DEF XInv, VerifyPayment
  <2>2. CASE PreparePayment
    <3> DEFINE result == W!TransferInner(purse, required.whole, W!Malformed, 0, 0)
    <3>1. result.w = purse
      <4>1. Len(purse.tokens) \in Nat /\ required.whole \in Nat
        BY DEF XInv, Purse, Amount
      <4>2. CASE Len(purse.tokens) < required.whole
        BY <4>2 DEF W!TransferInner
      <4>3. CASE ~ (Len(purse.tokens) < required.whole)
        BY <4>1, <4>3 DEF W!TransferInner
      <4>4. QED
        BY <4>2, <4>3
    <3> HIDE DEF result
    <3>2. /\ purse' = purse /\ UNCHANGED <<required, verdict>>
          /\ \/ get' = [pc |-> "paying", tokens |-> purse.pending]
             \/ get' = NoGet
      BY <2>2, <3>1 DEF PreparePayment, result
    <3>3. get' \in [pc : {"idle", "challenged", "paying"}, tokens : Seq(HeldToken)]
      <4>1. purse.pending \in Seq(HeldToken) /\ <<>> \in Seq(HeldToken)
        BY DEF XInv, Purse
      <4> DEFINE G == [pc : {"idle", "challenged", "paying"}, tokens : Seq(HeldToken)]
      <4>2. [pc |-> "paying", tokens |-> purse.pending] \in G
        BY <4>1
      <4>3. NoGet \in G
        BY <4>1 DEF NoGet
      <4> HIDE DEF G
      <4>4. get' \in G
        BY <3>2, <4>2, <4>3
      <4>5. QED
        BY <4>4 DEF G
    <3>4. QED
      BY <3>2, <3>3 DEF XInv, VerifyPayment
  <2>3. CASE GetPaid
    <3>1. /\ UNCHANGED <<purse, required>> /\ get' = NoGet
          /\ verdict'.tokens = get.tokens /\ verdict'.paid = VerifyPayment(get.tokens)
      BY <2>3 DEF GetPaid
    <3>2. get' \in [pc : {"idle", "challenged", "paying"}, tokens : Seq(HeldToken)]
      BY <3>1 DEF NoGet
    <3>3. QED
      BY <3>1, <3>2 DEF XInv, VerifyPayment
  <2>4. CASE GetUnpaid \/ GetLost
    <3>1. [get EXCEPT !.pc = "challenged"] \in
             [pc : {"idle", "challenged", "paying"}, tokens : Seq(HeldToken)]
      BY DEF XInv
    <3>2. NoGet \in [pc : {"idle", "challenged", "paying"}, tokens : Seq(HeldToken)]
      BY DEF NoGet
    <3>3. UNCHANGED <<purse, required, verdict>>
          /\ get' \in [pc : {"idle", "challenged", "paying"}, tokens : Seq(HeldToken)]
      BY <2>4, <3>1, <3>2 DEF GetUnpaid, GetLost
    <3>4. QED
      BY <3>3 DEF XInv, VerifyPayment
  <2>5. CASE UNCHANGED xVars
    BY <2>5 DEF xVars, XInv, VerifyPayment
  <2>6. QED
    BY <2>1, <2>2, <2>3, <2>4, <2>5
       DEF GatewayNext, A2A, Paywall, Limiter, Authentication, Rest, gatewayVars, XNext
<1>3. XInv => PaidExactly
  <2> SUFFICES ASSUME XInv, verdict.tokens # <<>>
               PROVE  verdict.paid <=>
                         /\ \A i \in DOMAIN verdict.tokens : W!Verified(verdict.tokens[i], Now)
                         /\ Micros(SumAmounts(verdict.tokens)) >= Micros(required)
    BY DEF PaidExactly
  <2>1. SumAmounts(verdict.tokens) \in Amount
    BY SumIsAmount DEF XInv
  <2>2. ~ Insufficient(SumAmounts(verdict.tokens), required)
          <=> Micros(SumAmounts(verdict.tokens)) >= Micros(required)
    BY <2>1, InsufficientCompares DEF XInv
  <2>3. QED
    BY <2>2 DEF XInv, VerifyPayment
<1>4. QED
  BY <1>1, <1>2, <1>3, PTL DEF GatewaySpec
=============================================================================
