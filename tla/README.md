# A TLA+ model of Briolette

Briolette is a digital currency whose tokens carry their own transfer history.
A wallet pays by signing a token over to the payee's *ticket*; no server is
asked at that moment. Double spending is noticed afterwards, when the histories
of a token reach the operator's TokenMap, and answered by revoking the ticket
group of the spender in the next *epoch*. Epochs spread from peer to peer.

This directory holds TLA+ modules of the parts of the repository that carry this
logic, TLC configurations that check them on small instances, and TLAPS proofs of
their main invariants for every instance. `PROJECT.json` maps every definition to
the lines it models and lists runs, hazards, findings and theorems.

* [The system](#the-system)
* [The modules](#the-modules)
* [The runs](#the-runs)
* [The proofs](#the-proofs)
* [Differences from the documentation](#differences-from-the-documentation)
* [What is not modelled](#what-is-not-modelled)
* [Plan](#plan)

## The system

Paths are relative to the repository. Services are Rust crates under `src/`,
each with one gRPC server on a multi-threaded tokio runtime, so two requests of
one server run concurrently and interleave at every lock and every `await`.

| Component | State | Operations | What makes it correct |
|---|---|---|---|
| **TokenMap** `src/tokenmap` | four SQLite tables: tokens, tickets, revocation (with an archive), holder index | Update, StoreTickets, RevocationData, Archive, FindByHolder | every double spend is detected and leads to a revocation; nobody is accused falsely; nothing learned is forgotten |
| **Receiver** `src/receiver` | map of open transactions, next id, a wallet; a timer task per transaction | Initiate, Gossip, Transact, Transfer | a transaction belongs to one peer, goes through its states in order and ends; tokens acknowledged are kept, once |
| **Wallet** `src/wallet` | credentials, tickets, tokens, pending tokens, epoch, update, keys, a Bloom filter of used tokens | synchronize, get tickets, withdraw, transfer (with swap retry), self transfer, gossip, verify | no token is lost or spent twice by its own wallet, whatever step fails |
| **Token library** `src/proto/src/briolette/token.rs` | none | base, transfer, split, verify, expiry | a history verifies iff every link is signed by the previous recipient and no split inflates |
| **Clerk** `src/clerk` | current epoch and update in memory and on disk, ticket keys in files | GetEpoch, GetTickets, RefreshTickets, AddEpoch; the tool `epoch_generate` | a ticket handed out is known to the TokenMap and verifies everywhere; wallets are served in the end |
| **Mint** `src/mint` | its key and wallet | GetTokens | every token minted is known to the TokenMap before it is handed out |
| **Validate** `src/validate` | none | ValidateTokens | relays to the TokenMap |
| **Swapper** `src/swapper` | a wallet behind a lock | SwapTokens | the value handed out equals the value taken in, under concurrent and repeated requests (it does not when a request is repeated); no request stops the server (one can) |
| **Recovery** `src/recovery` | SQLite tables of bindings and recoveries | bind, revoke, recover | only a live binding recovers, and a token once |
| **Registrar** `src/registrar` | issuing keys of each level, in files | RegisterCall, service registration | the level of the credential follows from the attestation verified; groups survive a crash |
| **Bridge contract** `contracts/src/BrioletteBridge.sol` | deposits, withdrawals, totals, epoch commitments, key lists, operator | deposit, mark, initiate / challenge / complete withdrawal, publish / challenge epoch | solvent at every moment, pays each withdrawal once |
| **Bridge service** `src/bridge` | polling cursor, pending tickets, key cache | poll and mint deposits, refresh keys, sign withdrawals | a deposit is minted exactly once though any of its steps may fail |
| **A2A tasks, x402, gateway** `src/a2a`, `src/x402`, `src/gateway` | task map; the rest stateless | create, advance, cancel tasks; settle a payment | a task's state agrees with the receiver's transaction |
| **Rate limiter, service authentication** `src/proto/src/rate_limit.rs`, `src/service_auth` | buckets; none | check; sign and verify | the rate is bounded at capacity too; a request outside its window is refused |
| **Crypto** `src/crypto` | none | ECDAA credentials, signatures, split keys, swap authorizations | what is made honestly verifies, whole or split; a pseudonym is the wallet's |
| **Card** `src/javacard`, `src/card-personalize` | secret share, session with its nonce, Bloom filter of basenames, manufacturer's key and certificate | join, sign, new epoch; personalization | a nonce answers once, a basename is committed to once an epoch, an interrupted set-up leaves a card that attests or none |
| **Stick, relay** `hardware/` | PIN, proposal, balance, epoch; the relay's loop, engine and reader | APDUs and buttons; four taps of a payment | a stick signs what its owner approved, once; every payment attempt ends |
| **Integration client, mobile library and app** `src/integration`, `src/mobile-ffi`, `mobile/` | the stored wallet, in memory and on disk | the wallet's operations on a copy that is written back | a crash or failure in the middle neither loses nor doubles a token |
| **Simulations, integration tests** | | | |

How they interact. A wallet registers with the registrar, gets tickets from the
clerk (which stores the ticket signatures in the TokenMap) and tokens from the
mint (which updates the TokenMap). A payment is Initiate, Gossip when the two
epochs differ, Transact (the proposal), Transfer (the signed tokens). The payee
passes the histories on through Validate or the Swapper to the TokenMap. The
clerk reads RevocationData into a new epoch, which spreads by Gossip. The bridge
mints against deposits in the contract and redeems tokens as withdrawals.

What is hard about it:

* *interleaving*: handlers that read under one lock or await and write under a
  later one (TokenMap, Receiver, Swapper, A2A, the bridge's key cache); a
  recipient that calls the contract again from within its own payment;
* *failure in the middle*: two statements without a transaction (TokenMap),
  assignments before the last check (wallet gossip), a mint that succeeded before
  a mark that failed (bridge), a token popped before an error (wallet);
* *repeated and late messages*: a payer whose reply was lost sends again; a timer
  races a handler that has already looked its transaction up;
* *order*: the TokenMap sees the histories of one token in any order.

## The modules

A component with state of its own is a module with its variables, actions and
properties; the data types and pure functions that several of them share are
modules of operators. Modules marked *part* declare variables and actions that the
module in the last column composes into one next-state relation.

| Module | Models | Used by |
|---|---|---|
| `TokenHistory` | the pure functions at the end of `src/tokenmap/src/server.rs`, and a reference definition of double spending (`Forked`) | `TokenMap` |
| `TokenMap` | `src/tokenmap/src/server.rs` | |
| `DoubleSpendRegistry` | the abstract promise of the TokenMap | refined by `TokenMap` |
| `Receiver` | `src/receiver/src/server.rs`, with `gossip_synchronize` and `verify_tokens` of the wallet | `TaskManager` |
| `BridgeContract` | `contracts/src/BrioletteBridge.sol` | |
| `Wallet` | tokens, tickets and transfers: `src/proto/src/briolette/token.rs`, the pure part of `src/wallet/src/lib.rs` | `WalletNetwork`, `X402` |
| `WalletNetwork` | clients (`src/integration`, `src/mobile-ffi`, the app's repository, `src/wallet/src/cli.rs`), mint, validate, swapper | |
| `Credstick` | `hardware/stick/firmware` as operators on a stick | `RelayPayment` |
| `RelayPayment` | `hardware/relay` between two sticks | |
| `Ecdaa` | the equations of `src/crypto` v0 and v1 | `SplitCard` |
| `SplitCard` | hosts that share a card: split joins and signatures in `src/crypto`, the applet, the wallet's key set-up | |
| `Attestation` | `src/registrar/src/attestation.rs` as operators | `Personalization` |
| `Personalization` | *part*: the manufacturer's CA, `src/card-personalize`, the applet's manufacturer commands | `Enrolment` |
| `Enrolment` | `src/registrar`, registration of wallets and services | |
| `Recovery` | *part*: `src/recovery` and the wallet's calls | `Clerk` |
| `Clerk` | `src/clerk`, `epoch_generate`, wallets that synchronize, gossip and get tickets | |
| `BridgeService` | `src/bridge` with both chains as seen from it | |
| `TaskManager` | *part*: `src/a2a` over `Receiver` | `Gateway` |
| `X402` | *part*: `src/x402` | `Gateway` |
| `RateLimiter` | *part*: `src/proto/src/rate_limit.rs` | `Gateway` |
| `ServiceAuth` | *part*: signed requests of `src/service_auth` | `Gateway` |
| `Gateway` | `src/gateway` | |
| `MC...` | instances for TLC | |
| `...Proofs` | theorems of `TokenMap`; `Receiver` and `Gateway` (one module); `BridgeContract`; `BridgeService`; `WalletNetwork`; `SplitCard` and `RelayPayment` (`DeviceProofs`); `Clerk` with `Recovery`; `Enrolment` with `Personalization` | |

Some definitions are not part of the specifications: each is a plausible mistake in
the definition that follows it, and replacing that definition by it must violate
the property that `PROJECT.json` names under `mutants`. This shows that the
property can fail.

Several instances are sets of *scenes*: a constant set of records, one of which the
initial state picks for the whole behaviour. A scene fixes a configuration and the
budgets of crashes, lost replies or registrations, so that each hard case is
explored deeply without multiplying all of them.

### TokenMap

The tables are the variables `entries`, `tickets`, `revocation`, `archive` and
`holder_index`. The server has one SQLite connection with a thread of its own, so
each `conn.call(..).await` is atomic and everything else interleaves there.
`update_impl` is therefore split at its awaits: reading the entry and walking the
decision tree on that copy (`UpdateNew`, `UpdateKnown`, `UpdateExtension`,
`UpdateSecondSplit`, `UpdateFork`), then the writes (`CreateEntry`,
`ReplaceEntry`, `UpdateHolderIndex`; for a double spend `GetTicketSignature`,
`RecordAbuse`, `InsertRevocation`). What a handler keeps across an await is its
slot of `rpc`. `StoreTickets` and `ArchiveRead`/`ArchiveInsert` are the
other writing requests; the two that only read are operators. `Crash` empties
`rpc` and keeps the tables; every write may also fail, which ends the request with an
error, except that the index's error is discarded. Both draw on `MaxFaults`. Primary keys are modelled by the inserts that fail on
them. `acked`, a history variable, holds what callers were told.

A history is a sequence of links; a link stands for a transfer with its
signature and keeps the recipient's credential and the amount of a split. The
comparison functions compare signatures only up to the first difference, where
both predecessors are the same, so that equal links are equal signatures. The
`Histories` a caller may send are those `Token::verify` lets through.

`DoubleSpendRegistry` says what the TokenMap is for: it learns histories, forgets
none, and flags a token in the very step in which it learns of a fork. It is
written with the reference definition `Forked`, not with the code's functions.

### Receiver

The transaction map and the wallet have a lock each, which are never held
together. One step is one critical section: the lookup (`Lookup`, the start of
`Gossip`, `Transact` and `Transfer`), the use of the wallet (`GossipNewer`,
`GossipOther`, `GossipPanic`, `TransactVerify`, `TransferVerify`, one
`TransferPush` per token), the insertion of the next state (`GossipInsert`,
`TransactInsert`, `TransferInsert`). `Initiate` is one step because nobody knows the id before its
reply. The timer reads the state, waits, compares it and removes the entry
(`TimerRead`, `TimerTick`, `TimerRemove`); it removes twice when a completed
transaction has not changed either, as the code does. A panic under the wallet's
write lock poisons it, and every later use panics (`poisoned`, `PoisonedPanic`).

`wallet` keeps the epochs its number, its update and its keys are from; `received`
is the token list; `opened` and `accepted` are history variables.

### BridgeContract

`store` is the contract's storage with its ether. Every external function is one
action, except `completeWithdrawal`: after its checks and effects it pays the
recipient, who may call any public function before returning. That open call is
a frame in `calls` with the storage at entry. `CallSucceeds` drops the frame,
`CallFails` restores its storage, with everything nested calls did meanwhile. The
operator is an externally owned account and so never calls from inside. Checked
arithmetic is a guard. The answer of the ECDAA verifier in the two challenge
functions is a free choice.

### Wallet and WalletNetwork

A token is its mint id and a chain of transfers; a transfer keeps the ticket it is
made out to, who signed it and a mark that no two signatures share. `Transfer`,
`VerifyBase`, `VerifyHistory`, `VerifySignatureAndKey` and the expiry of tickets
follow the token library, `TransferInner` the loop of the wallet library, with its
`pop` before the test.

Every operation of a client reads the stored wallet, works on a copy, and writes it
back at the end: `Begin`, one of the operations (withdraw, transfer with the swap
retry, refresh, receive, validate, migrate), then `Publish`, `Save`, `HandOver` for
the app, `Output` and `SaveFile` for the command line. The order of the last three is
what a crash meets, which may come between any two steps. A command line that is killed
after `Output` and before `SaveFile` still has in its file what it printed; the ids of
those tokens are kept in `unsaved`, and its next payment may sign them over again. The
swapper's handler is two steps, one per lock, and panics at a lock that is poisoned
(`SwapPanic`). `Value` may be 0, for a token of 0.5 say: `transfer` of 0 succeeds with
nothing pending. The token map
is the set `tracked` of the chains it was shown. `OneHolder` and
`HonestNeverFlagged` leave out the ids in `unsaved` and no others, and
`SwapperNotPoisoned` lets the lock be poisoned only if a token without whole value was sent
to the swapper: the code is no better than that. `OneHolder` and
`HonestNeverFlagged` are stated for users that run one operation at a time
(`Slots`) and import a token once (`Redelivery`): nothing in the code enforces
either, and both fail without it (see the differences).

### Credstick and RelayPayment

A stick is a record, a command an operator on it. `RelayPayment` adds the relay's
loop. A payment is four taps; a tap is one step (SELECT, a command, the end of the
session), since the reader is exclusive during a tap, and the stick's owner or
another reader acts between taps. A reply may be lost after the stick acted on the
command. The reader's driver keeps the state it has in `pn7150.rs`, with the
failures of starting to poll and of deactivating. The amount goes through the key
entry and the cast to 32 bits (`AmountWidth` scales it down). Sticks and relay are
restarted at any time between taps; a stick then finds what it had stored or, as the
placeholder has it, nothing. `proposal`, `signature`, `locked`, `fault`, `obtained` and
`handed` are history variables: what the owner was shown and what was signed, which
sticks ran out of attempts, whether the relay's reader failed, and how often a payment's
tokens came to the relay and left it.

### Ecdaa and SplitCard

A point is its discrete logarithm, so that the group operations and the pairing are
arithmetic modulo a small prime `Q`. This checks that the equations of the code
fit together, over both curves' implementations, for what honest parties compute;
it says nothing about what a forger could do. TLC checks one small `Q`; the proofs
are for every prime. The keys are random in the code; `KeysAssumption` excludes the
ones, one in `Q`, whose credential would have the identity as one of its points, which
`verify` refuses. `SplitCard` interleaves the commands of two
hosts on one card. The card keeps one session; a second commitment replaces the
nonce of the first. The applet's filter is written bit by bit (`TornCommit` loses
power in between), and is cleared for an epoch only after the epoch was written
(`TornReset`: what was not cleared stays, and the reset cannot be repeated). A card with
a reset key wants an authorization, which `NfcSmartCard::reset_bloom` never sends.

### Attestation, Personalization, Enrolment

The registrar starts by reading or generating its keypairs one after another, two
writes each;
`Crash` may leave an empty file. A wallet makes keys, its hardware attests to them,
and it registers; `Attest` may yield damaged evidence, and a wallet may make new keys
after it attested. Two kinds of client are in the model: this repository's
(`"phone"`), and one that makes its TTC key for the nonce that the registrar derives
(`"aware"`). Only the second kind can be accepted with an attestation, and
`GenuineEvidenceAccepted`, a part of `EvidenceDecides`, is about it. Evidence may also be
made without hardware (`MadeUp`): under a root of its own, or with a leaf that says it is
signed with RSA. `TierIsEarned`, the other part, says exactly how far such evidence
gets: it is still bound to the hw_id and the keys, the first kind is refused once roots
are configured, the second never. A completed card attests for the CA that
signed the certificate it holds; the applet takes another one from its operator until
the card is used (`SignKeyByHand`), and `completed` then names that CA.

### Clerk and Recovery

The clerk's start is six steps on files, and a kill within the write of a file leaves
it empty (`Torn`); a run of `epoch_generate` is three, and two
runs overlap. Updates are records of what was signed by whom; the revocation field
is the set of bits that the tool sets and that the clerk reads, in the two
different orders of the code. `StoreAndReply` is the store at the TokenMap with its
four outcomes. Recovery runs beside it and can only start once there is an epoch.

### BridgeService

A poll makes a list of deposits (`ReadChain`, `PollEthereum`, `PollBitcoin`), which
the code goes through in the order of their ids: the list is the set `pending`, and
`First` the next of it. Each is minted and marked, every call with its outcomes: done, refused, done but
unheard, and for a transaction on the chain also late (`Land`). `Reorganize`
takes an unconfirmed Bitcoin deposit away. `LoadRead` is one of the four reads of
the key registry while `ChangeKey` changes it. Amounts are scaled: `Word` is
2^64, `MicrosPerWhole` and `PerMicro` the ratios of units. `minted`, `excused` and
`torn` are history variables.

### Gateway

The A2A part is `Receiver` itself, with requests that continue a task around its
actions: `Continue` reads the task, `CallReceiver` enters the receiver, `UpdateTask`
writes what came of it, over whatever the task has become (the history fields `end` and
`raced` tell whether an end was raced by a request); gRPC requests go to the same
receiver. The other parts
share no state with it, so a behaviour is about one of them.

## The runs

### Passing

| Run | Instance | States | Shows |
|---|---|---|---|
| `tokenmap_concurrent` | 1 token, 3 credentials, 2 requests at a time, histories with transfers and splits, 1 failed write or crash | 467,255 | under every interleaving the histories of an entry stay separate, abuses point at real forks, a fork is always found, an abuse has its revocation row and a holder its index row, or is about to, or that very write failed (`TablesAgree`), and abuse leads to revocation with the same exception |
| `tokenmap_serial` | 1 request at a time, 2 failed writes or crashes, no splits | 85,413 | the tables implement `DoubleSpendRegistry` |
| `receiver_concurrent` | 2 peers, 2 requests at a time, 2 transactions, 3 requests, good and bad payments and updates | 1,677,175 (up to symmetry) | timers do not panic, a transaction and its tokens stay with its peer, acknowledged tokens are in the wallet, worth the price and addressed to it, and the epoch never goes back |
| `bridge_contract` | 2 accounts, amounts 1 and 2, 2 deposits, 2 withdrawals, call depth 2, epochs 0 to 2 | 2,169,018 | solvency, payability, single payment and the order of epochs, with re-entrant and failing recipients |
| `wallet_network` | the command line with 2 operations and the app with 1, or the app with 2 and a card with 1; 7 tokens, one of them of no whole value, 2 swap handlers and 2 swaps, time 1 to 3 | 679,979 (up to symmetry) | no token has two holders and no honest client is flagged, but for tokens that a killed command line had printed and not saved (`OneHolder`, `HonestNeverFlagged`); only a token without whole value poisons the swapper (`SwapperNotPoisoned`), with failed calls and lost replies |
| `relay_payment` | 1 stick with a PIN of 2 symbols and 2 attempts, 2 payments in each mode of the relay, tickets of 242 to 250 bytes, other readers, restarts | 1,211,341 | what is signed was approved, once per proposal (`SignedWasApproved`); a stick without attempts signs nothing until it is restarted; the relay delivers once and is stuck only by its reader (`RelayIsSound`) |
| `split_card` | 2 hosts (split, phone, software, set up or not), mock or applet, 3 commitments, 2 basenames of which one is a false positive of the filter | 675,978 | a nonce answers once, a basename is committed to once an epoch, undisturbed signatures and keys verify and have the wallet's pseudonym (`UndisturbedIsAccepted`) |
| `enrolment` | 7 scenes: first starts with up to 2 crashes, wallets with Android, iOS, card or no attestation, 6 kinds of damage and 2 of made-up evidence, 2 runs of the personalization tool and certificates loaded by hand | 181,575 | groups and service identities stay the same over crashes (`IdentitiesAreStable`), a level is earned by evidence for one's own hw_id and keys, and genuine evidence is accepted (`EvidenceDecides`), finished cards attest |
| `clerk` | 7 scenes: up to 2 crashes during the start, between file writes or within one, 2 runs of the tool, 2 wallets that gossip 5 kinds of update, tickets of 3 groups over 3 units of time, builds with and without overflow checks, recovery with 2 devices and 3 bindings | 319,923 | held tickets are stored and verify everywhere (`HeldTicketsAreGood`), wallets are served in the end unless the clerk's files or the revoked groups do not allow it (`EventuallyServed`); one active binding, claimable while active, revoked for good (`BindingsHold`) |
| `bridge_service` | 7 scenes: 2 or 3 deposits of 4 sizes, faults, a crash, reorganized Bitcoin blocks, up to 5 key changes, 2 withdrawals | 238,870 | a marked deposit was minted, a second mint has a cause, none for a reorganized deposit, conversions gain nobody anything (`MintsHaveCause`), deposits are retried, keys catch up |
| `gateway` | one transaction with 2 peers, 2 workers and 3 requests; 3 requests to a paywall from 4 purses; 3 addresses and 2 buckets over 5 ticks; 3 calling services with clocks from 1 behind to 4 ahead | 248,405 | a completed task is paid, and a task that ended while no other request for it was in flight stays as it ended (`TasksFollowPayments`); requests return and transactions end while their timers run; the facilitator unlocks for exactly what is due (`PaidExactly`); the rate and the table are bounded (`LimitsHold`); a request is granted in one window, and when punctual (`WindowIsExact`) |

Where a property is a conjunction of named parts, the parts are stated and explained
next to it. The type invariants that no run lists describe their module's variables
and hold on the same instances.

Why the bounds are enough. In the TokenMap, tokens do not interact (each has its
own row and key), so one is enough; two requests in flight are what it takes for
one to overwrite another; the histories reach every case of the decision tree
in every order. In the Receiver, the second transaction and the second peer are
there to be confused with the first; two handlers and a timer are all that can meet
at one entry. In the contract, two withdrawals and depth two allow one
recipient to complete the other's withdrawal, or its own again, inside its payment,
and either frame to fail; epoch 0 is included because the code uses 0 for "none yet".

In the wallets, two swap handlers are what it takes to pop another's token, and one
purse holds a token more than is paid, which is where the loop goes wrong if it
does; two operations of the app or the command line allow a payment after a crashed one,
the second payment with the tokens that a killed command line had printed included; one
token of no whole value is enough to poison the lock and meet it poisoned. On the relay,
the second payment meets what the first one left in the stick, in the engine and in
the reader. On the card, three commitments are one of each host and a repetition.
The registrar's two crashes may hit the two writes of one pair. For the clerk, a
crash within the write of a key, or one after the state file, reaches a start that
never publishes a key; group 9 lies beyond the first byte of the revocation field, and
72 beyond its bits. For the
bridge, three deposits allow a failed one between two that succeed; amount 20 does
not fit the scaled 64 bits and 5 loses a fraction of a micro. In the gateway, one
transaction suffices because tasks are per transaction; a third address is one
more than the table holds; the clocks lie on both sides of the tolerance.

### Violation

`tokenmap_race` states what `docs/design/security_model.md` says of the TokenMap, that
double spends are always detected. TLC finds two concurrent Updates of a token that
overwrite each other: a double spend that was answered without error is not on
record. `PROJECT.json` quotes the sentence under `findings`.

### Fairness

`TokenMap!FairSpec` assumes weak fairness of `Step(w)`: a handler that has started is
polled until it ends, as tokio does with a spawned task whose awaits resolve. No
fairness is assumed of the arrival of requests. `AbuseLeadsToRevocation` has the ids
in `unrevoked` as its exception: nothing repairs a revocation row whose write failed.

`Gateway` assumes the same of the steps of A2A and gRPC requests, and weak fairness of
a timer's steps, since the runtime fires the interval it waits for. Timers and handlers
interleave without restriction. So `RequestsAndTransactionsEnd` promises the end of a
transaction only as long as its timer runs: a handler that overlaps the removal
inserts the entry again, and when the timer has looked and gone by then, the entry
stays for good; so does that of an `Initiate` that panicked. Nor is it promised of a
peer that sends without end, since every request changes the state that the timer
compares: requests are bounded by `MaxRequests`.

`RelayPayment` states no fairness: a relay whose reader failed has no step of the code
that brings it back, so only that it is stuck for no other reason is claimed.
`Clerk` assumes that a clerk that is down is started and goes on starting (a supervisor
restarts it; crashes are bounded); that a started run of the tool proceeds, that
the tool is run again (its documentation has an operator run it periodically); and
strong fairness of a wallet's synchronization and ticket request, since wallets
retry whenever they are used and the clerk is up only from time to time. A store at
the TokenMap in the end succeeds. `BridgeService` assumes that the polling loops
turn and that the mint and the chain answer in the end; the failing outcomes have
budgets.

### Deadlock

It is checked in every run. The TokenMap always accepts another request and the
contract another call. Elsewhere `Rest` (in `Receiver`, `Done`) is a stutter for the
states where the bounded budgets are used up, or nobody has anything left to do: a
system of servers may be idle. Where waiting for ever would be wrong, a liveness
property says so.

## The proofs

Eight modules hold theorems, all checked by TLAPS with Z3, Zenon and LS4. They
assume only what the `ASSUME` of each module states: the types of the constants,
that rates, units, prices, table sizes and the lifetime of a ticket are not zero, that
a model's marker values ("no file", "nobody") differ from real ones, that wallets start
with tokens that were issued once (`IssuedOnce`), and that the order of the groups is a
prime and no credential has the identity as one of its points (`FieldAssumption`,
`KeysAssumption`). None of the bounds is used as a
bound: they may be any natural number, and the sets of nodes, tokens, scenes and
histories may be any sets, infinite ones included.

A property is seldom inductive by itself. What is added is nearly always a
statement about copies: what a handler, a caller or a file carries from an earlier
state to a later step.

**TokenMapProofs.** `TypeCorrect`: type correctness. `EntriesAndCopiesStayGood`:
the inductive invariant. That the histories of a row do not merge and that its
abuses point at forks is not inductive for the rows alone, since a row is
overwritten with a copy that a handler took from an older row; `CopiesGood` says the
same of the copies in flight. Each branch of the decision tree preserves it: an
extension replaces exactly the history it continues, and so keeps every
first difference; a second split and a fork append a history that differs from
all others. From it follow `HistoriesNeverMerge`, `NoFalseAccusation` (every abuse
keeps pointing at a double spend, though indices are computed on a stale copy)
and `DecisionTreeIsComplete` (the `expect` in `update_impl` cannot fail).
`TablesStayInAgreement` is `TablesAgree`, with any number of failed writes and crashes:
the history variables `unrevoked` and `unindexed` hold the rows whose own write failed
or was cut off, and no other row is ever missing. A copy may be written after other requests have
written rows of their own, so the invariant (`TablesSettled`) says that what a copy
holds beyond the requester's own history is already settled or due by somebody.
`SerialImplementsRegistry` is the refinement of `DoubleSpendRegistry`, under the two
hypotheses of its run: one request at a time (`Serial`) and no splits
(`WithoutSplits`), any number of crashes. The hypotheses are necessary: two requests
lose a double spend (`tokenmap_race`), and a second half of a split that is spent
twice is not flagged. `SerialInvariant` says that the row a request has read is still
the one it overwrites and that a row has an abuse exactly when it has two
histories; `ForkedIfTwo` that two separate histories without splits are what the
reference definition calls a fork, over the prefixes of all that is stored. So a
write is one step `Learn` and everything else a stutter.

**GatewayProofs.** First the receiver by itself: `StateWellFormed`, then one theorem per
property, each with the fact about tasks in flight that makes it inductive:
`TimersNeverPanic` with `WaitingIsOpen` (only the timer removes its entry, never while
it waits); `PeersStayBound` with `RequestsAreBound` (the copy a handler inserts again
names the peer that opened the transaction); `AcceptedTokensStayKept` with
`PushedIsKept` (the tokens before the next one to push are in the wallet);
`EpochMovesForward` with `KeysNotAhead`. Then the gateway. `GatewayRunsReceiver`: its
specification implies the receiver's, since tasks reach the receiver only through
its own requests; what was proved of the receiver therefore holds in the gateway, and
`TasksAlwaysFollowPayments` uses it (`TaskInv`: an answer on its way to a task is an
answer the receiver gave). `PaidIsAlwaysExact` is about the sum of whole and micro
parts with their carries, for any purse. `LimitsAlwaysHold` has the
invariant of a token bucket: units spent and units left never exceed the burst and
what time has refilled. `WindowIsAlwaysExact` needs that packets keep the time at
which they were sent.

**BridgeContractProofs.** `StorageWellFormed` and `BooksAlwaysBalance`: the
invariant holds for the storage and for the storage saved in every frame, since a
failing call may restore any of them. Sums over sequences are expressed by the
existence of a running total (`IsTotal`), a function from positions to partial
sums: adding, zeroing or restoring one summand updates the witness. `SumIsTotal` shows
that such a total is the library's `SumFunction`, so that `AlwaysSolvent` is the very
invariant that its run checks. Then `WithdrawalsArePayable`, `NoDoublePayment` and
`EpochsMoveForward`.

**BridgeServiceProofs.** `ServiceWellFormed` and `EveryMintHasACause`, from `ServiceInv`: a
deposit is marked or waits for its mark only when it was minted; one that may still
be minted for was minted for only as often as lost calls and crashes excuse; what is
pending in Bitcoin's loop, or minted, has its confirmations, so that no reorganization
reaches it; and the conversions round towards the bridge in any units
and any word size.

**WalletNetworkProofs.** `TypesHold`: the wallet's operators are written with the
library's `SelectSeq` and `SetToSortSeq`; what they return is shown once, and every
transfer, import, refresh and swap keeps wallets whole. `SwapperNeverPoisoned`, with
`PopsCovered`: a token is pending for every handler that is about to pop one, and a
handler between its two critical sections counts as one. That is inductive as long as no
token without whole value was sent to the swapper, and since what was handed out only
grows, `SwapperInv` (`WorthlessPaid` or `PopsCovered`) is inductive without that proviso. It
holds for any number of handlers, slots and redeliveries. `TokensHaveOneHolder` and `HonestUsersNeverFlagged` have
the hypothesis `OneAtATime`, as in their run: a user has one operation under way, and a
token on the wire is imported once. It is necessary: two operations that start from the
same stored wallet both pay with its first token, and a token imported twice is in
a wallet twice. `Honest` is inductive and has two parts. `Sound`, for each user: in every
step of an operation its copy of the wallet, the one in memory and the one on disk are
either equal or differ by what the operation has put out, and none has a token twice,
so that a crash that falls back on the disk brings nothing back that others have.
`Custody`, between users: what an owner may still come to hold, and what is on the wire,
are apart, and each is the newest version of its token among all that anybody was
shown; the versions that were shown are prefixes of one another. So a fork is
impossible, and the two invariants follow. Every part takes a set R of ids that it does not
speak of; `AlwaysHonest` is `Honest(R)` for every R that includes `unsaved`. A crash of a
command line that has printed adds the printed ids to `unsaved`, so that fewer sets R
remain, and what is left out of custody is exactly what such a crash spoils.

**DeviceProofs.** First the card (`SplitCard`). `NonceNeverReused` and
`BasenameCommittedOnce`, from `CardInv`: nonces that were not drawn, and the one of an open
session, have answered nothing; what was committed to in this epoch is in the filter,
before power can be lost. `WhatIsUndisturbedIsAccepted`, from `CleanInv`, has an algebraic
part: congruence modulo `Q` (`Cong`), that a prime has no zero divisors, that the answers
of host and card to a challenge are together an answer on the sum of their keys
(`SplitAnswer`, `OnKey`), that a verifier recovers the commitment from it (`Recovered`), and
that what the issuer hands out satisfies the pairing equations and keeps doing so when it
is randomized (`IssuedIsValid`, `ValidCredential`). The other part, `HostOK`, says what a
host carries from one command to the next: its TTC key is on the whole key, its
credential is for the whole key, and the share and challenge it holds were made with the
nonce that the card still has, as long as the host was not disturbed. A command of
another host draws a new nonce, and clears `clean` in the same step.

Then the stick and the relay (`RelayPayment`). `SignaturesAreApproved` and
`LockHoldsUntilRestart`, from `StickInv`; `RelayStaysSound`, from an invariant on where the
loop is, the reader's state and the payment's phase. Every command and button of the stick is first reduced to one of five effects
on the payment at hand (`Effect`): ignored, proposed, sent, settled, spoiled. The
invariant relates the stick's fields to what its owner was shown and did, and says
that PIN digits are only collected while a payment waits for them.

**ClerkProofs.** `BindingsAlwaysHold` for recovery. `TicketsAreAlwaysGood`, from `TicketInv`: a
clerk that serves has its state in a file (`Settled`), and from then on neither its
keys nor `ticket.pk`, which may be empty for good, are written again; until then
nobody has learned an update or a ticket (`Untouched`). Every update and ticket in a
run of the tool, a call or a wallet was made with those keys, or is a foreign one,
and a wallet that took a ticket knows the public key.

**EnrolmentProofs.** `CompletedAlwaysAttest`: at most one run of the tool is between its
commands, and none once a card is complete. `IdentitiesAlwaysStable`, from `IdentityInv`:
a pair of key files that is complete is not written again, and only complete pairs
issue. `EvidenceAlwaysDecides`: for each kind of hardware, what the verifier accepts is
bound to the wallet's own hw_id and keys, and made by hardware or by one of the two means
the verifier does not see through (`Binds`); and what undamaged hardware sends convinces
it (`Convinces`), for all chains and damages.

The library's induction theorems cannot be instantiated here. Where something
has to be shown for every length, the proof takes a smallest counterexample
(`FirstIsLeast`, `SmallestOf`) and contradicts it.

All invariants that the runs check are proved. The inductive ones of the last two
modules, `Honest` and `CleanInv`, were checked with TLC on the instances of
`wallet_network` and `split_card` before they were proved.

Only model-checked are the liveness properties (`AbuseLeadsToRevocation`,
`RequestsAndTransactionsEnd`, `EventuallyServed`, `RetriedUntilDone`,
`KeysCatchUp`), since the prover handles neither fairness nor ENABLED.

## Differences from the documentation

Found by reading the code while modelling it. The models follow the code. One
difference has a run of its own, whose counterexample shows it: `tokenmap_race`.
The ones below have none: they were read off the code, and no checked property
states them.

**TokenMap.** A stop between the abuse and its revocation row (`server.rs:256`) leaves an
abuse that no retry revokes, since the history is then known; `tokenmap.proto:109`
says a row is created for every abuse. Once both halves of a split are stored, a
double spend of the second half is filed as one more second split (`server.rs:795`;
`security_model.md:37`). The group that is revoked is the first payee's
(`server.rs:209`), not the double spender's (`security_model.md:174`).
`archive_impl` announces that it deletes the archived row and does not.
`update_impl` discards the error of `update_holder_index` (`let _ =`, `server.rs:114`,
`150`, `168`), so an acknowledged Update may have no index row for good. The function never
removes the previous holder's row, so FindByHolder also returns tokens that were passed
on, where `tokenmap.proto:28` speaks of the last recipient; it is asked for a
`ttc_public_key` and answers for the hash of it, while rows are keyed by the hash of the
credential in the recipient's ticket.

**Receiver.** The handlers compare id and peer of a transaction but not its state: a
transaction in Gossip can be taken to Complete directly, and a Transfer that is sent
again is accepted again, its tokens then twice in the wallet (`server.rs:445`;
`formal/P2PTransaction.tla:17` claims completion at most once). A handler that looked
its transaction up before the timer removed it inserts it again, with no timer left
(`server.rs:342`). A rejected epoch update leaves part of itself in the wallet
(`wallet/src/lib.rs:968`).

**Wallets.** `WalletRepository.kt` relies on "no concurrent mutations" but has no lock;
two operations at once pay with the same tokens. `seen_tokens`
(`wallet/src/lib.rs:229`) is never filled, so a token imported twice is held twice.
`transfer_inner` drops one token more than it pays when the wallet has more. The command
line prints tokens before it saves (`wallet/src/cli.rs:406`): if it is killed in between,
they are still in its file, are paid with again, and an honest user is flagged. The mint
makes tokens of any value (`mint/src/server.rs:98`); for one whose whole value is 0 the
swapper's transfer moves nothing and is no error, and `pop().unwrap()` panics with the lock
held (`swapper/src/server.rs:189`), after which every swap panics. A transfer to bytes that do not decode as a ticket
reports success and sends nothing, and `receiving_ticket` exports a ticket without its
signature. The swapper pays again for a request that is sent again. v1
`sign_split_ext` neither reports a hit of the filter nor uses a swap authorization;
the mobile library stores the host's share as the whole secret key, without a card.

**Stick and relay.** The PIN counter is in memory (`apdu.rs:108`) and starts at zero with
`TransactionState::new` (`apdu.rs:130`), so a restart or a wake-up from System OFF gives a
locked stick its attempts back; `hardware/stick/docs/button-pin-auth.md:147-159` describes
delays, a permanent lockout and a hardware counter that cannot be rolled back. Its line
367 gives an approval and line 372 a proposal five minutes; the code has no such timeout.
`load_from_flash` is a placeholder (`storage.rs:202`): a stick at this commit starts
without a PIN and with an empty balance, and the PINs and balances of the instance are
what its interfaces provide for. The stick's phase never goes back to idle after a
signature; TRANSFER is not bound to the id of the proposal. Sweeping does not reduce the
balance and receiving adds one. The choice of tokens and the curve arithmetic on the
stick are placeholders. In Variable mode the relay keeps the previous receiver's ticket.
The keypad allows three decimals; the amount is cut to 32 bits. A wait that times out
leaves the reader polling, so that no later payment starts; one that reads another
notification after its deadline panics (`pn7150.rs:258`). Signed tokens are lost when the
delivery fails, with the sender debited; a rejected delivery is reported as done. A
ticket over 242 bytes makes a command longer than the one byte of its length
(`pn7150.rs:336`), and one over 243 does not fit at all.

**Card.** The applet overwrites the basename's point with K_card before it computes the
commitment for it (`BrioletteApplet.java:433`), so its signatures with a basename do
not verify. The phone's NAC nonce is a part of the TTC public key where the
registrar uses all of it, and its NAC commitment replaces the TTC nonce
before the card has answered for it. `NfcSmartCard::connect` does not
select the applet. The status flags that `card-personalize` prints are not the
applet's. `verify_split_key_proof` takes any point but the identity and the combined key
for the card's share (`v1.rs:760`), so High says no more than Medium.

**Enrolment.** A wallet of this repository is always refused when it sends an
attestation: its TTC proof is for the hw_id, the registrar checks it for the nonce
derived from the attestation (`nac_attestation.md:35`, `server.rs:471`). RSA and
unknown signatures in a chain are not checked; the iOS counter is logged only; the
server never sets trusted roots or the app id. An empty public key file is loaded as
such. Service registration is always refused, and a service makes a new keypair at
every start. A card interrupted after key generation cannot be personalized again, and
the certificate of a completed one can be replaced until it is used (`BrioletteApplet.java:736`).
The group of a signed service request comes from metadata outside the
signature, and nothing in the repository calls `verify_service_auth`.

**Clerk and recovery.** The tool sets bit n/8 of byte n%8, the clerk reads bit n%8 of byte
n/8: other groups than the revoked ones are refused a refresh. The tool makes the
field `group_max` = 64 bytes long instead of 64 bits, so wallets pick groups up to 511;
the shift for a revoked group from 64 on wraps, or panics in a build with overflow
checks, and then no epoch is made while that group is revoked
(`epoch_generate.rs:55-64`). When the TokenMap
cannot be reached, the tool publishes an epoch without revocations.
`add_epoch` does not compare epochs, and stores to another file than the start
reads. A wallet ahead of the clerk gets InvalidSignature. A key rotation as the
tool's documentation describes it is refused by the clerk and by wallets. A clerk
killed while it writes a secret key finds an empty file and panics at every later start
(`server_main.rs:97-101`); one killed after it stored its state never publishes its
key, or leaves an empty one that the tool publishes. The
recovery server verifies neither the wallet's signature nor the delegate's proof,
never compares `valid_until` with the time, returns no tokens and so never consumes a binding; a
lost reply to a registration leaves a wallet that cannot revoke it.

**Bridge service.** The mint of this repository refuses all currencies but the test one, so
no deposit is minted with it. A failed deposit is passed over once a later one
succeeds ("Don't advance cursor", `deposit_processor.rs:182`); one deposit over 64 bits
blocks every poll. When marking fails or is late, the tokens are minted twice; on
Bitcoin every restart mints again. A withdrawal in ETH tokens is refused, test
tokens are paid in wei, no spend is recorded, and above 18 whole units the
product wraps. Keys that change while they are read are stored under the newer
version; the server goes on with the keys of its start in any case.

**Gateway.** `task_manager.rs:112-118` and `241-246` treat an ended task as final, but a
request in flight writes over it (`291-322`): Canceled becomes Working, which takes
requests again and is completed by the next payment, and Completed can become Failed.
A task whose transaction timed out stays as it was. An agent that connects from
another port is refused by the receiver. The x402 client hands the payee's JSON to the
wallet as a ticket, which moves no tokens, and sends whatever is pending, again and
again; the facilitator checks neither the recipient nor earlier use and keeps nothing.
The rate limiter has no caller, and an evicted address starts with a full bucket.

## What is not modelled

* The security of the cryptography, and `EcdaaVerifier.sol`: what a forger or an
  observer could compute. Elsewhere signatures are values nobody else can make, and the
  verifier's verdict is a free choice.
* Encodings, SQL, X.509, CBOR, logging and the text of errors. An operation that fails
  is kept as a branch that changes nothing more.
* Requests that only read and forward: the bridge's status queries and publish_epoch,
  A2A's tasks/get, wallet queries of the mobile library, `http_common`.
* The contract's removal of keys (the loop that reads them is modelled with keys that
  are added and set).
* Screens, lights, power management, the SIM card and the secure element's driver of
  the hardware; user interfaces and the scanner of the mobile applications.
* The simulations: random experiments outside the running system. The integration
  tests.
* Tokens worth more than one in `WalletNetwork`'s instance, and amounts split into change:
  the wallet pays with whole tokens only.

Every component of the table is listed in `PROJECT.json` with what is modelled of it.

## Further work

The components with protocol state are modelled, and what the runs check of their
safety is proved. What would come next:

1. The other half of the crash at the TokenMap: a model of its database with
   transactions, to say what a restart has to repair when the server stopped between an
   abuse and its revocation row.
2. `OneHolder` for users that run several operations at once, once the clients lock
   their wallet; the theorem's hypothesis can then be dropped.
3. Tokens worth more than one, when the wallet can pay with change.
