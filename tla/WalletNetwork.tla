---------------------------- MODULE WalletNetwork ----------------------------
(***************************************************************************)
(* Wallets and the servers they trade with: the client library             *)
(* (src/src/integration), its mobile wrapper (src/src/mobile-ffi and the   *)
(* app's WalletRepository), the command line (src/src/wallet/src/cli.rs),  *)
(* the mint, the validate server and the swapper.                          *)
(*                                                                         *)
(* An operation of a client reads the stored wallet, works on a copy while *)
(* it waits for a server, and writes the copy back if it succeeds; a       *)
(* failed one writes nothing.  The app puts the copy into memory, saves it *)
(* and then returns the tokens to be sent; the command line prints them    *)
(* and then saves.  A crash leaves what was saved.  Tokens that left a     *)
(* client are on the wire until somebody imports them; those of a command  *)
(* line that was killed before it saved are still in the stored wallet too *)
(* (unsaved).                                                              *)
(***************************************************************************)
EXTENDS Wallet

CONSTANTS
    Users,
    Kinds,          \* what the users run, functions to ClientKinds
    Swapper,        \* the owner of the swapper's tickets
    Float, Purse,   \* ids of the tokens that the swapper, each user has at first
    Value,          \* Value[id]: whole value of a token, 0 for a token of 0.5
    Slots,          \* operations that a user runs at once
    Handlers,       \* swap requests that the swapper handles at once
    Redelivery,     \* a token on the wire may be imported more than once
    Lifetime,       \* of a ticket
    MaxOps,         \* MaxOps[u]: bound on the operations of a user
    MaxId, MaxNow, MaxSwaps   \* bounds

\* The command line, the app, a program that attached cards to its wallet.
ClientKinds == {"cli", "app", "card"}

ASSUME WalletNetworkAssumption ==
    /\ Kinds \subseteq [Users -> ClientKinds] /\ Swapper \notin Users
    /\ Purse \in [Users -> Seq(1 .. MaxId)] /\ Float \in Seq(1 .. MaxId)
    /\ Value \in [1 .. MaxId -> Nat]
    /\ Redelivery \in BOOLEAN
    /\ MaxOps \in [Users -> Nat]
    /\ {MaxId, MaxNow, MaxSwaps} \subseteq Nat /\ Lifetime \in Nat \ {0}

\* The ids of the tokens that exist at first, each in one place.
Issued == Range(Float) \cup UNION {Range(Purse[u]) : u \in Users}

ASSUME IssuedOnce ==
    /\ \E n \in 0 .. MaxId : Issued = 1 .. n
    /\ \A i, j \in DOMAIN Float : Float[i] = Float[j] => i = j
    /\ \A u, v \in Users : \A i \in DOMAIN Purse[u], j \in DOMAIN Purse[v] :
          Purse[u][i] = Purse[v][j] => u = v /\ i = j
    /\ \A u \in Users : Range(Purse[u]) \cap Range(Float) = {}

VARIABLES
    kind,       \* kind[u]: what a user runs; never changes
    app,        \* app[u]: the wallet in memory
    disk,       \* disk[u]: the wallet on disk
    op,         \* op[u][s]: an operation under way
    wire,       \* tokens that left a client and are not imported yet
    handed,     \* every token that ever left a client
    tracked,    \* every token that the token map was told of
    unsaved,    \* ids of the tokens that a command line printed and never saved as sent
    minted,     \* number of tokens minted
    now,
    swapper,    \* the swapper's wallet
    poisoned,   \* a handler panicked while it held the swapper's wallet
    swap,       \* swap[h]: a swap request being handled
    swaps,      \* number of swap requests
    ops         \* ops[u]: number of operations; the mark of their signatures

vars == <<kind, app, disk, op, wire, handed, tracked, unsaved, minted, now, swapper,
          poisoned, swap, swaps, ops>>
aside == <<kind, unsaved, swapper, poisoned, swap, swaps>>
-----------------------------------------------------------------------------
Ticket(owner) == [owner |-> owner, created |-> now - 1, expires |-> now - 1 + Lifetime]

Idle == [pc |-> "idle"]

\* The token map flags two histories of one token that do not extend each other
\* (module TokenMap).
Fork(t1, t2) == /\ t1.id = t2.id
                /\ ~ IsPrefix(t1.chain, t2.chain) /\ ~ IsPrefix(t2.chain, t1.chain)

\* A wallet with one ticket and the tokens of a first withdrawal.
Endowed(owner, ids) ==
    [NewWallet(owner) EXCEPT !.tickets = <<Ticket(owner)>>,
                             !.tokens = [i \in DOMAIN ids |-> Minted(ids[i], Ticket(owner))]]

\* BrioletteSwapper::new; the users' wallets are as created.
Init ==
    /\ kind \in Kinds
    /\ now = 1
    /\ app = [u \in Users |-> Endowed(u, Purse[u])]
    /\ disk = app
    /\ op = [u \in Users |-> [s \in Slots |-> Idle]]
    /\ swapper = Endowed(Swapper, Float)
    /\ tracked = UNION {Range(w.tokens) : w \in Range(app) \cup {swapper}}
    /\ minted = Cardinality(Issued)
    /\ poisoned = FALSE
    /\ swap = [h \in Handlers |-> Idle]
    /\ wire = {} /\ handed = {} /\ unsaved = {}
    /\ swaps = 0
    /\ ops = [u \in Users |-> 0]

\* The time in which a ticket expires.
Tick == /\ now + Lifetime <= MaxNow /\ now' = now + Lifetime
        /\ UNCHANGED <<app, disk, op, wire, handed, tracked, minted, aside, ops>>
-----------------------------------------------------------------------------
(***************************************************************************)
(* The life of an operation: Begin, one of the operations below, and then  *)
(* Publish, Save and HandOver for the app, Output and SaveFile for the     *)
(* command line.                                                           *)
(***************************************************************************)
Cli(u) == kind[u] = "cli"

Stored(u) == IF Cli(u) THEN disk[u] ELSE app[u]

Begin(u, s) ==
    /\ op[u][s] = Idle /\ ops[u] < MaxOps[u]
    /\ op' = [op EXCEPT ![u][s] = [pc |-> "open", w |-> Stored(u), sig |-> ops[u] + 1]]
    /\ ops' = [ops EXCEPT ![u] = @ + 1]
    /\ UNCHANGED <<app, disk, wire, handed, tracked, minted, now, aside>>

Copy(u, s) == op[u][s].w

Goto(u, s, pc, w, out) == op' = [op EXCEPT ![u][s] = [pc |-> pc, w |-> w, out |-> out]]

\* pending_tokens are taken out of the wallet before it is stored.
Succeed(u, s, w) ==
    Goto(u, s, IF Cli(u) THEN "output" ELSE "publish",
         [w EXCEPT !.pending = <<>>], Range(w.pending))

Fail(u, s) == op' = [op EXCEPT ![u][s] = Idle]

Leaves(tokens) == wire' = wire \cup tokens /\ handed' = handed \cup tokens

Publish(u, s) ==
    /\ op[u][s].pc = "publish"
    /\ app' = [app EXCEPT ![u] = op[u][s].w]
    /\ op' = [op EXCEPT ![u][s].pc = "save"]
    /\ UNCHANGED <<disk, wire, handed, tracked, minted, now, aside, ops>>

Save(u, s) ==
    /\ op[u][s].pc = "save"
    /\ disk' = [disk EXCEPT ![u] = op[u][s].w]
    /\ op' = [op EXCEPT ![u][s].pc = "handover"]
    /\ UNCHANGED <<app, wire, handed, tracked, minted, now, aside, ops>>

HandOver(u, s) ==
    /\ op[u][s].pc = "handover"
    /\ Leaves(op[u][s].out)
    /\ Fail(u, s)
    /\ UNCHANGED <<app, disk, tracked, minted, now, aside, ops>>

Output(u, s) ==
    /\ op[u][s].pc = "output"
    /\ Leaves(op[u][s].out)
    /\ op' = [op EXCEPT ![u][s].pc = "file"]
    /\ UNCHANGED <<app, disk, tracked, minted, now, aside, ops>>

SaveFile(u, s) ==
    /\ op[u][s].pc = "file"
    /\ disk' = [disk EXCEPT ![u] = op[u][s].w]
    /\ Fail(u, s)
    /\ UNCHANGED <<app, wire, handed, tracked, minted, now, aside, ops>>

\* The tokens that a user's command line has printed and not yet saved as sent.
Printed(u) == UNION {op[u][s].out : s \in {s \in Slots : op[u][s].pc = "file"}}

\* tryLoadSaved after a restart; a command line starts from its file anyway.  What
\* was printed stays in the file if the crash comes before the save.
Crash(u) ==
    /\ \E s \in Slots : op[u][s] # Idle
    /\ op' = [op EXCEPT ![u] = [s \in Slots |-> Idle]]
    /\ app' = [app EXCEPT ![u] = disk[u]]
    /\ unsaved' = unsaved \cup {t.id : t \in Printed(u)}
    /\ UNCHANGED <<kind, disk, wire, handed, tracked, minted, now, swapper, poisoned,
                   swap, swaps, ops>>
-----------------------------------------------------------------------------
(***************************************************************************)
(* The mint and the validate server.                                       *)
(***************************************************************************)
\* update_tokenmap: the answer may be lost after the token map stored a token.
Outcomes == {"released", "unconfirmed", "untracked"}

\* A token that the token map does not confirm is not released.
Kept(outcome) == {i \in DOMAIN outcome : outcome[i] = "released"}

\* get_tokens_impl for one unit each.
GetTokens(ticket, outcome) ==
    /\ TicketValid(ticket, now)
    /\ minted + Len(outcome) <= MaxId
    /\ minted' = minted + Len(outcome)
    /\ tracked' = tracked \cup {Minted(minted + i, ticket) :
                                  i \in {i \in DOMAIN outcome : outcome[i] # "untracked"}}

GetTokensReply(ticket, outcome) ==
    LET kept == InOrder(Kept(outcome))
    IN  [k \in DOMAIN kept |-> Minted(minted + kept[k], ticket)]

\* check_tokenmap
Clean(tokens) == \A t \in tokens, k \in tracked \cup tokens : ~ Fork(t, k)

\* validate_tokens_impl: if all tokens verify, all are shown to the token map.
ValidateTokens(tokens) ==
    /\ tokens # {}
    /\ \A t \in tokens : Verified(t, now)
    /\ tracked' = tracked \cup tokens
-----------------------------------------------------------------------------
(***************************************************************************)
(* The operations of the client library, which the app calls through its   *)
(* wrapper.  Any of them may also fail: no connection, an error reply,     *)
(* nothing to work on.                                                     *)
(***************************************************************************)
Elsewhere == UNCHANGED <<app, disk, handed, now, aside, ops>>

Alone == Elsewhere /\ UNCHANGED <<wire, tracked, minted>>

Open(u, s) == op[u][s].pc = "open"

Client(u, s) == Open(u, s) /\ ~ Cli(u)

Refused(u, s) == Open(u, s) /\ Fail(u, s) /\ Alone

\* The reply may be lost after the mint has made the tokens.
withdraw(u, s, outcome) ==
    LET w == Copy(u, s)
        ticket == Last(w.tickets)
    IN  /\ w.tickets # <<>> /\ GetTokens(ticket, outcome)
        /\ \/ Fail(u, s)
           \/ Succeed(u, s, Withdrawn(w, GetTokensReply(ticket, outcome)))
        /\ Elsewhere /\ UNCHANGED wire

Withdraw(u, s, outcome) == Client(u, s) /\ withdraw(u, s, outcome)

Transfer(u, s, amount, recipient) ==
    LET sent == TransferInner(Copy(u, s), amount, recipient, 0, op[u][s].sig)
    IN  /\ Client(u, s) /\ kind[u] # "card" /\ sent.ok
        /\ Succeed(u, s, sent.w) /\ Alone

\* A program that uses the library itself keeps the wallet of a failed transfer.
TransferWithCard(u, s, amount, recipient, refused, again, authorized) ==
    LET sent == TransferWithSwapRetry(Copy(u, s), amount, recipient, refused, again,
                                      authorized, op[u][s].sig)
    IN  /\ Open(u, s) /\ kind[u] = "card"
        /\ IF sent.ok THEN Succeed(u, s, sent.w) ELSE Goto(u, s, "publish", sent.w, {})
        /\ Alone

\* Nothing is verified, and nobody looks whether the token is known.
ReceiveTokens(u, s, token) ==
    /\ Client(u, s) /\ token \in wire
    /\ wire' = IF Redelivery THEN wire ELSE wire \ {token}
    /\ Succeed(u, s, [Copy(u, s) EXCEPT !.tokens = Append(@, token)])
    /\ Elsewhere /\ UNCHANGED <<tracked, minted>>

RequestTickets(u, s, signed) ==
    LET got == GetTickets(Copy(u, s), <<[ticket |-> Ticket(u), signed |-> signed]>>)
    IN  /\ Client(u, s)
        /\ IF got.ok THEN Succeed(u, s, got.w) ELSE Fail(u, s)
        /\ Alone

Refreshed(u, s, indices, signed) ==
    RefreshTickets(Copy(u, s), indices,
                   [i \in DOMAIN indices |-> [ticket |-> Ticket(u), signed |-> signed]])

Refresh(u, s, index, signed) ==
    Client(u, s) /\ Succeed(u, s, Refreshed(u, s, <<index>>, signed)) /\ Alone

SelfTransfer(u, s) ==
    /\ Client(u, s)
    /\ Succeed(u, s, SelfTransferExpired(Copy(u, s), now, op[u][s].sig)) /\ Alone

\* WalletData::validate: everything in the wallet is sent to the validate server.
validate(u, s) == ValidateTokens(Range(Copy(u, s).tokens))

Validate(u, s) ==
    LET tokens == Range(Copy(u, s).tokens)
    IN  /\ Client(u, s) /\ validate(u, s)
        /\ IF Clean(tokens) THEN Succeed(u, s, Copy(u, s)) ELSE Fail(u, s)
        /\ Elsewhere /\ UNCHANGED <<wire, minted>>
-----------------------------------------------------------------------------
(***************************************************************************)
(* The commands of the command line that reach a server or change a        *)
(* wallet.                                                                 *)
(***************************************************************************)
Command(u, s) == Open(u, s) /\ Cli(u)

CmdTickets(u, s) ==
    /\ Command(u, s)
    /\ Succeed(u, s, GetTickets(Copy(u, s), <<[ticket |-> Ticket(u), signed |-> TRUE]>>).w)
    /\ Alone

\* The tickets that expire within the threshold are refreshed.
CmdRefresh(u, s, threshold) ==
    LET tickets == Copy(u, s).tickets
        due == {i \in DOMAIN tickets : tickets[i].expires <= now + threshold}
    IN  /\ Command(u, s) /\ due # {}
        /\ Succeed(u, s, Refreshed(u, s, InOrder(due), TRUE))
        /\ Alone

CmdWithdraw(u, s, outcome) == Command(u, s) /\ withdraw(u, s, outcome)

CmdSend(u, s, amount, recipient) ==
    LET sent == TransferInner(Copy(u, s), amount, recipient, 0, op[u][s].sig)
    IN  /\ Command(u, s) /\ amount <= Len(Copy(u, s).tokens) /\ sent.ok
        /\ Succeed(u, s, sent.w) /\ Alone

\* Nothing is saved.
CmdValidate(u, s) ==
    /\ Command(u, s) /\ validate(u, s)
    /\ Fail(u, s)
    /\ Elsewhere /\ UNCHANGED <<wire, minted>>
-----------------------------------------------------------------------------
(***************************************************************************)
(* swap_tokens_impl.  The transfer and the pop are under a lock each; what *)
(* is popped is whatever was pushed last.                                  *)
(***************************************************************************)
Clients == UNCHANGED <<kind, app, disk, op, handed, unsaved, minted, now, ops>>

Handle(h, state) == swap' = [swap EXCEPT ![h] = state]

\* A request may repeat tokens that were swapped before: nothing is kept of them, and
\* a repeated request is paid again.
SwapTokens(h, token) ==
    /\ swap[h] = Idle /\ swaps < MaxSwaps /\ ~ poisoned
    /\ token \in handed
    /\ swaps' = swaps + 1
    /\ ValidateTokens({token})
    /\ Handle(h, IF Clean({token}) /\ CurrentTicket(token).owner = Swapper
               THEN [pc |-> "transfer", token |-> token] ELSE Idle)
    /\ wire' = wire \ {token}
    /\ Clients /\ UNCHANGED <<swapper, poisoned>>

\* Who is paid: with more than one transfer after the mint's, the last ticket.
Sender(token) == IF Len(token.chain) > 2 THEN CurrentTicket(token) ELSE token.chain[1].to

\* A token without whole value, which the mint makes like any other, moves nothing
\* to pending and is no error; the swapper loses the one token that the loop takes
\* before it stops.
SwapTransfer(h) ==
    LET token == swap[h].token
        sent == TransferInner(swapper, Value[token.id], Sender(token), 0, swaps)
    IN  /\ swap[h].pc = "transfer" /\ ~ poisoned
        /\ swapper' = sent.w
        /\ Handle(h, IF sent.ok THEN [pc |-> "pop"] ELSE Idle)
        /\ Clients /\ UNCHANGED <<wire, tracked, poisoned, swaps>>

\* Everything pending is taken, and the last token sent.
SwapDrain(h) ==
    /\ swap[h].pc = "pop" /\ ~ poisoned
    /\ poisoned' = (swapper.pending = <<>>)
    /\ swapper' = [swapper EXCEPT !.pending = <<>>]
    /\ wire' = wire \cup Range(swapper.pending)
    /\ Handle(h, Idle)
    /\ Clients /\ UNCHANGED <<tracked, swaps>>

\* pop().unwrap() panics when nothing is pending.
SwapPop(h) ==
    /\ swap[h].pc = "pop" /\ ~ poisoned
    /\ IF swapper.pending = <<>>
       THEN /\ poisoned' = TRUE
            /\ UNCHANGED <<swapper, wire>>
       ELSE /\ swapper' = [swapper EXCEPT !.pending = Front(@)]
            /\ wire' = wire \cup {Last(swapper.pending)}
            /\ UNCHANGED poisoned
    /\ Handle(h, Idle)
    /\ Clients /\ UNCHANGED <<tracked, swaps>>

\* A handler panics when it comes to a poisoned lock.
SwapPanic(h) ==
    /\ swap[h] # Idle /\ poisoned
    /\ Handle(h, Idle)
    /\ Clients /\ UNCHANGED <<wire, tracked, swapper, poisoned, swaps>>
-----------------------------------------------------------------------------
\* get_destination_impl
SwapDestination == Head(swapper.tickets)

\* cmd_receive exports the signed first ticket; receiving_ticket of the client
\* library exports the unsigned one, which no payer can decode.
Recipients == {Malformed} \cup {Head(Stored(u).tickets) : u \in {u \in Users : Stored(u).tickets # <<>>}}
                \cup {SwapDestination}

Operation(u, s) ==
    \/ Begin(u, s) \/ Publish(u, s) \/ Save(u, s) \/ HandOver(u, s)
    \/ Output(u, s) \/ SaveFile(u, s) \/ Refused(u, s)
    \/ \E n \in 1 .. 2 : \E outcome \in [1 .. n -> Outcomes] :
          Withdraw(u, s, outcome) \/ CmdWithdraw(u, s, outcome)
    \/ \E amount \in 1 .. 2, recipient \in Recipients :
          Transfer(u, s, amount, recipient) \/ CmdSend(u, s, amount, recipient)
    \/ /\ Open(u, s) /\ kind[u] = "card"
       /\ \E amount \in 1 .. 2, recipient \in Recipients, authorized \in BOOLEAN :
             \E refused, again \in 0 .. amount :
                TransferWithCard(u, s, amount, recipient, refused, again, authorized)
    \/ \E token \in wire : ReceiveTokens(u, s, token)
    \/ \E signed \in BOOLEAN : RequestTickets(u, s, signed) \/ Refresh(u, s, 1, signed)
    \/ SelfTransfer(u, s) \/ Validate(u, s)
    \/ CmdTickets(u, s) \/ CmdRefresh(u, s, 0) \/ CmdValidate(u, s)

\* Nothing is under way.
Rest == /\ \A u \in Users, s \in Slots : op[u][s] = Idle
        /\ \A h \in Handlers : swap[h] = Idle
        /\ UNCHANGED vars

Next ==
    \/ \E u \in Users : Crash(u) \/ \E s \in Slots : Operation(u, s)
    \/ \E h \in Handlers : \/ \E token \in handed : SwapTokens(h, token)
                           \/ SwapTransfer(h) \/ SwapPop(h) \/ SwapPanic(h)
    \/ Tick \/ Rest

Spec == Init /\ [][Next]_vars
-----------------------------------------------------------------------------
\* Tickets of the clerk, what tokens and wallets are made of.
Owners == Users \cup {Swapper}
Tickets == {t \in [owner : Owners, created : Nat, expires : Nat] : t.created < t.expires}
Links == [to : Tickets, by : Owners \cup {Mint}, sig : Nat]
Tokens == [id : 1 .. MaxId, chain : Seq(Links) \ {<<>>}]
Wallets(key) == [key : {key}, tokens : Seq(Tokens), pending : Seq(Tokens), tickets : Seq(Tickets)]

Operations(u) ==
    {Idle} \cup [pc : {"open"}, w : Wallets(u), sig : Nat]
    \cup [pc : {"publish", "save", "handover", "output", "file"}, w : Wallets(u),
           out : SUBSET Tokens]

Swaps == {Idle, [pc |-> "pop"]} \cup [pc : {"transfer"}, token : Tokens]

\* Whatever a transfer, a self transfer, a withdrawal or a refresh makes of it,
\* a wallet holds whole tokens and tickets of the clerk, and the swapper always
\* has a ticket to be paid to.
TypeOK ==
    /\ kind \in [Users -> ClientKinds]
    /\ DOMAIN app = Users /\ DOMAIN disk = Users /\ DOMAIN op = Users
    /\ \A u \in Users : /\ app[u] \in Wallets(u) /\ disk[u] \in Wallets(u)
                        /\ op[u] \in [Slots -> Operations(u)]
    /\ {wire, handed, tracked} \subseteq SUBSET Tokens /\ unsaved \subseteq 1 .. MaxId
    /\ minted \in 0 .. MaxId /\ now \in Nat \ {0}
    /\ swapper \in Wallets(Swapper) /\ swapper.tickets # <<>>
    /\ poisoned \in BOOLEAN
    /\ swap \in [Handlers -> Swaps]
    /\ swaps \in Nat /\ ops \in [Users -> Nat]

\* The wallet that a user's next operation works on: what a command line has
\* printed is gone from it.
Current(u) == IF \E s \in Slots : op[u][s].pc = "file"
              THEN op[u][CHOOSE s \in Slots : op[u][s].pc = "file"].w ELSE Stored(u)

\* Every place in which a token may be, with its index there.
At(place, tokens) == {<<place, i, tokens[i]>> : i \in DOMAIN tokens}

In(place, tokens) == {<<place, 0, t>> : t \in tokens}

Published(u, s) == op[u][s].pc \in {"save", "handover"}

Whereabouts ==
    UNION ({At(<<u, "tokens">>, Current(u).tokens) : u \in Users}
      \cup {At(<<u, "pending">>, Current(u).pending) : u \in Users}
      \cup {IF Published(u, s) THEN In(<<u, "out">>, op[u][s].out) ELSE {} : u \in Users, s \in Slots}
      \cup {In(<<Swapper, "wire">>, wire), At(<<Swapper, "tokens">>, swapper.tokens),
            At(<<Swapper, "pending">>, swapper.pending)})

\* While every user runs one operation at a time and imports a token once, no
\* token is in two wallets, or twice in one, or still in the wallet of a client
\* that sent it: not after a failed or a lost call, a swap, or a crash, whenever
\* it comes.  Only a command line that is killed after it has printed tokens and
\* before it has saved still holds what it sent; those tokens, and none but those,
\* have two holders.
OneHolder ==
    \A x, y \in Whereabouts : x[3].id = y[3].id /\ x[3].id \notin unsaved => x = y

\* Then an honest client signs no token twice for others to see, and the token map
\* flags none of its tokens, unless its command line was killed in that window:
\* the next payment signs what it printed again, and may be flagged.
HonestNeverFlagged ==
    \A t, k \in handed \cup tracked \cup wire : t.id \notin unsaved => ~ Fork(t, k)

\* A token without whole value was sent to the swapper.
WorthlessPaid == \E t \in handed : Value[t.id] = 0 /\ CurrentTicket(t).owner = Swapper

\* A swap handler that has transferred tokens of its own always finds one to pop,
\* whatever other handlers pop meanwhile and however often one token is swapped.
\* The swapper's lock is poisoned only by a token without whole value, for which
\* nothing is transferred; one such token is enough.
SwapperNotPoisoned == poisoned => WorthlessPaid
=============================================================================
