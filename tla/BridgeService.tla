--------------------------- MODULE BridgeService ---------------------------
(***************************************************************************)
(* The bridge service (src/src/bridge): the processor that polls a chain   *)
(* for deposits and has tokens minted for them, for Ethereum and for       *)
(* Bitcoin, withdrawals to the chain, and the key registry that is read    *)
(* from the bridge contract.                                               *)
(*                                                                         *)
(* Every call to the chain or to the mint is a step that may fail, take    *)
(* effect without the service hearing of it, or, for a transaction, take   *)
(* effect later; the service may crash between any two.  The contract is   *)
(* the one of BridgeContract, seen from outside.  A behaviour is about one *)
(* chain, one mint and its budgets: its scene.  Amounts are scaled down:   *)
(* Word stands for 2^64, PerWhole and PerMicro for the chain's units.      *)
(***************************************************************************)
EXTENDS Sequences, FiniteSets, Integers, SequencesExt

CONSTANTS
    Scenes,
    Tickets,
    Amounts,            \* deposits in wei or satoshis; the contract's are 256 bits wide
    MicrosPerWhole, PerMicro, Word,
    MinConfirmations,
    MaxDeposits, MaxKeys, MaxTip

ASSUME UnitsAssumption ==
    MicrosPerWhole \in Nat \ {0} /\ PerMicro \in Nat \ {0} /\ Word \in Nat \ {0}

ASSUME SceneAssumption ==
    /\ Amounts \subseteq Nat
    /\ MinConfirmations \in Nat /\ MaxDeposits \in Nat /\ MaxTip \in Nat
    /\ \A s \in Scenes :
          /\ s.amounts \subseteq Amounts /\ s.tickets \subseteq Tickets
          /\ s.deposits \in 0 .. MaxDeposits /\ s.faults \in Nat /\ s.crashes \in Nat

PerWhole == MicrosPerWhole * PerMicro

VARIABLES
    scene,
    tip,        \* height of the chain
    deposits,   \* the deposits on the chain; a deposit's id is its place minus one
    landing,    \* transactions sent that the chain has yet to execute: deposits to mark
    proc,       \* the deposit processor
    registry,   \* TicketRegistry
    minted,     \* what the mint made for each deposit
    excused,    \* how often a deposit may have to be minted again
    chainKeys,  \* the contract's key registry
    keys,       \* the shared keys that key_refresh_loop maintains
    loader,     \* key_refresh_loop and load_keys: what it has read, and last_version
    torn,       \* a key changed after load_keys read it and before it read the version
    server,     \* the keys of the bridge server since its start, if it is up
    paid,       \* withdrawals on the chain, with the tokens given for them
    left        \* what is left of the budgets

vars == <<scene, tip, deposits, landing, proc, registry, minted, excused, chainKeys, keys, loader,
          torn, server, paid, left>>
keyVars == <<chainKeys, keys, loader, torn>>

Bitcoin == scene.chain = "bitcoin"
NoKeys == [ttc |-> 0, mint |-> 0, ticket |-> 0, version |-> 0]
IdleProc == [at |-> "idle", pending |-> {}, cursor |-> 0]
IdleLoader(since) == [at |-> "idle", got |-> NoKeys, since |-> since]
Down == [up |-> FALSE, keys |-> NoKeys]
Fault == left.faults > 0 /\ left' = [left EXCEPT !.faults = @ - 1]
-----------------------------------------------------------------------------
(* Amounts *)

\* wei_to_briolette_amount and sats_to_briolette_amount, up to the currency.
FromWei(n) == [whole |-> n \div PerWhole, micros |-> (n % PerWhole) \div PerMicro]
FromSats(n) == [whole |-> n \div PerWhole, micros |-> (n % PerWhole) \div PerMicro]

\* Amount::add for the two of one currency.
AddAmount(a, b) ==
    LET micros == a.micros + b.micros
    IN  [whole |-> a.whole + b.whole + micros \div MicrosPerWhole,
         micros |-> micros % MicrosPerWhole]

\* withdraw_to_l1's conversion, in 64-bit arithmetic that wraps around.
ToWei(a) == (((a.whole * PerWhole) % Word) + ((a.micros * PerMicro) % Word)) % Word
Value(a) == a.whole * PerWhole + a.micros * PerMicro
-----------------------------------------------------------------------------
(* The chain (external) *)

Ids == 0 .. Len(deposits) - 1
D(id) == deposits[id + 1]
Confirmations(id) == tip - D(id).height + 1

Deposit(amount, ticket) ==
    /\ Len(deposits) < scene.deposits /\ (Bitcoin => amount < Word)
    /\ deposits' = Append(deposits, [amount |-> amount, ticket |-> ticket, height |-> tip,
                                     processed |-> FALSE, gone |-> FALSE])
    /\ minted' = Append(minted, <<>>) /\ excused' = Append(excused, 0)
    /\ UNCHANGED <<scene, tip, landing, proc, registry, keyVars, server, paid, left>>

Mine ==
    /\ Bitcoin /\ tip < MaxTip /\ tip' = tip + 1
    /\ UNCHANGED <<scene, deposits, landing, proc, registry, minted, excused, keyVars, server, paid, left>>

\* A reorganization less deep than MinConfirmations.
Reorganize(id) ==
    /\ Bitcoin /\ ~ D(id).gone /\ Confirmations(id) < MinConfirmations /\ scene.reorgs
    /\ deposits' = [deposits EXCEPT ![id + 1].gone = TRUE]
    /\ UNCHANGED <<scene, tip, landing, proc, registry, minted, excused, keyVars, server, paid, left>>

\* A markDepositProcessed that was sent is executed after all; the contract reverts the
\* second one.
Land(id) ==
    /\ id \in landing
    /\ deposits' = [deposits EXCEPT ![id + 1].processed = TRUE]
    /\ landing' = landing \ {id}
    /\ UNCHANGED <<scene, tip, proc, registry, minted, excused, keyVars, server, paid, left>>

\* What load_keys has left to read when it has read a key.
ReadAfter(which) ==
    CASE which = "ttc" -> {"mint", "ticket", "version"}
      [] which = "mint" -> {"ticket", "version"}
      [] which = "ticket" -> {"version"}

\* The operator adds a mint or ticket key or sets the group's.
ChangeKey(which) ==
    /\ chainKeys.version < scene.keyChanges
    /\ chainKeys' = [chainKeys EXCEPT ![which] = @ + 1, !.version = @ + 1]
    /\ torn' = (torn \/ loader.at \in ReadAfter(which))
    /\ UNCHANGED <<scene, tip, deposits, landing, proc, registry, minted, excused, keys, loader, server,
                   paid, left>>
-----------------------------------------------------------------------------
(* Deposits *)

\* Everything from the cursor on, processed or not.
UnfilteredDeposits == {id \in Ids : id >= proc.cursor}

\* As if the cursor were the last deposit done.
AfterCursor == {id \in Ids : id > proc.cursor /\ ~ D(id).processed}

\* AlloyEthereumClient::get_deposits
EthereumDeposits == {id \in Ids : id >= proc.cursor /\ ~ D(id).processed}

\* One amount that 64 bits cannot hold fails the whole query.
AmountOverflow == \E id \in Ids : id >= proc.cursor /\ ~ D(id).processed /\ D(id).amount >= Word

\* scan_deposits
BitcoinDeposits ==
    {id \in Ids : /\ D(id).height >= proc.cursor /\ ~ D(id).gone
                  /\ Confirmations(id) >= MinConfirmations}

\* process_pending_deposits up to the loop.
Poll(found) ==
    /\ server.up /\ proc.at = "idle" /\ found # {}
    /\ proc' = [proc EXCEPT !.at = "mint", !.pending = found]
    /\ UNCHANGED <<scene, tip, deposits, landing, registry, minted, excused, keyVars, server, paid, left>>

PollEthereum == ~ Bitcoin /\ ~ AmountOverflow /\ Poll(EthereumDeposits)
PollBitcoin == Bitcoin /\ Poll(BitcoinDeposits)

\* The deposits of one poll are taken in the order of their ids.
First == Min(proc.pending)

\* The deposit is done with: the next one, or the next poll.
Advance(cursor) ==
    LET rest == proc.pending \ {First}
    IN  [at |-> IF rest = {} THEN "idle" ELSE "mint", pending |-> rest, cursor |-> cursor]

\* A ticket is registered by its hash (TicketRegistry::register has no caller yet).
RegisterTicket(t) ==
    /\ server.up /\ t \notin registry
    /\ registry' = registry \cup {t}
    /\ UNCHANGED <<scene, tip, deposits, landing, proc, minted, excused, keyVars, server, paid, left>>

\* The mint's answer came and has tokens in it.
AnswerHasTokens(makes, outcome) == makes /\ outcome = "answered"

\* process_single_deposit up to the mint's answer.  The mint of this repository makes only
\* test tokens (scene.mints).  An answer that is lost may have been a yes.
MintTokens(outcome, amount) ==
    LET id == First
        known == D(id).ticket \in registry
        makes == known /\ scene.mints /\ outcome # "refused"
    IN  /\ outcome = "refused" => known /\ scene.mints
        /\ minted' = IF makes THEN [minted EXCEPT ![id + 1] = Append(@, amount)] ELSE minted
        /\ IF AnswerHasTokens(makes, outcome)
           THEN proc' = [proc EXCEPT !.at = "mark"] /\ UNCHANGED <<excused, left>>
           ELSE /\ proc' = Advance(proc.cursor)
                /\ excused' = IF makes THEN [excused EXCEPT ![id + 1] = @ + 1] ELSE excused
                /\ IF known /\ scene.mints THEN Fault ELSE UNCHANGED left
        /\ UNCHANGED <<scene, tip, deposits, landing, registry, keyVars, server, paid>>

MintEthereum(outcome) ==
    ~ Bitcoin /\ proc.at = "mint" /\ MintTokens(outcome, FromWei(D(First).amount))
MintBitcoin(outcome) ==
    Bitcoin /\ proc.at = "mint" /\ MintTokens(outcome, FromSats(D(First).amount))

\* The cursor moves past the deposit, by its id or, on Bitcoin, its block.
CursorPast(place) == IF place >= proc.cursor THEN place + 1 ELSE proc.cursor

\* AlloyEthereumClient::mark_deposit_processed and the end of the loop's body: "ok",
\* "reverted" because it was marked before, "failed", "unheard": executed without the
\* service hearing of it, or "late": sent, and executed at some later time.
MarkEthereum(outcome) ==
    LET id == First
    IN  /\ proc.at = "mark" /\ ~ Bitcoin
        /\ outcome = "reverted" <=> D(id).processed
        /\ deposits' = IF outcome \in {"ok", "unheard"}
                       THEN [deposits EXCEPT ![id + 1].processed = TRUE] ELSE deposits
        /\ landing' = IF outcome = "late" THEN landing \cup {id} ELSE landing
        /\ registry' = IF outcome = "ok" THEN registry \ {D(id).ticket} ELSE registry
        /\ proc' = Advance(IF outcome = "ok" THEN CursorPast(id) ELSE proc.cursor)
        /\ IF outcome \in {"ok", "reverted"}
           THEN UNCHANGED <<excused, left>>
           ELSE excused' = [excused EXCEPT ![id + 1] = @ + 1] /\ Fault
        /\ UNCHANGED <<scene, tip, minted, keyVars, server, paid>>

\* BitcoinL1Client::mark_deposit_processed notes, in memory and under a number counted
\* from the cursor, what nobody reads.
MarkBitcoin ==
    LET id == First
    IN  /\ proc.at = "mark" /\ Bitcoin
        /\ registry' = registry \ {D(id).ticket}
        /\ proc' = Advance(CursorPast(D(id).height))
        /\ UNCHANGED <<scene, tip, deposits, landing, minted, excused, keyVars, server, paid, left>>
-----------------------------------------------------------------------------
(* Keys *)

\* One call of the client: a list of keys, the group's key or the version.
ReadChain(which) == chainKeys[which]

\* Only the next version counts as a change.
HasNextVersion(since) == chainKeys.version = since + 1

\* has_changed
HasChanged(since) == ReadChain("version") > since

LoadStart ==
    /\ ~ Bitcoin /\ loader.at = "idle" /\ (server.up => HasChanged(loader.since))
    /\ loader' = [loader EXCEPT !.at = "ttc"]
    /\ torn' = FALSE
    /\ UNCHANGED <<scene, tip, deposits, landing, proc, registry, minted, excused, chainKeys, keys, server,
                   paid, left>>

\* The four reads of load_keys, the version last.
LoadRead ==
    LET next == [ttc |-> "mint", mint |-> "ticket", ticket |-> "version", version |-> "done"]
    IN  /\ loader.at \notin {"idle", "done"}
        /\ loader' = [loader EXCEPT !.at = next[loader.at], !.got[loader.at] = ReadChain(loader.at)]
        /\ UNCHANGED <<scene, tip, deposits, landing, proc, registry, minted, excused, chainKeys, keys,
                       torn, server, paid, left>>

LoadFails ==
    /\ loader.at \notin {"idle", "done"} /\ Fault
    /\ loader' = IdleLoader(loader.since)
    /\ UNCHANGED <<scene, tip, deposits, landing, proc, registry, minted, excused, chainKeys, keys,
                   torn, server, paid>>

\* KeyMaterial::is_valid
IsValid(k) == k.ttc > 0 /\ k.mint > 0 /\ k.ticket > 0

\* Either main's first load, after which the server is up if there are keys, or a turn of
\* key_refresh_loop.  The server keeps the keys of its start; the loop starts from version 0.
LoadDone ==
    /\ loader.at = "done"
    /\ loader' = IdleLoader(IF server.up THEN loader.got.version ELSE 0)
    /\ keys' = loader.got
    /\ server' = IF server.up THEN server ELSE [up |-> IsValid(loader.got), keys |-> loader.got]
    /\ UNCHANGED <<scene, tip, deposits, landing, proc, registry, minted, excused, chainKeys, torn,
                   paid, left>>
-----------------------------------------------------------------------------
(* Withdrawals *)

\* initiate_withdrawal: a transaction of the contract.
InitiateWithdrawal(wei, tokens) ==
    paid \cup {[id |-> Cardinality(paid), wei |-> wei, tokens |-> tokens]}

\* withdraw_to_l1 for tokens signed with mint key k.  The sum starts from no test tokens,
\* so that tokens of another currency are refused.  A transaction that fails, or whose
\* receipt is lost, is reported as not accepted.
WithdrawToL1(tokens, currency, k, lands) ==
    LET total == FoldSeq(AddAmount, [whole |-> 0, micros |-> 0], tokens)
    IN  /\ server.up /\ Cardinality(paid) < scene.withdrawals
        /\ k <= server.keys.mint /\ currency = "test" /\ ToWei(total) # 0
        /\ paid' = IF lands THEN InitiateWithdrawal(ToWei(total), tokens) ELSE paid
        /\ IF lands THEN UNCHANGED left ELSE Fault
        /\ UNCHANGED <<scene, tip, deposits, landing, proc, registry, minted, excused, keyVars, server>>
-----------------------------------------------------------------------------
\* Cursor, registry and keys are in memory.  (The Bitcoin processor is started without keys.)
Crash ==
    /\ server.up /\ left.crashes > 0
    /\ left' = [left EXCEPT !.crashes = @ - 1]
    /\ server' = (IF Bitcoin THEN server ELSE Down)
    /\ loader' = IdleLoader(0) /\ keys' = (IF Bitcoin THEN keys ELSE NoKeys)
    /\ proc' = IdleProc /\ registry' = {}
    /\ excused' = [i \in DOMAIN excused |->
            IF Bitcoin \/ (proc.at = "mark" /\ First = i - 1) THEN excused[i] + 1 ELSE excused[i]]
    /\ UNCHANGED <<scene, tip, deposits, landing, minted, chainKeys, torn, paid>>

Init ==
    /\ scene \in Scenes
    /\ tip = 0 /\ deposits = <<>> /\ landing = {} /\ proc = IdleProc /\ registry = {}
    /\ minted = <<>> /\ excused = <<>>
    /\ chainKeys = [ttc |-> 1, mint |-> 1, ticket |-> 1, version |-> 3]
    /\ keys = (IF scene.started THEN chainKeys ELSE NoKeys)
    /\ loader = IdleLoader(0) /\ torn = FALSE
    /\ server = IF scene.started THEN [up |-> TRUE, keys |-> chainKeys] ELSE Down
    /\ paid = {} /\ left = [faults |-> scene.faults, crashes |-> scene.crashes]

\* Nothing is left to do within the bounds.
Rest == UNCHANGED vars

Next ==
    \/ \E a \in scene.amounts, t \in scene.tickets : Deposit(a, t)
    \/ Mine \/ PollEthereum \/ PollBitcoin \/ MarkBitcoin \/ Crash \/ Rest
    \/ \E id \in Ids : Reorganize(id) \/ Land(id)
    \/ \E which \in {"ttc", "mint", "ticket"} : ChangeKey(which)
    \/ \E t \in scene.tickets : RegisterTicket(t)
    \/ \E outcome \in {"answered", "refused", "unheard"} : MintEthereum(outcome) \/ MintBitcoin(outcome)
    \/ \E outcome \in {"ok", "reverted", "failed", "unheard", "late"} : MarkEthereum(outcome)
    \/ LoadStart \/ LoadRead \/ LoadFails \/ LoadDone
    \/ \E a, b \in scene.amounts, currency \in {"test", "eth"}, k \in 1 .. MaxKeys, lands \in BOOLEAN :
            WithdrawToL1(<<FromWei(a), FromWei(b)>>, currency, k, lands)

Spec ==
    /\ Init /\ [][Next]_vars
    /\ WF_vars(PollEthereum) /\ WF_vars(MintEthereum("answered"))
    /\ WF_vars(MarkEthereum("ok")) /\ WF_vars(MarkEthereum("reverted"))
    /\ WF_vars(PollBitcoin) /\ WF_vars(MintBitcoin("answered")) /\ WF_vars(MarkBitcoin)
    /\ WF_vars(LoadStart) /\ WF_vars(LoadRead) /\ WF_vars(LoadDone)
-----------------------------------------------------------------------------
TypeOK ==
    /\ scene \in Scenes /\ tip \in 0 .. MaxTip
    /\ deposits \in Seq([amount : Amounts, ticket : Tickets, height : 0 .. MaxTip,
                         processed : BOOLEAN, gone : BOOLEAN])
    /\ Len(deposits) <= MaxDeposits
    /\ landing \subseteq Ids /\ registry \subseteq Tickets
    /\ proc.at \in {"idle", "mint", "mark"} /\ (proc.at = "idle") = (proc.pending = {})
    /\ proc.cursor \in Nat /\ proc.pending \subseteq Ids
    /\ DOMAIN minted = DOMAIN deposits /\ DOMAIN excused = DOMAIN deposits
    /\ loader.at \in {"idle", "ttc", "mint", "ticket", "version", "done"}
    /\ left.faults \in Nat /\ left.crashes \in Nat

(* A deposit that the contract counts as processed has had its tokens      *)
(* minted: whatever calls fail and wherever the service crashes, a         *)
(* depositor is never marked as served with nothing (the order of steps 3  *)
(* and 4 of process_single_deposit).                                       *)
MarkedDepositsAreMinted == \A id \in Ids : D(id).processed \/ id \in landing => minted[id + 1] # <<>>

(* Tokens are minted a second time for a deposit only because the mint's   *)
(* answer or the marking was lost, failed or came late, or the service     *)
(* crashed in between; not because the service was started again and its   *)
(* cursor began from zero. (On Bitcoin, where nothing but memory says that *)
(* a deposit was processed, every restart is such a reason.)               *)
MintsExplained == \A id \in Ids : Len(minted[id + 1]) <= 1 + excused[id + 1]

(* No tokens exist for a deposit that a reorganization removed from the    *)
(* chain (MIN_DEPOSIT_CONFIRMATIONS).                                      *)
NoMintForReorganized == \A id \in Ids : D(id).gone => minted[id + 1] = <<>>

(* No conversion gains anyone value: the tokens of one mint are worth at   *)
(* most their deposit, and one withdrawal pays at most what the tokens     *)
(* presented for it are worth, where the amounts are near the limits of    *)
(* their types too.                                                        *)
ConversionsNeverGain ==
    /\ \A id \in Ids : \A i \in DOMAIN minted[id + 1] : Value(minted[id + 1][i]) <= D(id).amount
    /\ \A p \in paid : p.wei <= Value(p.tokens[1]) + Value(p.tokens[2])

(* A deposit whose ticket is registered is tried until it is processed, or *)
(* is passed over because the cursor moved on; unless the service is down, *)
(* or a deposit that 64 bits cannot hold blocks the query.                 *)
RetriedUntilDone ==
    \A n \in 0 .. MaxDeposits - 1 :
        (n \in Ids /\ D(n).ticket \in registry /\ server.up /\ scene.mints)
            ~> (n \in Ids /\ (\/ D(n).processed \/ D(n).ticket \notin registry \/ ~ server.up
                              \/ proc.cursor > (IF Bitcoin THEN D(n).height ELSE n)
                              \/ (~ Bitcoin /\ AmountOverflow)
                              \/ (Bitcoin /\ (D(n).gone \/ Confirmations(n) < MinConfirmations))))

(* The refresh loop ends up with the contract's keys, whatever calls fail, *)
(* if no key changed after it was read and before the version was, in the  *)
(* last load.                                                              *)
KeysCatchUp == <>[](server.up => keys = chainKeys \/ torn)

(* Every deposit marked as processed was minted for, each further mint for *)
(* it has a cause of its own (a mint's answer or a mark lost, failed or    *)
(* late, or a crash between the two), none is for a deposit that a         *)
(* reorganization removed, and no single conversion gains anybody value.   *)
(* This does not make the bridge whole: the code mints again after each    *)
(* such cause, pays for the same tokens as often as they are presented,    *)
(* since no withdrawal is recorded as a spend, and pays test tokens in     *)
(* wei; the property excludes none of that.                                *)
MintsHaveCause ==
    /\ MarkedDepositsAreMinted /\ MintsExplained /\ NoMintForReorganized
    /\ ConversionsNeverGain
=============================================================================
