------------------------------ MODULE TokenMap ------------------------------
(***************************************************************************)
(* The TokenMap server (src/src/tokenmap/src/server.rs): the operator's    *)
(* ledger of every token history it has seen, and the only place where a   *)
(* double spend is noticed.                                                *)
(*                                                                         *)
(* The four SQLite tables are the four state variables.  Every             *)
(* `conn.call(..).await` is one atomic step: the connection has a single   *)
(* thread, and other requests run between two awaits of the same handler.  *)
(* A request in flight is a record in `rpc`, one slot per concurrent       *)
(* request; what it keeps across an await (the entry it read, the row it   *)
(* is about to write) is in that record, and a crash loses it.             *)
(***************************************************************************)
EXTENDS TokenHistory

CONSTANTS
    Ids,            \* token ids (the signature of the token's base)
    BaseRecipient,  \* BaseRecipient[id]: whom the mint issued the token to
    Dated,          \* the ids whose base carries a ValidUntil tag
    Histories,      \* the token histories that callers may submit
    TicketBatches,  \* the ticket sequences that the clerk may store
    Workers,        \* slots for requests in flight
    MaxFaults       \* bound: server crashes and calls that return an error

VARIABLES
    entries,        \* table `tokens`: the Entry of every id
    tickets,        \* table `tickets`: credentials with a stored signature
    revocation,     \* table `revocation`, keyed by id
    archive,        \* table `revocation_archive`, keyed by id
    holder_index,   \* table `holder_index`: <<credential, id>>
    rpc,            \* the requests in flight
    acked,          \* the <<id, history>> of Updates answered without error
    faultCount,     \* crashes and failed calls so far
    unindexed,      \* history: the <<id, history>> whose index row was due and
                    \* never written
    unrevoked       \* history: the ids whose revocation row was

tables == <<entries, tickets, revocation, archive, holder_index>>
faults == <<faultCount, unindexed, unrevoked>>
vars == <<tables, rpc, acked, faults>>
-----------------------------------------------------------------------------
Abuse == [token_index : Nat, history_index : Nat]

Entry == [tokens : Seq(History), abuses : Seq(Abuse)]

\* An id without a row.  No row holds an empty list of tokens.
NoEntry == [tokens |-> <<>>, abuses |-> <<>>]

ASSUME ConstantsAssumption ==
    /\ BaseRecipient \in [Ids -> Creds]
    /\ Dated \subseteq Ids
    /\ \A h \in Histories : h \in History /\ Verified(h)
    /\ \A b \in TicketBatches : b \in Seq(Creds) /\ b # <<>>
    /\ MaxFaults \in Nat

\* The credential that a history leaves the token with.
Holder(id, h) == IF h = <<>> THEN BaseRecipient[id] ELSE h[Len(h)].to

\* The credential that signed link i.
Signer(id, h, i) == IF i = 1 THEN BaseRecipient[id] ELSE h[i - 1].to
-----------------------------------------------------------------------------
Idle == [pc |-> "idle"]

Row == [id : Ids, group : Creds, ttc : Creds]

Request ==
    [pc : {"idle"}]
      \cup [pc : {"create", "index"}, id : Ids, cand : Histories]
      \cup [pc : {"replace"}, id : Ids, cand : Histories, entry : Entry]
      \cup [pc : {"lookup", "abuse"}, id : Ids, cand : Histories,
            entry : Entry, row : Row]
      \cup [pc : {"revoke"}, id : Ids, cand : Histories, row : Row]
      \cup [pc : {"store"}, batch : Seq(Creds) \ {<<>>}]
      \cup [pc : {"archive"}, row : Row]

\* The tables hold, and the requests in flight carry, well-formed rows.
TypeOK ==
    /\ entries \in [Ids -> Entry]
    /\ tickets \subseteq Creds
    /\ revocation \subseteq Row
    /\ archive \subseteq Row
    /\ holder_index \subseteq Creds \X Ids
    /\ rpc \in [Workers -> Request]
    /\ acked \subseteq Ids \X Histories
    /\ faultCount \in 0 .. MaxFaults
    /\ unindexed \subseteq Ids \X Histories
    /\ unrevoked \subseteq Ids

Init ==
    /\ entries = [id \in Ids |-> NoEntry]
    /\ tickets = {}
    /\ revocation = {}
    /\ archive = {}
    /\ holder_index = {}
    /\ rpc = [w \in Workers |-> Idle]
    /\ acked = {}
    /\ faultCount = 0
    /\ unindexed = {} /\ unrevoked = {}

Keys(table) == {row.id : row \in table}

Goto(w, request) == rpc' = [rpc EXCEPT ![w] = request]

Reply(w) == Goto(w, Idle)

Ack(id, cand) == acked' = acked \cup {<<id, cand>>}
-----------------------------------------------------------------------------
(***************************************************************************)
(* update_impl.  The first step reads the entry and walks the decision     *)
(* tree on that copy; the later steps write.                               *)
(***************************************************************************)
\* No row for this id: create one.
UpdateNew(w, id, cand) ==
    /\ rpc[w] = Idle
    /\ entries[id] = NoEntry
    /\ Goto(w, [pc |-> "create", id |-> id, cand |-> cand])
    /\ UNCHANGED <<tables, acked, faults>>

\* The history, or a longer one, is on record: nothing to write.
UpdateKnown(w, id, cand) ==
    /\ rpc[w] = Idle
    /\ token_is_known(cand, entries[id].tokens)
    /\ Ack(id, cand)
    /\ UNCHANGED <<tables, rpc, faults>>

\* Mutant: the extension is added next to the history it continues.
UpdateExtensionAppends(w, id, cand) ==
    LET e == entries[id]
    IN  /\ rpc[w] = Idle
        /\ ~ token_is_known(cand, e.tokens)
        /\ token_is_extension(cand, e.tokens) # 0
        /\ Goto(w, [pc |-> "replace", id |-> id, cand |-> cand,
                    entry |-> [e EXCEPT !.tokens = Append(@, cand)]])
        /\ UNCHANGED <<tables, acked, faults>>

\* Mutant: the extension replaces the first history.
UpdateExtensionFirst(w, id, cand) ==
    LET e == entries[id]
    IN  /\ rpc[w] = Idle
        /\ ~ token_is_known(cand, e.tokens)
        /\ token_is_extension(cand, e.tokens) # 0
        /\ Goto(w, [pc |-> "replace", id |-> id, cand |-> cand,
                    entry |-> [e EXCEPT !.tokens[1] = cand]])
        /\ UNCHANGED <<tables, acked, faults>>

\* The history continues one on record and will replace it.
UpdateExtension(w, id, cand) ==
    LET e == entries[id]
        index == token_is_extension(cand, e.tokens)
    IN  /\ rpc[w] = Idle
        /\ ~ token_is_known(cand, e.tokens)
        /\ index # 0
        /\ Goto(w, [pc |-> "replace", id |-> id, cand |-> cand,
                    entry |-> [e EXCEPT !.tokens[index] = cand]])
        /\ UNCHANGED <<tables, acked, faults>>

\* The history is the other half of a split and will be added.
UpdateSecondSplit(w, id, cand) ==
    LET e == entries[id]
    IN  /\ rpc[w] = Idle
        /\ ~ token_is_known(cand, e.tokens)
        /\ token_is_extension(cand, e.tokens) = 0
        /\ token_is_second_split(cand, e.tokens)
        /\ Goto(w, [pc |-> "replace", id |-> id, cand |-> cand,
                    entry |-> [e EXCEPT !.tokens = Append(@, cand)]])
        /\ UNCHANGED <<tables, acked, faults>>

\* Mutant: the forked history itself is not kept.
WithAbuseNoToken(e, cand, fork) ==
    [e EXCEPT !.abuses = Append(@, [token_index   |-> fork[1],
                                    history_index |-> fork[2]])]

\* The entry with the abuse and the forked history pushed.
WithAbuse(e, cand, fork) ==
    [tokens |-> Append(e.tokens, cand),
     abuses |-> Append(e.abuses, [token_index   |-> fork[1],
                                  history_index |-> fork[2]])]

\* What the request will write once a double spend is found at `fork`.  The
\* revoked group is that of the ticket that received the known transfer; the
\* TTC signature is the one its sender made.
AbuseRequest(id, cand, e, fork) ==
    LET known == e.tokens[fork[1]]
    IN  [pc |-> "lookup", id |-> id, cand |-> cand,
         entry |-> WithAbuse(e, cand, fork),
         row |-> [id    |-> id,
                  group |-> known[fork[2]].to,
                  ttc   |-> Signer(id, known, fork[2])]]

\* The branch of the decision tree that is left: a double spend.
IsDoubleSpend(cand, e) ==
    /\ e # NoEntry
    /\ ~ token_is_known(cand, e.tokens)
    /\ token_is_extension(cand, e.tokens) = 0
    /\ ~ token_is_second_split(cand, e.tokens)

\* The `expect` of a fork panics when there is none; the request is lost.
UpdateFork(w, id, cand) ==
    LET e == entries[id]
    IN  /\ rpc[w] = Idle
        /\ IsDoubleSpend(cand, e)
        /\ Departed(cand, e.tokens) # {}
        /\ Goto(w, AbuseRequest(id, cand, e, token_get_fork(cand, e.tokens)))
        /\ UNCHANGED <<tables, acked, faults>>

\* INSERT INTO tokens: fails when another request created the row meanwhile.
CreateEntry(w) ==
    /\ rpc[w].pc = "create"
    /\ LET id == rpc[w].id
       IN  \/ /\ entries[id] = NoEntry
              /\ entries' = [entries EXCEPT ![id] =
                                [tokens |-> <<rpc[w].cand>>, abuses |-> <<>>]]
              /\ Goto(w, [rpc[w] EXCEPT !.pc = "index"])
           \/ /\ entries[id] # NoEntry
              /\ Reply(w)
              /\ UNCHANGED entries
    /\ UNCHANGED <<tickets, revocation, archive, holder_index, acked, faults>>

\* Mutant: the reply is sent without writing the holder index.
ReplaceEntryNoIndex(w) ==
    /\ rpc[w].pc = "replace"
    /\ entries' = [entries EXCEPT ![rpc[w].id] = rpc[w].entry]
    /\ Ack(rpc[w].id, rpc[w].cand)
    /\ Reply(w)
    /\ UNCHANGED <<tickets, revocation, archive, holder_index, faults>>

\* UPDATE tokens: the whole row is overwritten with the copy made earlier.
ReplaceEntry(w) ==
    /\ rpc[w].pc = "replace"
    /\ entries' = [entries EXCEPT ![rpc[w].id] = rpc[w].entry]
    /\ Goto(w, [pc |-> "index", id |-> rpc[w].id, cand |-> rpc[w].cand])
    /\ UNCHANGED <<tickets, revocation, archive, holder_index, acked, faults>>

\* Mutant: the two columns are swapped.
UpdateHolderIndexSwapped(w) ==
    /\ rpc[w].pc = "index"
    /\ LET id == rpc[w].id
       IN  /\ holder_index' =
                  holder_index \cup {<<id, Holder(id, rpc[w].cand)>>}
           /\ Ack(id, rpc[w].cand)
    /\ Reply(w)
    /\ UNCHANGED <<entries, tickets, revocation, archive, faults>>

\* INSERT OR REPLACE INTO holder_index, then the reply.
UpdateHolderIndex(w) ==
    /\ rpc[w].pc = "index"
    /\ LET id == rpc[w].id
       IN  /\ holder_index' =
                  holder_index \cup {<<Holder(id, rpc[w].cand), id>>}
           /\ Ack(id, rpc[w].cand)
    /\ Reply(w)
    /\ UNCHANGED <<entries, tickets, revocation, archive, faults>>

\* get_ticket_signature: an unknown ticket fails the request, and a base
\* without ValidUntil panics in `token_expiry.unwrap()`.
GetTicketSignature(w) ==
    /\ rpc[w].pc = "lookup"
    /\ LET found == rpc[w].row.group \in tickets /\ rpc[w].id \in Dated
       IN  \/ found /\ Goto(w, [rpc[w] EXCEPT !.pc = "abuse"])
           \/ ~ found /\ Reply(w)
    /\ UNCHANGED <<tables, acked, faults>>

\* UPDATE tokens with the abuse and the forked history.
RecordAbuse(w) ==
    /\ rpc[w].pc = "abuse"
    /\ entries' = [entries EXCEPT ![rpc[w].id] = rpc[w].entry]
    /\ Goto(w, [pc |-> "revoke", id |-> rpc[w].id, cand |-> rpc[w].cand,
                row |-> rpc[w].row])
    /\ UNCHANGED <<tickets, revocation, archive, holder_index, acked, faults>>

\* Mutant: an UPDATE where the row has to be inserted.
UpdateRevocation(w) ==
    /\ rpc[w].pc = "revoke"
    /\ revocation' = {row \in revocation : row.id # rpc[w].id}
                       \cup {row \in {rpc[w].row} : row.id \in Keys(revocation)}
    /\ Ack(rpc[w].id, rpc[w].cand)
    /\ Reply(w)
    /\ UNCHANGED <<entries, tickets, archive, holder_index, faults>>

\* INSERT INTO revocation: fails when the id has a row from an earlier abuse.
InsertRevocation(w) ==
    /\ rpc[w].pc = "revoke"
    /\ \/ /\ rpc[w].id \notin Keys(revocation)
          /\ revocation' = revocation \cup {rpc[w].row}
          /\ Ack(rpc[w].id, rpc[w].cand)
       \/ /\ rpc[w].id \in Keys(revocation)
          /\ UNCHANGED <<revocation, acked>>
    /\ Reply(w)
    /\ UNCHANGED <<entries, tickets, archive, holder_index, faults>>
-----------------------------------------------------------------------------
\* store_tickets_impl: one INSERT per ticket; the first failure ends the
\* request and keeps the rows before it.
StoreTickets(w, batch) ==
    /\ rpc[w] = Idle
    /\ Goto(w, [pc |-> "store", batch |-> batch])
    /\ UNCHANGED <<tables, acked, faults>>

InsertSignedTicket(w) ==
    /\ rpc[w].pc = "store"
    /\ LET batch == rpc[w].batch
           fails == Head(batch) \in tickets
       IN  /\ tickets' = tickets \cup {Head(batch)}
           /\ IF fails \/ Tail(batch) = <<>>
              THEN Reply(w)
              ELSE Goto(w, [pc |-> "store", batch |-> Tail(batch)])
    /\ UNCHANGED <<entries, revocation, archive, holder_index, acked, faults>>

\* archive_impl: read the revocation row, then insert it into the archive.
ArchiveRead(w, id) ==
    /\ rpc[w] = Idle
    /\ \E row \in revocation :
          row.id = id /\ Goto(w, [pc |-> "archive", row |-> row])
    /\ UNCHANGED <<tables, acked, faults>>

ArchiveInsert(w) ==
    /\ rpc[w].pc = "archive"
    /\ LET row == rpc[w].row
       IN  archive' = IF row.id \in Keys(archive) THEN archive
                      ELSE archive \cup {row}
    /\ Reply(w)
    /\ UNCHANGED <<entries, tickets, revocation, holder_index, acked, faults>>

\* The requests of workers W end with the second write they were due undone.
Unwritten(W) ==
    /\ unindexed' = unindexed \cup
          {<<rpc[w].id, rpc[w].cand>> : w \in {v \in W : rpc[v].pc = "index"}}
    /\ unrevoked' = unrevoked \cup
          {rpc[w].id : w \in {v \in W : rpc[v].pc = "revoke"}}

Fault == faultCount < MaxFaults /\ faultCount' = faultCount + 1

\* A database call returns an error.  The request ends with it, except that
\* the result of update_holder_index is discarded (`let _ =`): the Update is
\* then answered as if its index row had been written.
CallFails(w) ==
    /\ rpc[w] # Idle
    /\ Fault
    /\ Unwritten({w})
    /\ IF rpc[w].pc = "index" THEN Ack(rpc[w].id, rpc[w].cand) ELSE UNCHANGED acked
    /\ Reply(w)
    /\ UNCHANGED tables

\* The server stops: requests in flight are lost, the tables are on disk.
Crash ==
    /\ Fault
    /\ rpc' = [w \in Workers |-> Idle]
    /\ Unwritten(Workers)
    /\ UNCHANGED <<tables, acked>>

\* revocation_data_impl and find_by_holder_impl only read.
RevocationDataReply == Keys(revocation)

\* The index is keyed by the hash of the ticket credential that received the
\* token, the query by the hash of whatever the caller sends as
\* `ttc_public_key`; hashes are equal when what is hashed is.
FindByHolderReply(ttc_public_key) ==
    {id \in Ids : <<ttc_public_key, id>> \in holder_index /\ entries[id] # NoEntry}

Update(w) ==
    \E id \in Ids, cand \in Histories :
        \/ UpdateNew(w, id, cand)
        \/ UpdateKnown(w, id, cand)
        \/ UpdateExtension(w, id, cand)
        \/ UpdateSecondSplit(w, id, cand)
        \/ UpdateFork(w, id, cand)

Step(w) ==
    \/ CreateEntry(w)
    \/ ReplaceEntry(w)
    \/ UpdateHolderIndex(w)
    \/ GetTicketSignature(w)
    \/ RecordAbuse(w)
    \/ InsertRevocation(w)
    \/ InsertSignedTicket(w)
    \/ ArchiveInsert(w)
    \/ CallFails(w)

Next ==
    \/ \E w \in Workers :
          \/ Update(w)
          \/ Step(w)
          \/ \E batch \in TicketBatches : StoreTickets(w, batch)
          \/ \E id \in Ids : ArchiveRead(w, id)
    \/ Crash

Spec == Init /\ [][Next]_vars

\* A handler that has started runs to its end unless the server stops.
FairSpec == Spec /\ \A w \in Workers : WF_vars(Step(w))
-----------------------------------------------------------------------------
Stored(id) == {entries[id].tokens[k] : k \in DOMAIN entries[id].tokens}

Acknowledged(id) == {h \in Histories : <<id, h>> \in acked}

\* No history of the list is a prefix of another one.
DoNotMerge(tokens) ==
    \A j, k \in DOMAIN tokens : j # k => Differences(tokens[j], tokens[k]) # {}

\* The first difference of histories s and t is at i and is no valid split.
ForksAt(s, t, i) ==
    /\ i \in Differences(s, t)
    /\ \A j \in Differences(s, t) : i <= j
    /\ ~ ValidSplit(s[i], t[i])

AbusesPointAtForks(e) ==
    \A n \in DOMAIN e.abuses :
        /\ e.abuses[n].token_index \in DOMAIN e.tokens
        /\ \E k \in DOMAIN e.tokens :
              ForksAt(e.tokens[e.abuses[n].token_index], e.tokens[k],
                      e.abuses[n].history_index)

(***************************************************************************)
(* Properties.                                                             *)
(***************************************************************************)
\* The histories of one entry never merge: none is a prefix of another, so
\* update_impl's choice of the history to replace is unambiguous, even when
\* concurrent requests overwrite each other's rows.
HistoriesDoNotMerge == \A id \in Ids : DoNotMerge(entries[id].tokens)

\* Nobody is accused falsely: the indices an Abuse recorded keep pointing at a
\* real double spend between two stored histories, whatever extensions,
\* splits and further abuses update_impl writes to the entry afterwards.
AbusePointsAtFork == \A id \in Ids : AbusesPointAtForks(entries[id])

\* The decision tree is complete: whenever a history is not known, no
\* extension and no second split, token_get_fork finds a fork, so that the
\* `expect` in update_impl never panics.
ForkAlwaysFound ==
    \A id \in Ids : \A cand \in Histories :
        IsDoubleSpend(cand, entries[id])
            => Departed(cand, entries[id].tokens) # {}

\* An abuse has its revocation row, or the request that found it is between
\* its two writes, or it was cut off there.
AbuseHasRevocation ==
    \A id \in Ids :
        entries[id].abuses # <<>> =>
            \/ id \in RevocationDataReply \cup unrevoked
            \/ \E w \in Workers : rpc[w].pc = "revoke" /\ rpc[w].id = id

\* The holder at the end of each stored history of a token without abuses is
\* found by its credential, or the request that stored the history still has
\* to write the index, or that write failed or was cut off.
HoldersIndexed ==
    \A id \in Ids :
        entries[id].abuses = <<>> =>
            \A k \in DOMAIN entries[id].tokens :
                LET h == entries[id].tokens[k]
                IN  \/ id \in FindByHolderReply(Holder(id, h))
                    \/ <<id, h>> \in unindexed
                    \/ \E w \in Workers :
                          /\ rpc[w].pc = "index"
                          /\ rpc[w].id = id /\ rpc[w].cand = h

\* The derived tables agree with the entries under every interleaving of
\* update_impl's two writes: a missing revocation or index row is one that a
\* request is about to write, or one whose own write returned an error or was
\* cut off by a crash; overwriting an entry with a stale copy never causes
\* one.  Nothing repairs such a row later, and an Update whose index row could
\* not be written is acknowledged all the same (`let _ =`), so an acknowledged
\* history is no promise of a row.  Rows of earlier holders stay.
TablesAgree == AbuseHasRevocation /\ HoldersIndexed

\* Double spends are always detected: once Update has answered all the
\* histories of a double spend without an error, the entry has an abuse.
AckedForksAreFlagged ==
    \A id \in Ids :
        Forked(Acknowledged(id)) => entries[id].abuses # <<>>

\* A detected double spend is eventually on the revocation list, unless the
\* write of its row itself returned an error or was cut off by a crash.
AbuseLeadsToRevocation ==
    \A id \in Ids :
        (entries[id].abuses # <<>>) ~> (id \in RevocationDataReply \cup unrevoked)
-----------------------------------------------------------------------------
(***************************************************************************)
(* The inductive invariant.  An entry is overwritten with a copy that a    *)
(* request made from an older one, so the copies in flight have to be as   *)
(* well-formed as the rows.                                                *)
(***************************************************************************)
GoodEntry(e) == DoNotMerge(e.tokens) /\ AbusesPointAtForks(e)

EntriesGood == \A id \in Ids : GoodEntry(entries[id])

CopiesGood ==
    \A w \in Workers :
        rpc[w].pc \in {"replace", "lookup", "abuse"} => GoodEntry(rpc[w].entry)

\* Every row and every copy held by a request in flight of update_impl is a
\* set of separate histories whose abuses point at real forks.
EntriesAndCopiesGood == EntriesGood /\ CopiesGood
-----------------------------------------------------------------------------
\* The tables seen as a registry of double spends.
Registry ==
    INSTANCE DoubleSpendRegistry WITH
        known <- [id \in Ids |-> Prefixes(Stored(id))],
        flagged <- [id \in Ids |-> entries[id].abuses # <<>>]

\* One request at a time, and without splits, the TokenMap implements the
\* registry: each write of update_impl either adds a history or adds the
\* history together with the abuse it proves, and nothing is ever lost, also
\* when the server stops between two writes.
ImplementsRegistry == Registry!RegistrySpec
=============================================================================
