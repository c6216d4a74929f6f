------------------------------- MODULE Clerk -------------------------------
(***************************************************************************)
(* Epochs and tickets: the clerk (src/src/clerk), the epoch_generate tool  *)
(* that an operator runs again and again, the wallets that learn an epoch  *)
(* from the clerk or from each other and ask for tickets, and the recovery *)
(* server, whose wallet needs both before it can serve.                    *)
(*                                                                         *)
(* The clerk starts in up to six steps and may crash between them, or in   *)
(* the middle of writing a file.  A run of the tool looks at the clerk's   *)
(* epoch, makes an update and adds it in three steps; several runs         *)
(* overlap.  A ticket request is checked against the epoch of that moment, *)
(* stored at the tokenmap and only then answered.  One epoch is one unit   *)
(* of the clock.                                                           *)
(***************************************************************************)
EXTENDS Recovery

CONSTANTS
    Wallets, Runs,  \* wallets, and concurrent runs of epoch_generate
    Groups,         \* ticket group numbers
    Policies,       \* the wallets whose NAC group has a policy, and its ticket lifetime
    Scenes,         \* the budgets of a behaviour
    None, NoFile,
    Torn,           \* a file that was emptied to be written and never was
    MaxTime, MaxKeys

ASSUME ClerkAssumption ==
    /\ NoFile \notin Nat /\ Torn \notin Nat /\ MaxKeys \in Nat
    /\ \A s \in Scenes : s.wallets \subseteq Wallets /\ s.runs \subseteq Runs
    \* a file that exists, and a clerk's state, are something else than these marks
    /\ NoFile # Torn
    /\ \A k, l \in 0 .. MaxKeys :
          [ticketKey |-> k, epochKey |-> l, eu |-> None] \notin {NoFile, Torn}

Foreign == 0    \* the epoch key of another network's authority

VARIABLES
    scene, clock,
    revoked,    \* the groups the tokenmap reports as revoked
    files,      \* the clerk's key files and epoch.state
    made,       \* keys generated
    boot,       \* the next step of a clerk that starts, 0 when it is down, 7 when it serves
    clerk,      \* its keys and its epoch update
    run,        \* each run of the tool
    wallet,     \* epoch update and tickets of each wallet
    call,       \* the ticket request of each wallet that the clerk is working on
    stored,     \* the tickets that the tokenmap has
    left,       \* what is left of the budgets
    serving     \* the recovery server is up

clerkVars == <<scene, clock, revoked, files, made, boot, clerk, run, wallet, call, stored, left, serving>>
vars == <<clerkVars, recoveryVars>>
-----------------------------------------------------------------------------
(* Epoch updates *)

\* EpochUpdate::verify
Verify(u, key) == u.sig = [by |-> key, over |-> u.data] /\ u.data.hash = u.ext

MakeUpdate(epoch, field, key, ticketKey) ==
    LET ext == [epochKeys |-> {key}, ticketKeys |-> {ticketKey}]
        data == [epoch |-> epoch, field |-> field, hash |-> ext]
    IN  [data |-> data, ext |-> ext, key |-> key, sig |-> [by |-> key, over |-> data]]

\* get_revoked_groups takes group_max, 64, for a number of bytes, and sets bit n / 8 of
\* byte n % 8; refresh_tickets reads bit n % 8 of byte n / 8.  From group 64 on the shift
\* is longer than a byte: it wraps, or panics in a build that checks it.
RevokedField(groups) == [bytes |-> 64, bits |-> {<<n % 8, (n \div 8) % 8>> : n \in groups}]
ShiftOverflows(groups) == \E n \in groups : n \div 8 > 7

\* The field of an update made without the tokenmap.
ZeroField == [bytes |-> 8, bits |-> {}]

GroupRevoked(field, n) == n \div 8 < field.bytes /\ <<n \div 8, n % 8>> \in field.bits
-----------------------------------------------------------------------------
(* The clerk *)

Up == boot = 7

\* The ticket key is made anew at every start.
TicketKeyIgnored(f) == f = "epochSk" /\ files[f] # NoFile

\* The secret key file alone decides.
KeyExists(f) == files[f] # NoFile

\* read_or_generate_key for the epoch key (steps 1 and 2) and the ticket key (3 and 4).
\* from_pkcs8_der panics on an empty file.
ReadOrGenerateKey ==
    LET f == IF boot = 1 THEN "epochSk" ELSE "ticketSk"
    IN  /\ boot \in {1, 3}
        /\ \/ /\ KeyExists(f)
              /\ boot' = IF files[f] = Torn THEN 0 ELSE boot + 2
              /\ UNCHANGED <<files, made>>
           \/ /\ ~ KeyExists(f) /\ made < MaxKeys
              /\ made' = made + 1
              /\ files' = [files EXCEPT ![f] = made + 1]
              /\ boot' = boot + 1
        /\ UNCHANGED <<scene, clock, revoked, clerk, run, wallet, call, stored, left, serving,
                       recoveryVars>>

WriteGeneratedPublicKey ==
    /\ boot \in {2, 4}
    /\ files' = IF boot = 2 THEN [files EXCEPT !.epochPk = files.epochSk]
                ELSE [files EXCEPT !.ticketPk = files.ticketSk]
    /\ boot' = boot + 1
    /\ UNCHANGED <<scene, clock, revoked, made, clerk, run, wallet, call, stored, left, serving,
                   recoveryVars>>

NewClerk == [ticketKey |-> files.ticketSk, epochKey |-> files.epochSk, eu |-> None]
Store(c) == [files EXCEPT !.state = c]

\* There is an epoch.state, and serde can read it.
StateLoads == files.state \notin {NoFile, Torn}

\* main loads epoch.state, which holds the keys and never an epoch (add_epoch stores
\* to clerk.state), or makes a clerk and stores it.
LoadOrNew ==
    /\ boot = 5
    /\ IF StateLoads
       THEN clerk' = files.state /\ boot' = 7 /\ UNCHANGED files
       ELSE clerk' = NewClerk /\ files' = Store(NewClerk) /\ boot' = 6
    /\ UNCHANGED <<scene, clock, revoked, made, run, wallet, call, stored, left, serving, recoveryVars>>

WritePublicKey ==
    /\ boot = 6
    /\ files' = [files EXCEPT !.ticketPk = clerk.ticketKey]
    /\ boot' = 7
    /\ UNCHANGED <<scene, clock, revoked, made, clerk, run, wallet, call, stored, left, serving,
                   recoveryVars>>

Start ==
    /\ boot = 0 /\ boot' = 1
    /\ UNCHANGED <<scene, clock, revoked, files, made, clerk, run, wallet, call, stored, left, serving,
                   recoveryVars>>

\* The file that the next step of a start writes.
Writing(f) ==
    \/ f = "epochSk" /\ boot = 1 /\ ~ KeyExists(f)
    \/ f = "epochPk" /\ boot = 2
    \/ f = "ticketSk" /\ boot = 3 /\ ~ KeyExists(f)
    \/ f = "ticketPk" /\ boot \in {4, 6}
    \/ f = "state" /\ boot = 5 /\ ~ StateLoads

\* What the clerk was working on is lost, and fs::write empties a file before it writes.
Crash ==
    /\ boot # 0 /\ left.crashes > 0
    /\ left' = [left EXCEPT !.crashes = @ - 1]
    /\ boot' = 0
    /\ clerk' = [clerk EXCEPT !.eu = None]
    /\ call' = [w \in Wallets |-> None]
    /\ files' \in {files} \cup {[files EXCEPT ![f] = Torn] : f \in {g \in DOMAIN files : Writing(g)}}
    /\ UNCHANGED <<scene, clock, revoked, made, run, wallet, stored, serving, recoveryVars>>

\* get_epoch: the update, if there is a newer one.
GetEpoch(known) == IF clerk.eu # None /\ known < clerk.eu.data.epoch THEN clerk.eu ELSE None

\* add_epoch: any update that verifies replaces the one in memory; its number is not
\* compared, and the file that is written afterwards is not read again.
AddEpoch(u) == clerk' = IF Verify(u, clerk.epochKey) THEN [clerk EXCEPT !.eu = u] ELSE clerk

\* ticket_lifetime_for_nac_group
TicketLifetime(w) == IF w \in DOMAIN Policies THEN Policies[w] ELSE 7

\* The checks that get_tickets and refresh_tickets share.  The NAC signature's basename
\* is the wallet's epoch, and the clerk verifies it with its own.
RequestAccepted(known) ==
    clerk.eu # None /\ known >= clerk.eu.data.epoch /\ known = clerk.eu.data.epoch

Ticket(w, g) == [owner |-> w, group |-> g, life |-> TicketLifetime(w), on |-> clerk.eu.data.epoch,
                 key |-> clerk.ticketKey]
-----------------------------------------------------------------------------
(* epoch_generate *)

IdleRun == [at |-> "idle", update |-> None]

\* An update only for a clerk that has none.
UpdateIfNone(eu) == eu = None

\* The first half of main: do_epoch_update.
DoEpochUpdate(eu) == eu # None => eu.data.epoch < clock

RunFetch(r) ==
    /\ Up /\ run[r].at = "idle" /\ DoEpochUpdate(GetEpoch(0))
    /\ run' = [run EXCEPT ![r].at = "make"]
    /\ UNCHANGED <<scene, clock, revoked, files, made, boot, clerk, wallet, call, stored, left, serving,
                   recoveryVars>>

\* make_epoch_update panics: without a key to sign with or to publish, or on the shift.
\* An empty ticket.pk is published as it is.
MakePanics(reached) ==
    \/ files.epochSk \in {NoFile, Torn} \/ files.ticketPk = NoFile
    \/ reached /\ scene.checked /\ ShiftOverflows(revoked)

\* make_epoch_update: with no revocations at all if the tokenmap cannot be reached.
RunMake(r, reached) ==
    /\ run[r].at = "make"
    /\ reached \/ left.faults > 0
    /\ run' = [run EXCEPT ![r] =
            IF MakePanics(reached) THEN IdleRun
            ELSE [at |-> "add",
                  update |-> MakeUpdate(clock, IF reached THEN RevokedField(revoked) ELSE ZeroField,
                                        files.epochSk, files.ticketPk)]]
    /\ left' = IF reached THEN left ELSE [left EXCEPT !.faults = @ - 1]
    /\ UNCHANGED <<scene, clock, revoked, files, made, boot, clerk, wallet, call, stored, serving,
                   recoveryVars>>

RunAdd(r) ==
    /\ Up /\ run[r].at = "add"
    /\ AddEpoch(run[r].update)
    /\ run' = [run EXCEPT ![r] = IdleRun]
    /\ UNCHANGED <<scene, clock, revoked, files, made, boot, wallet, call, stored, left, serving,
                   recoveryVars>>

RunAbort(r) ==
    /\ run[r].at # "idle" /\ left.faults > 0
    /\ left' = [left EXCEPT !.faults = @ - 1]
    /\ run' = [run EXCEPT ![r] = IdleRun]
    /\ UNCHANGED <<scene, clock, revoked, files, made, boot, clerk, wallet, call, stored, serving,
                   recoveryVars>>
-----------------------------------------------------------------------------
(* Wallets *)

Epoch(w) == IF wallet[w].eu = None THEN 0 ELSE wallet[w].eu.data.epoch
EpochKeys(w) == IF wallet[w].eu = None THEN {} ELSE wallet[w].eu.ext.epochKeys

\* The key is one of those known, or it is the first.
TrustedKey(w, u) == u.key \in EpochKeys(w) \/ EpochKeys(w) = {}

\* gossip_synchronize: a trusted key and a valid signature; not a newer epoch.
GossipSynchronize(w, u) == TrustedKey(w, u) /\ Verify(u, u.key)

Synchronize(w) ==
    LET u == GetEpoch(Epoch(w))
    IN  /\ Up /\ call[w] = None /\ u # None
        /\ GossipSynchronize(w, u)
        /\ wallet' = [wallet EXCEPT ![w].eu = u]
        /\ UNCHANGED <<scene, clock, revoked, files, made, boot, clerk, run, call, stored, left, serving,
                       recoveryVars>>

\* What another wallet hands on, damaged on the way or not, or another network's update.
Handed(u, damage) ==
    CASE damage = "none" -> u
      [] damage = "data" -> [u EXCEPT !.data.epoch = @ + 1]
      [] damage = "ext" -> [u EXCEPT !.ext.ticketKeys = {Foreign}]
      [] damage = "key" -> [u EXCEPT !.key = Foreign]
      [] OTHER -> MakeUpdate(u.data.epoch, ZeroField, Foreign, Foreign)

Gossip(w, v, damage) ==
    /\ call[w] = None /\ wallet[v].eu # None
    /\ LET u == Handed(wallet[v].eu, damage)
       IN  /\ GossipSynchronize(w, u) /\ wallet[w].eu # u
           /\ wallet' = [wallet EXCEPT ![w].eu = u]
    /\ UNCHANGED <<scene, clock, revoked, files, made, boot, clerk, run, call, stored, left, serving,
                   recoveryVars>>

\* get_tickets of a wallet that needs one, up to the clerk's call of the tokenmap.  The
\* wallet takes any group that its epoch's field has a bit for.
GetTickets(w, g) ==
    /\ Up /\ call[w] = None /\ wallet[w].tickets = {} /\ RequestAccepted(Epoch(w))
    /\ g < 8 * wallet[w].eu.data.field.bytes
    /\ call' = [call EXCEPT ![w] = [old |-> {}, ticket |-> Ticket(w, g)]]
    /\ UNCHANGED <<scene, clock, revoked, files, made, boot, clerk, run, wallet, stored, left, serving,
                   recoveryVars>>

\* refresh_tickets: the clerk's own signature, a group that is not revoked, and a ticket
\* for the same credential and group.
RefreshTickets(w, t) ==
    /\ Up /\ call[w] = None /\ RequestAccepted(Epoch(w))
    /\ t.key = clerk.ticketKey /\ ~ GroupRevoked(clerk.eu.data.field, t.group)
    /\ t.on # clerk.eu.data.epoch
    /\ call' = [call EXCEPT ![w] = [old |-> {t}, ticket |-> Ticket(t.owner, t.group)]]
    /\ UNCHANGED <<scene, clock, revoked, files, made, boot, clerk, run, wallet, stored, left, serving,
                   recoveryVars>>

\* "Do not issue tickets if we can't store them."
IssueIfStored(outcome) == outcome = "stored"

\* update_ticket_store and the reply.  The tokenmap may have stored the tickets although
\* the clerk was told nothing, and the reply to the wallet may be lost; a wallet
\* takes only tickets signed with a key of its epoch update.
StoreAndReply(w, outcome) ==
    LET c == call[w]
        taken == IssueIfStored(outcome) /\ c.ticket.key \in wallet[w].eu.ext.ticketKeys
    IN  /\ call[w] # None
        /\ outcome = "stored" \/ left.faults > 0
        /\ left' = IF outcome = "stored" THEN left ELSE [left EXCEPT !.faults = @ - 1]
        /\ stored' = IF outcome = "refused" THEN stored ELSE stored \cup {c.ticket}
        /\ wallet' = IF taken THEN [wallet EXCEPT ![w].tickets = (@ \ c.old) \cup {c.ticket}]
                     ELSE wallet
        /\ call' = [call EXCEPT ![w] = None]
        /\ UNCHANGED <<scene, clock, revoked, files, made, boot, clerk, run, serving, recoveryVars>>
-----------------------------------------------------------------------------
Tick ==
    /\ clock < scene.time /\ clock' = clock + 1
    /\ UNCHANGED <<scene, revoked, files, made, boot, clerk, run, wallet, call, stored, left, serving,
                   recoveryVars>>

\* The tokenmap reports a group as revoked until the tickets of it have expired; a ticket
\* lives for 3 epochs and more, which is longer than a behaviour here.
RevokeGroup(g) ==
    /\ Cardinality(revoked) < scene.revocations
    /\ revoked' = revoked \cup {g}
    /\ UNCHANGED <<scene, clock, files, made, boot, clerk, run, wallet, call, stored, left, serving,
                   recoveryVars>>

\* The recovery server's own wallet is synchronized and asks for tickets, or new panics.
RecoveryStart ==
    /\ scene.recovery /\ ~ serving /\ Up /\ clerk.eu # None
    /\ clerk.ticketKey \in clerk.eu.ext.ticketKeys
    /\ serving' = TRUE
    /\ UNCHANGED <<scene, clock, revoked, files, made, boot, clerk, run, wallet, call, stored, left,
                   recoveryVars>>

\* The table is kept in its file.
RecoveryCrash ==
    /\ serving /\ left.crashes > 0
    /\ serving' = FALSE /\ left' = [left EXCEPT !.crashes = @ - 1]
    /\ UNCHANGED <<scene, clock, revoked, files, made, boot, clerk, run, wallet, call, stored,
                   recoveryVars>>

\* The wallet's side of the three calls about bindings, and the delegate's.
RegisterRecoveryBinding ==
    /\ serving
    /\ \E d \in Devices, o \in Owners, g \in Delegates, b \in BOOLEAN : RegisterBinding(d, o, g, b)
    /\ UNCHANGED clerkVars

ChangeRecoveryBinding ==
    /\ serving
    /\ \E d \in Devices, id \in Ids : \/ RefreshBinding(d, id)
                                      \/ \E b \in BOOLEAN : RevokeBinding(d, id, b)
                                      \/ \E e \in Devices : CopyId(d, e, id)
    /\ UNCHANGED clerkVars

Recover == serving /\ (\E o \in Owners : InitiateRecovery(o)) /\ UNCHANGED clerkVars

NoFiles == [epochSk |-> NoFile, epochPk |-> NoFile, ticketSk |-> NoFile, ticketPk |-> NoFile,
            state |-> NoFile]

\* A clerk that has never been started.
Init ==
    /\ scene \in Scenes
    /\ clock = 1 /\ revoked = {} /\ files = NoFiles /\ made = 0 /\ boot = 0
    /\ clerk = [ticketKey |-> 0, epochKey |-> 0, eu |-> None]
    /\ run = [r \in Runs |-> IdleRun]
    /\ wallet = [w \in Wallets |-> [eu |-> None, tickets |-> {}]]
    /\ call = [w \in Wallets |-> None]
    /\ stored = {} /\ serving = FALSE
    /\ left = [crashes |-> scene.crashes, faults |-> scene.faults]
    /\ RecoveryInit

\* Nothing is left to do within the bounds.
Rest == UNCHANGED vars

BootNext == Start \/ ReadOrGenerateKey \/ WriteGeneratedPublicKey \/ LoadOrNew \/ WritePublicKey

Next ==
    \/ BootNext \/ Crash \/ Tick \/ Rest
    \/ RecoveryStart \/ RecoveryCrash
    \/ RegisterRecoveryBinding \/ ChangeRecoveryBinding \/ Recover
    \/ \E g \in scene.groups : RevokeGroup(g)
    \/ \E r \in scene.runs : RunFetch(r) \/ (\E b \in BOOLEAN : RunMake(r, b)) \/ RunAdd(r) \/ RunAbort(r)
    \/ \E w \in scene.wallets :
        \/ Synchronize(w)
        \/ \E v \in scene.wallets, damage \in scene.damages : Gossip(w, v, damage)
        \/ \E g \in scene.groups : GetTickets(w, g)
        \/ \E t \in wallet[w].tickets : RefreshTickets(w, t)
        \/ \E outcome \in {"stored", "refused", "unconfirmed", "lost"} : StoreAndReply(w, outcome)

\* Somebody starts the clerk again and runs the tool again and again; a wallet without a
\* ticket keeps on synchronizing and asking.
Spec ==
    /\ Init /\ [][Next]_vars
    /\ WF_vars(BootNext)
    /\ \A r \in Runs : WF_vars(r \in scene.runs /\ RunFetch(r)) /\ WF_vars(RunMake(r, TRUE)) /\ WF_vars(RunAdd(r))
    /\ \A w \in Wallets : /\ SF_vars(w \in scene.wallets /\ Synchronize(w))
                          /\ SF_vars(w \in scene.wallets /\ \E g \in scene.groups : GetTickets(w, g))
                          /\ WF_vars(w \in scene.wallets /\ StoreAndReply(w, "stored"))
-----------------------------------------------------------------------------
TypeOK ==
    /\ scene \in Scenes /\ clock \in 1 .. MaxTime /\ revoked \subseteq Groups
    /\ made \in 0 .. MaxKeys /\ boot \in 0 .. 7 /\ serving \in BOOLEAN
    /\ \A f \in {"epochSk", "epochPk", "ticketSk", "ticketPk"} :
          files[f] \in {NoFile, Torn} \cup 1 .. MaxKeys
    /\ Up => clerk.ticketKey \in 1 .. MaxKeys /\ clerk.epochKey \in 1 .. MaxKeys
    /\ \A r \in Runs : run[r].at \in {"idle", "make", "add"} /\ (run[r].at = "add") = (run[r].update # None)
    /\ \A w \in Wallets : wallet[w].tickets \subseteq
            [owner : Wallets, group : Groups, life : Nat, on : 1 .. MaxTime, key : 1 .. MaxKeys]
    /\ left.crashes \in Nat /\ left.faults \in Nat
    /\ RecoveryTypeOK

(* A ticket that a wallet holds is always known to the tokenmap, which is  *)
(* what links it to a NAC when it is abused ("Do not issue tickets if we   *)
(* can't store them"), whatever calls and replies were lost and wherever   *)
(* the clerk crashed.                                                      *)
HeldTicketsAreStored == \A w \in Wallets : wallet[w].tickets \subseteq stored

(* A ticket that one wallet holds verifies with the ticket keys of every   *)
(* other wallet of the network, and the clerk goes on signing with that    *)
(* key, however often it crashed while it started and however the wallets  *)
(* learned their epochs.                                                   *)
HeldTicketsVerify ==
    \A w, v \in Wallets : \A t \in wallet[w].tickets :
        /\ wallet[v].eu # None /\ Foreign \notin EpochKeys(v) => t.key \in wallet[v].eu.ext.ticketKeys
        /\ Up => clerk.ticketKey = t.key

(* A ticket that was handed out is as good as any: stored, and verified by *)
(* everybody.                                                              *)
HeldTicketsAreGood == HeldTicketsAreStored /\ HeldTicketsVerify

\* A clerk that was killed while it wrote a secret key panics at every later start.  One
\* that stored its state and was killed before or while it wrote ticket.pk after that
\* never writes it again: no run of the tool can publish its key.
KeyLost == Torn \in {files.epochSk, files.ticketSk}
KeyNeverPublished == StateLoads /\ files.ticketPk \in {NoFile, Torn}

\* A run of the tool panics for as long as this group is revoked.
NoMoreEpochs == scene.checked /\ ShiftOverflows(revoked)

(* Every wallet that first trusted this network's authority gets a ticket  *)
(* in the end, although updates of overlapping runs of the tool may put    *)
(* the clerk's epoch back and a restarted clerk has none.  The exceptions  *)
(* are failures of the code that nothing repairs: a clerk whose first      *)
(* start was killed inside one of its file writes, or between storing its  *)
(* state and publishing its ticket key, and in a build with overflow       *)
(* checks a revoked group that the field has no bit for.                   *)
EventuallyServed ==
    \A w \in Wallets :
        <>[](w \in scene.wallets => \/ wallet[w].tickets # {} \/ Foreign \in EpochKeys(w)
                                   \/ KeyLost \/ KeyNeverPublished \/ NoMoreEpochs)
=============================================================================
