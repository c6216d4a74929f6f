---------------------------- MODULE ClerkProofs ----------------------------
(***************************************************************************)
(* Theorems about tickets and recovery bindings, for every number of       *)
(* wallets, overlapping runs of the tool, crashes, faults and bindings.    *)
(***************************************************************************)
EXTENDS Clerk, FiniteSetTheorems, WellFoundedInduction, TLAPS

(***************************************************************************)
(* Recovery bindings.                                                      *)
(***************************************************************************)
Binding == [owner : Owners, delegate : Delegates, until : 0 .. 1, state : States]

BindingsInv ==
    /\ bindings \in Seq(Binding) /\ acked \subseteq Ids
    /\ \A i, j \in Ids :
          bindings[i].owner = bindings[j].owner
             /\ bindings[i].state = "active" /\ bindings[j].state = "active" => i = j
    /\ AckedRevocationHolds
    /\ claim.active <=> claim.result = "ok"

\* A set of naturals that is not empty has a least element.
LEMMA LeastId ==
    ASSUME NEW S \in SUBSET Nat, S # {}
    PROVE  \E n \in S : \A m \in S : n <= m
<1> DEFINE R == {ss \in Nat \X Nat : ss[1] < ss[2]}
<1>1. IsWellFoundedOn(R, Nat)
  BY NatLessThanWellFounded DEF OpToRel
<1> HIDE DEF R
<1>2. PICK n \in S : \A m \in S : <<m, n>> \notin R
  BY <1>1, WFMin
<1>3. ASSUME NEW m \in S PROVE n <= m
  <2>1. m \in Nat /\ n \in Nat /\ <<m, n>> \notin R
    BY <1>2
  <2>2. ~ (m < n)
    BY <2>1 DEF R
  <2>3. QED
    BY <2>1, <2>2
<1>4. QED
  BY <1>3

\* The row that the query finds belongs to the owner, and is active if one is.
LEMMA FoundRowIsActive ==
    ASSUME BindingsInv, NEW o, NEW k \in Ids, bindings[k].owner = o
    PROVE  /\ FoundRow(o) \in Ids /\ bindings[FoundRow(o)].owner = o
           /\ bindings[FoundRow(o)].state = "active" <=> ActiveOf(o) # {}
<1> DEFINE rows == {i \in Ids : bindings[i].owner = o}
           rank(i) == IF bindings[i].state = "active" THEN 0 ELSE 1
           Best(i) == \A j \in rows : rank(i) < rank(j) \/ (rank(i) = rank(j) /\ i <= j)
<1>1. \A i \in rows : i \in Nat /\ rank(i) \in {0, 1}
  BY DEF Ids
<1>2. ActiveOf(o) = {i \in rows : rank(i) = 0}
  BY DEF ActiveOf
<1>3. \E i \in rows : Best(i)
  <2>1. CASE ActiveOf(o) # {}
    <3>1. PICK n \in ActiveOf(o) : \A m \in ActiveOf(o) : n <= m
      BY <1>1, <1>2, <2>1, LeastId
    <3>2. Best(n)
      BY <1>1, <1>2, <3>1
    <3>3. QED
      BY <1>2, <3>1, <3>2
  <2>2. CASE ActiveOf(o) = {}
    <3>1. PICK n \in rows : \A m \in rows : n <= m
      <4>1. rows # {} /\ rows \subseteq Nat
        BY <1>1
      <4>2. QED
        BY <4>1, LeastId
    <3>2. Best(n)
      BY <1>1, <1>2, <2>2, <3>1
    <3>3. QED
      BY <3>1, <3>2
  <2>3. QED
    BY <2>1, <2>2
<1>4. FoundRow(o) = CHOOSE i \in rows : Best(i)
  BY DEF FoundRow
<1>5. FoundRow(o) \in rows /\ Best(FoundRow(o))
  <2> HIDE DEF rows, Best
  <2> QED BY <1>3, <1>4
<1>6. rank(FoundRow(o)) = 0 <=> ActiveOf(o) # {}
  <2>1. ASSUME NEW i \in rows, Best(i) PROVE rank(i) = 0 <=> ActiveOf(o) # {}
    BY <1>1, <1>2, <2>1
  <2> HIDE DEF rows, rank, Best
  <2>2. QED
    BY <1>5, <2>1
<1>7. QED
  BY <1>5, <1>6

\* A claim goes through if and only if there is an active binding, and so is the status.
LEMMA ActiveIsClaimed ==
    ASSUME BindingsInv, NEW o
    PROVE  /\ RecoverTokens(o) = "ok" <=> ActiveOf(o) # {}
           /\ GetBindingStatus(o) = "active" <=> ActiveOf(o) # {}
<1>1. CASE \E i \in Ids : bindings[i].owner = o
  <2>1. /\ FoundRow(o) \in Ids
        /\ bindings[FoundRow(o)].state = "active" <=> ActiveOf(o) # {}
    BY <1>1, FoundRowIsActive
  <2>2. bindings[FoundRow(o)].state \in States
    <3>1. bindings[FoundRow(o)] \in Binding
      BY <2>1 DEF BindingsInv, Ids
    <3>2. QED
      BY <3>1 DEF Binding
  <2>3. RecoverTokens(o) = "ok" <=> bindings[FoundRow(o)].state = "active"
    BY <1>1, <2>2 DEF RecoverTokens, States
  <2>4. GetBindingStatus(o) = bindings[FoundRow(o)].state
    BY <1>1 DEF GetBindingStatus
  <2>5. QED
    BY <2>1, <2>3, <2>4
<1>2. CASE ~ \E i \in Ids : bindings[i].owner = o
  BY <1>2 DEF RecoverTokens, GetBindingStatus, ActiveOf
<1>3. QED
  BY <1>1, <1>2

LEMMA BindingsInvImplies == BindingsInv => BindingsHold
<1> SUFFICES ASSUME BindingsInv PROVE BindingsHold
  OBVIOUS
<1>1. ASSUME NEW o \in Owners PROVE Cardinality(ActiveOf(o)) <= 1
  <2>1. CASE ActiveOf(o) = {}
    BY <2>1, FS_EmptySet
  <2>2. ASSUME NEW i \in ActiveOf(o) PROVE Cardinality(ActiveOf(o)) <= 1
    <3>1. ActiveOf(o) = {i}
      BY <2>2 DEF ActiveOf, BindingsInv
    <3>2. Cardinality({i}) = 1
      BY FS_Singleton
    <3>3. QED
      BY <3>1, <3>2
  <2>3. QED
    BY <2>1, <2>2
<1>2. ActiveBindingClaimable
  <2>1. \A o \in Owners : (GetBindingStatus(o) = "active") = (ActiveOf(o) # {})
    BY ActiveIsClaimed
  <2>2. QED
    BY <2>1 DEF ActiveBindingClaimable, BindingsInv
<1>3. QED
  BY <1>1, <1>2 DEF BindingsHold, OneActiveBinding, BindingsInv

\* A row whose owner and state stay, or that stops being active, keeps the invariant.
LEMMA ChangeKeeps ==
    ASSUME BindingsInv, NEW id \in Ids, NEW b \in Binding, b.owner = bindings[id].owner,
           bindings[id].state = "active", bindings' = [bindings EXCEPT ![id] = b],
           claim' = claim, acked' \subseteq acked \cup {id},
           b.state = "active" => acked' = acked
    PROVE  BindingsInv'
<1>1. bindings \in Seq(Binding) /\ Ids = 1 .. Len(bindings)
  BY DEF BindingsInv, Ids
<1>2. bindings' \in Seq(Binding) /\ Ids' = Ids
  BY <1>1 DEF Ids
<1>3. \A i \in Ids : bindings'[i] = IF i = id THEN b ELSE bindings[i]
  BY <1>1
<1>4. ASSUME NEW i \in Ids, NEW j \in Ids, bindings'[i].owner = bindings'[j].owner,
             bindings'[i].state = "active", bindings'[j].state = "active"
      PROVE  i = j
  BY <1>3, <1>4 DEF BindingsInv
<1>5. acked' \subseteq Ids /\ \A i \in acked' : bindings'[i].state # "active"
  BY <1>3 DEF BindingsInv, AckedRevocationHolds
<1>6. QED
  BY <1>2, <1>4, <1>5 DEF BindingsInv, AckedRevocationHolds

LEMMA RecoveryKeeps ==
    ASSUME BindingsInv,
           \/ \E d \in Devices, o \in Owners, g \in Delegates, b \in BOOLEAN :
                 RegisterBinding(d, o, g, b)
           \/ \E d \in Devices, id \in Ids :
                 \/ RefreshBinding(d, id) \/ \E b \in BOOLEAN : RevokeBinding(d, id, b)
                 \/ \E e \in Devices : CopyId(d, e, id)
           \/ \E o \in Owners : InitiateRecovery(o)
    PROVE  BindingsInv'
<1>1. bindings \in Seq(Binding) /\ Ids = 1 .. Len(bindings) /\ Len(bindings) \in Nat
  BY DEF BindingsInv, Ids
<1>2. ASSUME NEW d \in Devices, NEW o \in Owners, NEW g \in Delegates, NEW b \in BOOLEAN,
             RegisterBinding(d, o, g, b)
      PROVE  BindingsInv'
  <2> DEFINE new == [owner |-> o, delegate |-> g, until |-> 0, state |-> "active"]
             n == Len(bindings) + 1
  <2>1. new \in Binding /\ bindings' = Append(bindings, new) /\ new.owner = o
    BY <1>2 DEF RegisterBinding, Binding, States
  <2> HIDE DEF new
  <2>2. bindings' \in Seq(Binding) /\ Ids' = 1 .. n /\ n \in Nat
    BY <1>1, <2>1 DEF Ids
  <2>3. bindings'[n] = new /\ \A i \in Ids : bindings'[i] = bindings[i]
    BY <1>1, <2>1
  <2>4. acked' = acked /\ claim' = claim /\ n \notin Ids /\ \A i \in Ids' : i \in Ids \/ i = n
    BY <1>1, <1>2, <2>2 DEF RegisterBinding
  <2>5. \A i \in Ids : ~ (bindings[i].owner = o /\ bindings[i].state = "active")
    BY <1>2 DEF RegisterBinding, NoActiveBinding, ActiveOf
  <2> HIDE DEF n
  <2>6. ASSUME NEW i \in Ids', NEW j \in Ids', bindings'[i].owner = bindings'[j].owner,
               bindings'[i].state = "active", bindings'[j].state = "active"
        PROVE  i = j
    <3>1. CASE i \in Ids /\ j \in Ids
      BY <2>3, <2>6, <3>1 DEF BindingsInv
    <3>2. CASE i = n
      BY <2>1, <2>3, <2>4, <2>5, <2>6, <3>2
    <3>3. CASE j = n
      BY <2>1, <2>3, <2>4, <2>5, <2>6, <3>3
    <3>4. QED
      BY <2>4, <3>1, <3>2, <3>3
  <2>7. acked' \subseteq Ids' /\ \A i \in acked' : bindings'[i].state # "active"
    <3>1. Ids \subseteq Ids'
      BY <1>1, <2>2 DEF n
    <3>2. QED
      BY <2>3, <2>4, <3>1 DEF BindingsInv, AckedRevocationHolds
  <2>8. QED
    <3>1. claim'.active <=> claim'.result = "ok"
      BY <2>4 DEF BindingsInv
    <3>2. QED
      BY <2>2, <2>6, <2>7, <3>1 DEF BindingsInv, AckedRevocationHolds
<1>3. ASSUME NEW d \in Devices, NEW id \in Ids, RefreshBinding(d, id)
      PROVE  BindingsInv'
  <2> DEFINE b == [bindings[id] EXCEPT !.until = 1]
  <2>1. bindings[id] \in Binding
    BY <1>1
  <2>2. b \in Binding /\ b.owner = bindings[id].owner /\ b.state = bindings[id].state
    BY <2>1 DEF Binding
  <2>3. bindings' = [bindings EXCEPT ![id] = b] /\ claim' = claim /\ acked' = acked
        /\ bindings[id].state = "active"
    BY <1>3 DEF RefreshBinding
  <2> HIDE DEF b
  <2>4. QED
    BY <2>2, <2>3, ChangeKeeps
<1>4. ASSUME NEW d \in Devices, NEW id \in Ids, NEW delivered \in BOOLEAN,
             RevokeBinding(d, id, delivered)
      PROVE  BindingsInv'
  <2> DEFINE b == [bindings[id] EXCEPT !.state = "revoked"]
  <2>1. bindings[id] \in Binding /\ "revoked" \in States
    BY <1>1 DEF States
  <2>2. b \in Binding /\ b.owner = bindings[id].owner /\ b.state = "revoked"
    BY <2>1 DEF Binding
  <2>3. bindings' = [bindings EXCEPT ![id] = b] /\ claim' = claim
        /\ acked' \subseteq acked \cup {id} /\ bindings[id].state = "active"
    BY <1>4 DEF RevokeBinding
  <2> HIDE DEF b
  <2>4. QED
    BY <2>2, <2>3, ChangeKeeps
<1>5. ASSUME NEW d \in Devices, NEW e \in Devices, NEW id \in Ids, CopyId(d, e, id)
      PROVE  BindingsInv'
  BY <1>5 DEF CopyId, BindingsInv, Ids, AckedRevocationHolds
<1>6. ASSUME NEW o \in Owners, InitiateRecovery(o)
      PROVE  BindingsInv'
  <2>1. /\ claim' = [result |-> RecoverTokens(o), active |-> ActiveOf(o) # {}]
        /\ UNCHANGED <<bindings, acked>>
    BY <1>6 DEF InitiateRecovery
  <2>2. claim'.active <=> claim'.result = "ok"
    BY <2>1, ActiveIsClaimed
  <2>3. QED
    BY <2>1, <2>2 DEF BindingsInv, Ids, AckedRevocationHolds
<1>7. QED
  BY <1>2, <1>3, <1>4, <1>5, <1>6

\* Every step outside the recovery server leaves its table alone.
LEMMA BindingsKept == BindingsInv /\ [Next]_vars => BindingsInv'
<1> SUFFICES ASSUME BindingsInv, [Next]_vars PROVE BindingsInv'
  OBVIOUS
<1>1. CASE UNCHANGED recoveryVars
  BY <1>1 DEF recoveryVars, BindingsInv, Ids, AckedRevocationHolds
<1>2. CASE RegisterRecoveryBinding \/ ChangeRecoveryBinding \/ Recover
  BY <1>2, RecoveryKeeps DEF RegisterRecoveryBinding, ChangeRecoveryBinding, Recover
<1>3. CASE BootNext \/ Crash \/ Tick \/ Rest \/ RecoveryStart \/ RecoveryCrash \/ UNCHANGED vars
  BY <1>1, <1>3 DEF BootNext, Start, ReadOrGenerateKey, WriteGeneratedPublicKey, LoadOrNew,
                    WritePublicKey, Crash, Tick, Rest, RecoveryStart, RecoveryCrash, vars
<1>4. ASSUME NEW r, NEW b, RunFetch(r) \/ RunMake(r, b) \/ RunAdd(r) \/ RunAbort(r)
      PROVE  BindingsInv'
  BY <1>1, <1>4 DEF RunFetch, RunMake, RunAdd, RunAbort
<1>5. ASSUME NEW w, NEW v, NEW x, NEW t,
             \/ Synchronize(w) \/ Gossip(w, v, x) \/ GetTickets(w, x) \/ RefreshTickets(w, t)
             \/ StoreAndReply(w, x) \/ RevokeGroup(x)
      PROVE  BindingsInv'
  BY <1>1, <1>5 DEF Synchronize, Gossip, GetTickets, RefreshTickets, StoreAndReply, RevokeGroup
<1>6. QED
  BY <1>2, <1>3, <1>4, <1>5 DEF Next

\* However many devices register, refresh and revoke, with whatever replies lost and
\* whatever the recovery server or the clerk lose, a wallet has at most one active
\* binding, that one can be claimed, and an acknowledged revocation is final.
THEOREM BindingsAlwaysHold == Spec => []BindingsHold
<1>1. Init => BindingsInv
  BY DEF Init, RecoveryInit, BindingsInv, Ids, AckedRevocationHolds, NoClaim
<1>2. BindingsInv /\ [Next]_vars => BindingsInv'
  BY BindingsKept
<1>3. BindingsInv => BindingsHold
  BY BindingsInvImplies
<1>4. QED
  BY <1>1, <1>2, <1>3, PTL DEF Spec
-----------------------------------------------------------------------------
(***************************************************************************)
(* Tickets.  Once a clerk has its state in a file its two keys stay, and   *)
(* once it serves its published key stays, too: every update and ticket of *)
(* the network is signed with them.  Until then there is neither.          *)
(***************************************************************************)
Good(x) == x \notin {NoFile, Torn}
HasKeys(f) == Good(f.epochSk) /\ Good(f.ticketSk)

\* An update of this network, and one of another network.
OurUpdate(u, f) ==
    /\ HasKeys(f) /\ u.data.epoch \in Nat \ {0}
    /\ u = MakeUpdate(u.data.epoch, u.data.field, f.epochSk, f.ticketPk)
AlienUpdate(u) ==
    u.data.epoch \in Nat /\ u = MakeUpdate(u.data.epoch, u.data.field, Foreign, Foreign)

OurTicket(t, f) == HasKeys(f) /\ t.key = f.ticketSk

\* A clerk that was stored or is being used has the keys of the files.
UsesKeys(c, f) == HasKeys(f) /\ c.ticketKey = f.ticketSk /\ c.epochKey = f.epochSk

FileNames == {"epochSk", "epochPk", "ticketSk", "ticketPk", "state"}

\* A clerk that can serve, or could until it stopped.
Settled == Good(files.state) /\ boot # 6

FilesInv ==
    /\ made \in 0 .. MaxKeys /\ clock \in Nat \ {0} /\ boot \in 0 .. 7
    /\ DOMAIN files = FileNames
    /\ DOMAIN clerk = {"ticketKey", "epochKey", "eu"}
    /\ \A f \in {"epochSk", "ticketSk"} : Good(files[f]) => files[f] \in 1 .. MaxKeys
    /\ Good(files.ticketPk) => HasKeys(files) /\ files.ticketPk = files.ticketSk
    /\ Good(files.state) =>
          /\ UsesKeys(files.state, files) /\ files.state.eu = None
          /\ DOMAIN files.state = {"ticketKey", "epochKey", "eu"}
    /\ boot \in {2, 3, 4} => Good(files.epochSk)
    /\ boot \in {4, 5} => HasKeys(files)
    /\ boot \in {2, 4} => ~ Good(files.state)
    /\ boot \in {6, 7} => UsesKeys(clerk, files) /\ Good(files.state)
    /\ clerk.eu # None => boot = 7 /\ OurUpdate(clerk.eu, files)

RunsInv ==
    /\ scene \in Scenes /\ DOMAIN run = Runs
    /\ \A r \in Runs : DOMAIN run[r] = {"at", "update"}
    /\ \A r \in Runs : run[r].at = "add" => OurUpdate(run[r].update, files)

WalletOK(w, c, f, st) ==
    /\ DOMAIN w = {"eu", "tickets"}
    /\ w.eu # None => OurUpdate(w.eu, f) \/ AlienUpdate(w.eu)
    /\ w.tickets \subseteq st /\ \A t \in w.tickets : OurTicket(t, f) /\ f.ticketPk = f.ticketSk
    /\ c # None => OurTicket(c.ticket, f) /\ w.eu # None

WalletsInv ==
    /\ DOMAIN wallet = Wallets /\ DOMAIN call = Wallets
    /\ \A w \in Wallets : WalletOK(wallet[w], call[w], files, stored)

\* Nobody has learned or asked anything from a clerk that never served.
Untouched ==
    /\ \A r \in Runs : run[r].at = "idle"
    /\ \A w \in Wallets : wallet[w].eu = None /\ wallet[w].tickets = {} /\ call[w] = None

TicketInv == FilesInv /\ RunsInv /\ WalletsInv /\ (Settled \/ Untouched)

\* What updates and tickets are made with.
SameKeys(f, g) == g.epochSk = f.epochSk /\ g.ticketSk = f.ticketSk /\ g.ticketPk = f.ticketPk

LEMMA GoodStaysGood ==
    ASSUME NEW f, NEW g, SameKeys(f, g)
    PROVE  /\ \A u : OurUpdate(u, f) <=> OurUpdate(u, g)
           /\ \A w, c, st : WalletOK(w, c, f, st) <=> WalletOK(w, c, g, st)
<1>1. HasKeys(f) <=> HasKeys(g)
  BY DEF SameKeys, HasKeys
<1>2. \A u : OurUpdate(u, f) <=> OurUpdate(u, g)
  BY <1>1 DEF OurUpdate, SameKeys
<1>3. \A t : OurTicket(t, f) <=> OurTicket(t, g)
  BY <1>1 DEF OurTicket, SameKeys
<1>4. \A w, c, st : WalletOK(w, c, f, st) <=> WalletOK(w, c, g, st)
  BY <1>2, <1>3 DEF WalletOK, SameKeys
<1>5. QED
  BY <1>2, <1>4

\* The fields of an update.
LEMMA UpdateFields ==
    ASSUME NEW epoch \in Nat, NEW field, NEW k, NEW tk
    PROVE  LET u == MakeUpdate(epoch, field, k, tk)
           IN  /\ u.data.epoch = epoch /\ u.data.field = field /\ u.key = k
               /\ u.ext = [epochKeys |-> {k}, ticketKeys |-> {tk}] /\ u.data.hash = u.ext
               /\ u.sig = [by |-> k, over |-> u.data]
               /\ DOMAIN u = {"data", "ext", "key", "sig"} /\ DOMAIN u.data = {"epoch", "field", "hash"}
BY DEF MakeUpdate

LEMMA MadeIsOurs ==
    ASSUME NEW epoch \in Nat \ {0}, NEW field, NEW f, HasKeys(f)
    PROVE  OurUpdate(MakeUpdate(epoch, field, f.epochSk, f.ticketPk), f)
<1> DEFINE u == MakeUpdate(epoch, field, f.epochSk, f.ticketPk)
<1>1. u.data.epoch = epoch /\ u.data.field = field
  BY DEF MakeUpdate
<1> HIDE DEF u
<1>2. u = MakeUpdate(u.data.epoch, u.data.field, f.epochSk, f.ticketPk)
  BY <1>1 DEF u
<1>3. QED
  BY <1>1, <1>2 DEF OurUpdate, u

\* An update that was damaged on its way does not verify.
LEMMA HandedOnIsGenuine ==
    ASSUME NEW k, NEW tk, NEW u, u.data.epoch \in Nat,
           u = MakeUpdate(u.data.epoch, u.data.field, k, tk), NEW damage,
           Verify(Handed(u, damage), Handed(u, damage).key)
    PROVE  Handed(u, damage) = u \/ AlienUpdate(Handed(u, damage))
<1> DEFINE h == Handed(u, damage)
<1>1. /\ u.key = k /\ u.ext = [epochKeys |-> {k}, ticketKeys |-> {tk}] /\ u.data.hash = u.ext
      /\ u.sig = [by |-> k, over |-> u.data]
      /\ DOMAIN u = {"data", "ext", "key", "sig"} /\ DOMAIN u.data = {"epoch", "field", "hash"}
  BY UpdateFields
<1>2. h.sig = [by |-> h.key, over |-> h.data] /\ h.data.hash = h.ext
  BY DEF Verify
<1>3. CASE damage = "none"
  BY <1>3 DEF Handed
<1>4. CASE damage = "data"
  <2>1. h = [u EXCEPT !.data = [u.data EXCEPT !.epoch = u.data.epoch + 1]]
    BY <1>4 DEF Handed
  <2>2. h.sig = u.sig /\ h.data.epoch = u.data.epoch + 1
    BY <1>1, <2>1
  <2>3. h.sig.over = h.data /\ u.sig.over = u.data
    BY <1>1, <1>2
  <2>4. u.data.epoch = u.data.epoch + 1
    BY <2>2, <2>3
  <2>5. QED
    BY <2>4
<1>5. CASE damage = "ext"
  <2> DEFINE x == [u.ext EXCEPT !.ticketKeys = {Foreign}]
  <2>1. h = [u EXCEPT !.ext = x]
    BY <1>5 DEF Handed
  <2> HIDE DEF x
  <2>2. h.data = u.data /\ h.ext = x
    BY <1>1, <2>1
  <2>3. x = u.ext
    BY <1>1, <1>2, <2>2
  <2>4. h = u
    <3>1. u = [data |-> u.data, ext |-> u.ext, key |-> u.key, sig |-> u.sig]
      BY DEF MakeUpdate
    <3>2. QED
      BY <2>1, <2>3, <3>1
  <2>5. QED
    BY <2>4
<1>6. CASE damage = "key"
  <2>1. h = [u EXCEPT !.key = Foreign]
    BY <1>6 DEF Handed
  <2>2. h.sig = u.sig /\ h.key = Foreign
    BY <1>1, <2>1
  <2>3. u.key = Foreign
    BY <1>1, <1>2, <2>2
  <2>4. h = u
    <3>1. u = [data |-> u.data, ext |-> u.ext, key |-> u.key, sig |-> u.sig]
      BY DEF MakeUpdate
    <3>2. QED
      BY <2>1, <2>3, <3>1
  <2>5. QED
    BY <2>4
<1>7. CASE damage \notin {"none", "data", "ext", "key"}
  <2>1. h = MakeUpdate(u.data.epoch, ZeroField, Foreign, Foreign)
    BY <1>7 DEF Handed
  <2>2. h.data.epoch = u.data.epoch /\ h.data.field = ZeroField
    BY <2>1 DEF MakeUpdate
  <2> HIDE DEF h
  <2>3. AlienUpdate(h)
    BY <2>1, <2>2 DEF AlienUpdate
  <2>4. QED
    BY <2>3 DEF h
<1>8. QED
  BY <1>3, <1>4, <1>5, <1>6, <1>7

LEMMA InitTicketInv == Init => TicketInv
<1> SUFFICES ASSUME Init PROVE TicketInv
  OBVIOUS
<1>1. FilesInv
  BY ClerkAssumption DEF Init, FilesInv, NoFiles, FileNames, Good
<1>2. RunsInv
  BY DEF Init, RunsInv, IdleRun
<1>3. WalletsInv
  BY DEF Init, WalletsInv, WalletOK
<1>4. Untouched
  BY DEF Init, Untouched, IdleRun
<1>5. QED
  BY <1>1, <1>2, <1>3, <1>4 DEF TicketInv

\* The clerk starts or stops.  Once it has served it keeps its keys and its published
\* key, and before that nobody depends on them.
LEMMA ClerkKeeps ==
    ASSUME TicketInv, FilesInv', UNCHANGED <<scene, run, wallet, stored>>,
           call' = call \/ call' = [w \in Wallets |-> None],
           Settled => Settled' /\ SameKeys(files, files')
    PROVE  TicketInv'
<1>1. CASE Settled
  <2>1. Settled' /\ SameKeys(files, files')
    BY <1>1
  <2>2. \A u : OurUpdate(u, files) <=> OurUpdate(u, files')
    BY <2>1, GoodStaysGood
  <2>3. RunsInv'
    BY <2>2 DEF TicketInv, RunsInv
  <2>4. ASSUME NEW w \in Wallets PROVE WalletOK(wallet[w], call'[w], files', stored)
    <3>1. WalletOK(wallet[w], call[w], files', stored)
      BY <2>1, GoodStaysGood DEF TicketInv, WalletsInv
    <3>2. call'[w] = call[w] \/ call'[w] = None
      OBVIOUS
    <3>3. QED
      BY <3>1, <3>2 DEF WalletOK
  <2>5. WalletsInv'
    BY <2>4 DEF TicketInv, WalletsInv
  <2>6. QED
    BY <2>1, <2>3, <2>5 DEF TicketInv
<1>2. CASE ~ Settled
  <2>1. Untouched
    BY <1>2 DEF TicketInv
  <2>2. RunsInv'
    BY <2>1 DEF TicketInv, RunsInv, Untouched
  <2>3. DOMAIN call' = Wallets /\ \A w \in Wallets : call'[w] = None
    BY <2>1 DEF TicketInv, WalletsInv, Untouched
  <2>4. ASSUME NEW w \in Wallets PROVE WalletOK(wallet[w], call'[w], files', stored)
    BY <2>1, <2>3 DEF TicketInv, WalletsInv, WalletOK, Untouched
  <2>5. WalletsInv'
    BY <2>3, <2>4 DEF TicketInv, WalletsInv
  <2>6. Untouched'
    BY <2>1, <2>3 DEF Untouched
  <2>7. QED
    BY <2>2, <2>5, <2>6 DEF TicketInv
<1>3. QED
  BY <1>1, <1>2

\* A key number is no mark of a file that is missing or empty, and neither is a state.
LEMMA NumbersAreGood ==
    ASSUME FilesInv
    PROVE  /\ made < MaxKeys => Good(made + 1) /\ made + 1 \in 1 .. MaxKeys
           /\ HasKeys(files) => Good(NewClerk)
<1>1. made < MaxKeys => Good(made + 1) /\ made + 1 \in 1 .. MaxKeys
  BY ClerkAssumption DEF FilesInv, Good
<1>2. HasKeys(files) => files.ticketSk \in 0 .. MaxKeys /\ files.epochSk \in 0 .. MaxKeys
  BY ClerkAssumption DEF FilesInv, HasKeys
<1>3. HasKeys(files) => Good(NewClerk)
  BY <1>2, ClerkAssumption DEF NewClerk, Good
<1>4. QED
  BY <1>1, <1>3

LEMMA ReadOrGenerateKeeps ==
    ASSUME TicketInv, ReadOrGenerateKey
    PROVE  TicketInv'
<1> DEFINE f == IF boot = 1 THEN "epochSk" ELSE "ticketSk"
<1>1. /\ boot \in {1, 3} /\ f \in {"epochSk", "ticketSk"} /\ FilesInv
      /\ UNCHANGED <<scene, clock, clerk, run, wallet, call, stored>>
  BY DEF ReadOrGenerateKey, TicketInv
<1>2. clerk.eu = None
  BY <1>1 DEF FilesInv
<1>3. CASE files[f] # NoFile
  <2>1. boot' = (IF files[f] = Torn THEN 0 ELSE boot + 2) /\ UNCHANGED <<files, made>>
    BY <1>3 DEF ReadOrGenerateKey, KeyExists
  <2>2. FilesInv'
    BY <1>1, <1>2, <1>3, <2>1 DEF FilesInv, HasKeys, Good
  <2>3. Settled => Settled' /\ SameKeys(files, files')
    BY <1>1, <2>1 DEF Settled, SameKeys
  <2>4. QED
    BY <1>1, <2>2, <2>3, ClerkKeeps
<1>4. CASE files[f] = NoFile
  <2>1. /\ made < MaxKeys /\ made' = made + 1 /\ files' = [files EXCEPT ![f] = made + 1]
        /\ boot' = boot + 1
    BY <1>4 DEF ReadOrGenerateKey, KeyExists
  <2>2. made + 1 \in 1 .. MaxKeys /\ made + 1 \in 0 .. MaxKeys /\ Good(made + 1)
    BY <1>1, <2>1, NumbersAreGood DEF FilesInv
  <2>3. /\ DOMAIN files' = DOMAIN files /\ files'[f] = made + 1
        /\ \A g \in DOMAIN files : g # f => files'[g] = files[g]
    BY <1>1, <2>1 DEF FilesInv, FileNames
  <2>4. ~ HasKeys(files)
    BY <1>1, <1>4 DEF HasKeys, Good
  <2>5. ~ Good(files.ticketPk) /\ ~ Good(files.state)
    BY <1>1, <2>4 DEF FilesInv, UsesKeys
  <2>6. files'.ticketPk = files.ticketPk /\ files'.state = files.state /\ ~ Settled
    BY <1>1, <2>3, <2>5 DEF FilesInv, FileNames, Settled
  <2>7. CASE boot = 1
    <3>1. files'.epochSk = made + 1 /\ files'.ticketSk = files.ticketSk
      BY <1>1, <2>3, <2>7 DEF FilesInv, FileNames
    <3>2. FilesInv'
      BY <1>1, <1>2, <2>1, <2>2, <2>3, <2>5, <2>6, <2>7, <3>1 DEF FilesInv
    <3>3. QED
      BY <1>1, <2>6, <3>2, ClerkKeeps
  <2>8. CASE boot = 3
    <3>1. files'.ticketSk = made + 1 /\ files'.epochSk = files.epochSk
      BY <1>1, <2>3, <2>8 DEF FilesInv, FileNames
    <3>2. HasKeys(files')
      BY <1>1, <2>2, <2>8, <3>1 DEF FilesInv, HasKeys
    <3>3. FilesInv'
      BY <1>1, <1>2, <2>1, <2>2, <2>3, <2>5, <2>6, <2>8, <3>1, <3>2 DEF FilesInv
    <3>4. QED
      BY <1>1, <2>6, <3>3, ClerkKeeps
  <2>9. QED
    BY <1>1, <2>7, <2>8
<1>5. QED
  BY <1>3, <1>4

\* A kill may empty a key file that is about to be made, and nothing else that counts.
LEMMA CrashKeeps ==
    ASSUME TicketInv, Crash
    PROVE  TicketInv'
<1>1. /\ FilesInv /\ boot # 0 /\ boot' = 0 /\ clerk' = [clerk EXCEPT !.eu = None]
      /\ call' = [w \in Wallets |-> None]
      /\ UNCHANGED <<scene, clock, made, run, wallet, stored>>
      /\ files' = files \/ \E f \in DOMAIN files : Writing(f) /\ files' = [files EXCEPT ![f] = Torn]
  BY DEF Crash, TicketInv
<1>2. DOMAIN clerk' = DOMAIN clerk /\ clerk'.eu = None
  BY <1>1 DEF FilesInv
<1>3. CASE files' = files
  <2>1. FilesInv'
    BY <1>1, <1>2, <1>3 DEF FilesInv
  <2>2. Settled => Settled' /\ SameKeys(files, files')
    BY <1>1, <1>3 DEF Settled, SameKeys
  <2>3. QED
    BY <1>1, <2>1, <2>2, ClerkKeeps
<1>4. ASSUME NEW f \in DOMAIN files, Writing(f), files' = [files EXCEPT ![f] = Torn]
      PROVE  TicketInv'
  <2>1. /\ DOMAIN files' = DOMAIN files /\ files'[f] = Torn /\ ~ Good(files'[f])
        /\ \A g \in DOMAIN files : g # f => files'[g] = files[g]
    BY <1>1, <1>4 DEF FilesInv, FileNames, Good
  <2>2. CASE f \in {"epochSk", "ticketSk"}
    <3>1. ~ Good(files[f])
      BY <1>4, <2>2 DEF Writing, KeyExists, Good
    <3>2. ~ HasKeys(files) /\ ~ HasKeys(files')
      BY <2>1, <2>2, <3>1 DEF HasKeys
    <3>3. ~ Good(files.ticketPk) /\ ~ Good(files.state)
      BY <1>1, <3>2 DEF FilesInv, UsesKeys
    <3>4. files'.ticketPk = files.ticketPk /\ files'.state = files.state
      BY <1>1, <2>1, <2>2 DEF FilesInv, FileNames
    <3>5. \A g \in {"epochSk", "ticketSk"} : Good(files'[g]) => files'[g] \in 1 .. MaxKeys
      BY <1>1, <2>1 DEF FilesInv, FileNames
    <3>6. FilesInv'
      BY <1>1, <1>2, <2>1, <3>3, <3>4, <3>5 DEF FilesInv
    <3>7. QED
      BY <1>1, <3>3, <3>6, ClerkKeeps DEF Settled
  <2>3. CASE f = "epochPk"
    <3>1. /\ files'.ticketPk = files.ticketPk /\ files'.state = files.state
          /\ files'.epochSk = files.epochSk /\ files'.ticketSk = files.ticketSk
      BY <1>1, <2>1, <2>3 DEF FilesInv, FileNames
    <3>2. FilesInv'
      BY <1>1, <1>2, <2>1, <3>1 DEF FilesInv, HasKeys, UsesKeys
    <3>3. Settled => Settled' /\ SameKeys(files, files')
      BY <1>1, <3>1 DEF Settled, SameKeys
    <3>4. QED
      BY <1>1, <3>2, <3>3, ClerkKeeps
  <2>4. CASE f = "ticketPk"
    <3>1. boot \in {4, 6} /\ ~ Settled
      BY <1>1, <1>4, <2>4 DEF Writing, FilesInv, Settled
    <3>2. /\ ~ Good(files'.ticketPk) /\ files'.state = files.state
          /\ files'.epochSk = files.epochSk /\ files'.ticketSk = files.ticketSk
      BY <1>1, <2>1, <2>4 DEF FilesInv, FileNames
    <3>3. FilesInv'
      BY <1>1, <1>2, <2>1, <3>2 DEF FilesInv, HasKeys, UsesKeys
    <3>4. QED
      BY <1>1, <3>1, <3>3, ClerkKeeps
  <2>5. CASE f = "state"
    <3>1. ~ Settled /\ ~ Good(files'.state)
      BY <1>4, <2>1, <2>5 DEF Writing, StateLoads, Settled, Good
    <3>2. /\ files'.ticketPk = files.ticketPk
          /\ files'.epochSk = files.epochSk /\ files'.ticketSk = files.ticketSk
      BY <1>1, <2>1, <2>5 DEF FilesInv, FileNames
    <3>3. FilesInv'
      BY <1>1, <1>2, <2>1, <3>1, <3>2 DEF FilesInv, HasKeys
    <3>4. QED
      BY <1>1, <3>1, <3>3, ClerkKeeps
  <2>6. QED
    BY <1>1, <2>2, <2>3, <2>4, <2>5 DEF FilesInv, FileNames
<1>5. QED
  BY <1>1, <1>3, <1>4

LEMMA BootKeeps ==
    ASSUME TicketInv, BootNext
    PROVE  TicketInv'
<1>1. FilesInv
  BY DEF TicketInv
<1>2. CASE Start
  <2>1. boot = 0 /\ boot' = 1 /\ UNCHANGED <<scene, clock, files, made, clerk, run, wallet, call, stored>>
    BY <1>2 DEF Start
  <2>2. FilesInv' /\ (Settled => Settled' /\ SameKeys(files, files'))
    BY <1>1, <2>1 DEF FilesInv, SameKeys, Settled
  <2>3. QED
    BY <2>1, <2>2, ClerkKeeps
<1>3. CASE WriteGeneratedPublicKey
  <2>1. /\ boot \in {2, 4} /\ boot' = boot + 1
        /\ UNCHANGED <<scene, clock, made, clerk, run, wallet, call, stored>>
        /\ files' = IF boot = 2 THEN [files EXCEPT !.epochPk = files.epochSk]
                    ELSE [files EXCEPT !.ticketPk = files.ticketSk]
    BY <1>3 DEF WriteGeneratedPublicKey
  <2>2. /\ DOMAIN files' = DOMAIN files /\ files'.epochSk = files.epochSk
        /\ files'.ticketSk = files.ticketSk /\ files'.state = files.state
        /\ files'.ticketPk = IF boot = 2 THEN files.ticketPk ELSE files.ticketSk
    BY <1>1, <2>1 DEF FilesInv, FileNames
  <2>3. clerk.eu = None /\ ~ Settled
    BY <1>1, <2>1 DEF FilesInv, Settled
  <2>4. FilesInv'
    BY <1>1, <2>1, <2>2, <2>3 DEF FilesInv, HasKeys, UsesKeys
  <2>5. QED
    BY <2>1, <2>3, <2>4, ClerkKeeps
<1>4. CASE LoadOrNew
  <2>1. boot = 5 /\ HasKeys(files) /\ UNCHANGED <<scene, clock, made, run, wallet, call, stored>>
    BY <1>1, <1>4 DEF LoadOrNew, FilesInv
  <2>2. CASE Good(files.state)
    <3>1. clerk' = files.state /\ boot' = 7 /\ files' = files
      BY <1>4, <2>2 DEF LoadOrNew, StateLoads, Good
    <3>2. FilesInv' /\ (Settled => Settled' /\ SameKeys(files, files'))
      BY <1>1, <2>1, <2>2, <3>1 DEF FilesInv, SameKeys, Settled
    <3>3. QED
      BY <2>1, <3>2, ClerkKeeps
  <2>3. CASE ~ Good(files.state)
    <3>1. clerk' = NewClerk /\ files' = [files EXCEPT !.state = NewClerk] /\ boot' = 6
      BY <1>4, <2>3 DEF LoadOrNew, Store, StateLoads, Good
    <3>2. /\ NewClerk.eu = None /\ DOMAIN NewClerk = {"ticketKey", "epochKey", "eu"}
          /\ NewClerk.ticketKey = files.ticketSk /\ NewClerk.epochKey = files.epochSk
      BY DEF NewClerk
    <3>3. /\ DOMAIN files' = DOMAIN files /\ files'.epochSk = files.epochSk
          /\ files'.ticketSk = files.ticketSk /\ files'.ticketPk = files.ticketPk
          /\ files'.state = NewClerk
      BY <1>1, <3>1 DEF FilesInv, FileNames
    <3>4. UsesKeys(NewClerk, files') /\ HasKeys(files')
      BY <2>1, <3>2, <3>3 DEF UsesKeys, HasKeys
    <3>5. FilesInv'
      BY <1>1, <2>1, <3>1, <3>2, <3>3, <3>4, NumbersAreGood DEF FilesInv
    <3>6. QED
      BY <2>1, <2>3, <3>5, ClerkKeeps DEF Settled
  <2>4. QED
    BY <2>2, <2>3
<1>5. CASE WritePublicKey
  <2>1. /\ boot = 6 /\ boot' = 7 /\ files' = [files EXCEPT !.ticketPk = clerk.ticketKey]
        /\ UNCHANGED <<scene, clock, made, clerk, run, wallet, call, stored>>
    BY <1>5 DEF WritePublicKey
  <2>2. UsesKeys(clerk, files) /\ clerk.eu = None /\ Good(files.state) /\ ~ Settled
    BY <1>1, <2>1 DEF FilesInv, Settled
  <2>3. /\ DOMAIN files' = DOMAIN files /\ files'.epochSk = files.epochSk
        /\ files'.ticketSk = files.ticketSk /\ files'.state = files.state
        /\ files'.ticketPk = files.ticketSk
    BY <1>1, <2>1, <2>2 DEF FilesInv, FileNames, UsesKeys
  <2>4. FilesInv'
    BY <1>1, <2>1, <2>2, <2>3 DEF FilesInv, UsesKeys, HasKeys
  <2>5. QED
    BY <2>1, <2>2, <2>4, ClerkKeeps
<1>6. QED
  BY <1>2, <1>3, <1>4, <1>5, ReadOrGenerateKeeps DEF BootNext

\* A run of the tool signs with the clerk's keys.
LEMMA RunKeeps ==
    ASSUME TicketInv, NEW r \in Runs, NEW b \in BOOLEAN,
           RunFetch(r) \/ RunMake(r, b) \/ RunAdd(r) \/ RunAbort(r)
    PROVE  TicketInv'
<1>1. /\ FilesInv /\ RunsInv /\ WalletsInv
      /\ UNCHANGED <<scene, clock, files, made, boot, wallet, call, stored>>
  BY DEF TicketInv, RunFetch, RunMake, RunAdd, RunAbort
<1>2. WalletsInv' /\ (Settled \/ Untouched)' 
  <2>1. WalletsInv' /\ (Settled => Settled')
    BY <1>1 DEF WalletsInv, Settled
  <2>2. CASE Up \/ run[r].at # "idle"
    <3>1. Up => Settled
      BY <1>1 DEF Up, FilesInv, Settled
    <3>2. Settled
      BY <2>2, <3>1 DEF TicketInv, Untouched
    <3>3. QED
      BY <2>1, <3>2
  <2>3. QED
    BY <2>1, <2>2 DEF RunFetch, RunMake, RunAdd, RunAbort
<1>3. ASSUME NEW x, run' = [run EXCEPT ![r] = x], DOMAIN x = {"at", "update"},
             x.at = "add" => OurUpdate(x.update, files)
      PROVE  RunsInv'
  BY <1>1, <1>3 DEF RunsInv
<1>4. CASE RunFetch(r)
  <2> DEFINE x == [run[r] EXCEPT !.at = "make"]
  <2>1. run' = [run EXCEPT ![r] = x] /\ clerk' = clerk
    BY <1>4 DEF RunFetch
  <2>2. DOMAIN x = {"at", "update"} /\ x.at = "make"
    BY <1>1 DEF RunsInv
  <2> HIDE DEF x
  <2>3. RunsInv'
    BY <1>3, <2>1, <2>2
  <2>4. FilesInv'
    BY <1>1, <2>1 DEF FilesInv
  <2>5. QED
    BY <1>2, <2>3, <2>4 DEF TicketInv
<1>5. CASE RunMake(r, b)
  <2> DEFINE field == IF b THEN RevokedField(revoked) ELSE ZeroField
             u == MakeUpdate(clock, field, files.epochSk, files.ticketPk)
             x == [at |-> "add", update |-> u]
  <2>1. FilesInv'
    BY <1>1, <1>5 DEF RunMake, FilesInv
  <2>2. CASE MakePanics(b)
    <3>1. run' = [run EXCEPT ![r] = IdleRun]
      BY <1>5, <2>2 DEF RunMake
    <3>2. DOMAIN IdleRun = {"at", "update"} /\ IdleRun.at = "idle"
      BY DEF IdleRun
    <3>3. RunsInv'
      BY <1>3, <3>1, <3>2
    <3>4. QED
      BY <1>2, <2>1, <3>3 DEF TicketInv
  <2>3. CASE ~ MakePanics(b)
    <3>1. run' = [run EXCEPT ![r] = x] /\ run[r].at = "make"
      BY <1>5, <2>3 DEF RunMake
    <3>2. Settled
      BY <3>1 DEF TicketInv, Untouched
    <3>3. HasKeys(files) /\ clock \in Nat \ {0}
      BY <1>1, <3>2 DEF FilesInv, Settled, UsesKeys
    <3> HIDE DEF field
    <3>4. OurUpdate(u, files)
      BY <3>3, MadeIsOurs
    <3> HIDE DEF u
    <3>5. RunsInv'
      BY <1>3, <3>1, <3>4
    <3>6. QED
      BY <1>2, <2>1, <3>5 DEF TicketInv
  <2>4. QED
    BY <2>2, <2>3
<1>6. CASE RunAdd(r)
  <2> DEFINE u == run[r].update
  <2>1. /\ boot = 7 /\ run[r].at = "add" /\ run' = [run EXCEPT ![r] = IdleRun]
        /\ clerk' = IF Verify(u, clerk.epochKey) THEN [clerk EXCEPT !.eu = u] ELSE clerk
    BY <1>6 DEF RunAdd, AddEpoch, Up
  <2>2. OurUpdate(u, files)
    BY <1>1, <2>1 DEF RunsInv
  <2> HIDE DEF u
  <2>3. FilesInv'
    <3>1. CASE clerk' = clerk
      BY <1>1, <3>1 DEF FilesInv
    <3>2. CASE clerk' = [clerk EXCEPT !.eu = u]
      <4>1. /\ DOMAIN clerk' = DOMAIN clerk /\ clerk'.eu = u /\ clerk'.ticketKey = clerk.ticketKey
            /\ clerk'.epochKey = clerk.epochKey
        BY <1>1, <3>2 DEF FilesInv
      <4>2. UsesKeys(clerk', files)
        BY <1>1, <2>1, <4>1 DEF FilesInv, UsesKeys
      <4>3. QED
        BY <1>1, <2>1, <2>2, <4>1, <4>2 DEF FilesInv
    <3>3. QED
      BY <2>1, <3>1, <3>2
  <2>4. DOMAIN IdleRun = {"at", "update"} /\ IdleRun.at = "idle"
    BY DEF IdleRun
  <2>5. RunsInv'
    BY <1>3, <2>1, <2>4
  <2>6. QED
    BY <1>2, <2>3, <2>5 DEF TicketInv
<1>7. CASE RunAbort(r)
  <2>1. run' = [run EXCEPT ![r] = IdleRun] /\ clerk' = clerk
    BY <1>7 DEF RunAbort
  <2>2. DOMAIN IdleRun = {"at", "update"} /\ IdleRun.at = "idle"
    BY DEF IdleRun
  <2>3. RunsInv'
    BY <1>3, <2>1, <2>2
  <2>4. FilesInv'
    BY <1>1, <2>1 DEF FilesInv
  <2>5. QED
    BY <1>2, <2>3, <2>4 DEF TicketInv
<1>8. QED
  BY <1>4, <1>5, <1>6, <1>7

\* A wallet learns a genuine update, asks for a ticket, or is answered.
LEMMA WalletKeeps ==
    ASSUME TicketInv, NEW w \in Wallets, NEW v \in Wallets, NEW x, NEW t \in wallet[w].tickets \cup {None},
           \/ Synchronize(w) \/ Gossip(w, v, x) \/ GetTickets(w, x)
           \/ (t \in wallet[w].tickets /\ RefreshTickets(w, t)) \/ StoreAndReply(w, x)
    PROVE  TicketInv'
<1>1. /\ FilesInv /\ RunsInv /\ WalletsInv
      /\ UNCHANGED <<scene, clock, files, made, boot, clerk, run>>
  BY DEF TicketInv, Synchronize, Gossip, GetTickets, RefreshTickets, StoreAndReply
<1>2. FilesInv' /\ RunsInv' /\ (Settled \/ Untouched)'
  <2>1. FilesInv' /\ RunsInv' /\ (Settled => Settled')
    BY <1>1 DEF FilesInv, RunsInv, Settled
  <2>2. Up => Settled
    BY <1>1 DEF Up, FilesInv, Settled
  <2>3. Untouched => call[w] = None /\ wallet[v].eu = None
    BY DEF Untouched
  <2>4. Settled
    BY <2>2, <2>3 DEF TicketInv, Synchronize, Gossip, GetTickets, RefreshTickets, StoreAndReply
  <2>5. QED
    BY <2>1, <2>4
<1>3. /\ DOMAIN wallet = Wallets /\ DOMAIN call = Wallets
      /\ \A y \in Wallets : WalletOK(wallet[y], call[y], files, stored)
  BY <1>1 DEF WalletsInv
<1>4. ASSUME NEW n, wallet' = [wallet EXCEPT ![w] = n], UNCHANGED <<call, stored>>,
             WalletOK(n, call[w], files, stored)
      PROVE  TicketInv'
  BY <1>1, <1>2, <1>3, <1>4 DEF TicketInv, WalletsInv
<1>5. ASSUME NEW u, wallet' = [wallet EXCEPT ![w] = [wallet[w] EXCEPT !.eu = u]],
             UNCHANGED <<call, stored>>, OurUpdate(u, files) \/ AlienUpdate(u), call[w] = None
      PROVE  TicketInv'
  <2> DEFINE n == [wallet[w] EXCEPT !.eu = u]
  <2>1. DOMAIN n = {"eu", "tickets"} /\ n.eu = u /\ n.tickets = wallet[w].tickets
    BY <1>3 DEF WalletOK
  <2> HIDE DEF n
  <2>2. WalletOK(n, call[w], files, stored)
    BY <1>3, <1>5, <2>1 DEF WalletOK
  <2>3. QED
    BY <1>4, <1>5, <2>2 DEF n
<1>6. CASE Synchronize(w)
  <2> DEFINE u == GetEpoch(Epoch(w))
  <2>1. /\ u # None /\ wallet' = [wallet EXCEPT ![w] = [wallet[w] EXCEPT !.eu = u]]
        /\ UNCHANGED <<call, stored>> /\ call[w] = None
    BY <1>6 DEF Synchronize
  <2>2. u = clerk.eu
    BY <2>1 DEF GetEpoch
  <2>3. OurUpdate(u, files)
    <3> HIDE DEF u
    <3> QED BY <1>1, <2>1, <2>2 DEF FilesInv
  <2> HIDE DEF u
  <2>4. QED
    BY <1>5, <2>1, <2>3
<1>7. CASE Gossip(w, v, x)
  <2> DEFINE o == wallet[v].eu
             u == Handed(o, x)
  <2>1. /\ o # None /\ Verify(u, u.key) /\ UNCHANGED <<call, stored>> /\ call[w] = None
        /\ wallet' = [wallet EXCEPT ![w] = [wallet[w] EXCEPT !.eu = u]]
    BY <1>7 DEF Gossip, GossipSynchronize
  <2>2. OurUpdate(o, files) \/ AlienUpdate(o)
    BY <1>3, <2>1 DEF WalletOK
  <2> HIDE DEF o
  <2>3. u = o \/ AlienUpdate(u)
    BY <2>1, <2>2, HandedOnIsGenuine DEF OurUpdate, AlienUpdate
  <2> HIDE DEF u
  <2>4. QED
    BY <1>5, <2>1, <2>2, <2>3
<1>8. ASSUME NEW c, call' = [call EXCEPT ![w] = c], UNCHANGED <<wallet, stored>>,
             OurTicket(c.ticket, files), wallet[w].eu # None
      PROVE  TicketInv'
  <2>1. WalletOK(wallet[w], c, files, stored)
    BY <1>3, <1>8 DEF WalletOK
  <2>2. QED
    BY <1>1, <1>2, <1>3, <1>8, <2>1 DEF TicketInv, WalletsInv
<1>9. ASSUME boot = 7, NEW y, NEW g PROVE OurTicket(Ticket(y, g), files)
  BY <1>1, <1>9 DEF FilesInv, UsesKeys, OurTicket, Ticket
<1>9a. ASSUME boot = 7, RequestAccepted(Epoch(w)) PROVE wallet[w].eu # None
  <2>1. clerk.eu.data.epoch \in Nat \ {0} /\ Epoch(w) = clerk.eu.data.epoch
    BY <1>1, <1>9a DEF FilesInv, OurUpdate, RequestAccepted
  <2>2. QED
    BY <2>1 DEF Epoch
<1>10. CASE GetTickets(w, x)
  <2> DEFINE c == [old |-> {}, ticket |-> Ticket(w, x)]
  <2>1. /\ boot = 7 /\ call' = [call EXCEPT ![w] = c] /\ UNCHANGED <<wallet, stored>>
        /\ RequestAccepted(Epoch(w))
    BY <1>10 DEF GetTickets, Up
  <2>2. c.ticket = Ticket(w, x)
    OBVIOUS
  <2> HIDE DEF c
  <2>3. QED
    BY <1>8, <1>9, <1>9a, <2>1, <2>2
<1>11. CASE RefreshTickets(w, t)
  <2> DEFINE c == [old |-> {t}, ticket |-> Ticket(t.owner, t.group)]
  <2>1. /\ boot = 7 /\ call' = [call EXCEPT ![w] = c] /\ UNCHANGED <<wallet, stored>>
        /\ RequestAccepted(Epoch(w))
    BY <1>11 DEF RefreshTickets, Up
  <2>2. c.ticket = Ticket(t.owner, t.group)
    OBVIOUS
  <2> HIDE DEF c
  <2>3. QED
    BY <1>8, <1>9, <1>9a, <2>1, <2>2
<1>12. CASE StoreAndReply(w, x)
  <2> DEFINE c == call[w]
             n == [wallet[w] EXCEPT !.tickets = (@ \ c.old) \cup {c.ticket}]
  <2>1. /\ c # None /\ stored' = IF x = "refused" THEN stored ELSE stored \cup {c.ticket}
        /\ call' = [call EXCEPT ![w] = None]
        /\ \/ wallet' = wallet
           \/ /\ x = "stored" /\ wallet' = [wallet EXCEPT ![w] = n]
              /\ c.ticket.key \in wallet[w].eu.ext.ticketKeys
    BY <1>12 DEF StoreAndReply, IssueIfStored
  <2>2. OurTicket(c.ticket, files) /\ stored \subseteq stored'
    BY <1>3, <2>1 DEF WalletOK
  <2>3. \A y \in Wallets : WalletOK(wallet[y], call'[y], files, stored')
    BY <1>3, <2>1, <2>2 DEF WalletOK
  <2>4. CASE wallet' = wallet
    BY <1>1, <1>2, <1>3, <2>1, <2>3, <2>4 DEF TicketInv, WalletsInv
  <2>5. CASE /\ x = "stored" /\ wallet' = [wallet EXCEPT ![w] = n]
             /\ c.ticket.key \in wallet[w].eu.ext.ticketKeys
    <3>1. /\ DOMAIN n = {"eu", "tickets"} /\ n.eu = wallet[w].eu
          /\ n.tickets \subseteq wallet[w].tickets \cup {c.ticket}
      BY <1>3 DEF WalletOK
    <3>2. c.ticket \in stored'
      BY <2>1, <2>5
    <3> HIDE DEF n
    <3>5. files.ticketPk = files.ticketSk
      <4> DEFINE u == wallet[w].eu
      <4>1. OurUpdate(u, files) \/ AlienUpdate(u)
        BY <1>3, <2>1 DEF WalletOK
      <4>2. c.ticket.key = files.ticketSk /\ files.ticketSk \in 1 .. MaxKeys
        BY <1>1, <2>2 DEF OurTicket, FilesInv, HasKeys
      <4>3. c.ticket.key \in u.ext.ticketKeys
        BY <2>5
      <4> HIDE DEF u, c
      <4>4. CASE OurUpdate(u, files)
        <5>1. u.ext.ticketKeys = {files.ticketPk}
          BY <4>4 DEF OurUpdate, MakeUpdate
        <5>2. QED
          BY <4>2, <4>3, <5>1
      <4>5. CASE AlienUpdate(u)
        <5>1. u.ext.ticketKeys = {0}
          BY <4>5 DEF AlienUpdate, MakeUpdate, Foreign
        <5>2. QED
          BY <4>2, <4>3, <5>1
      <4>6. QED
        BY <4>1, <4>4, <4>5
    <3>3. WalletOK(n, call'[w], files, stored')
      <4>1. call'[w] = None
        BY <1>3, <2>1
      <4>2. n.eu # None => OurUpdate(n.eu, files) \/ AlienUpdate(n.eu)
        BY <1>3, <3>1 DEF WalletOK
      <4>3. wallet[w].tickets \subseteq stored /\ \A k \in wallet[w].tickets : OurTicket(k, files)
        BY <1>3 DEF WalletOK
      <4>4. QED
        BY <2>2, <3>1, <3>2, <3>5, <4>1, <4>2, <4>3 DEF WalletOK
    <3>4. QED
      BY <1>1, <1>2, <1>3, <2>1, <2>3, <2>5, <3>3 DEF TicketInv, WalletsInv
  <2>6. QED
    BY <2>1, <2>4, <2>5
<1>13. QED
  BY <1>6, <1>7, <1>10, <1>11, <1>12

LEMMA NextTicketInv == TicketInv /\ [Next]_vars => TicketInv'
<1> SUFFICES ASSUME TicketInv, [Next]_vars PROVE TicketInv'
  OBVIOUS
<1>1. scene.runs \subseteq Runs /\ scene.wallets \subseteq Wallets
  BY ClerkAssumption DEF TicketInv, RunsInv
<1>2. ASSUME UNCHANGED <<scene, files, made, boot, clerk, run, wallet, call, stored>>,
             clock' = clock \/ clock' = clock + 1
      PROVE  TicketInv'
  <2>1. clock' \in Nat \ {0}
    BY <1>2 DEF TicketInv, FilesInv
  <2>2. FilesInv'
    BY <1>2, <2>1 DEF TicketInv, FilesInv
  <2>3. RunsInv' /\ WalletsInv' /\ (Settled \/ Untouched)'
    BY <1>2 DEF TicketInv, RunsInv, WalletsInv, Settled, Untouched
  <2>4. QED
    BY <2>2, <2>3 DEF TicketInv
<1>3. CASE BootNext \/ Crash
  BY <1>3, BootKeeps, CrashKeeps
<1>4. CASE Tick \/ Rest \/ RecoveryStart \/ RecoveryCrash \/ UNCHANGED vars
  BY <1>2, <1>4 DEF Tick, Rest, RecoveryStart, RecoveryCrash, vars, clerkVars
<1>5. CASE RegisterRecoveryBinding \/ ChangeRecoveryBinding \/ Recover
  BY <1>2, <1>5 DEF RegisterRecoveryBinding, ChangeRecoveryBinding, Recover, clerkVars
<1>6. ASSUME NEW g, RevokeGroup(g)
      PROVE  TicketInv'
  BY <1>2, <1>6 DEF RevokeGroup
<1>7. ASSUME NEW r \in scene.runs, NEW b \in BOOLEAN,
             RunFetch(r) \/ RunMake(r, b) \/ RunAdd(r) \/ RunAbort(r)
      PROVE  TicketInv'
  BY <1>1, <1>7, RunKeeps
<1>8. ASSUME NEW w \in scene.wallets, NEW v \in scene.wallets, NEW x,
             Synchronize(w) \/ Gossip(w, v, x) \/ GetTickets(w, x) \/ StoreAndReply(w, x)
      PROVE  TicketInv'
  <2>1. w \in Wallets /\ v \in Wallets /\ None \in wallet[w].tickets \cup {None}
    BY <1>1
  <2>2. QED
    BY <1>8, <2>1, WalletKeeps
<1>9. ASSUME NEW w \in scene.wallets, NEW t \in wallet[w].tickets, RefreshTickets(w, t)
      PROVE  TicketInv'
  <2>1. w \in Wallets /\ t \in wallet[w].tickets \cup {None}
    BY <1>1
  <2>2. QED
    BY <1>9, <2>1, WalletKeeps
<1>10. QED
  BY <1>3, <1>4, <1>5, <1>6, <1>7, <1>8, <1>9 DEF Next

LEMMA TicketInvImplies == TicketInv => HeldTicketsAreGood
<1> SUFFICES ASSUME TicketInv PROVE HeldTicketsAreGood
  OBVIOUS
<1>1. FilesInv /\ \A w \in Wallets : WalletOK(wallet[w], call[w], files, stored)
  BY DEF TicketInv, WalletsInv
<1>2. HeldTicketsAreStored
  BY <1>1 DEF HeldTicketsAreStored, WalletOK
<1>3. ASSUME NEW w \in Wallets, NEW v \in Wallets, NEW t \in wallet[w].tickets
      PROVE  /\ wallet[v].eu # None /\ Foreign \notin EpochKeys(v)
                   => t.key \in wallet[v].eu.ext.ticketKeys
             /\ Up => clerk.ticketKey = t.key
  <2>1. HasKeys(files) /\ t.key = files.ticketSk /\ files.ticketPk = files.ticketSk
    BY <1>1 DEF WalletOK, OurTicket
  <2>2. Up => clerk.ticketKey = t.key
    BY <1>1, <2>1 DEF Up, FilesInv, UsesKeys
  <2>3. ASSUME wallet[v].eu # None, Foreign \notin EpochKeys(v)
        PROVE  t.key \in wallet[v].eu.ext.ticketKeys
    <3> DEFINE u == wallet[v].eu
    <3>1. OurUpdate(u, files) \/ AlienUpdate(u)
      BY <1>1, <2>3 DEF WalletOK
    <3>2. EpochKeys(v) = u.ext.epochKeys
      BY <2>3 DEF EpochKeys
    <3> HIDE DEF u
    <3>3. CASE AlienUpdate(u)
      <4>1. u.ext.epochKeys = {Foreign}
        BY <3>3 DEF AlienUpdate, MakeUpdate
      <4>2. QED
        BY <2>3, <3>2, <4>1
    <3>4. CASE OurUpdate(u, files)
      <4>1. u.ext.ticketKeys = {files.ticketPk}
        BY <3>4 DEF OurUpdate, MakeUpdate
      <4>2. QED
        BY <2>1, <4>1 DEF u
    <3>5. QED
      BY <3>1, <3>3, <3>4
  <2>4. QED
    BY <2>2, <2>3
<1>4. QED
  BY <1>2, <1>3 DEF HeldTicketsAreGood, HeldTicketsVerify

\* Every ticket that a wallet holds is stored at the tokenmap and verifies with the
\* keys of every wallet of the network, wherever the clerk was killed while it made and
\* published its keys, within a file write or between two (read_or_generate_key, main), however runs of epoch_generate
\* overlapped and whatever updates, damaged or foreign, wallets handed on.
THEOREM TicketsAreAlwaysGood == Spec => []HeldTicketsAreGood
<1>1. Init => TicketInv
  BY InitTicketInv
<1>2. TicketInv /\ [Next]_vars => TicketInv'
  BY NextTicketInv
<1>3. TicketInv => HeldTicketsAreGood
  BY TicketInvImplies
<1>4. QED
  BY <1>1, <1>2, <1>3, PTL DEF Spec
=============================================================================
