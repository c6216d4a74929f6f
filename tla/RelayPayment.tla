---------------------------- MODULE RelayPayment ----------------------------
(***************************************************************************)
(* The solar relay (src/hardware/relay/firmware/src) that carries a        *)
(* payment from one credstick to another: the loop of main.rs, its         *)
(* transaction engine (transaction.rs), its NFC reader (pn7150.rs), its    *)
(* keypad (drivers/src/keypad.rs) and its stored configuration             *)
(* (config.rs).  The sticks of Credstick are tapped on it, or on another   *)
(* reader, and their owners press their buttons.                           *)
(*                                                                         *)
(* A payment takes four taps: "R" reads the ticket of the receiver, "S"    *)
(* proposes to the sender, "T" has the sender sign, "D" delivers.  A tap   *)
(* is one step: SELECT, one command, and the end of the session; the stick *)
(* may be gone before its reply arrives.  A wallet that is not one of the  *)
(* sticks may answer anything.                                             *)
(***************************************************************************)
EXTENDS Credstick, SequencesExt

CONSTANTS
    Sticks, HasPin,         \* the sticks, and those that ask for a PIN
    Balance,                \* what each has in the beginning
    MaxBalance,             \* bound: nobody is paid by another reader above it
    TicketSizes,            \* the length of a stick's signed ticket
    Entries,                \* the keys that are pressed for an amount, before OK
    AmountDigits,           \* the twelve places of AmountEntry
    AmountWidth,            \* the 2^32 of the cast to u32
    Pages,                  \* what the configuration page of the flash may hold
    OtherAmounts,           \* what another reader proposes
    MaxPayments, MaxEpoch   \* bounds

ASSUME RelayAssumption ==
    /\ HasPin \subseteq Sticks /\ Balance \in Nat /\ MaxBalance \in Nat
    /\ TicketSizes \subseteq 1 .. 255 /\ AmountDigits \in Nat \ {0}
    /\ AmountWidth \in Nat \ {0} /\ MaxPayments \in Nat /\ MaxEpoch \in Nat

VARIABLES
    sticks,     \* the state of each stick
    ticketSize, \* how long the tickets are
    conf,       \* Config
    engine,     \* TransactionEngine
    nfc,        \* the state of Pn7150
    at,         \* where the loop of main is
    payments,   \* how many payments were started
    proposal,   \* what the owner of each stick was last asked, and what became of it
    signature,  \* what each stick last signed
    locked,     \* the sticks that have run out of PIN attempts since they were started
    fault,      \* the reader has failed since the relay was started
    obtained,   \* how often the relay was given signed tokens in this payment
    handed      \* how often a wallet has taken them from it

relay == <<conf, engine, nfc, at, payments, fault, obtained, handed>>
observed == <<proposal, signature, locked>>
vars == <<sticks, ticketSize, relay, observed>>

Taps == {"R", "S", "T", "D"}
\* The relay waits for an amount, or has panicked.
Amount == <<"amount", "-">>
Halted == <<"halted", "-">>

NoTicket == [of |-> "nobody", size |-> 0]
NoProposal == [amount |-> 0, approved |-> FALSE, state |-> "none"]
\* Nothing was signed yet, and so nothing without an approval.
NoSignature == [shown |-> [NoProposal EXCEPT !.approved = TRUE], amount |-> 0, hasPin |-> FALSE]
-----------------------------------------------------------------------------
(* Configuration *)

DefaultConfig == [mode |-> "Variable", amount |-> 0, ticket |-> NoTicket]

\* set_merchant_pos, set_event_mode
SetMerchantPos(ticket) == [mode |-> "MerchantPos", amount |-> 0, ticket |-> ticket]
SetEventMode(amount, ticket) == [mode |-> "EventMode", amount |-> amount, ticket |-> ticket]

\* to_flash_bytes: the page that save_to_flash writes.
ToFlash(c) == [valid |-> TRUE, config |-> c]

\* A page without the magic bytes, the version or one of the three modes.
Erased == [valid |-> FALSE, config |-> DefaultConfig]

\* from_flash_bytes: a ticket is only read back in the modes that keep one.
FromFlash(page) ==
    IF ~ page.valid THEN DefaultConfig
    ELSE IF page.config.ticket.size <= 512 /\ page.config.mode # "Variable"
    THEN page.config
    ELSE [page.config EXCEPT !.ticket = NoTicket]

HasSavedReceiver(ticket) == ticket.size > 0
-----------------------------------------------------------------------------
(* Keypad *)

\* The keys that are not digits.
Clear == -1
Dot == -2

NoEntry == [digits |-> <<>>, dot |-> -1]

Number(ds) == FoldLeft(LAMBDA n, d : 10 * n + d, 0, ds)

\* AmountEntry::process, for the keys that return no amount.
Process(e, key) ==
    CASE key = Clear -> NoEntry
      [] key = Dot -> IF e.dot = -1 /\ Len(e.digits) < AmountDigits - 1
                        THEN [e EXCEPT !.dot = Len(e.digits)] ELSE e
      [] OTHER -> IF Len(e.digits) = AmountDigits \/ (e.dot # -1 /\ Len(e.digits) - e.dot > 2)
                  THEN e ELSE [e EXCEPT !.digits = Append(@, key)]

\* AmountEntry::process, for OK: the amount in cents.
Cents(e) ==
    LET whole == IF e.dot = -1 THEN e.digits ELSE SubSeq(e.digits, 1, e.dot)
        frac == SubSeq(e.digits, Len(whole) + 1, Len(e.digits))
    IN  Number(whole) * 100 + Number(frac) * (IF Len(frac) = 1 THEN 10 ELSE 1)
-----------------------------------------------------------------------------
(* TransactionEngine *)

NewEngine(c) ==
    [phase |-> IF HasSavedReceiver(c.ticket) THEN "ReceiverReady" ELSE "Idle",
     amount |-> 0, ticket |-> c.ticket, signed |-> 0]

\* start: the receiver's ticket is kept, whatever the mode.
Start(e, amount) ==
    [e EXCEPT !.amount = amount, !.signed = 0,
              !.phase = IF HasSavedReceiver(e.ticket) THEN "ReceiverReady" ELSE "Idle"]

BuildReadTicket == [ins |-> "READ_TICKET", lc |-> 0, size |-> 0]

\* A ticket that the buffer of 256 bytes has no room for is dropped, its length is not.
BuildInitiate(e) ==
    [ins |-> "INITIATE", amount |-> e.amount, lc |-> (8 + e.ticket.size) % 256,
     size |-> 8 + (IF e.ticket.size <= 243 THEN e.ticket.size ELSE 0)]

BuildTransfer == [ins |-> "TRANSFER", accept |-> TRUE, lc |-> 1, size |-> 1]

\* The long form of Lc begins with a zero, which is what the stick reads.
BuildReceive(e) ==
    [ins |-> "RECEIVE", lc |-> IF e.signed > 255 THEN 0 ELSE e.signed, size |-> e.signed]

Command(tap, e) ==
    CASE tap = "R" -> BuildReadTicket
      [] tap = "S" -> BuildInitiate(e)
      [] tap = "T" -> BuildTransfer
      [] tap = "D" -> BuildReceive(e)

CheckSw(r) == r.sw = "success"

\* The four handlers; `from` is the wallet that answered.
HandleReadTicketResponse(e, r, from) ==
    IF CheckSw(r)
    THEN [e EXCEPT !.phase = "ReceiverReady", !.ticket = [of |-> from, size |-> r.data]]
    ELSE [e EXCEPT !.phase = "Failed"]

HandleInitiateResponse(e, r) ==
    [e EXCEPT !.phase = IF CheckSw(r) /\ r.data >= 16 THEN "SenderProposed" ELSE "Failed"]

HandleTransferResponse(e, r) ==
    IF CheckSw(r) THEN [e EXCEPT !.phase = "TokensSigned", !.signed = r.data]
    ELSE [e EXCEPT !.phase = IF r.sw = "pin" THEN @ ELSE "Failed"]

HandleReceiveResponse(e, r) ==
    [e EXCEPT !.phase = IF CheckSw(r) /\ r.data = 1 THEN "Complete" ELSE "Failed"]

HandleResponse(tap, e, r, from) ==
    CASE tap = "R" -> HandleReadTicketResponse(e, r, from)
      [] tap = "S" -> HandleInitiateResponse(e, r)
      [] tap = "T" -> HandleTransferResponse(e, r)
      [] tap = "D" -> HandleReceiveResponse(e, r)

\* The handler returns Ok: for RECEIVE the status word is enough.
Went(tap, r) == CheckSw(r) /\ (tap = "S" => r.data >= 16)

\* transceive_apdu: with its five bytes of header the command needs a length that the
\* reader's one byte holds.  Of a longer one the wallet gets no more than five bytes, if
\* the reader sends any.
Carried(c) == 5 + c.size <= 255

\* Pn7150::init, which may fail; the loop goes on without a reader.
ReaderInit == {"Uninitialized", "Ready"}

\* deactivate, after a command that was answered or not: a tag that was lost meanwhile
\* has made the reader ready already.
Deactivated(heard, works) ==
    IF works THEN {"Ready"} ELSE IF heard THEN {"Connected"} ELSE {"Connected", "Ready"}
-----------------------------------------------------------------------------
(* What the owner of a stick sees of a command, for the properties. *)

Asked(s, c, r) ==
    IF c.ins = "INITIATE" /\ r.sw = "success"
    THEN [amount |-> c.amount, approved |-> FALSE, state |-> "open"]
    ELSE IF c.ins = "TRANSFER" /\ r.sw = "success"
    THEN [proposal[s] EXCEPT !.state = "closed"]
    ELSE proposal[s]

Observe(s, c, r) ==
    /\ sticks' = [sticks EXCEPT ![s] = r.stick]
    /\ proposal' = [proposal EXCEPT ![s] = Asked(s, c, r)]
    /\ signature' = IF c.ins = "TRANSFER" /\ r.stick.phase # "rejected" /\ r.sw = "success"
                    THEN [signature EXCEPT ![s] = [shown |-> proposal[s], amount |-> sticks[s].amount,
                                                  hasPin |-> sticks[s].hasPin]]
                    ELSE signature
    /\ UNCHANGED locked

\* A session with a reader: SELECT, one command, and the field is gone.
Session(s, c) ==
    LET selected == HandleFrame(sticks[s], [ins |-> "SELECT"]).stick
        r == HandleFrame(selected, c)
        told == IF c.ins = "READ_TICKET" THEN [r EXCEPT !.data = ticketSize] ELSE r
    IN  [told EXCEPT !.stick = FieldLost(r.stick)]
-----------------------------------------------------------------------------
(* The owner of a stick, and other readers *)

Press(s, after) ==
    /\ sticks' = [sticks EXCEPT ![s] = after]
    /\ after # sticks[s]
    /\ proposal' = [proposal EXCEPT ![s] =
            IF after.authorized /\ ~ sticks[s].authorized THEN [@ EXCEPT !.approved = TRUE]
            ELSE IF after.phase = "idle" THEN [@ EXCEPT !.state = "closed"] ELSE @]
    /\ locked' = IF after.failed >= PinTries THEN locked \cup {s} ELSE locked
    /\ UNCHANGED <<ticketSize, relay, signature>>

PressLeft(s) == Press(s, ButtonLeft(sticks[s]))

PressRight(s) == Press(s, ButtonRight(sticks[s]))

PressBoth(s) == Press(s, ButtonBoth(sticks[s]))

\* The stick is reset, or has been in System OFF; what its owner was asked is gone.
Restart(s, kept) ==
    /\ sticks' = [sticks EXCEPT ![s] = Restarted(@, kept)]
    /\ proposal' = [proposal EXCEPT ![s].state = "closed"]
    /\ locked' = locked \ {s}
    /\ UNCHANGED <<ticketSize, relay, signature>>

\* A phone that takes payments, or one that updates the stick.
OtherReader(s) ==
    /\ \E c \in [ins : {"TRANSACT", "SWEEP"}, lc : {0}, size : {0}]
              \cup [ins : {"INITIATE"}, amount : OtherAmounts, lc : {8}, size : {8}]
              \cup [ins : {"TRANSFER"}, accept : {FALSE}, lc : {0, 1}, size : {1}]
              \cup [ins : {"GOSSIP"}, epoch : 1 .. MaxEpoch, lc : {3, 4}, size : {4}]
              \cup [ins : {"RECEIVE"}, lc : {100}, size : {100}] :
          /\ c.ins = "RECEIVE" => sticks[s].balance < MaxBalance
          /\ Observe(s, c, Session(s, c))
    /\ UNCHANGED <<ticketSize, relay>>
-----------------------------------------------------------------------------
(* The loop of the relay *)

Begin(amount) ==
    LET e == Start(engine, amount)
    IN  /\ payments < MaxPayments
        /\ payments' = payments + 1
        /\ engine' = e /\ obtained' = 0 /\ handed' = 0
        /\ at' = IF HasSavedReceiver(e.ticket) THEN <<"poll", "S">> ELSE <<"poll", "R">>

\* The operator types an amount and presses OK; an amount of zero is asked for
\* again, and OK does nothing as long as no digit is there.
KeyOk(keys) ==
    /\ at = Amount /\ conf.mode # "EventMode"
    /\ LET entry == FoldLeft(Process, NoEntry, keys)
           amount == Cents(entry) % AmountWidth
       IN  entry.digits # <<>> /\ amount # 0 /\ Begin(amount)
    /\ UNCHANGED <<sticks, ticketSize, conf, nfc, fault, observed>>

\* OK in the mode with a fixed amount.
KeyOkFixed ==
    /\ at = Amount /\ conf.mode = "EventMode" /\ conf.amount # 0
    /\ Begin(conf.amount)
    /\ UNCHANGED <<sticks, ticketSize, conf, nfc, fault, observed>>

\* start_polling: only in state Ready, and if the reader answers.
Poll(tap, works) ==
    /\ at = <<"poll", tap>>
    /\ IF nfc = "Ready" /\ works
       THEN nfc' = "Polling" /\ at' = <<"tap", tap>>
       ELSE at' = Amount /\ UNCHANGED nfc
    /\ UNCHANGED <<sticks, ticketSize, conf, engine, payments, fault, obtained, handed, observed>>

\* wait_for_tag returns an error, which leaves the reader polling, so that no later
\* payment starts; or it panics: when a notification of another kind is read after the
\* deadline, the time that remains is negative.
NoTag(tap) ==
    /\ at = <<"tap", tap>>
    /\ at' \in {Amount, Halted} /\ fault' = TRUE
    /\ UNCHANGED <<sticks, ticketSize, conf, engine, nfc, payments, obtained, handed, observed>>

\* The relay is out of power and starts again.
RelayRestart ==
    /\ engine' = NewEngine(conf) /\ at' = Amount
    /\ nfc' \in ReaderInit /\ fault' = (nfc' # "Ready")
    /\ obtained' = 0 /\ handed' = 0
    /\ UNCHANGED <<sticks, ticketSize, conf, payments, observed>>

\* What follows a tap that the wallet answered with r; `heard` says whether the reply
\* arrives, `works` whether deactivate succeeds.
After(tap, r, heard, from, works, next) ==
    /\ engine' = IF heard THEN HandleResponse(tap, engine, r, from) ELSE engine
    /\ nfc' \in Deactivated(heard, works) /\ fault' = (fault \/ ~ works)
    /\ at' = next
    /\ obtained' = IF tap = "T" /\ heard /\ Went("T", r) THEN obtained + 1 ELSE obtained
    /\ handed' = IF tap = "D" /\ CheckSw(r) THEN handed + 1 ELSE handed
    /\ UNCHANGED <<ticketSize, conf, payments>>

NextTap == [R |-> "S", S |-> "T", T |-> "D"]

\* A delivery whose reply is lost is tried again.
AnsweredOrRetried(tap, r, heard, from, works) ==
    After(tap, r, heard, from, works,
          IF heard /\ Went(tap, r) /\ tap # "D" THEN <<"poll", NextTap[tap]>>
          ELSE IF tap = "D" /\ ~ heard THEN <<"poll", "D">> ELSE Amount)

Answered(tap, r, heard, from, works) ==
    After(tap, r, heard, from, works,
          IF heard /\ Went(tap, r) /\ tap # "D" THEN <<"poll", NextTap[tap]>> ELSE Amount)

TapStick(tap, s, heard, works) ==
    /\ at = <<"tap", tap>>
    /\ LET c == Command(tap, engine)
           r == IF Carried(c) THEN Session(s, c) ELSE Reply(sticks[s], "wrong length")
       IN  /\ IF Carried(c) THEN Observe(s, c, r) ELSE UNCHANGED <<sticks, observed>>
           /\ Answered(tap, r, heard, s, works)

\* How much data a wallet of another kind may answer with.
OtherReplies == [R |-> {0, 100}, S |-> {0, 100}, T |-> {100, 300}, D |-> {0, 1}]

\* A wallet of another kind; it may not even have the applet.
TapOther(tap, heard, works) ==
    /\ at = <<"tap", tap>>
    /\ \E sw \in {"success", "pin", "conditions"}, data \in OtherReplies[tap] :
          /\ sw = "success" => Carried(Command(tap, engine))
          /\ Answered(tap, [sw |-> sw, data |-> data], heard, "other", works)
    /\ UNCHANGED <<sticks, observed>>

\* The four taps of a payment.
Tapped(tap) ==
    \/ NoTag(tap)
    \/ \E heard, works \in BOOLEAN : TapOther(tap, heard, works)
    \/ \E s \in Sticks, heard, works \in BOOLEAN : TapStick(tap, s, heard, works)

TapReceiver == Tapped("R")
TapSender == Tapped("S")
RetapSender == Tapped("T")
Deliver == Tapped("D")

RelayStep ==
    \/ \E tap \in Taps, works \in BOOLEAN : Poll(tap, works)
    \/ TapReceiver \/ TapSender \/ RetapSender \/ Deliver

Next ==
    \/ \E s \in Sticks : PressLeft(s) \/ PressRight(s) \/ PressBoth(s) \/ OtherReader(s)
    \/ \E s \in Sticks, kept \in BOOLEAN : Restart(s, kept)
    \/ \E keys \in Entries : KeyOk(keys)
    \/ KeyOkFixed
    \/ RelayStep
    \/ RelayRestart

Init ==
    /\ sticks = [s \in Sticks |-> NewStick(s \in HasPin, Balance)]
    /\ ticketSize \in TicketSizes
    /\ \E page \in Pages : conf = FromFlash(page)
    /\ engine = NewEngine(conf)
    /\ nfc \in ReaderInit
    /\ at = Amount /\ payments = 0
    /\ proposal = [s \in Sticks |-> NoProposal]
    /\ signature = [s \in Sticks |-> NoSignature]
    /\ locked = {}
    /\ fault = (nfc # "Ready") /\ obtained = 0 /\ handed = 0

Spec == Init /\ [][Next]_vars
-----------------------------------------------------------------------------
TypeOK ==
    /\ \A s \in Sticks :
          /\ sticks[s].phase \in {"idle", "proposed", "sent", "signed", "rejected"}
          /\ sticks[s].buffer \in Seq({"left", "right"}) /\ Len(sticks[s].buffer) <= PinRoom
          /\ sticks[s].failed \in 0 .. PinTries /\ ~ sticks[s].selected
          /\ sticks[s].bloom \in {0, sticks[s].epoch}
    /\ nfc \in {"Uninitialized", "Ready", "Polling", "Connected"}
    /\ engine.phase \in {"Idle", "ReceiverReady", "SenderProposed", "TokensSigned",
                         "Complete", "Failed"}
    /\ at \in {Amount, Halted} \cup ({"poll", "tap"} \X Taps)

\* Whatever readers and buttons do, and however often it is restarted, a stick signs the
\* amount that its owner was shown, and while it has a PIN, from the threshold on only
\* after the PIN was entered for that very proposal: an approval does not outlive a
\* proposal that was declined, nor a restart.  A proposal is signed at most once, and never
\* after it was declined or refused: a TRANSFER that a reader repeats does not debit the
\* stick again.  (No proposal expires; the documentation gives it five minutes.)
SignedWasApproved ==
    \A s \in Sticks :
       /\ signature[s].shown.state # "closed"
       /\ signature[s].amount = signature[s].shown.amount
       /\ signature[s].amount >= PinThreshold /\ signature[s].hasPin => signature[s].shown.approved

\* A stick whose owner has entered PinTries wrong PINs in a row signs nothing, not even a
\* small amount, until it is restarted.  The documentation promises a permanent lockout
\* on a counter that cannot be rolled back; the counter of the code is in memory, and every
\* start, the wake-up from System OFF included, gives the stick all its attempts again.
LockedUntilRestart == [][\A s \in locked : signature'[s] = signature[s]]_vars

\* Tokens that the relay was given in a payment are taken from it at most once, though
\* replies get lost and wallets are swapped between the taps, and a payment is shown as
\* complete only when a wallet has taken them.  (When the reply to the delivery is lost, they
\* were taken and the payment is shown as failed.)
DeliveredOnce ==
    /\ handed <= obtained /\ obtained <= 1
    /\ engine.phase = "Complete" => handed = 1

\* The relay comes back from every tap with a reader that can poll again, unless the
\* reader failed: it did not start, saw no tag in time or did not deactivate.  After
\* such a failure the code never starts it again and no later payment gets anywhere.
StuckOnlyByFault ==
    /\ at[1] \in {"amount", "poll"} => nfc = "Ready" \/ fault
    /\ at = Halted => fault

\* What a relay does to a payment, whatever is tapped and whatever the reader does.
RelayIsSound == DeliveredOnce /\ StuckOnlyByFault
=============================================================================
