----------------------------- MODULE Credstick -----------------------------
(***************************************************************************)
(* The firmware of a credstick (src/hardware/stick/firmware/src), as       *)
(* operators on the state of one stick: the commands a reader sends        *)
(* (apdu.rs, nfc.rs), the buttons (main.rs) and what is stored             *)
(* (storage.rs, bloom.rs).                                                 *)
(*                                                                         *)
(* A command is a record with its instruction, the length its Lc byte      *)
(* announces and the bytes that follow; what those bytes say is in fields  *)
(* of their own.  A reply is a status word and, for some instructions,     *)
(* data.  The screen, the privacy mode (never anything but "fast") and the *)
(* token inventory (select_tokens writes a count of zero) are left out.    *)
(***************************************************************************)
EXTENDS Integers, Sequences

CONSTANTS
    Pin,            \* the PIN of a stick that has one, a sequence of symbols
    PinThreshold,   \* pin_threshold: no PIN is asked for below it
    PinTries,       \* the ten attempts of pin_attempts_remaining
    PinRoom         \* the sixteen places of pin_buffer

ASSUME CredstickAssumption ==
    /\ Pin \in Seq({"left", "right"})
    /\ PinThreshold \in Nat /\ PinTries \in Nat \ {0} /\ PinRoom \in Nat \ {0}

\* A stick as TransactionState::new and Storage::init leave it; what load_from_flash
\* finds is given: whether there is a PIN, and the balance.  (load_from_flash is a
\* placeholder that finds neither; a stick with either was written by other means.)
NewStick(hasPin, balance) ==
    [phase |-> "idle", amount |-> 0, chosen |-> FALSE, authorized |-> FALSE,
     buffer |-> <<>>, failed |-> 0, hasPin |-> hasPin, balance |-> balance,
     received |-> 0, epoch |-> 0, bloom |-> 0, selected |-> FALSE]

\* main after a reset or the wake-up from System OFF: what is in memory only starts
\* anew, the attempts at the PIN and the filter included.  Of what save_to_flash was
\* given everything is found again (`kept`), or nothing, as the placeholders have it.
Restarted(s, kept) ==
    IF kept THEN [NewStick(s.hasPin, s.balance) EXCEPT !.received = s.received, !.epoch = s.epoch]
    ELSE NewStick(FALSE, 0)
-----------------------------------------------------------------------------
(* PIN *)

PinRequired(s) == s.amount >= PinThreshold /\ s.hasPin /\ ~ s.authorized

PinInProgress(s) == PinRequired(s) /\ s.buffer # <<>>

AttemptsRemaining(s) == IF s.failed > PinTries THEN 0 ELSE PinTries - s.failed

\* pin_input: what does not fit is dropped.
PinInput(s, symbol) ==
    IF Len(s.buffer) < PinRoom THEN [s EXCEPT !.buffer = Append(@, symbol)] ELSE s

\* The right PIN is taken even without attempts left.
VerifyPinUncounted(s) ==
    IF s.buffer = Pin THEN [s EXCEPT !.buffer = <<>>, !.authorized = TRUE, !.failed = 0]
    ELSE IF AttemptsRemaining(s) = 0 THEN s
    ELSE [s EXCEPT !.buffer = <<>>, !.failed = @ + 1]

\* verify_pin: without attempts left nothing happens, the buffer stays as it is.
VerifyPin(s) ==
    IF AttemptsRemaining(s) = 0 THEN s
    ELSE IF s.buffer = Pin
         THEN [s EXCEPT !.buffer = <<>>, !.authorized = TRUE, !.failed = 0]
         ELSE [s EXCEPT !.buffer = <<>>, !.failed = @ + 1]

\* The proposal goes, the authorization stays.
CancelKeepsPin(s) == [s EXCEPT !.phase = "idle", !.chosen = FALSE, !.buffer = <<>>]

\* cancel
Cancel(s) ==
    [s EXCEPT !.phase = "idle", !.chosen = FALSE, !.authorized = FALSE, !.buffer = <<>>]

\* ButtonLeft: it declines, unless a PIN has been begun.
ButtonLeft(s) ==
    IF s.phase # "proposed" THEN s
    ELSE IF PinInProgress(s) THEN PinInput(s, "left") ELSE Cancel(s)

ButtonRight(s) ==
    IF s.phase = "proposed" /\ PinRequired(s) THEN PinInput(s, "right") ELSE s

ButtonBoth(s) == IF PinInProgress(s) THEN VerifyPin(s) ELSE s
-----------------------------------------------------------------------------
(* Commands.  Each handler returns the stick and its reply. *)

Reply(s, sw) == [stick |-> s, sw |-> sw, data |-> 0]

\* handle_initiate.  The reply holds a transaction id and the chosen tokens.
HandleInitiate(s, amount) ==
    IF s.phase # "idle" THEN Reply(s, "conditions")
    ELSE [Reply([s EXCEPT !.phase = "proposed", !.amount = amount, !.chosen = TRUE], "success")
             EXCEPT !.data = 16]

\* update_epoch, reset_for_epoch
ResetForEpoch(s, epoch) ==
    [s EXCEPT !.epoch = epoch, !.bloom = IF epoch <= @ THEN @ ELSE epoch]

\* handle_gossip: the first four bytes are the epoch.
HandleGossip(s, size, epoch) ==
    IF size < 4 THEN Reply(s, "wrong data")
    ELSE Reply(IF epoch > s.epoch THEN ResetForEpoch(s, epoch) ELSE s, "success")

\* handle_transact: the tokens chosen on INITIATE are sent once more.
HandleTransact(s) ==
    IF s.phase = "proposed" THEN Reply([s EXCEPT !.phase = "sent"], "success")
    ELSE Reply(s, "conditions")

\* deduct: saturating.
Deduct(balance, amount) == IF amount > balance THEN 0 ELSE balance - amount

\* handle_transfer, sign_tokens.  The proposal that is signed is the stick's own:
\* the command does not name one.
HandleTransfer(s, size, accept) ==
    IF s.phase \notin {"proposed", "sent"} THEN Reply(s, "conditions")
    ELSE IF PinRequired(s) THEN Reply(s, "pin")
    ELSE IF AttemptsRemaining(s) = 0 THEN Reply(s, "locked")
    ELSE IF size = 0 THEN Reply(s, "wrong data")
    ELSE IF ~ accept
         THEN Reply([s EXCEPT !.phase = "rejected", !.chosen = FALSE, !.authorized = FALSE],
                    "success")
    ELSE IF ~ s.chosen THEN Reply([s EXCEPT !.phase = "rejected"], "conditions")
    ELSE Reply([s EXCEPT !.phase = "signed", !.balance = Deduct(@, s.amount),
                         !.chosen = FALSE, !.authorized = FALSE], "success")

\* handle_receive, receive_tokens: any data is a token.
HandleReceive(s, size) ==
    IF size = 0 THEN Reply(s, "wrong data")
    ELSE [Reply([s EXCEPT !.balance = @ + 1, !.received = @ + 1], "success")
             EXCEPT !.data = 1]

\* handle_sweep, sweep_received_tokens
HandleSweep(s) == [Reply([s EXCEPT !.received = 0], "success") EXCEPT !.data = s.received]

\* handle_apdu.  lc and size are the announced and the actual length of the data;
\* INITIATE needs eight bytes of it, GOSSIP four, TRANSFER one.
HandleApdu(s, c) ==
    IF c.lc > c.size THEN Reply(s, "wrong length")
    ELSE CASE c.ins = "INITIATE" ->
                 IF s.phase = "idle" /\ c.lc < 8 THEN Reply(s, "wrong data")
                 ELSE HandleInitiate(s, c.amount)
           [] c.ins = "TRANSFER" -> HandleTransfer(s, c.lc, c.accept)
           [] c.ins = "RECEIVE"  -> HandleReceive(s, c.lc)
           [] c.ins = "TRANSACT" -> HandleTransact(s)
           [] c.ins = "GOSSIP"   -> HandleGossip(s, c.lc, c.epoch)
           [] c.ins = "SWEEP"    -> HandleSweep(s)
           [] c.ins \in {"READ_TICKET", "GET_BALANCE"} -> Reply(s, "success")

\* handle_frame: only a stick whose applet is selected answers.
HandleFrame(s, c) ==
    IF c.ins = "SELECT" THEN Reply([s EXCEPT !.selected = TRUE], "success")
    ELSE IF ~ s.selected THEN Reply(s, "not selected")
    ELSE HandleApdu(s, c)

\* on_field_lost
FieldLost(s) == [s EXCEPT !.selected = FALSE]
=============================================================================
