--------------------------- MODULE MCRelayPayment ---------------------------
(***************************************************************************)
(* A small instance of RelayPayment: one stick with a PIN.  The wallet at  *)
(* the other end of a payment is of another kind.                          *)
(***************************************************************************)
EXTENDS RelayPayment

CONSTANTS payer, payee

MCPin == <<"right", "left">>
\* Nothing, 0.30 after a correction, and 1.5 with a second dot
MCEntries == {<<0>>, <<9, Clear, Dot, 3>>, <<1, Dot, 5, Dot>>}
\* Tickets of which the last fits a command and its reader, and one that is dropped.
MCTicket(size) == [of |-> payee, size |-> size]
\* An erased page, and the three modes as they are stored.
MCPages ==
    {Erased, ToFlash([DefaultConfig EXCEPT !.ticket = MCTicket(242)]),
     ToFlash(SetMerchantPos(MCTicket(250))), ToFlash(SetEventMode(30, MCTicket(242)))}
=============================================================================
