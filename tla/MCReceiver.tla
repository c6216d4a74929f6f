----------------------------- MODULE MCReceiver -----------------------------
(***************************************************************************)
(* Small instances of Receiver.  The price is two; one payment has two     *)
(* tokens, one has a single token that only the new epoch's keys verify,   *)
(* one is partly addressed to somebody else.                               *)
(***************************************************************************)
EXTENDS Receiver, TLC

CONSTANTS p1, p2, w1, w2, me, other, a, b, c

MCTokens == {a, b, c}
MCTickets == {me, other}
MCEpochs == {1, 2}
MCValue == [t \in MCTokens |-> IF t = c THEN 2 ELSE 1]
MCVerifiable == [e \in MCEpochs |-> IF e = 1 THEN {a, b} ELSE MCTokens]

\* Peers and workers are interchangeable.
Interchangeable == Permutations({p1, p2}) \cup Permutations({w1, w2})

Pay(t, to) == [token |-> t, to |-> to]
TwoTokens == <<Pay(a, me), Pay(b, me)>>
OneToken == <<Pay(c, me)>>
Misdirected == <<Pay(a, me), Pay(b, other)>>

AllPayments == {TwoTokens, OneToken, Misdirected}

NewEpoch(signed, body) == [epoch |-> 2, signed |-> signed, body |-> body]
OldEpoch == [epoch |-> 1, signed |-> TRUE, body |-> "complete"]

AllUpdates == {NewEpoch(TRUE, "complete"), NewEpoch(TRUE, "mismatched"),
               NewEpoch(TRUE, "absent"), NewEpoch(FALSE, "complete"),
               OldEpoch, NoData}
=============================================================================
