----------------------------- MODULE MCTokenMap -----------------------------
(***************************************************************************)
(* Small instances of TokenMap.  The histories are chosen so that every    *)
(* pair of outcomes meets: a plain chain, a fork at the first and at the   *)
(* second link, the two halves of a split, and what the holder of a half   *)
(* does next.                                                              *)
(***************************************************************************)
EXTENDS TokenMap

CONSTANTS alice, bob, carol, t1

MCIds == {t1}
MCCreds == {alice, bob, carol}
MCBaseRecipient == [id \in MCIds |-> alice]

Plain(c) == [to |-> c, split |-> NoSplit]
Half(c) == [to |-> c, split |-> 1]

ChainHistories ==
    {<<>>, <<Plain(bob)>>, <<Plain(carol)>>, <<Plain(bob), Plain(carol)>>,
     <<Plain(bob), Plain(alice)>>}

\* A split whose parts are the first to be seen, and a fork against it.
MixedHistories ==
    {<<>>, <<Half(bob)>>, <<Half(alice)>>, <<Half(alice), Plain(carol)>>,
     <<Plain(carol)>>}

MCTicketBatches == {<<bob, carol>>, <<alice, bob>>}
OneBatch == {<<bob, carol, alice>>}
OneTicket == {<<bob>>}
=============================================================================
