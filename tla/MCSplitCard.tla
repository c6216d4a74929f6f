---------------------------- MODULE MCSplitCard ----------------------------
(***************************************************************************)
(* A small instance of SplitCard: two hosts and one card.                  *)
(***************************************************************************)
EXTENDS SplitCard

MCHosts == {1, 2}
MCHostSk == [h \in MCHosts |-> 30 + 7 * h]
\* Basename 2 is a false positive of the filter once 1 is in it.
MCBitsOf == [n \in {1, 2} |-> IF n = 1 THEN {1, 2} ELSE {2}]

MCReady == [kind |-> "split", ready |-> TRUE]
MCNew(k) == [kind |-> k, ready |-> FALSE]
\* Two wallets that sign, one that signs while another is set up, and one that is
\* set up beside a wallet without a card.
MCStarts ==
    {<<MCReady, MCReady>>, <<MCReady, MCNew("split")>>, <<MCReady, MCNew("mobile")>>,
     <<MCNew("split"), MCNew("software")>>}
=============================================================================
