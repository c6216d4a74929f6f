--------------------------- MODULE MCBridgeService ---------------------------
(***************************************************************************)
(* Small instances of BridgeService: deposits on Ethereum and on Bitcoin,  *)
(* a mint that refuses, a changing key registry, and withdrawals.          *)
(***************************************************************************)
EXTENDS BridgeService

Scene == [chain |-> "ethereum", deposits |-> 0, amounts |-> {}, tickets |-> Tickets,
          reorgs |-> FALSE, mints |-> TRUE, keyChanges |-> 3, withdrawals |-> 0, started |-> TRUE,
          faults |-> 0, crashes |-> 0]

MCScenes ==
    { [Scene EXCEPT !.deposits = 2, !.amounts = {11}, !.faults = 2, !.crashes = 1],
      [Scene EXCEPT !.deposits = 3, !.amounts = {4}, !.faults = 1],
      [Scene EXCEPT !.deposits = 2, !.amounts = {4, 20}],
      [Scene EXCEPT !.deposits = 1, !.amounts = {4}, !.mints = FALSE, !.crashes = 1],
      [Scene EXCEPT !.chain = "bitcoin", !.deposits = 2, !.amounts = {5}, !.reorgs = TRUE,
                    !.faults = 1, !.crashes = 1],
      [Scene EXCEPT !.tickets = {}, !.keyChanges = 5, !.started = FALSE, !.faults = 1, !.crashes = 1],
      [Scene EXCEPT !.tickets = {}, !.keyChanges = 4, !.withdrawals = 2, !.amounts = {5, 20}, !.faults = 1] }
=============================================================================
