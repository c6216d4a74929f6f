------------------------------ MODULE MCClerk ------------------------------
(***************************************************************************)
(* Small instances of Clerk: the first start of a clerk that may crash,    *)
(* overlapping runs of the tool, gossip between wallets, and recovery.     *)
(***************************************************************************)
EXTENDS Clerk

CONSTANTS w1, w2, r1, r2

MCScenes ==
    { [wallets |-> {w1}, runs |-> {r1, r2}, groups |-> {9}, crashes |-> 1, faults |-> 2, time |-> 2,
       revocations |-> 1, damages |-> {}, recovery |-> FALSE, checked |-> FALSE],
      [wallets |-> {w1}, runs |-> {r1, r2}, groups |-> {1, 9}, crashes |-> 0, faults |-> 1, time |-> 3,
       revocations |-> 0, damages |-> {}, recovery |-> FALSE, checked |-> FALSE],
      [wallets |-> {w1, w2}, runs |-> {r1, r2}, groups |-> {1}, crashes |-> 0, faults |-> 0, time |-> 2,
       revocations |-> 1, damages |-> {"none", "data", "ext", "key", "foreign"}, recovery |-> FALSE, checked |-> FALSE],
      [wallets |-> {w1, w2}, runs |-> {r1}, groups |-> {1}, crashes |-> 2, faults |-> 1, time |-> 2,
       revocations |-> 0, damages |-> {"none"}, recovery |-> FALSE, checked |-> FALSE],
      [wallets |-> {w1}, runs |-> {r1}, groups |-> {1, 72}, crashes |-> 1, faults |-> 1, time |-> 2,
       revocations |-> 1, damages |-> {}, recovery |-> FALSE, checked |-> TRUE],
      [wallets |-> {w1}, runs |-> {r1}, groups |-> {1, 72}, crashes |-> 1, faults |-> 1, time |-> 2,
       revocations |-> 1, damages |-> {}, recovery |-> FALSE, checked |-> FALSE],
      [wallets |-> {}, runs |-> {r1}, groups |-> {}, crashes |-> 1, faults |-> 0, time |-> 1,
       revocations |-> 0, damages |-> {}, recovery |-> TRUE, checked |-> FALSE] }

MCPolicies == [w \in {w1} |-> 3]
=============================================================================
