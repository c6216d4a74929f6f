------------------------ MODULE DoubleSpendRegistry -------------------------
(***************************************************************************)
(* What the TokenMap promises: it never forgets a history it has accepted, *)
(* and in the step in which it learns of a double spend it flags the       *)
(* token.  A flag is never withdrawn and never raised without cause.       *)
(***************************************************************************)
EXTENDS TokenHistory

CONSTANTS Ids, Histories

VARIABLES
    known,      \* known[id]: every history of the token that is on record
    flagged     \* flagged[id]: the token is known to be double spent

RegistryInit ==
    /\ known = [id \in Ids |-> {}]
    /\ flagged = [id \in Ids |-> FALSE]

Learn(id, h) ==
    LET K == known[id] \cup Prefixes({h})
    IN  /\ known' = [known EXCEPT ![id] = K]
        /\ flagged' = [flagged EXCEPT ![id] = Forked(K)]

RegistryNext == \E id \in Ids, h \in Histories : Learn(id, h)

RegistrySpec == RegistryInit /\ [][RegistryNext]_<<known, flagged>>
=============================================================================
