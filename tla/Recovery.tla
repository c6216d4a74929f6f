------------------------------ MODULE Recovery ------------------------------
(***************************************************************************)
(* Recovery bindings: the recovery server's table (src/src/recovery) and   *)
(* the wallet's calls (src/src/wallet/src/lib.rs).                         *)
(*                                                                         *)
(* A wallet is used from several devices, each of which knows the binding  *)
(* ids it was given.  A call is one transaction under the server's lock;   *)
(* its reply may be lost.  A binding never expires by itself, and a claim  *)
(* finds no tokens, so that none is ever consumed.                         *)
(***************************************************************************)
EXTENDS Sequences, FiniteSets, Integers, SequencesExt

CONSTANTS
    Owners,         \* TTC public keys
    Devices,        \* copies of a wallet
    Delegates,
    MaxBindings     \* bound: bindings in the table

VARIABLES
    bindings,   \* the table, in the order of insertion
    knows,      \* the ids each device was given
    claim,      \* the last claim of a delegate, and what it was based on
    acked       \* the ids whose revocation was acknowledged

recoveryVars == <<bindings, knows, claim, acked>>

States == {"active", "expired", "revoked", "consumed"}
NoClaim == [result |-> "none", active |-> FALSE]

RecoveryInit ==
    /\ bindings = <<>>
    /\ knows = [d \in Devices |-> {}]
    /\ claim = NoClaim /\ acked = {}

RecoveryTypeOK ==
    /\ bindings \in BoundedSeq([owner : Owners, delegate : Delegates, until : 0 .. 1, state : States],
                               MaxBindings)
    /\ knows \in [Devices -> SUBSET (1 .. MaxBindings)]
    /\ acked \subseteq 1 .. MaxBindings

Ids == 1 .. Len(bindings)

ActiveOf(o) == {i \in Ids : bindings[i].owner = o /\ bindings[i].state = "active"}

\* Only the first row of the owner is looked at.
FirstNotActive(o) ==
    LET rows == {i \in Ids : bindings[i].owner = o}
    IN  rows # {} => bindings[CHOOSE i \in rows : \A j \in rows : i <= j].state # "active"

\* SELECT state ... AND state = 'active' finds nothing.
NoActiveBinding(o) == ActiveOf(o) = {}

\* register_binding: refused while the owner has an active binding.
RegisterBinding(d, o, delegate, delivered) ==
    /\ NoActiveBinding(o) /\ Len(bindings) < MaxBindings
    /\ bindings' = Append(bindings, [owner |-> o, delegate |-> delegate, until |-> 0, state |-> "active"])
    /\ knows' = IF delivered THEN [knows EXCEPT ![d] = @ \cup {Len(bindings) + 1}] ELSE knows
    /\ UNCHANGED <<claim, acked>>

\* refresh_binding: BindingNotFound unless the row is active.
RefreshBinding(d, id) ==
    /\ id \in knows[d] /\ bindings[id].state = "active" /\ bindings[id].until = 0
    /\ bindings' = [bindings EXCEPT ![id].until = 1]
    /\ UNCHANGED <<knows, claim, acked>>

\* revoke_binding; sent again after its reply was lost, it is BindingNotFound.
RevokeBinding(d, id, delivered) ==
    /\ id \in knows[d] /\ bindings[id].state = "active"
    /\ bindings' = [bindings EXCEPT ![id].state = "revoked"]
    /\ acked' = IF delivered THEN acked \cup {id} ELSE acked
    /\ UNCHANGED <<knows, claim>>

\* A copied id reaches another device of the wallet.
CopyId(d, e, id) ==
    /\ id \in knows[d] \ knows[e]
    /\ knows' = [knows EXCEPT ![e] = @ \cup {id}]
    /\ UNCHANGED <<bindings, claim, acked>>

\* ORDER BY CASE state WHEN 'active' THEN 0 ELSE 1 END LIMIT 1
FoundRow(o) ==
    LET rows == {i \in Ids : bindings[i].owner = o}
        rank(i) == IF bindings[i].state = "active" THEN 0 ELSE 1
    IN  CHOOSE i \in rows : \A j \in rows : rank(i) < rank(j) \/ (rank(i) = rank(j) /\ i <= j)

\* recover_tokens, up to the query of the tokenmap that is still to be written.
RecoverTokens(o) ==
    IF ~ \E i \in Ids : bindings[i].owner = o THEN "BindingNotFound"
    ELSE CASE bindings[FoundRow(o)].state = "active" -> "ok"
           [] bindings[FoundRow(o)].state = "expired" -> "BindingExpired"
           [] bindings[FoundRow(o)].state = "revoked" -> "BindingRevoked"
           [] OTHER -> "RecoveryAlreadyClaimed"

\* initiate_recovery by a delegate that has a ticket; the proof is not looked at.
InitiateRecovery(o) ==
    /\ claim' = [result |-> RecoverTokens(o), active |-> ActiveOf(o) # {}]
    /\ claim' # claim
    /\ UNCHANGED <<bindings, knows, acked>>

\* get_binding_status reads the same row.
GetBindingStatus(o) ==
    IF \E i \in Ids : bindings[i].owner = o THEN bindings[FoundRow(o)].state ELSE "unknown"

(* No wallet ever has two active bindings ("Already has an active binding  *)
(* - must revoke first", register_binding_impl), whichever devices         *)
(* register, revoke and register again, with whatever replies lost.        *)
OneActiveBinding == \A o \in Owners : Cardinality(ActiveOf(o)) <= 1

(* While a wallet has an active binding its delegate's claim goes through, *)
(* and the status says so, however many bindings were revoked before; and  *)
(* a claim without one is refused.                                         *)
ActiveBindingClaimable ==
    /\ claim.active => claim.result = "ok"
    /\ claim.result = "ok" => claim.active
    /\ \A o \in Owners : (GetBindingStatus(o) = "active") = (ActiveOf(o) # {})

(* A binding whose revocation was acknowledged is never active again,      *)
(* whatever is registered, refreshed or sent again afterwards.             *)
AckedRevocationHolds == \A i \in acked : bindings[i].state # "active"

(* The bindings of a wallet that is used from several devices: at most one *)
(* is active, that one can be claimed, and a revocation that was           *)
(* acknowledged is final.                                                  *)
BindingsHold == OneActiveBinding /\ ActiveBindingClaimable /\ AckedRevocationHolds
=============================================================================
