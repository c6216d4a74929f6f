---------------------------- MODULE ServiceAuth ----------------------------
(***************************************************************************)
(* Requests between services, signed with the credential that each has     *)
(* from the registrar (src/src/service_auth/src/lib.rs).  A server takes   *)
(* a request whose timestamp is neither too old nor in the future by its   *)
(* own clock.  The callers' clocks differ from it; a request is delivered  *)
(* late, again, or with a body that a retry has changed since the          *)
(* signature was made.                                                     *)
(***************************************************************************)
EXTENDS Integers, FiniteSets

CONSTANTS
    Callers,
    GroupOf,                \* ServiceIdentity::group of a caller
    KeyOf, ServerKey,       \* the group key a credential is under, and the server's
    Bodies,                 \* what a request may say
    Allowed,                \* the groups that the operation is for
    MaxAge, Tolerance,      \* MAX_TIMESTAMP_AGE_SECS, and the tolerance of 5 seconds
    Skews,                  \* how far the callers' clocks may be ahead, functions
    MaxWall, MaxSent        \* bounds

Unknown == "ServiceUnknown"

ASSUME ServiceAuthAssumption ==
    /\ {MaxAge, Tolerance, MaxWall, MaxSent} \subseteq Nat /\ Skews \subseteq [Callers -> Int]
    /\ Unknown \notin Allowed

VARIABLES
    wall,       \* the server's clock
    skew,       \* skew[c]: how far a caller's clock is ahead; never changes
    packets,    \* the signed requests, with the time at which they were sent
    granted,    \* the requests that were let through, and when
    answer      \* the last answer, and what was asked

authVars == <<wall, skew, packets, granted, answer>>

NoAnswer == [ok |-> FALSE, punctual |-> FALSE]

Message(body, timestamp) == [body |-> body, timestamp |-> timestamp]

\* sign_request
SignRequest(c, body, timestamp) ==
    [message |-> Message(body, timestamp), key |-> KeyOf[c], timestamp |-> timestamp, group |-> GroupOf[c]]

\* sign_grpc_request; a clock before the beginning of time signs nothing.
Send(c, body) ==
    /\ Cardinality(packets) < MaxSent /\ wall + skew[c] >= 0
    /\ packets' = packets \cup {[auth |-> SignRequest(c, body, wall + skew[c]), body |-> body,
                                 from |-> c, sent |-> wall, number |-> Cardinality(packets)]}
    /\ UNCHANGED <<wall, skew, granted, answer>>

\* saturating_sub
Age(timestamp) == IF wall >= timestamp THEN wall - timestamp ELSE 0

\* A timestamp in the future is as good as a fresh one.
AheadIsFresh(timestamp) == Age(timestamp) <= MaxAge

TimestampAccepted(timestamp) == Age(timestamp) <= MaxAge /\ timestamp <= wall + Tolerance

\* verify_service_auth
VerifyServiceAuth(auth, body) ==
    /\ TimestampAccepted(auth.timestamp)
    /\ auth.key = ServerKey /\ auth.message = Message(body, auth.timestamp)
    /\ auth.group # Unknown

AuthorizeCaller(group) == group \in Allowed

\* A request arrives with the body that was signed or another.
Deliver(p, body) ==
    LET ok == VerifyServiceAuth(p.auth, body) /\ AuthorizeCaller(p.auth.group)
    IN  /\ granted' = IF ok THEN granted \cup {[number |-> p.number, body |-> body, at |-> wall]} ELSE granted
        /\ answer' = [ok |-> ok,
                      punctual |-> /\ body = p.body /\ GroupOf[p.from] \in Allowed /\ KeyOf[p.from] = ServerKey
                                   /\ wall - p.sent - skew[p.from] \in - Tolerance .. MaxAge]
        /\ UNCHANGED <<wall, skew, packets>>

WallTick ==
    /\ wall < MaxWall /\ wall' = wall + 1
    /\ UNCHANGED <<skew, packets, granted, answer>>

AuthInit ==
    /\ wall = 0 /\ skew \in Skews
    /\ packets = {} /\ granted = {} /\ answer = NoAnswer

AuthNext ==
    \/ WallTick
    \/ \E c \in Callers, body \in Bodies : Send(c, body)
    \/ \E p \in packets, body \in Bodies : Deliver(p, body)
-----------------------------------------------------------------------------
(* However late and however often a request is delivered, and however far  *)
(* the clocks are apart, it is let through only within one window of the   *)
(* server's time, and only with the body that was signed.                  *)
GrantsInOneWindow ==
    \A g, h \in granted :
        g.number = h.number => g.at - h.at <= MaxAge + Tolerance /\ g.body = h.body

(* A request that arrives as it was signed, no later than MaxAge by the    *)
(* caller's timestamp and with a clock that is not further ahead than the  *)
(* tolerance, is let through: a caller's clock that is a little ahead does *)
(* not make its requests old.                                              *)
PunctualIsGranted == answer.punctual => answer.ok

(* The window for a signed request is neither wider nor narrower than it   *)
(* says, between clocks that differ.                                       *)
WindowIsExact == GrantsInOneWindow /\ PunctualIsGranted
=============================================================================
