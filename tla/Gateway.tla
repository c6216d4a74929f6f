------------------------------ MODULE Gateway ------------------------------
(***************************************************************************)
(* The gateway (src/src/gateway/src/main.rs): A2A tasks and gRPC requests  *)
(* on one receiver, the x402 paywall beside them with a wallet of its own, *)
(* and what the libraries offer such servers to put in front, the rate     *)
(* limiter and the authentication of services.  The four share no state,   *)
(* so that a behaviour exercises one of them: its part.                    *)
(***************************************************************************)
EXTENDS TaskManager, X402, RateLimiter, ServiceAuth

CONSTANT Parts

VARIABLE part

gatewayVars == <<vars, taskVars, xVars, limiterVars, authVars, part>>

GatewayInit ==
    /\ part \in Parts /\ Init /\ TaskInit /\ XInit /\ LimiterInit /\ AuthInit
    /\ part # "x402" => purse = (CHOOSE p \in Purses : TRUE) /\ required = (CHOOSE r \in Requirements : TRUE)
    /\ part # "auth" => skew = [c \in Callers |-> 0]

A2A == part = "a2a" /\ TaskNext /\ UNCHANGED <<xVars, limiterVars, authVars, part>>
Paywall == part = "x402" /\ XNext /\ UNCHANGED <<vars, taskVars, limiterVars, authVars, part>>
Limiter == part = "limiter" /\ LimiterNext /\ UNCHANGED <<vars, taskVars, xVars, authVars, part>>
Authentication == part = "auth" /\ AuthNext /\ UNCHANGED <<vars, taskVars, xVars, limiterVars, part>>

\* Nothing is left to do within the bounds.
Rest == UNCHANGED gatewayVars

GatewayNext == A2A \/ Paywall \/ Limiter \/ Authentication \/ Rest

\* A request that was read is worked on, and the runtime keeps running the timers.
GatewaySpec ==
    /\ GatewayInit /\ [][GatewayNext]_gatewayVars
    /\ \A w \in Workers :
          WF_gatewayVars(/\ part = "a2a" /\ (CallReceiver(w) \/ ReceiverStep(w) \/ UpdateTask(w))
                         /\ UNCHANGED <<xVars, limiterVars, authVars, part>>)
    /\ \A id \in Ids :
          WF_gatewayVars(part = "a2a" /\ GatewayTimer(id) /\ UNCHANGED <<xVars, limiterVars, authVars, part>>)

GatewayTypeOK ==
    /\ TypeOK /\ TasksOK
    /\ get.pc \in {"idle", "challenged", "paying"}
    /\ clock \in 0 .. MaxClock /\ wall \in 0 .. MaxWall
    /\ \A ip \in Tracked : buckets[ip].tokens \in 0 .. Burst * Cost /\ buckets[ip].last_refill <= clock
=============================================================================
