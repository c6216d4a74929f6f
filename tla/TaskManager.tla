---------------------------- MODULE TaskManager ----------------------------
(***************************************************************************)
(* A2A tasks (src/src/a2a/src/task_manager.rs) over the receiver that the  *)
(* gateway's gRPC server shares.  A request to continue a task reads the   *)
(* task's state, calls the receiver as Receiver has it, and writes what    *)
(* came of it into the task, with other requests, cancellations and timers *)
(* in between.  A task is named by its transaction, which no other has.    *)
(* Requests that change nothing are left out: an unknown task, one that    *)
(* has ended, a message without tokens, tasks/get.                         *)
(***************************************************************************)
EXTENDS Receiver, FiniteSets

VARIABLES
    tasks,
    calls       \* the A2A request that a worker is busy with, if any

taskVars == <<tasks, calls>>

TaskStates == {"InputRequired", "Working", "Completed", "Failed", "Canceled"}
Ended == {"Completed", "Failed", "Canceled"}
NoTask == [state |-> "none", end |-> "none", raced |-> FALSE]
NewTask == [state |-> "InputRequired", end |-> "none", raced |-> FALSE]
NoCall == [pc |-> "none"]

\* Requests for a task in flight.
InFlight(id) == {w \in Workers : calls[w].pc # "none" /\ calls[w].task = id}

\* A state is written over whatever the task has.  History: as what the task ended
\* first, and whether other requests for it were in flight when it was ended.
SetTask(id, state, others) ==
    [tasks EXCEPT ![id] =
        [state |-> state,
         end |-> IF @.end = "none" /\ state \in Ended THEN state ELSE @.end,
         raced |-> @.raced \/ (state \in Ended /\ others # {})]]

\* Within the bound on requests to the receiver, those about to be made included.
Room == requests + Cardinality({w \in Workers : calls[w].pc = "read"}) < MaxRequests

\* create_task.  Initiation carries no epoch; where it panics no task is made.
CreateTask(peer) ==
    /\ Initiate(peer, NoUpdate)
    /\ tasks' = IF wallet.update = NoUpdate THEN tasks
                ELSE [tasks EXCEPT ![next_id] = NewTask]
    /\ UNCHANGED calls

MayContinue(id) == tasks[id].state \in {"InputRequired", "Working"}

\* continue_task up to the match on the state that was read.
Continue(w, id, peer, payment) ==
    /\ MayContinue(id) /\ calls[w] = NoCall /\ rpc[w] = Idle /\ Room
    /\ calls' = [calls EXCEPT ![w] =
            [pc |-> "read", task |-> id, peer |-> peer, payment |-> payment,
             kind |-> IF tasks[id].state = "InputRequired" THEN "transact" ELSE "transfer"]]
    /\ UNCHANGED <<vars, tasks>>

\* handle_transact and handle_transfer up to the receiver's lookup, which may fail.
CallReceiver(w) ==
    LET c == calls[w]
    IN  /\ c.pc = "read"
        /\ \/ /\ IF c.kind = "transact" THEN Transact(w, c.task, c.peer, c.payment)
                 ELSE Transfer(w, c.task, c.peer, c.payment)
              /\ calls' = [calls EXCEPT ![w].pc = "receiver"]
           \/ /\ transactions[c.task] # NoTransaction => transactions[c.task].peer # c.peer
              /\ calls' = [calls EXCEPT ![w] = NoCall]
              /\ UNCHANGED vars
        /\ UNCHANGED tasks

\* What the receiver's last step for a request says of it.
Accepts(w) ==
    \/ rpc[w].pc = "proposed"
    \/ rpc[w].pc = "push" /\ rpc[w].next > Len(rpc[w].payment)

\* The reply, or the end of a request that panicked.
Answer(w) ==
    IF poisoned /\ ~ Accepts(w) THEN NoCall
    ELSE [pc |-> "replied", task |-> calls[w].task, kind |-> calls[w].kind, accept |-> Accepts(w)]

\* A step of the receiver, for gRPC and A2A requests alike.
ReceiverStep(w) ==
    /\ Step(w)
    /\ calls' = IF calls[w].pc = "receiver" /\ rpc'[w] = Idle THEN [calls EXCEPT ![w] = Answer(w)]
                ELSE calls
    /\ UNCHANGED tasks

\* Any answer will do.
AnyOutcome(kind, accept) == IF kind = "transact" THEN "Working" ELSE "Completed"

Outcome(kind, accept) ==
    CASE accept /\ kind = "transact" -> "Working"
      [] accept /\ kind = "transfer" -> "Completed"
      [] ~ accept -> "Failed"

\* The ends of handle_transact and handle_transfer: the state that was read is not
\* looked at again.
UpdateTask(w) ==
    LET c == calls[w]
    IN  /\ c.pc = "replied"
        /\ calls' = [calls EXCEPT ![w] = NoCall]
        /\ tasks' = SetTask(c.task, Outcome(c.kind, c.accept), InFlight(c.task) \ {w})
        /\ UNCHANGED vars

Cancel(id) ==
    /\ tasks[id] # NoTask /\ tasks[id].state \notin Ended
    /\ tasks' = SetTask(id, "Canceled", InFlight(id))
    /\ UNCHANGED <<vars, calls>>

\* gRPC requests of wallets, on the same receiver.
GrpcCall(w) ==
    /\ calls[w] = NoCall /\ Room
    /\ Call(w)
    /\ UNCHANGED taskVars

GatewayTimer(id) == TimerStep(id) /\ UNCHANGED taskVars

TaskInit == tasks = [id \in Ids |-> NoTask] /\ calls = [w \in Workers |-> NoCall]

TaskNext ==
    \/ \E peer \in Peers : CreateTask(peer)
    \/ \E peer \in Peers, epoch \in Epochs \cup {NoUpdate} : Initiate(peer, epoch) /\ UNCHANGED taskVars
    \/ \E w \in Workers, id \in Ids, peer \in Peers, payment \in Payments : Continue(w, id, peer, payment)
    \/ \E w \in Workers : CallReceiver(w) \/ ReceiverStep(w) \/ UpdateTask(w) \/ GrpcCall(w)
    \/ \E id \in Ids : Cancel(id) \/ GatewayTimer(id)
-----------------------------------------------------------------------------
TasksOK ==
    /\ \A id \in Ids :
          tasks[id] # NoTask => /\ tasks[id].state \in TaskStates
                                /\ tasks[id].end \in Ended \cup {"none"}
    /\ \A w \in Workers :
          /\ calls[w].pc \in {"none", "read", "receiver", "replied"}
          /\ calls[w].pc = "receiver" /\ rpc[w] # Idle => rpc[w].id = calls[w].task

(* A task is shown as completed only when the receiver has accepted a      *)
(* payment for it, all of whose tokens are in the wallet, whatever other   *)
(* requests, cancellations and timeouts came in between.                   *)
CompletedIsPaid ==
    \A id \in Ids :
        tasks[id].state = "Completed" =>
            \E a \in accepted : a[1] = id /\ \A i \in DOMAIN a[2] : Kept(id, a[2][i].token)

(* A task that was ended while no other request for it was in flight stays *)
(* as it ended, whatever comes later.  The code calls every end final, but *)
(* does not make it so: it only looks at the state when a request comes    *)
(* in, and a request that came in before the end writes what became of it  *)
(* over the end.  A task that was canceled meanwhile is Working again, can *)
(* be paid and completed; one that was completed can become Failed.  Such  *)
(* tasks are `raced`, and of them only CompletedIsPaid is claimed.         *)
EndIsFinal ==
    \A id \in Ids :
        tasks[id].end # "none" /\ ~ tasks[id].raced => tasks[id].state = tasks[id].end

(* Every A2A request comes back, whether the receiver accepts, refuses,    *)
(* has timed the transaction out or panics.                                *)
CallsReturn == \A w \in Workers : (calls[w] # NoCall) ~> (calls[w] = NoCall)

(* A task agrees with its payment: it is completed only by one, and stays  *)
(* as it ended unless another request was in flight at that moment.        *)
TasksFollowPayments == CompletedIsPaid /\ EndIsFinal

(* Whatever peers, agents and timers do to one transaction, the requests   *)
(* come back and the transaction ends.                                     *)
RequestsAndTransactionsEnd == CallsReturn /\ TransactionsEnd
=============================================================================
