------------------------- MODULE OperationLifecycle -------------------------
(***************************************************************************)
(* What the durable operation path promises the submitters of operations,  *)
(* with no broker, tables, workers or clock: an operation is begun at most *)
(* once, for one request; it finishes at most once, with one reply; and    *)
(* only the reply it finished with is ever announced.  Nothing is promised *)
(* about progress: an operation may stop in any stage.                     *)
(***************************************************************************)
CONSTANTS Operation, Request, Reply, OperationOf, NoRequest, NoReply

VARIABLES
    stage,      \* "unseen", "begun", "finished"
    request,    \* the request an operation was begun for
    reply,      \* the reply it finished with
    announced   \* the replies published for it

vars == <<stage, request, reply, announced>>

Init ==
    /\ stage = [op \in Operation |-> "unseen"]
    /\ request = [op \in Operation |-> NoRequest]
    /\ reply = [op \in Operation |-> NoReply]
    /\ announced = [op \in Operation |-> {}]

Begin(op, q) ==
    /\ stage[op] = "unseen" /\ OperationOf[q] = op
    /\ stage' = [stage EXCEPT ![op] = "begun"]
    /\ request' = [request EXCEPT ![op] = q]
    /\ UNCHANGED <<reply, announced>>

Finish(op, r) ==
    /\ stage[op] = "begun"
    /\ stage' = [stage EXCEPT ![op] = "finished"]
    /\ reply' = [reply EXCEPT ![op] = r]
    /\ UNCHANGED <<request, announced>>

Announce(op) ==
    /\ stage[op] = "finished"
    /\ announced' = [announced EXCEPT ![op] = @ \cup {reply[op]}]
    /\ UNCHANGED <<stage, request, reply>>

Next == \E op \in Operation :
    \/ \E q \in Request : Begin(op, q)
    \/ \E r \in Reply : Finish(op, r)
    \/ Announce(op)

Spec == Init /\ [][Next]_vars

=============================================================================
