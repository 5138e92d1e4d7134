--------------------------- MODULE JetStreamWorker ---------------------------
(***************************************************************************)
(* The durable asynchronous operation path of src/transport_runtime.rs:    *)
(* the JetStream work queue and its durable pull consumer (external), the  *)
(* loop of serve_jetstream with its permits, one handle_jetstream_message  *)
(* per permit, the operation journal, and the result stream (external).    *)
(*                                                                         *)
(* A handler is a program counter that moves from one await to the next,   *)
(* so handlers interleave with each other, with the broker and with time   *)
(* wherever the code suspends.  Its state is lost when the process stops;  *)
(* the tables and the streams survive.                                     *)
(*                                                                         *)
(* Time is counted down: "left" is what is left of a request's deadline,   *)
(* "wait" what is left of the acknowledgement wait of a delivery.          *)
(***************************************************************************)
EXTENDS OperationJournal, Sequences

CONSTANTS
    Message,          \* messages a producer may put on the request stream
    RequestOf,        \* the text a message carries
    Malformed,        \* messages no clock can make valid: too big, not UTF-8 or
                      \* JSON, a bad identifier, or a bad attestation
    Handler,          \* one per permit of the concurrency semaphore
    NoMessage,
    InvalidRequest,   \* the reply of a request that fails validation
    InitialLeft,      \* what producers may leave of a deadline
    MaxDeadlineAhead, \* MAX_OPERATION_DEADLINE_MS, in clock units
    AckWait,          \* the consumer's ack_wait, in clock units
    MaxDeliver,       \* the consumer's max_deliver
    MaxCrashes, MaxIoErrors, MaxPullErrors   \* bounds on the faults explored

ASSUME WorkerAssumption ==
    /\ RequestOf \in [Message -> Request]
    /\ Malformed \subseteq Message
    /\ NoMessage \notin Message
    /\ InvalidRequest \in Reply
    /\ InitialLeft \subseteq Nat
    /\ MaxDeadlineAhead \in Nat /\ AckWait \in Nat /\ MaxDeliver \in Nat
    /\ MaxCrashes \in Nat /\ MaxIoErrors \in Nat /\ MaxPullErrors \in Nat

VARIABLES
    \* the broker
    queue,       \* state of each message in the work queue
    deliveries,  \* how often the consumer was sent it
    wait,        \* what is left of its acknowledgement wait
    results,     \* replies on the result stream, by operation
    \* the worker process
    fetched,     \* messages received and waiting for a permit
    consuming,   \* the message loop of serve_jetstream is running
    pc, msg, reply,   \* each handler: where it is, its message, its payload
    \* the clock
    left,        \* what is left of the deadline in each request
    \* history and fault budgets
    runs,        \* how often the service executed each operation
    crashes, ioErrors, pullErrors

brokerVars  == <<queue, deliveries, wait, results>>
handlerVars == <<pc, msg, reply>>
workerVars  == <<fetched, consuming, handlerVars>>
faultVars   == <<crashes, ioErrors, pullErrors>>
vars == <<journalVars, brokerVars, workerVars, left, runs, faultVars>>

QueueState == {"unpublished", "ready", "inflight", "acked", "termed", "dead"}
Busy == {"validate", "claim", "execute", "complete", "pending", "publish",
         "mark", "ack", "nak", "term"}

BrokerTypeOK ==
    /\ queue \in [Message -> QueueState]
    /\ deliveries \in [Message -> Nat]
    /\ wait \in [Message -> Nat]
    /\ results \in [Operation -> SUBSET Reply]

WorkerTypeOK ==
    /\ fetched \in Seq(Message)
    /\ consuming \in BOOLEAN
    /\ pc \in [Handler -> Busy \cup {"idle"}]
    /\ msg \in [Handler -> Message \cup {NoMessage}]
    /\ \A h \in Handler : pc[h] # "idle" => msg[h] \in Message
    /\ reply \in [Handler -> Reply \cup {NoReply}]

CountersTypeOK ==
    /\ left \in [Request -> Nat]
    /\ runs \in [Operation -> Nat]
    /\ crashes \in Nat /\ ioErrors \in Nat /\ pullErrors \in Nat

TypeOK == JournalTypeOK /\ BrokerTypeOK /\ WorkerTypeOK /\ CountersTypeOK

Init ==
    /\ JournalInit
    /\ queue = [m \in Message |-> "unpublished"]
    /\ deliveries = [m \in Message |-> 0]
    /\ wait = [m \in Message |-> 0]
    /\ results = [op \in Operation |-> {}]
    /\ fetched = <<>> /\ consuming = TRUE
    /\ pc = [h \in Handler |-> "idle"]
    /\ msg = [h \in Handler |-> NoMessage]
    /\ reply = [h \in Handler |-> NoReply]
    /\ left \in [Request -> InitialLeft]
    /\ runs = [op \in Operation |-> 0]
    /\ crashes = 0 /\ ioErrors = 0 /\ pullErrors = 0

Req(h) == RequestOf[msg[h]]
Op(h)  == OperationOf[Req(h)]

-----------------------------------------------------------------------------
(* The broker and the clock.                                               *)

Publish(m) ==
    /\ queue[m] = "unpublished"
    /\ queue' = [queue EXCEPT ![m] = "ready"]
    /\ UNCHANGED <<journalVars, deliveries, wait, results, workerVars, left,
                   runs, faultVars>>

\* The consumer sends a message to the worker's pull subscription; the
\* acknowledgement wait starts now, whenever a permit frees up.
Deliver(m) ==
    /\ consuming
    /\ queue[m] = "ready"
    /\ queue' = [queue EXCEPT ![m] = "inflight"]
    /\ deliveries' = [deliveries EXCEPT ![m] = @ + 1]
    /\ wait' = [wait EXCEPT ![m] = AckWait]
    /\ fetched' = Append(fetched, m)
    /\ UNCHANGED <<journalVars, results, consuming, handlerVars, left, runs,
                   faultVars>>

\* A message goes back to the queue, unless its deliveries are used up.
Returned(m) == [queue EXCEPT ![m] = IF deliveries[m] < MaxDeliver THEN "ready" ELSE "dead"]

AckTimeout(m) ==
    /\ queue[m] = "inflight" /\ wait[m] = 0
    /\ queue' = Returned(m)
    /\ UNCHANGED <<journalVars, deliveries, wait, results, workerVars, left,
                   runs, faultVars>>

Earlier(t) == IF t = 0 THEN 0 ELSE t - 1

Tick ==
    /\ \/ \E q \in Request : left[q] > 0
       \/ \E m \in Message : wait[m] > 0
    /\ left' = [q \in Request |-> Earlier(left[q])]
    /\ wait' = [m \in Message |-> Earlier(wait[m])]
    /\ UNCHANGED <<journalVars, queue, deliveries, results, workerVars, runs,
                   faultVars>>

-----------------------------------------------------------------------------
(* serve_jetstream and handle_jetstream_message.                           *)

GoTo(h, label) == pc' = [pc EXCEPT ![h] = label]

\* The handler returns and its permit is released.
Release(h) ==
    /\ GoTo(h, "idle")
    /\ msg' = [msg EXCEPT ![h] = NoMessage]
    /\ reply' = [reply EXCEPT ![h] = NoReply]

\* Ack and Term reach the broker for any delivery of a message it still tracks.
Settle(m, how) ==
    queue' = [queue EXCEPT ![m] = IF @ \in {"ready", "inflight"} THEN how ELSE @]

HandlerStepLeaves == <<deliveries, wait, fetched, consuming, left, faultVars>>

\* The loop acquires a permit for the message it holds and spawns the handler.
Start(h) ==
    /\ pc[h] = "idle" /\ fetched # <<>>
    /\ msg' = [msg EXCEPT ![h] = Head(fetched)]
    /\ fetched' = Tail(fetched)
    /\ GoTo(h, "validate")
    /\ UNCHANGED <<journalVars, brokerVars, consuming, reply, left, runs, faultVars>>

\* validate and verify_operation_attestation.
Acceptable(m) ==
    /\ m \notin Malformed
    /\ left[RequestOf[m]] > 0
    /\ left[RequestOf[m]] <= MaxDeadlineAhead

Validate(h) ==
    /\ pc[h] = "validate"
    /\ \/ /\ Acceptable(msg[h])
          /\ GoTo(h, "claim")
          /\ UNCHANGED <<queue, msg, reply>>
       \/ /\ ~Acceptable(msg[h])
          /\ Settle(msg[h], "termed")
          /\ Release(h)
    /\ UNCHANGED <<journalVars, results, runs, HandlerStepLeaves>>

ClaimNew(h) ==
    /\ pc[h] = "claim" /\ IsNew(Req(h))
    /\ ClaimRows(Req(h))
    /\ GoTo(h, "execute")
    /\ UNCHANGED <<queue, results, msg, reply, runs, HandlerStepLeaves>>

ClaimReplay(h) ==
    /\ pc[h] = "claim" /\ IsReplay(Req(h))
    /\ reply' = [reply EXCEPT ![h] = inbox[Op(h)].result]
    /\ GoTo(h, "pending")
    /\ UNCHANGED <<journalVars, queue, results, msg, runs, HandlerStepLeaves>>

\* Slip: a handler asks again until the claim is new or has its reply.
ClaimRetries(h) ==
    /\ pc[h] = "claim" /\ (IsProcessing(Req(h)) \/ IsConflict(Req(h)))
    /\ GoTo(h, "claim")
    /\ UNCHANGED <<journalVars, queue, results, msg, reply, runs, HandlerStepLeaves>>

ClaimRefused(h) ==
    /\ pc[h] = "claim"
    /\ \/ IsProcessing(Req(h)) /\ GoTo(h, "nak")
       \/ IsConflict(Req(h)) /\ GoTo(h, "term")
    /\ UNCHANGED <<journalVars, queue, results, msg, reply, runs, HandlerStepLeaves>>

\* Slip: publish what was computed without waiting for the journal.
ExecuteAndPublish(h) ==
    /\ pc[h] = "execute"
    /\ \E r \in Reply : reply' = [reply EXCEPT ![h] = r]
    /\ runs' = [runs EXCEPT ![Op(h)] = @ + 1]
    /\ GoTo(h, "publish")
    /\ UNCHANGED <<journalVars, queue, results, msg, HandlerStepLeaves>>

\* process_payload validates the request again: its deadline may have passed.
Execute(h) ==
    /\ pc[h] = "execute"
    /\ \/ /\ left[Req(h)] > 0
          /\ \E r \in Reply : reply' = [reply EXCEPT ![h] = r]
          /\ runs' = [runs EXCEPT ![Op(h)] = @ + 1]
       \/ /\ left[Req(h)] = 0
          /\ reply' = [reply EXCEPT ![h] = InvalidRequest]
          /\ UNCHANGED runs
    /\ GoTo(h, "complete")
    /\ UNCHANGED <<journalVars, queue, results, msg, HandlerStepLeaves>>

Complete(h) ==
    /\ pc[h] = "complete"
    /\ \/ /\ CanComplete(Op(h))
          /\ CompleteRows(Op(h), reply[h])
          /\ GoTo(h, "pending")
          /\ UNCHANGED <<msg, reply>>
       \/ /\ ~CanComplete(Op(h))
          /\ Release(h)
          /\ UNCHANGED journalVars
    /\ UNCHANGED <<queue, results, runs, HandlerStepLeaves>>

PendingResult(h) ==
    /\ pc[h] = "pending"
    /\ reply' = [reply EXCEPT ![h] = IF HasPending(Op(h)) THEN outbox[Op(h)].payload ELSE @]
    /\ GoTo(h, "publish")
    /\ UNCHANGED <<journalVars, queue, results, msg, runs, HandlerStepLeaves>>

\* The result stream drops a message id it has seen, so a reply published
\* again leaves the stream as it was.
PublishResult(h) ==
    /\ pc[h] = "publish"
    /\ results' = [results EXCEPT ![Op(h)] = @ \cup {reply[h]}]
    /\ GoTo(h, "mark")
    /\ UNCHANGED <<journalVars, queue, msg, reply, runs, HandlerStepLeaves>>

\* Slip: the outbox row is not marked.
LeaveUnmarked(h) ==
    /\ pc[h] = "mark"
    /\ GoTo(h, "ack")
    /\ UNCHANGED <<journalVars, queue, results, msg, reply, runs, HandlerStepLeaves>>

MarkResultPublished(h) ==
    /\ pc[h] = "mark"
    /\ MarkPublished(Op(h))
    /\ GoTo(h, "ack")
    /\ UNCHANGED <<queue, results, msg, reply, runs, HandlerStepLeaves>>

\* Slip: a message whose operation is processing counts as done.
AcknowledgeProcessing(h) ==
    /\ \/ pc[h] \in {"ack", "nak"} /\ Settle(msg[h], "acked")
       \/ pc[h] = "term" /\ Settle(msg[h], "termed")
    /\ Release(h)
    /\ UNCHANGED <<journalVars, results, runs, HandlerStepLeaves>>

Acknowledge(h) ==
    /\ \/ pc[h] = "ack" /\ Settle(msg[h], "acked")
       \/ pc[h] = "term" /\ Settle(msg[h], "termed")
       \/ pc[h] = "nak" /\ queue' = IF queue[msg[h]] = "inflight"
                                    THEN Returned(msg[h]) ELSE queue
    /\ Release(h)
    /\ UNCHANGED <<journalVars, results, runs, HandlerStepLeaves>>

HandlerStep(h) ==
    \/ Start(h) \/ Validate(h)
    \/ ClaimNew(h) \/ ClaimReplay(h) \/ ClaimRefused(h)
    \/ Execute(h) \/ Complete(h)
    \/ PendingResult(h) \/ PublishResult(h) \/ MarkResultPublished(h)
    \/ Acknowledge(h)

-----------------------------------------------------------------------------
(* Faults.                                                                 *)

\* A database or broker call returns an error, or times out: the handler
\* returns it and the message is left unacknowledged.  A call whose effect
\* took place but whose answer was lost is this step after the call's own.
HandlerFails(h) ==
    /\ pc[h] # "idle" /\ ioErrors < MaxIoErrors
    /\ ioErrors' = ioErrors + 1
    /\ Release(h)
    /\ UNCHANGED <<journalVars, brokerVars, fetched, consuming, left, runs,
                   crashes, pullErrors>>

\* An error item on the pull subscription ends serve_jetstream for good; the
\* handlers already spawned run on.
PullError ==
    /\ consuming /\ pullErrors < MaxPullErrors
    /\ pullErrors' = pullErrors + 1
    /\ consuming' = FALSE
    /\ fetched' = <<>>
    /\ UNCHANGED <<journalVars, brokerVars, handlerVars, left, runs, crashes, ioErrors>>

\* Slip: state of the handlers outlives the process they ran in.
CrashLeavingHandlers ==
    /\ crashes < MaxCrashes
    /\ crashes' = crashes + 1
    /\ consuming' = TRUE /\ fetched' = <<>>
    /\ msg' = [h \in Handler |-> NoMessage]
    /\ UNCHANGED <<journalVars, brokerVars, pc, reply, left, runs, ioErrors, pullErrors>>

\* The process stops, killed or shut down (shutdown does not wait for the
\* spawned worker), and is started again.
Crash ==
    /\ crashes < MaxCrashes
    /\ crashes' = crashes + 1
    /\ consuming' = TRUE /\ fetched' = <<>>
    /\ pc' = [h \in Handler |-> "idle"]
    /\ msg' = [h \in Handler |-> NoMessage]
    /\ reply' = [h \in Handler |-> NoReply]
    /\ UNCHANGED <<journalVars, brokerVars, left, runs, ioErrors, pullErrors>>

Next ==
    \/ \E m \in Message : Publish(m) \/ Deliver(m) \/ AckTimeout(m)
    \/ \E h \in Handler : HandlerStep(h) \/ HandlerFails(h)
    \/ Tick \/ PullError \/ Crash

Spec == Init /\ [][Next]_vars

\* Time passes, the broker delivers and notices missing acknowledgements, and
\* every spawned handler is scheduled.  Its calls to the service and the broker
\* have timeouts, those to the journal have none: that the database answers, or
\* refuses, is assumed.  Nothing is assumed of producers or faults.
Fairness ==
    /\ WF_vars(Tick)
    /\ \A m \in Message : WF_vars(Deliver(m)) /\ WF_vars(AckTimeout(m))
    /\ \A h \in Handler : WF_vars(HandlerStep(h))

FairSpec == Spec /\ Fairness

-----------------------------------------------------------------------------
(* Safety.                                                                 *)

\* However often a request is submitted, delivered again, interrupted or
\* replayed, and by however many handlers at once, the service executes its
\* operation at most once.
AtMostOneExecution == \A op \in Operation : runs[op] <= 1

\* Everything on the result stream is the journaled result of its operation:
\* no handler publishes a reply it computed but did not get into the journal,
\* and two handlers never publish different replies.
ResultsAreJournaled ==
    \A op \in Operation : \A r \in results[op] :
        inbox[op].status = "completed" /\ inbox[op].result = r

\* A message that was acknowledged, and so left the work queue, carried the
\* very request its operation was claimed for, and the result of that is on
\* the result stream and marked delivered: acknowledging loses no result.
AckedIsDelivered ==
    \A m \in Message : queue[m] = "acked" =>
        LET q == RequestOf[m]  op == OperationOf[q] IN
        /\ inbox[op].request = q
        /\ outbox[op].delivered
        /\ results[op] = {inbox[op].result}

\* The status table, the only one callers can read, tells the state of the
\* inbox, and it tells it to nobody but the subject of the claimed request.
StatusAgreesWithInbox ==
    \A op \in Operation : \A s \in Subject :
        LET seen == StatusFor(op, s) IN
        IF inbox[op].status # "absent" /\ SubjectOf[inbox[op].request] = s
        THEN seen = [status |-> inbox[op].status, result |-> inbox[op].result]
        ELSE seen.status = "absent"

\* A claim binds its operation to one request for good, and a result in the
\* journal is never replaced: a conflicting or repeated submission, or a
\* slow second completion, changes nothing.
JournalIsWriteOnce ==
    [][\A op \in Operation :
        /\ inbox[op].status # "absent" => inbox'[op].request = inbox[op].request
        /\ inbox[op].status = "completed" => inbox'[op] = inbox[op]
        /\ outbox[op].payload # NoReply => outbox'[op].payload = outbox[op].payload
        /\ outbox[op].delivered => outbox'[op].delivered]_vars

\* A claim nobody is working on: the handler that made it failed or the
\* process stopped before the result reached the journal.
Orphaned(op) ==
    /\ inbox[op].status = "processing"
    /\ \A h \in Handler : pc[h] \in {"execute", "complete"} => Op(h) # op

\* There is no lease on a claim.  Redelivery and resubmission find it
\* "processing" and back off; an orphaned operation is never taken over, so
\* it is neither executed a second time nor ever completed.
OrphanedClaimStays ==
    [][\A op \in Operation : Orphaned(op) =>
        inbox'[op] = inbox[op] /\ runs'[op] = runs[op] /\ Orphaned(op)']_vars

\* The inductive strengthening of the invariants above.  The three tables,
\* the result stream and the history agree on every operation ...
RecordsAgreeOn(op) ==
    LET row == inbox[op] IN
    /\ opStatus[op].status = row.status
    /\ opStatus[op].result = row.result
    /\ row.status = "absent" => row.request = NoRequest /\ runs[op] = 0
    /\ row.status # "absent" =>
        /\ row.request \in Request /\ OperationOf[row.request] = op
        /\ opStatus[op].subject = SubjectOf[row.request]
    /\ row.status # "completed" =>
        /\ row.result = NoReply /\ results[op] = {}
        /\ outbox[op] = [payload |-> NoReply, delivered |-> FALSE]
    /\ row.status = "completed" =>
        /\ row.result \in Reply /\ outbox[op].payload = row.result
        /\ results[op] \subseteq {row.result}
    /\ outbox[op].delivered => results[op] = {row.result}
    /\ runs[op] <= 1

RecordsAgree == \A op \in Operation : RecordsAgreeOn(op)

\* ... a handler between claim and complete owns the claim, alone ...
ClaimsAreExclusive ==
    /\ \A h \in Handler : pc[h] \in {"execute", "complete"} =>
        /\ inbox[Op(h)].status = "processing" /\ inbox[Op(h)].request = Req(h)
        /\ pc[h] = "execute" => runs[Op(h)] = 0
        /\ pc[h] = "complete" => reply[h] \in Reply
    /\ \A h, k \in Handler :
        (/\ pc[h] \in {"execute", "complete"} /\ pc[k] \in {"execute", "complete"}
         /\ Op(h) = Op(k)) => h = k

\* ... and a handler past complete holds the journaled result of the request
\* it was given, published once it is past publish, marked once past mark.
HeldResultsAreJournaled ==
    \A h \in Handler : pc[h] \in {"pending", "publish", "mark", "ack"} =>
        /\ inbox[Op(h)].status = "completed" /\ inbox[Op(h)].request = Req(h)
        /\ reply[h] = inbox[Op(h)].result
        /\ pc[h] \in {"mark", "ack"} => reply[h] \in results[Op(h)]
        /\ pc[h] = "ack" => outbox[Op(h)].delivered

IInv ==
    /\ TypeOK /\ RecordsAgree /\ ClaimsAreExclusive /\ HeldResultsAreJournaled
    /\ AckedIsDelivered

\* The worker implements the lifecycle promised to submitters.
Lifecycle == INSTANCE OperationLifecycle WITH
    stage <- [op \in Operation |->
        CASE inbox[op].status = "absent" -> "unseen"
          [] inbox[op].status = "processing" -> "begun"
          [] OTHER -> "finished"],
    request <- [op \in Operation |-> inbox[op].request],
    reply <- [op \in Operation |-> inbox[op].result],
    announced <- results

ImplementsLifecycle == Lifecycle!Spec

-----------------------------------------------------------------------------
(* Liveness.                                                               *)

\* Permits come back: whatever the claims found, orphaned ones included, no
\* handler waits for another, and the messages held back for want of a
\* permit are all handled.
BacklogDrains == fetched # <<>> ~> fetched = <<>>

\* As long as nothing fails, a claimed operation reaches the end of the path:
\* its result is journaled, published and marked delivered, however long it
\* waits for permits and however often its message is delivered meanwhile.
ClaimedIsDelivered ==
    [](crashes = 0 /\ ioErrors = 0 /\ pullErrors = 0) =>
        \A op \in Operation : inbox[op].status = "processing" ~> outbox[op].delivered

\* README.md: the worker records the "result outbox transactionally before
\* acknowledging the request".  A claimed operation reaches the outbox.
ClaimedReachesOutbox ==
    \A op \in Operation : inbox[op].status = "processing" ~> outbox[op].payload # NoReply

\* README.md: the worker "resumes unpublished results after redelivery".  A
\* result waiting in the outbox is eventually delivered.
UnpublishedResultsResume ==
    \A op \in Operation : HasPending(op) ~> outbox[op].delivered

=============================================================================
