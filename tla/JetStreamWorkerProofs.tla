----------------------- MODULE JetStreamWorkerProofs -----------------------
(***************************************************************************)
(* Proofs about JetStreamWorker, for any set of operations, requests,      *)
(* messages and handlers, and any number of faults.                        *)
(***************************************************************************)
EXTENDS JetStreamWorker, TLAPS

\* What a handler that is not idle works on: the text of its message, and the
\* operation that names.
LEMMA HandledRequest ==
    ASSUME TypeOK, NEW h \in Handler, pc[h] # "idle"
    PROVE  msg[h] \in Message /\ Req(h) \in Request /\ Op(h) \in Operation
  BY JournalAssumption, WorkerAssumption DEF Req, Op, TypeOK, WorkerTypeOK

\* A handler that is about to publish holds a reply.
LEMMA HeldReply ==
    ASSUME IInv, NEW h \in Handler, pc[h] = "publish"
    PROVE  reply[h] \in Reply
  BY HandledRequest DEF IInv, HeldResultsAreJournaled, RecordsAgree, RecordsAgreeOn

-----------------------------------------------------------------------------
(* Types.                                                                  *)

LEMMA TypeInit == Init => TypeOK
  <1> SUFFICES ASSUME Init PROVE TypeOK
    OBVIOUS
  <1>1. JournalTypeOK
    BY DEF Init, JournalInit, JournalTypeOK, InboxRow, StatusRow, OutboxRow, RowStatus
  <1>2. BrokerTypeOK
    BY DEF Init, BrokerTypeOK, QueueState
  <1>3. WorkerTypeOK
    BY DEF Init, WorkerTypeOK
  <1>4. CountersTypeOK
    BY WorkerAssumption DEF Init, CountersTypeOK
  <1>5. QED
    BY <1>1, <1>2, <1>3, <1>4 DEF TypeOK

LEMMA JournalTypeStep == IInv /\ [Next]_vars => JournalTypeOK'
  <1> SUFFICES ASSUME IInv, [Next]_vars PROVE JournalTypeOK'
    OBVIOUS
  <1>0. TypeOK /\ JournalTypeOK
    BY DEF IInv, TypeOK
  <1>1. ASSUME NEW h \in Handler, ClaimNew(h) PROVE JournalTypeOK'
    <2>1. Req(h) \in Request /\ OperationOf[Req(h)] \in Operation /\ SubjectOf[Req(h)] \in Subject
      BY <1>0, <1>1, HandledRequest, JournalAssumption DEF ClaimNew
    <2>2. QED
      BY <1>0, <1>1, <2>1 DEF ClaimNew, ClaimRows, JournalTypeOK, InboxRow, StatusRow, RowStatus
  <1>2. ASSUME NEW h \in Handler, Complete(h) PROVE JournalTypeOK'
    <2>1. Op(h) \in Operation /\ reply[h] \in Reply \cup {NoReply}
      BY <1>0, <1>2, HandledRequest DEF Complete, TypeOK, WorkerTypeOK
    <2>2. CASE CompleteRows(Op(h), reply[h])
      <3>1. inbox' \in [Operation -> InboxRow]
        BY <1>0, <2>1, <2>2 DEF CompleteRows, JournalTypeOK, InboxRow, RowStatus
      <3>2. opStatus' \in [Operation -> StatusRow]
        BY <1>0, <2>1, <2>2 DEF CompleteRows, JournalTypeOK, StatusRow, RowStatus
      <3>3. outbox' \in [Operation -> OutboxRow]
        BY <1>0, <2>1, <2>2 DEF CompleteRows, JournalTypeOK, OutboxRow
      <3>4. QED
        BY <3>1, <3>2, <3>3 DEF JournalTypeOK
    <2>3. CASE UNCHANGED journalVars
      BY <1>0, <2>3 DEF JournalTypeOK, journalVars
    <2>4. QED
      BY <1>2, <2>2, <2>3 DEF Complete
  <1>3. ASSUME NEW h \in Handler, MarkResultPublished(h) PROVE JournalTypeOK'
    <2>1. Op(h) \in Operation
      BY <1>0, <1>3, HandledRequest DEF MarkResultPublished
    <2>2. HasPending(Op(h)) \in BOOLEAN
      BY DEF HasPending
    <2>3. QED
      BY <1>0, <1>3, <2>1, <2>2 DEF MarkResultPublished, MarkPublished, JournalTypeOK, OutboxRow
  <1>4. CASE UNCHANGED journalVars
    BY <1>0, <1>4 DEF JournalTypeOK, journalVars
  <1>5. QED
    BY <1>1, <1>2, <1>3, <1>4
       DEF Next, HandlerStep, vars, Publish, Deliver, AckTimeout, Tick, Start, Validate,
           ClaimReplay, ClaimRefused, Execute, PendingResult, PublishResult, Acknowledge,
           HandlerFails, PullError, Crash

LEMMA BrokerTypeStep == IInv /\ [Next]_vars => BrokerTypeOK'
  <1> SUFFICES ASSUME IInv, [Next]_vars PROVE BrokerTypeOK'
    OBVIOUS
  <1>0. TypeOK /\ BrokerTypeOK
    BY DEF IInv, TypeOK
  <1>1. ASSUME NEW m \in Message, Publish(m) PROVE BrokerTypeOK'
    BY <1>0, <1>1 DEF Publish, BrokerTypeOK, QueueState
  <1>2. ASSUME NEW m \in Message, Deliver(m) PROVE BrokerTypeOK'
    BY <1>0, <1>2, WorkerAssumption DEF Deliver, BrokerTypeOK, QueueState
  <1>3. ASSUME NEW m \in Message, AckTimeout(m) PROVE BrokerTypeOK'
    BY <1>0, <1>3 DEF AckTimeout, Returned, BrokerTypeOK, QueueState
  <1>4. ASSUME NEW h \in Handler, Validate(h) PROVE BrokerTypeOK'
    BY <1>0, <1>4 DEF Validate, Settle, HandlerStepLeaves, BrokerTypeOK, QueueState
  <1>5. ASSUME NEW h \in Handler, PublishResult(h) PROVE BrokerTypeOK'
    <2>1. Op(h) \in Operation /\ reply[h] \in Reply
      BY <1>0, <1>5, HandledRequest, HeldReply DEF PublishResult
    <2>2. QED
      BY <1>0, <1>5, <2>1 DEF PublishResult, HandlerStepLeaves, BrokerTypeOK
  <1>6. ASSUME NEW h \in Handler, Acknowledge(h) PROVE BrokerTypeOK'
    <2>1. queue' \in [Message -> QueueState]
      BY <1>0, <1>6 DEF Acknowledge, Settle, Returned, BrokerTypeOK, QueueState
    <2>2. QED
      BY <1>0, <1>6, <2>1 DEF Acknowledge, HandlerStepLeaves, BrokerTypeOK
  <1>7. CASE Tick
    BY <1>0, <1>7 DEF Tick, Earlier, BrokerTypeOK
  <1>8. CASE UNCHANGED brokerVars
    BY <1>0, <1>8 DEF BrokerTypeOK, brokerVars
  <1>9. QED
    BY <1>1, <1>2, <1>3, <1>4, <1>5, <1>6, <1>7, <1>8
       DEF Next, HandlerStep, vars, brokerVars, HandlerStepLeaves, Start, ClaimNew,
           ClaimReplay, ClaimRefused, Execute, Complete, PendingResult,
           MarkResultPublished, HandlerFails, PullError, Crash

LEMMA CountersTypeStep == IInv /\ [Next]_vars => CountersTypeOK'
  <1> SUFFICES ASSUME IInv, [Next]_vars PROVE CountersTypeOK'
    OBVIOUS
  <1>0. TypeOK /\ CountersTypeOK
    BY DEF IInv, TypeOK
  <1>1. ASSUME NEW h \in Handler, Execute(h) PROVE CountersTypeOK'
    <2>1. Op(h) \in Operation
      BY <1>0, <1>1, HandledRequest DEF Execute
    <2>2. QED
      BY <1>0, <1>1, <2>1 DEF Execute, HandlerStepLeaves, faultVars, CountersTypeOK
  <1>2. CASE Tick
    BY <1>0, <1>2 DEF Tick, Earlier, faultVars, CountersTypeOK
  <1>3. ASSUME NEW h \in Handler, HandlerFails(h) PROVE CountersTypeOK'
    BY <1>0, <1>3 DEF HandlerFails, CountersTypeOK
  <1>4. CASE PullError
    BY <1>0, <1>4 DEF PullError, CountersTypeOK
  <1>5. CASE Crash
    BY <1>0, <1>5 DEF Crash, CountersTypeOK
  <1>6. CASE UNCHANGED <<left, runs, faultVars>>
    BY <1>0, <1>6 DEF faultVars, CountersTypeOK
  <1>7. QED
    BY <1>1, <1>2, <1>3, <1>4, <1>5, <1>6
       DEF Next, HandlerStep, vars, HandlerStepLeaves, Publish, Deliver, AckTimeout,
           Start, Validate, ClaimNew, ClaimReplay, ClaimRefused, Complete,
           PendingResult, PublishResult, MarkResultPublished, Acknowledge

LEMMA WorkerTypeStep == IInv /\ [Next]_vars => WorkerTypeOK'
  <1> SUFFICES ASSUME IInv, [Next]_vars PROVE WorkerTypeOK'
    OBVIOUS
  <1>0. TypeOK /\ JournalTypeOK /\ WorkerTypeOK
    BY DEF IInv, TypeOK
  <1>1. ASSUME NEW m \in Message, Deliver(m) PROVE WorkerTypeOK'
    BY <1>0, <1>1 DEF Deliver, handlerVars, WorkerTypeOK
  <1>2. ASSUME NEW h \in Handler, Start(h) PROVE WorkerTypeOK'
    <2>1. Head(fetched) \in Message /\ fetched' \in Seq(Message)
      BY <1>0, <1>2 DEF Start, WorkerTypeOK
    <2>2. QED
      BY <1>0, <1>2, <2>1 DEF Start, GoTo, WorkerTypeOK, Busy
  \* Every other step of a handler releases it or moves it on ...
  <1>3. ASSUME NEW h \in Handler, Release(h), UNCHANGED <<fetched, consuming>>
        PROVE  WorkerTypeOK'
    BY <1>0, <1>3 DEF Release, GoTo, WorkerTypeOK
  <1>4. ASSUME NEW h \in Handler, NEW label \in Busy, pc[h] # "idle", GoTo(h, label),
               UNCHANGED <<fetched, consuming, msg>>,
               reply' \in [Handler -> Reply \cup {NoReply}]
        PROVE  WorkerTypeOK'
    BY <1>0, <1>4 DEF GoTo, WorkerTypeOK, Busy
  <1>5. ASSUME NEW h \in Handler, NEW label \in Busy, pc[h] # "idle", GoTo(h, label),
               UNCHANGED <<fetched, consuming, msg, reply>>
        PROVE  WorkerTypeOK'
    BY <1>0, <1>4, <1>5 DEF WorkerTypeOK
  \* ... as each of them shows.
  <1>6. ASSUME NEW h \in Handler, Validate(h) PROVE WorkerTypeOK'
    BY <1>3, <1>5, <1>6 DEF Validate, HandlerStepLeaves, Busy
  <1>7. ASSUME NEW h \in Handler, ClaimNew(h) PROVE WorkerTypeOK'
    BY <1>5, <1>7 DEF ClaimNew, HandlerStepLeaves, Busy
  <1>8. ASSUME NEW h \in Handler, ClaimReplay(h) PROVE WorkerTypeOK'
    <2>1. inbox[Op(h)].result \in Reply \cup {NoReply}
      BY <1>0, <1>8, HandledRequest DEF ClaimReplay, JournalTypeOK, InboxRow
    <2>2. reply' \in [Handler -> Reply \cup {NoReply}]
      BY <1>0, <1>8, <2>1 DEF ClaimReplay, WorkerTypeOK
    <2>3. QED
      BY <1>4, <1>8, <2>2 DEF ClaimReplay, HandlerStepLeaves, Busy
  <1>9. ASSUME NEW h \in Handler, ClaimRefused(h) PROVE WorkerTypeOK'
    BY <1>5, <1>9 DEF ClaimRefused, HandlerStepLeaves, Busy
  <1>10. ASSUME NEW h \in Handler, Execute(h) PROVE WorkerTypeOK'
    <2>1. reply' \in [Handler -> Reply \cup {NoReply}]
      BY <1>0, <1>10, WorkerAssumption DEF Execute, WorkerTypeOK
    <2>2. QED
      BY <1>4, <1>10, <2>1 DEF Execute, HandlerStepLeaves, Busy
  <1>11. ASSUME NEW h \in Handler, Complete(h) PROVE WorkerTypeOK'
    BY <1>3, <1>5, <1>11 DEF Complete, HandlerStepLeaves, Busy
  <1>12. ASSUME NEW h \in Handler, PendingResult(h) PROVE WorkerTypeOK'
    <2>1. outbox[Op(h)].payload \in Reply \cup {NoReply}
      BY <1>0, <1>12, HandledRequest DEF PendingResult, JournalTypeOK, OutboxRow
    <2>2. reply' \in [Handler -> Reply \cup {NoReply}]
      BY <1>0, <1>12, <2>1 DEF PendingResult, WorkerTypeOK
    <2>3. QED
      BY <1>4, <1>12, <2>2 DEF PendingResult, HandlerStepLeaves, Busy
  <1>13. ASSUME NEW h \in Handler, PublishResult(h) \/ MarkResultPublished(h)
         PROVE  WorkerTypeOK'
    BY <1>5, <1>13 DEF PublishResult, MarkResultPublished, HandlerStepLeaves, Busy
  <1>14. ASSUME NEW h \in Handler, Acknowledge(h) \/ HandlerFails(h)
         PROVE  WorkerTypeOK'
    BY <1>3, <1>14 DEF Acknowledge, HandlerFails, HandlerStepLeaves
  <1>15. CASE PullError
    <2>1. fetched' \in Seq(Message)
      BY <1>15 DEF PullError
    <2>2. QED
      BY <1>0, <1>15, <2>1 DEF PullError, handlerVars, WorkerTypeOK
  <1>16. CASE Crash
    <2>1. fetched' \in Seq(Message)
      BY <1>16 DEF Crash
    <2>2. QED
      BY <1>0, <1>16, <2>1 DEF Crash, WorkerTypeOK
  <1>17. CASE UNCHANGED workerVars
    BY <1>0, <1>17 DEF workerVars, handlerVars, WorkerTypeOK
  <1>18. QED
    BY <1>1, <1>2, <1>6, <1>7, <1>8, <1>9, <1>10, <1>11, <1>12, <1>13, <1>14, <1>15,
       <1>16, <1>17
       DEF Next, HandlerStep, vars, Publish, AckTimeout, Tick
-----------------------------------------------------------------------------
(* What a step changes.                                                    *)

\* Only five steps of a handler touch the tables, the result stream or the
\* history of executions.
RecordStep(h) ==
    ClaimNew(h) \/ Execute(h) \/ Complete(h) \/ PublishResult(h) \/ MarkResultPublished(h)

LEMMA RecordsChange ==
    ASSUME [Next]_vars
    PROVE  \/ \E h \in Handler : RecordStep(h)
           \/ UNCHANGED <<journalVars, results, runs>>
  BY DEF Next, HandlerStep, RecordStep, vars, brokerVars, HandlerStepLeaves, Publish,
         Deliver, AckTimeout, Tick, Start, Validate, ClaimReplay, ClaimRefused,
         PendingResult, Acknowledge, HandlerFails, PullError, Crash

\* A handler's step leaves every other handler where it is.
LEMMA OthersStay ==
    ASSUME TypeOK, NEW h \in Handler, HandlerStep(h) \/ HandlerFails(h),
           NEW k \in Handler, k # h
    PROVE  pc'[k] = pc[k] /\ msg'[k] = msg[k] /\ reply'[k] = reply[k]
  BY DEF TypeOK, WorkerTypeOK, HandlerStep, HandlerFails, Release, GoTo, Start, Validate,
         ClaimNew, ClaimReplay, ClaimRefused, Execute, Complete, PendingResult,
         PublishResult, MarkResultPublished, Acknowledge
-----------------------------------------------------------------------------
(* The parts of the inductive invariant.                                   *)

LEMMA RecordsInit == Init => RecordsAgree
  <1> SUFFICES ASSUME Init, NEW op \in Operation PROVE RecordsAgreeOn(op)
    BY DEF RecordsAgree
  <1>1. /\ inbox[op] = [status |-> "absent", request |-> NoRequest, result |-> NoReply]
        /\ opStatus[op] = [status |-> "absent", subject |-> NoSubject, result |-> NoReply]
        /\ outbox[op] = [payload |-> NoReply, delivered |-> FALSE]
        /\ results[op] = {} /\ runs[op] = 0
    BY DEF Init, JournalInit
  <1>2. QED
    BY <1>1 DEF RecordsAgreeOn

LEMMA RecordsStep == IInv /\ [Next]_vars => RecordsAgree'
  <1> SUFFICES ASSUME IInv, [Next]_vars, NEW op \in Operation PROVE RecordsAgreeOn(op)'
    BY DEF RecordsAgree
  <1>0. /\ TypeOK /\ JournalTypeOK /\ RecordsAgreeOn(op)
        /\ ClaimsAreExclusive /\ HeldResultsAreJournaled
    BY DEF IInv, TypeOK, RecordsAgree
  <1>1. ASSUME NEW h \in Handler, RecordStep(h), Op(h) # op PROVE RecordsAgreeOn(op)'
    <2>1. /\ inbox'[op] = inbox[op] /\ opStatus'[op] = opStatus[op]
          /\ outbox'[op] = outbox[op]
          /\ results'[op] = results[op] /\ runs'[op] = runs[op]
      BY <1>0, <1>1 DEF RecordStep, ClaimNew, ClaimRows, Execute, Complete, CompleteRows,
                        PublishResult, MarkResultPublished, MarkPublished, Op,
                        TypeOK, JournalTypeOK, BrokerTypeOK, CountersTypeOK, journalVars
    <2>2. QED
      BY <1>0, <2>1 DEF RecordsAgreeOn
  <1>2. ASSUME NEW h \in Handler, ClaimNew(h), Op(h) = op PROVE RecordsAgreeOn(op)'
    <2>1. Req(h) \in Request /\ OperationOf[Req(h)] = op
      BY <1>0, <1>2, HandledRequest DEF ClaimNew, Op
    <2>2. /\ inbox'[op] = [status |-> "processing", request |-> Req(h), result |-> NoReply]
          /\ opStatus'[op] = [status |-> "processing", subject |-> SubjectOf[Req(h)],
                              result |-> NoReply]
          /\ UNCHANGED <<outbox, results, runs>>
      BY <1>0, <1>2, <2>1 DEF ClaimNew, ClaimRows, JournalTypeOK
    <2>3. inbox[op].status = "absent"
      BY <1>2, <2>1 DEF ClaimNew, IsNew
    <2>4. QED
      BY <1>0, <2>1, <2>2, <2>3 DEF RecordsAgreeOn
  <1>3. ASSUME NEW h \in Handler, Execute(h), Op(h) = op PROVE RecordsAgreeOn(op)'
    <2>1. inbox[op].status = "processing" /\ runs[op] = 0
      BY <1>0, <1>3 DEF Execute, ClaimsAreExclusive
    <2>2. runs'[op] <= 1 /\ UNCHANGED <<inbox, opStatus, outbox, results>>
      BY <1>0, <1>3, <2>1 DEF Execute, journalVars, TypeOK, CountersTypeOK
    <2>3. QED
      BY <1>0, <2>1, <2>2 DEF RecordsAgreeOn
  <1>4. ASSUME NEW h \in Handler, Complete(h), Op(h) = op PROVE RecordsAgreeOn(op)'
    <2>1. inbox[op].status = "processing" /\ reply[h] \in Reply
      BY <1>0, <1>4 DEF Complete, ClaimsAreExclusive
    <2>2. CASE CompleteRows(op, reply[h])
      <3>1. /\ inbox'[op].status = "completed" /\ inbox'[op].result = reply[h]
            /\ inbox'[op].request = inbox[op].request
        BY <1>0, <2>2 DEF CompleteRows, JournalTypeOK, InboxRow
      <3>2. /\ opStatus'[op].status = "completed" /\ opStatus'[op].result = reply[h]
            /\ opStatus'[op].subject = opStatus[op].subject
        BY <1>0, <2>2 DEF CompleteRows, JournalTypeOK, StatusRow
      <3>3. outbox'[op].payload = reply[h] /\ outbox'[op].delivered = outbox[op].delivered
        BY <1>0, <2>1, <2>2 DEF CompleteRows, JournalTypeOK, OutboxRow, RecordsAgreeOn
      <3>4. UNCHANGED <<results, runs>>
        BY <1>4 DEF Complete
      <3>5. QED
        BY <1>0, <2>1, <3>1, <3>2, <3>3, <3>4 DEF RecordsAgreeOn
    <2>3. CASE UNCHANGED journalVars
      BY <1>0, <1>4, <2>3 DEF Complete, journalVars, RecordsAgreeOn
    <2>4. QED
      BY <1>4, <2>2, <2>3 DEF Complete
  <1>5. ASSUME NEW h \in Handler, PublishResult(h), Op(h) = op PROVE RecordsAgreeOn(op)'
    <2>1. inbox[op].status = "completed" /\ reply[h] = inbox[op].result
      BY <1>0, <1>5 DEF PublishResult, HeldResultsAreJournaled
    <2>2. /\ results'[op] = results[op] \cup {reply[h]}
          /\ UNCHANGED <<inbox, opStatus, outbox, runs>>
      BY <1>0, <1>5 DEF PublishResult, journalVars, TypeOK, BrokerTypeOK
    <2>3. QED
      BY <1>0, <2>1, <2>2 DEF RecordsAgreeOn
  <1>6. ASSUME NEW h \in Handler, MarkResultPublished(h), Op(h) = op
        PROVE  RecordsAgreeOn(op)'
    <2>1. inbox[op].status = "completed" /\ inbox[op].result \in results[op]
      BY <1>0, <1>6 DEF MarkResultPublished, HeldResultsAreJournaled
    <2>2. /\ outbox'[op].payload = outbox[op].payload
          /\ UNCHANGED <<inbox, opStatus, results, runs>>
      BY <1>0, <1>6 DEF MarkResultPublished, MarkPublished, JournalTypeOK, OutboxRow
    <2>3. QED
      BY <1>0, <2>1, <2>2 DEF RecordsAgreeOn
  <1>7. CASE UNCHANGED <<journalVars, results, runs>>
    BY <1>0, <1>7 DEF journalVars, RecordsAgreeOn
  <1>8. QED
    BY <1>1, <1>2, <1>3, <1>4, <1>5, <1>6, <1>7, RecordsChange DEF RecordStep
\* Rows only grow: a claim keeps its request, a completed row never changes,
\* and neither the outbox row nor the published replies are taken back.
RowGrows(op) ==
    /\ inbox[op].status # "absent" => inbox'[op].request = inbox[op].request
    /\ inbox[op].status = "completed" => inbox'[op] = inbox[op]
    /\ outbox[op].payload # NoReply => outbox'[op].payload = outbox[op].payload
    /\ outbox[op].delivered => outbox'[op].delivered
    /\ results[op] \subseteq results'[op]

LEMMA RowsGrow ==
    ASSUME IInv, [Next]_vars, NEW op \in Operation
    PROVE  RowGrows(op)
  <1>0. /\ TypeOK /\ JournalTypeOK /\ RecordsAgreeOn(op)
        /\ ClaimsAreExclusive /\ HeldResultsAreJournaled
    BY DEF IInv, TypeOK, RecordsAgree
  <1>1. ASSUME NEW h \in Handler, RecordStep(h), Op(h) # op PROVE RowGrows(op)
    BY <1>0, <1>1 DEF RecordStep, ClaimNew, ClaimRows, Execute, Complete, CompleteRows,
                      PublishResult, MarkResultPublished, MarkPublished, Op, RowGrows,
                      TypeOK, JournalTypeOK, BrokerTypeOK, journalVars
  <1>2. ASSUME NEW h \in Handler, ClaimNew(h), Op(h) = op PROVE RowGrows(op)
    <2>1. inbox[op].status = "absent" /\ UNCHANGED <<outbox, results>>
      BY <1>2 DEF ClaimNew, ClaimRows, IsNew, Op
    <2>2. QED
      BY <2>1 DEF RowGrows
  <1>3. ASSUME NEW h \in Handler, Complete(h), Op(h) = op PROVE RowGrows(op)
    <2>1. inbox[op].status = "processing" /\ outbox[op].payload = NoReply
      BY <1>0, <1>3 DEF Complete, ClaimsAreExclusive, RecordsAgreeOn
    <2>2. /\ inbox'[op].request = inbox[op].request
          /\ outbox'[op].delivered = outbox[op].delivered
          /\ UNCHANGED results
      BY <1>0, <1>3 DEF Complete, CompleteRows, journalVars, JournalTypeOK, InboxRow, OutboxRow
    <2>3. QED
      BY <2>1, <2>2 DEF RowGrows
  <1>4. ASSUME NEW h \in Handler, PublishResult(h) PROVE RowGrows(op)
    BY <1>0, <1>4 DEF PublishResult, RowGrows, TypeOK, BrokerTypeOK, journalVars
  <1>5. ASSUME NEW h \in Handler, MarkResultPublished(h) PROVE RowGrows(op)
    BY <1>0, <1>5 DEF MarkResultPublished, MarkPublished, RowGrows, JournalTypeOK, OutboxRow
  <1>6. ASSUME NEW h \in Handler, Execute(h) PROVE RowGrows(op)
    BY <1>6 DEF Execute, RowGrows, journalVars
  <1>7. CASE UNCHANGED <<journalVars, results, runs>>
    BY <1>7 DEF journalVars, RowGrows
  <1>8. QED
    BY <1>1, <1>2, <1>3, <1>4, <1>5, <1>6, <1>7, RecordsChange DEF RecordStep

\* A step that leaves the message of a handler alone leaves its request alone.
LEMMA SameMessage ==
    ASSUME NEW k \in Handler, msg'[k] = msg[k]
    PROVE  Req(k)' = Req(k) /\ Op(k)' = Op(k)
  BY DEF Req, Op

\* Steps after which no handler is in a stage it was not in before.
LEMMA QuietStep ==
    ASSUME IInv, [Next]_vars, NEW k \in Handler,
           ~\E h \in Handler : HandlerStep(h) \/ HandlerFails(h)
    PROVE  pc'[k] = "idle" \/ (pc'[k] = pc[k] /\ msg'[k] = msg[k] /\ reply'[k] = reply[k])
  BY DEF Next, vars, workerVars, handlerVars, Publish, Deliver, AckTimeout, Tick, PullError,
         Crash
Working(k) == pc[k] \in {"execute", "complete"}

\* While a handler works on its claim, nobody else's step touches that row.
LEMMA ClaimKept ==
    ASSUME IInv, [Next]_vars, NEW k \in Handler, Working(k),
           pc'[k] = pc[k], msg'[k] = msg[k], reply'[k] = reply[k]
    PROVE  inbox'[Op(k)] = inbox[Op(k)] /\ runs'[Op(k)] = runs[Op(k)]
  <1>0. /\ TypeOK /\ JournalTypeOK /\ ClaimsAreExclusive /\ HeldResultsAreJournaled
        /\ Op(k) \in Operation /\ inbox[Op(k)].status = "processing"
    BY HandledRequest DEF IInv, TypeOK, Working, ClaimsAreExclusive
  <1>1. ASSUME NEW h \in Handler, ClaimNew(h)
        PROVE  inbox'[Op(k)] = inbox[Op(k)] /\ runs'[Op(k)] = runs[Op(k)]
    <2>1. Op(h) # Op(k)
      BY <1>0, <1>1 DEF ClaimNew, IsNew, Op
    <2>2. QED
      BY <1>0, <1>1, <2>1 DEF ClaimNew, ClaimRows, Op, JournalTypeOK
  <1>2. ASSUME NEW h \in Handler, Execute(h) \/ Complete(h)
        PROVE  inbox'[Op(k)] = inbox[Op(k)] /\ runs'[Op(k)] = runs[Op(k)]
    <2>1. h # k
      BY <1>0, <1>2 DEF Execute, Complete, Release, GoTo, TypeOK, WorkerTypeOK
    <2>2. Op(h) # Op(k)
      BY <1>0, <1>2, <2>1 DEF Execute, Complete, ClaimsAreExclusive, Working
    <2>3. QED
      BY <1>0, <1>2, <2>2 DEF Execute, Complete, CompleteRows, journalVars, JournalTypeOK,
                              TypeOK, CountersTypeOK
  <1>3. ASSUME NEW h \in Handler, PublishResult(h) \/ MarkResultPublished(h)
        PROVE  inbox'[Op(k)] = inbox[Op(k)] /\ runs'[Op(k)] = runs[Op(k)]
    BY <1>3 DEF PublishResult, MarkResultPublished, MarkPublished, journalVars
  <1>4. CASE UNCHANGED <<journalVars, results, runs>>
    BY <1>4 DEF journalVars
  <1>5. QED
    BY <1>1, <1>2, <1>3, <1>4, RecordsChange DEF RecordStep

LEMMA ExclusiveInit == Init => ClaimsAreExclusive
  BY DEF Init, ClaimsAreExclusive

\* Whoever works after a step did so before it, or has just made the claim.
LEMMA WorkersBefore ==
    ASSUME IInv, [Next]_vars, NEW k \in Handler, Working(k)'
    PROVE  \/ Working(k) /\ pc'[k] = pc[k] /\ msg'[k] = msg[k] /\ reply'[k] = reply[k]
           \/ ClaimNew(k)
           \/ Execute(k)
  <1>0. TypeOK /\ WorkerTypeOK
    BY DEF IInv, TypeOK
  <1>1. ASSUME NEW h \in Handler, HandlerStep(h) \/ HandlerFails(h), h # k
        PROVE  pc'[k] = pc[k] /\ msg'[k] = msg[k] /\ reply'[k] = reply[k]
    BY <1>0, <1>1, OthersStay
  <1>2. CASE HandlerStep(k) \/ HandlerFails(k)
    BY <1>0, <1>2 DEF Working, WorkerTypeOK, HandlerStep, HandlerFails, Release, GoTo, Start,
                 Validate, ClaimReplay, ClaimRefused, Complete, PendingResult,
                 PublishResult, MarkResultPublished, Acknowledge
  <1>3. QED
    BY <1>1, <1>2, QuietStep DEF Working

LEMMA ExclusiveStep == IInv /\ [Next]_vars => ClaimsAreExclusive'
  <1> SUFFICES ASSUME IInv, [Next]_vars PROVE ClaimsAreExclusive'
    OBVIOUS
  <1>0. /\ TypeOK /\ JournalTypeOK /\ WorkerTypeOK /\ CountersTypeOK
        /\ RecordsAgree /\ ClaimsAreExclusive
    BY DEF IInv, TypeOK
  <1>1. ASSUME NEW k \in Handler, Working(k)'
        PROVE  /\ inbox'[Op(k)'].status = "processing" /\ inbox'[Op(k)'].request = Req(k)'
               /\ pc'[k] = "execute" => runs'[Op(k)'] = 0
               /\ pc'[k] = "complete" => reply'[k] \in Reply
    <2>1. CASE Working(k) /\ pc'[k] = pc[k] /\ msg'[k] = msg[k] /\ reply'[k] = reply[k]
      BY <1>0, <2>1, ClaimKept, SameMessage DEF ClaimsAreExclusive, Working
    <2>2. CASE ClaimNew(k)
      <3>1. /\ Req(k) \in Request /\ Op(k) \in Operation /\ Op(k) = OperationOf[Req(k)]
            /\ Req(k)' = Req(k) /\ Op(k)' = Op(k)
        BY <1>0, <2>2, HandledRequest, SameMessage DEF ClaimNew, Op
      <3>2. inbox'[Op(k)] = [status |-> "processing", request |-> Req(k), result |-> NoReply]
        BY <1>0, <2>2, <3>1 DEF ClaimNew, ClaimRows, JournalTypeOK
      <3>3. runs'[Op(k)] = 0 /\ pc'[k] = "execute"
        BY <1>0, <2>2, <3>1 DEF ClaimNew, IsNew, GoTo, RecordsAgree, RecordsAgreeOn,
                                WorkerTypeOK
      <3>4. QED
        BY <3>1, <3>2, <3>3
    <2>3. CASE Execute(k)
      <3>1. Req(k)' = Req(k) /\ Op(k)' = Op(k) /\ inbox' = inbox
        BY <2>3, SameMessage DEF Execute, journalVars
      <3>2. pc'[k] = "complete" /\ reply'[k] \in Reply
        BY <1>0, <2>3, WorkerAssumption DEF Execute, GoTo, WorkerTypeOK
      <3>3. QED
        BY <1>0, <2>3, <3>1, <3>2 DEF Execute, ClaimsAreExclusive
    <2>4. QED
      BY <1>1, <2>1, <2>2, <2>3, WorkersBefore
  <1>2. ASSUME NEW h \in Handler, NEW k \in Handler, Working(h)', Working(k)', Op(h)' = Op(k)'
        PROVE  h = k
    <2>1. ASSUME NEW i \in Handler, NEW j \in Handler, ClaimNew(i), Working(j),
                 msg'[j] = msg[j]
          PROVE  Op(i)' # Op(j)'
      BY <1>0, <2>1, SameMessage DEF ClaimNew, IsNew, Op, ClaimsAreExclusive, Working
    <2>2. ASSUME NEW i \in Handler, Working(i)' PROVE (Working(i) /\ Op(i)' = Op(i)) \/ ClaimNew(i)
      BY <2>2, WorkersBefore, SameMessage DEF Execute, Working
    <2>3. ASSUME NEW i \in Handler, NEW j \in Handler, i # j, ClaimNew(i), Working(j)'
          PROVE  Working(j) /\ msg'[j] = msg[j]
      BY <1>0, <2>3, OthersStay DEF HandlerStep, Working
    <2>4. QED
      BY <1>0, <1>2, <2>1, <2>2, <2>3 DEF ClaimsAreExclusive, Working
  <1>3. QED
    BY <1>1, <1>2 DEF ClaimsAreExclusive, Working

-----------------------------------------------------------------------------
(* Results in handlers' hands, and acknowledged messages.                  *)

\* A handler past complete.
Publishing(k) == pc[k] \in {"pending", "publish", "mark", "ack"}

LEMMA HeldInit == Init => HeldResultsAreJournaled
  BY DEF Init, HeldResultsAreJournaled

LEMMA PublishersBefore ==
    ASSUME IInv, [Next]_vars, NEW k \in Handler, Publishing(k)'
    PROVE  \/ Publishing(k) /\ pc'[k] = pc[k] /\ msg'[k] = msg[k] /\ reply'[k] = reply[k]
           \/ ClaimReplay(k) \/ Complete(k)
           \/ PendingResult(k) \/ PublishResult(k) \/ MarkResultPublished(k)
  <1>0. TypeOK /\ WorkerTypeOK
    BY DEF IInv, TypeOK
  <1>1. ASSUME NEW h \in Handler, HandlerStep(h) \/ HandlerFails(h), h # k
        PROVE  pc'[k] = pc[k] /\ msg'[k] = msg[k] /\ reply'[k] = reply[k]
    BY <1>0, <1>1, OthersStay
  <1>2. CASE HandlerStep(k) \/ HandlerFails(k)
    BY <1>0, <1>2 DEF Publishing, WorkerTypeOK, HandlerStep, HandlerFails, Release, GoTo,
                      Start, Validate, ClaimNew, ClaimRefused, Execute, Acknowledge
  <1>3. QED
    BY <1>1, <1>2, QuietStep DEF Publishing

LEMMA HeldStep == IInv /\ [Next]_vars => HeldResultsAreJournaled'
  <1> SUFFICES ASSUME IInv, [Next]_vars, NEW k \in Handler, Publishing(k)'
               PROVE  /\ inbox'[Op(k)'].status = "completed"
                      /\ inbox'[Op(k)'].request = Req(k)'
                      /\ reply'[k] = inbox'[Op(k)'].result
                      /\ pc'[k] \in {"mark", "ack"} => reply'[k] \in results'[Op(k)']
                      /\ pc'[k] = "ack" => outbox'[Op(k)'].delivered
    BY DEF HeldResultsAreJournaled, Publishing
  <1>0. /\ TypeOK /\ JournalTypeOK /\ WorkerTypeOK
        /\ RecordsAgree /\ ClaimsAreExclusive /\ HeldResultsAreJournaled
    BY DEF IInv, TypeOK
  <1>1. pc[k] # "idle" => Op(k) \in Operation /\ Req(k) \in Request
    BY <1>0, HandledRequest
  <1>2. CASE Publishing(k) /\ pc'[k] = pc[k] /\ msg'[k] = msg[k] /\ reply'[k] = reply[k]
    <2>1. Op(k) \in Operation /\ Req(k)' = Req(k) /\ Op(k)' = Op(k) /\ RowGrows(Op(k))
      BY <1>1, <1>2, SameMessage, RowsGrow DEF Publishing
    <2>2. QED
      BY <1>0, <1>2, <2>1 DEF HeldResultsAreJournaled, Publishing, RowGrows
  <1>3. CASE ClaimReplay(k)
    <2>1. /\ Req(k)' = Req(k) /\ Op(k)' = Op(k) /\ inbox' = inbox
          /\ Op(k) = OperationOf[Req(k)]
      BY <1>3, SameMessage DEF ClaimReplay, journalVars, Op
    <2>2. pc'[k] = "pending" /\ reply'[k] = inbox[Op(k)].result
      BY <1>0, <1>3 DEF ClaimReplay, GoTo, WorkerTypeOK
    <2>3. inbox[Op(k)].status = "completed" /\ inbox[Op(k)].request = Req(k)
      BY <1>3, <2>1 DEF ClaimReplay, IsReplay, IsConflict, IsNew
    <2>4. QED
      BY <2>1, <2>2, <2>3
  <1>4. CASE Complete(k)
    <2>1. CompleteRows(Op(k), reply[k]) /\ pc'[k] = "pending" /\ UNCHANGED <<msg, reply>>
      BY <1>0, <1>4 DEF Complete, Release, GoTo, WorkerTypeOK, Publishing
    <2>2. Req(k)' = Req(k) /\ Op(k)' = Op(k) /\ Op(k) \in Operation
      BY <1>1, <1>4, <2>1, SameMessage DEF Complete
    <2>3. /\ inbox'[Op(k)].status = "completed" /\ inbox'[Op(k)].result = reply[k]
          /\ inbox'[Op(k)].request = inbox[Op(k)].request
      BY <1>0, <2>1, <2>2 DEF CompleteRows, JournalTypeOK, InboxRow
    <2>4. inbox[Op(k)].request = Req(k)
      BY <1>0, <1>4 DEF Complete, ClaimsAreExclusive
    <2>5. QED
      BY <2>1, <2>2, <2>3, <2>4
  <1>5. CASE PendingResult(k)
    <2>1. /\ Req(k)' = Req(k) /\ Op(k)' = Op(k) /\ inbox' = inbox /\ Op(k) \in Operation
      BY <1>1, <1>5, SameMessage DEF PendingResult, journalVars
    <2>2. /\ inbox[Op(k)].status = "completed" /\ inbox[Op(k)].request = Req(k)
          /\ reply[k] = inbox[Op(k)].result
      BY <1>0, <1>5 DEF PendingResult, HeldResultsAreJournaled
    <2>3. outbox[Op(k)].payload = inbox[Op(k)].result
      BY <1>0, <2>1, <2>2 DEF RecordsAgree, RecordsAgreeOn
    <2>4. pc'[k] = "publish" /\ reply'[k] = inbox[Op(k)].result
      BY <1>0, <1>5, <2>2, <2>3 DEF PendingResult, GoTo, WorkerTypeOK
    <2>5. QED
      BY <2>1, <2>2, <2>4
  <1>6. CASE PublishResult(k)
    <2>1. /\ Req(k)' = Req(k) /\ Op(k)' = Op(k) /\ inbox' = inbox /\ Op(k) \in Operation
      BY <1>1, <1>6, SameMessage DEF PublishResult, journalVars
    <2>2. /\ inbox[Op(k)].status = "completed" /\ inbox[Op(k)].request = Req(k)
          /\ reply[k] = inbox[Op(k)].result
      BY <1>0, <1>6 DEF PublishResult, HeldResultsAreJournaled
    <2>3. /\ pc'[k] = "mark" /\ reply' = reply
          /\ results'[Op(k)] = results[Op(k)] \cup {reply[k]}
      BY <1>0, <1>6, <2>1 DEF PublishResult, GoTo, WorkerTypeOK, TypeOK, BrokerTypeOK
    <2>4. QED
      BY <2>1, <2>2, <2>3
  <1>7. CASE MarkResultPublished(k)
    <2>1. /\ Req(k)' = Req(k) /\ Op(k)' = Op(k) /\ Op(k) \in Operation
          /\ inbox' = inbox /\ results' = results /\ reply' = reply
      BY <1>1, <1>7, SameMessage DEF MarkResultPublished, MarkPublished
    <2>2. /\ inbox[Op(k)].status = "completed" /\ inbox[Op(k)].request = Req(k)
          /\ reply[k] = inbox[Op(k)].result /\ reply[k] \in results[Op(k)]
      BY <1>0, <1>7 DEF MarkResultPublished, HeldResultsAreJournaled
    <2>3. outbox[Op(k)].payload # NoReply
      BY <1>0, <2>1, <2>2, JournalAssumption DEF RecordsAgree, RecordsAgreeOn
    <2>4. outbox'[Op(k)].delivered
      BY <1>0, <1>7, <2>1, <2>3
         DEF MarkResultPublished, MarkPublished, HasPending, JournalTypeOK, OutboxRow
    <2>5. QED
      BY <2>1, <2>2, <2>4
  <1>8. QED
    BY <1>2, <1>3, <1>4, <1>5, <1>6, <1>7, PublishersBefore

LEMMA AckedInit == Init => AckedIsDelivered
  BY DEF Init, AckedIsDelivered

\* A message is acknowledged by a handler in the stage "ack" that holds it.
LEMMA AckedBefore ==
    ASSUME IInv, [Next]_vars, NEW m \in Message, queue'[m] = "acked"
    PROVE  \/ queue[m] = "acked"
           \/ \E h \in Handler : pc[h] = "ack" /\ msg[h] = m
  <1>0. BrokerTypeOK
    BY DEF IInv, TypeOK
  <1>1. ASSUME NEW x \in Message, Publish(x) \/ Deliver(x) \/ AckTimeout(x)
        PROVE  queue[m] = "acked"
    BY <1>0, <1>1 DEF Publish, Deliver, AckTimeout, Returned, BrokerTypeOK
  <1>2. ASSUME NEW h \in Handler, Validate(h)
        PROVE  queue[m] = "acked"
    BY <1>0, <1>2 DEF Validate, Settle, BrokerTypeOK
  <1>3. ASSUME NEW h \in Handler, Acknowledge(h)
        PROVE  queue[m] = "acked" \/ (pc[h] = "ack" /\ msg[h] = m)
    BY <1>0, <1>3 DEF Acknowledge, Settle, Returned, BrokerTypeOK
  <1>4. CASE UNCHANGED queue
    BY <1>4
  <1>5. QED
    BY <1>1, <1>2, <1>3, <1>4
       DEF Next, HandlerStep, vars, brokerVars, Tick, Start, ClaimNew, ClaimReplay,
           ClaimRefused, Execute, Complete, PendingResult, PublishResult,
           MarkResultPublished, HandlerFails, PullError, Crash

LEMMA AckedStep == IInv /\ [Next]_vars => AckedIsDelivered'
  <1> SUFFICES ASSUME IInv, [Next]_vars, NEW m \in Message, queue'[m] = "acked",
                      NEW q, NEW op, q = RequestOf[m], op = OperationOf[q]
               PROVE  /\ inbox'[op].request = q /\ outbox'[op].delivered
                      /\ results'[op] = {inbox'[op].result}
    BY DEF AckedIsDelivered
  <1>0. op \in Operation /\ q \in Request
    BY JournalAssumption, WorkerAssumption
  <1>1. inbox[op].request = q /\ outbox[op].delivered
    <2>1. CASE queue[m] = "acked"
      BY <2>1 DEF IInv, AckedIsDelivered
    <2>2. ASSUME NEW h \in Handler, pc[h] = "ack", msg[h] = m
          PROVE  inbox[op].request = q /\ outbox[op].delivered
      BY <2>2 DEF IInv, HeldResultsAreJournaled, Req, Op
    <2>3. QED
      BY <2>1, <2>2, AckedBefore
  <1>2. RowGrows(op) /\ RecordsAgreeOn(op) /\ RecordsAgreeOn(op)'
    BY <1>0, RowsGrow, RecordsStep DEF IInv, RecordsAgree
  <1>3. inbox[op].status # "absent"
    BY <1>0, <1>1, <1>2, JournalAssumption DEF RecordsAgreeOn
  <1>4. QED
    BY <1>1, <1>2, <1>3 DEF RowGrows, RecordsAgreeOn

-----------------------------------------------------------------------------
(* The theorems.                                                           *)

\* The inductive invariant holds in every reachable state.
THEOREM Invariance == Spec => []IInv
  <1>1. Init => IInv
    BY TypeInit, RecordsInit, ExclusiveInit, HeldInit, AckedInit DEF IInv
  <1>2. IInv /\ [Next]_vars => IInv'
    BY JournalTypeStep, BrokerTypeStep, WorkerTypeStep, CountersTypeStep, RecordsStep,
       ExclusiveStep, HeldStep, AckedStep DEF IInv, TypeOK
  <1>3. QED
    BY <1>1, <1>2, PTL DEF Spec

\* Every variable keeps its type: the tables, the streams, the handlers.
THEOREM TypeCorrect == Spec => []TypeOK
  BY Invariance, PTL DEF IInv

\* No redelivery, replay, crash or race of handlers makes the service execute
\* an operation twice.
THEOREM ExecutesAtMostOnce == Spec => []AtMostOneExecution
  <1>1. IInv => AtMostOneExecution
    BY DEF IInv, RecordsAgree, RecordsAgreeOn, AtMostOneExecution
  <1>2. QED
    BY <1>1, Invariance, PTL

\* Only journaled results are published.
THEOREM PublishesJournaled == Spec => []ResultsAreJournaled
  <1>1. IInv => ResultsAreJournaled
    <2> SUFFICES ASSUME IInv, NEW op \in Operation, NEW r \in results[op]
                 PROVE  inbox[op].status = "completed" /\ inbox[op].result = r
      BY DEF ResultsAreJournaled
    <2>1. RecordsAgreeOn(op)
      BY DEF IInv, RecordsAgree
    <2>2. QED
      BY <2>1 DEF RecordsAgreeOn
  <1>2. QED
    BY <1>1, Invariance, PTL

\* Acknowledging a message loses no result.
THEOREM AcknowledgesDelivered == Spec => []AckedIsDelivered
  BY Invariance, PTL DEF IInv

\* The status table mirrors the inbox, for the owner of the claim only.
THEOREM StatusIsFaithful == Spec => []StatusAgreesWithInbox
  <1>1. IInv => StatusAgreesWithInbox
    <2> SUFFICES ASSUME IInv, NEW op \in Operation, NEW s \in Subject
                 PROVE  LET seen == StatusFor(op, s) IN
                        IF inbox[op].status # "absent" /\ SubjectOf[inbox[op].request] = s
                        THEN seen = [status |-> inbox[op].status, result |-> inbox[op].result]
                        ELSE seen.status = "absent"
      BY DEF StatusAgreesWithInbox
    <2>1. RecordsAgreeOn(op)
      BY DEF IInv, RecordsAgree
    <2>2. QED
      BY <2>1 DEF RecordsAgreeOn, StatusFor
  <1>2. QED
    BY <1>1, Invariance, PTL

\* Claims and results are written once.
THEOREM WritesOnce == Spec => JournalIsWriteOnce
  <1>1. IInv /\ [Next]_vars => [\A op \in Operation :
        /\ inbox[op].status # "absent" => inbox'[op].request = inbox[op].request
        /\ inbox[op].status = "completed" => inbox'[op] = inbox[op]
        /\ outbox[op].payload # NoReply => outbox'[op].payload = outbox[op].payload
        /\ outbox[op].delivered => outbox'[op].delivered]_vars
    BY RowsGrow DEF RowGrows
  <1>2. QED
    BY <1>1, Invariance, PTL DEF Spec, JournalIsWriteOnce

\* An orphaned claim is neither executed again nor completed, and stays
\* orphaned.
THEOREM OrphansStay == Spec => OrphanedClaimStays
  <1>1. ASSUME IInv, [Next]_vars, NEW op \in Operation, Orphaned(op)
        PROVE  inbox'[op] = inbox[op] /\ runs'[op] = runs[op] /\ Orphaned(op)'
    <2>0. TypeOK /\ JournalTypeOK /\ CountersTypeOK /\ inbox[op].status = "processing"
      BY <1>1 DEF IInv, TypeOK, Orphaned
    <2>1. ASSUME NEW h \in Handler, ClaimNew(h) \/ Execute(h) \/ Complete(h)
          PROVE  Op(h) # op
      BY <1>1, <2>0, <2>1 DEF ClaimNew, IsNew, Op, Execute, Complete, Orphaned
    <2>2. ASSUME NEW h \in Handler, RecordStep(h)
          PROVE  inbox'[op] = inbox[op] /\ runs'[op] = runs[op]
      BY <2>0, <2>1, <2>2
         DEF RecordStep, ClaimNew, ClaimRows, Execute, Complete, CompleteRows,
             PublishResult, MarkResultPublished, MarkPublished, Op, JournalTypeOK,
             CountersTypeOK, journalVars
    <2>3. inbox'[op] = inbox[op] /\ runs'[op] = runs[op]
      BY <1>1, <2>2, RecordsChange DEF journalVars
    <2>4. ASSUME NEW k \in Handler, Working(k)'
          PROVE  Op(k)' # op
      <3>1. CASE Working(k) /\ pc'[k] = pc[k] /\ msg'[k] = msg[k]
        BY <1>1, <3>1, SameMessage DEF Orphaned, Working
      <3>2. CASE ClaimNew(k) \/ Execute(k)
        BY <2>1, <3>2, SameMessage DEF ClaimNew, Execute
      <3>3. QED
        BY <1>1, <2>4, <3>1, <3>2, WorkersBefore
    <2>5. QED
      BY <2>0, <2>3, <2>4 DEF Orphaned, Working
  <1>2. IInv /\ [Next]_vars => [\A op \in Operation : Orphaned(op) =>
            inbox'[op] = inbox[op] /\ runs'[op] = runs[op] /\ Orphaned(op)']_vars
    BY <1>1
  <1>3. QED
    BY <1>2, Invariance, PTL DEF Spec, OrphanedClaimStays

-----------------------------------------------------------------------------
(* Refinement.                                                             *)

LEMMA LifecycleInit == Init => Lifecycle!Init
  BY DEF Init, JournalInit, Lifecycle!Init

\* A step that changes neither tables nor results stutters in the lifecycle.
LEMMA LifecycleStutters ==
    ASSUME UNCHANGED <<inbox, results>>
    PROVE  UNCHANGED Lifecycle!vars
  BY DEF Lifecycle!vars

LEMMA LifecycleStep == IInv /\ [Next]_vars => [Lifecycle!Next]_(Lifecycle!vars)
  <1> SUFFICES ASSUME IInv, [Next]_vars PROVE Lifecycle!Next \/ UNCHANGED Lifecycle!vars
    OBVIOUS
  <1>0. /\ TypeOK /\ JournalTypeOK /\ BrokerTypeOK /\ WorkerTypeOK
        /\ RecordsAgree /\ ClaimsAreExclusive /\ HeldResultsAreJournaled
    BY DEF IInv, TypeOK
  \* The claim begins the operation ...
  <1>1. ASSUME NEW h \in Handler, ClaimNew(h), NEW op \in Operation, op = Op(h)
        PROVE  \E q \in Request : Lifecycle!Begin(op, q)
    <2>1. PICK q \in Request : q = Req(h) /\ OperationOf[q] = op
      BY <1>0, <1>1, HandledRequest DEF ClaimNew, Op
    <2>2. /\ inbox' = [inbox EXCEPT ![op] =
                [status |-> "processing", request |-> q, result |-> NoReply]]
          /\ inbox[op].status = "absent" /\ results' = results
      BY <1>1, <2>1 DEF ClaimNew, ClaimRows, IsNew
    <2>3. inbox[op].result = NoReply
      BY <1>0, <2>2 DEF RecordsAgree, RecordsAgreeOn
    <2>4. Lifecycle!Begin(op, q)
      BY <1>0, <2>1, <2>2, <2>3 DEF Lifecycle!Begin, JournalTypeOK
    <2>5. QED
      BY <2>4
  \* ... complete finishes it with the reply of its executor ...
  <1>2. ASSUME NEW h \in Handler, Complete(h), NEW op \in Operation, op = Op(h)
        PROVE  (\E r \in Reply : Lifecycle!Finish(op, r)) \/ UNCHANGED Lifecycle!vars
    <2>1. PICK r \in Reply : r = reply[h]
      BY <1>0, <1>2 DEF Complete, ClaimsAreExclusive
    <2>2. inbox[op].status = "processing"
      BY <1>0, <1>2 DEF Complete, ClaimsAreExclusive
    <2>3. CASE CompleteRows(Op(h), reply[h])
      <3>1. /\ inbox' = [inbox EXCEPT ![op].status = "completed", ![op].result = r]
            /\ results' = results
        BY <1>2, <2>1, <2>3 DEF CompleteRows, Complete
      <3>2. Lifecycle!Finish(op, r)
        BY <1>0, <2>2, <3>1 DEF Lifecycle!Finish, JournalTypeOK, InboxRow
      <3>3. QED
        BY <3>2
    <2>4. CASE UNCHANGED journalVars
      BY <1>2, <2>4, LifecycleStutters DEF Complete, journalVars
    <2>5. QED
      BY <1>2, <2>3, <2>4 DEF Complete
  \* ... and publishing announces the reply it finished with.
  <1>3. ASSUME NEW h \in Handler, PublishResult(h), NEW op \in Operation, op = Op(h)
        PROVE  Lifecycle!Announce(op)
    <2>1. inbox[op].status = "completed" /\ reply[h] = inbox[op].result
      BY <1>0, <1>3 DEF PublishResult, HeldResultsAreJournaled
    <2>2. /\ results' = [results EXCEPT ![op] = @ \cup {inbox[op].result}]
          /\ inbox' = inbox
      BY <1>3, <2>1 DEF PublishResult, journalVars
    <2>3. QED
      BY <1>0, <2>1, <2>2 DEF Lifecycle!Announce, BrokerTypeOK
  <1>4. ASSUME NEW h \in Handler, Execute(h) \/ MarkResultPublished(h)
        PROVE  UNCHANGED Lifecycle!vars
    BY <1>4, LifecycleStutters DEF Execute, MarkResultPublished, MarkPublished, journalVars
  <1>5. CASE UNCHANGED <<journalVars, results, runs>>
    BY <1>5, LifecycleStutters DEF journalVars
  <1>6. ASSUME NEW h \in Handler, RecordStep(h)
        PROVE  Lifecycle!Next \/ UNCHANGED Lifecycle!vars
    <2>1. Op(h) \in Operation
      BY <1>0, <1>6, HandledRequest
         DEF RecordStep, ClaimNew, Execute, Complete, PublishResult, MarkResultPublished
    <2>2. PICK op \in Operation : op = Op(h)
      BY <2>1
    <2>3. CASE ClaimNew(h)
      BY <1>1, <2>2, <2>3 DEF Lifecycle!Next
    <2>4. CASE Complete(h)
      BY <1>2, <2>2, <2>4 DEF Lifecycle!Next
    <2>5. CASE PublishResult(h)
      BY <1>3, <2>2, <2>5 DEF Lifecycle!Next
    <2>6. QED
      BY <1>4, <1>6, <2>3, <2>4, <2>5 DEF RecordStep
  <1>7. QED
    BY <1>5, <1>6, RecordsChange

\* The worker implements the lifecycle: every operation begins once, finishes
\* once and announces only the reply it finished with.
THEOREM Refinement == Spec => ImplementsLifecycle
  <1>1. QED
    BY LifecycleInit, LifecycleStep, Invariance, PTL
       DEF Spec, ImplementsLifecycle, Lifecycle!Spec

=============================================================================
