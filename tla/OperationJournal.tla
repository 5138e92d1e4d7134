-------------------------- MODULE OperationJournal --------------------------
(***************************************************************************)
(* The durable operation journal of the API server: the three Postgres     *)
(* tables of migrations/0001_durable_operations.sql and the five calls of  *)
(* SeaOrmOperationJournal (src/transport_runtime.rs).  Every call is one   *)
(* SQL statement or one transaction, so each is one atomic update of the   *)
(* tables; a call that fails is rolled back and leaves them alone.         *)
(*                                                                         *)
(* A request is the JSON text of one submission.  The journal stores its   *)
(* SHA-256 fingerprint, taken to be collision free, so the text itself     *)
(* stands for the fingerprint.  The envelope fixes the operation id and    *)
(* the subject of a request.                                               *)
(***************************************************************************)
EXTENDS Naturals

CONSTANTS
    Operation,      \* operation ids
    Subject,        \* verified callers
    Request,        \* request texts (equivalently: their fingerprints)
    Reply,          \* encoded operation replies
    OperationOf,    \* operation id named by a request's envelope
    SubjectOf,      \* subject named by a request's envelope
    NoRequest, NoSubject, NoReply,
    SubjectNotNull  \* TRUE: act_operation_status.subject is NOT NULL with no
                    \* default, as the committed migration declares it

ASSUME JournalAssumption ==
    /\ OperationOf \in [Request -> Operation]
    /\ SubjectOf \in [Request -> Subject]
    /\ NoRequest \notin Request
    /\ NoSubject \notin Subject
    /\ NoReply \notin Reply
    /\ SubjectNotNull \in BOOLEAN

VARIABLES
    inbox,      \* act_operation_inbox, by operation_id
    opStatus,   \* act_operation_status, by operation_id
    outbox      \* act_operation_outbox, by event_id (= operation_id)

journalVars == <<inbox, opStatus, outbox>>

RowStatus == {"absent", "processing", "completed"}

InboxRow  == [status: RowStatus, request: Request \cup {NoRequest},
              result: Reply \cup {NoReply}]
StatusRow == [status: RowStatus, subject: Subject \cup {NoSubject},
              result: Reply \cup {NoReply}]
OutboxRow == [payload: Reply \cup {NoReply}, delivered: BOOLEAN]

JournalTypeOK ==
    /\ inbox \in [Operation -> InboxRow]
    /\ opStatus \in [Operation -> StatusRow]
    /\ outbox \in [Operation -> OutboxRow]

JournalInit ==
    /\ inbox = [op \in Operation |->
           [status |-> "absent", request |-> NoRequest, result |-> NoReply]]
    /\ opStatus = [op \in Operation |->
           [status |-> "absent", subject |-> NoSubject, result |-> NoReply]]
    /\ outbox = [op \in Operation |-> [payload |-> NoReply, delivered |-> FALSE]]

-----------------------------------------------------------------------------
(* claim: the verdict of the insert-or-read transaction.                   *)

\* Slips in the claim, for checking that the properties notice them: a claim
\* taken over while it is processing, and a conflicting claim that overwrites.
IsNewOrUnfinished(q) == inbox[OperationOf[q]].status # "completed"
IsNewOrDifferent(q)  == inbox[OperationOf[q]].request # q

IsNew(q)        == inbox[OperationOf[q]].status = "absent"
IsConflict(q)   == ~IsNew(q) /\ inbox[OperationOf[q]].request # q
IsProcessing(q) == ~IsConflict(q) /\ inbox[OperationOf[q]].status = "processing"
IsReplay(q)     == ~IsConflict(q) /\ inbox[OperationOf[q]].status = "completed"

\* The rows the transaction inserts when the operation id was free.
ClaimRows(q) ==
    /\ inbox' = [inbox EXCEPT ![OperationOf[q]] =
           [status |-> "processing", request |-> q, result |-> NoReply]]
    /\ opStatus' = [opStatus EXCEPT ![OperationOf[q]] =
           [status |-> "processing", subject |-> SubjectOf[q], result |-> NoReply]]
    /\ UNCHANGED outbox

\* complete needs a row still processing.  Its second statement inserts a
\* status row without a subject: a NOT NULL column rejects the proposed row
\* before ON CONFLICT is considered, and the transaction rolls back.
CanComplete(op) == inbox[op].status = "processing" /\ ~SubjectNotNull

\* Slip: the status table is not updated with the inbox.
CompleteWithoutStatus(op, r) ==
    /\ inbox' = [inbox EXCEPT ![op].status = "completed", ![op].result = r]
    /\ outbox' = [outbox EXCEPT ![op].payload = IF @ = NoReply THEN r ELSE @]
    /\ UNCHANGED opStatus

CompleteRows(op, r) ==
    /\ inbox' = [inbox EXCEPT ![op].status = "completed", ![op].result = r]
    /\ opStatus' = [opStatus EXCEPT ![op].status = "completed", ![op].result = r]
    /\ outbox' = [outbox EXCEPT ![op].payload = IF @ = NoReply THEN r ELSE @]

\* pending_result: the outbox row not yet marked delivered, if there is one.
HasPending(op) == outbox[op].payload # NoReply /\ ~outbox[op].delivered

MarkPublished(op) ==
    /\ outbox' = [outbox EXCEPT ![op].delivered = @ \/ HasPending(op)]
    /\ UNCHANGED <<inbox, opStatus>>

\* status: what a caller may read of an operation.  Another subject's
\* operation looks like one that does not exist.
StatusFor(op, s) ==
    IF opStatus[op].status # "absent" /\ opStatus[op].subject = s
    THEN [status |-> opStatus[op].status, result |-> opStatus[op].result]
    ELSE [status |-> "absent", result |-> NoReply]

=============================================================================
