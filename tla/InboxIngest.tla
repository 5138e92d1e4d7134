----------------------------- MODULE InboxIngest -----------------------------
(***************************************************************************)
(* The two ways a video gets into the Drive inbox of the Apps Script       *)
(* bridge: ingestHttpVideo_ (apps-script/src/04_DriveBackup.gs), one file  *)
(* per control request id, under the script lock; and                      *)
(* ingestGmailVideoAttachments_ (apps-script/src/08_Gmail.gs), one file    *)
(* per attachment, with a marker and without a lock.                       *)
(*                                                                         *)
(* Requests have passed validation, so a content stands for bytes and for  *)
(* their SHA-256 digest; attachments are videos within the size limit.     *)
(* Executions overlap and may be stopped anywhere; reads and writes of     *)
(* script properties succeed.                                              *)
(***************************************************************************)
EXTENDS Naturals, FiniteSets

CONSTANTS
    Execution,    \* executions that may run at the same time
    RequestId,    \* control request ids
    Name,         \* file names a request may give
    Content,      \* bytes of a video
    Attachment,   \* Gmail attachments
    MaxFiles,     \* bound on the files created in Drive
    MaxKills,     \* bound on the executions stopped by the platform
    MaxFailures,  \* bound on the failing calls to Drive and Gmail
    None

ASSUME IngestAssumption ==
    /\ MaxFiles \in Nat /\ MaxKills \in Nat /\ MaxFailures \in Nat
    /\ None \notin Execution \cup RequestId \cup Name \cup Content \cup Attachment
    /\ None # "ok"
    /\ RequestId \cap Attachment = {}

File == 1..MaxFiles

VARIABLES
    receipts,   \* property HTTP_VIDEO_INGEST_ of each request id
    markers,    \* attachments with a property GMAIL_DONE_
    lock,       \* the script lock
    files,      \* the files in Drive, with the source each was created for
    exec,       \* what each execution is doing, or has answered
    lost,       \* history: sources with a file nobody has a record of, and
                \* attachments two executions were importing at once
    kills, failures

faultVars == <<kills, failures>>
vars == <<receipts, markers, lock, files, exec, lost, faultVars>>

NoFile    == [state |-> "unused", source |-> None, name |-> None, content |-> None]
NoReceipt == [file |-> 0, content |-> None]
Idle == [pc |-> "idle", id |-> None, name |-> None, content |-> None,
         file |-> 0, answer |-> None, todo |-> {}]

TypeOK ==
    /\ receipts \in [RequestId -> [file: 0..MaxFiles, content: Content \cup {None}]]
    /\ markers \subseteq Attachment
    /\ lock \in Execution \cup {None}
    /\ files \in [File -> [state: {"unused", "present", "deleted"},
                           source: RequestId \cup Attachment \cup {None},
                           name: Name \cup {None}, content: Content \cup {None}]]
    /\ exec \in [Execution ->
         [pc: {"idle", "lock", "receipt", "search", "create", "record",
               "scan", "import", "mark", "answered"},
          id: RequestId \cup Attachment \cup {None},
          name: Name \cup {None}, content: Content \cup {None}, file: 0..MaxFiles,
          answer: {"ok", "busy", "conflict", "gone", "unexpected", "failed", None},
          todo: SUBSET Attachment]]
    \* whoever holds the lock is inside its try block
    /\ \A e \in Execution :
         lock = e <=> exec[e].pc \in {"receipt", "search", "create", "record"}
    /\ lost \subseteq RequestId \cup Attachment
    /\ kills \in 0..MaxKills /\ failures \in 0..MaxFailures

Init ==
    /\ receipts = [r \in RequestId |-> NoReceipt]
    /\ markers = {} /\ lock = None /\ lost = {}
    /\ files = [f \in File |-> NoFile]
    /\ exec = [e \in Execution |-> Idle]
    /\ kills = 0 /\ failures = 0

At(e, pc)   == exec[e].pc = pc
GoTo(e, pc) == exec' = [exec EXCEPT ![e].pc = pc]

\* The execution returns or throws.
Answer(e, what, f) ==
    exec' = [exec EXCEPT ![e].pc = "answered", ![e].answer = what, ![e].file = f]

NewFile == {f \in File : files[f].state = "unused" /\ \A g \in File :
                files[g].state = "unused" => f <= g}
Present(r) == {f \in File : files[f].state = "present" /\ files[f].source = r}

-----------------------------------------------------------------------------
(* ingestHttpVideo_.                                                       *)

Submit(e, r, n, c) ==
    /\ exec[e].pc \in {"idle", "answered"}
    /\ exec' = [exec EXCEPT ![e] = [Idle EXCEPT !.pc = "lock", !.id = r, !.name = n, !.content = c]]
    /\ UNCHANGED <<receipts, markers, lock, files, lost, faultVars>>

\* Slip: a lock that stays busy is not noticed.
TakeBusyLock(e) ==
    /\ At(e, "lock")
    /\ lock' = e /\ GoTo(e, "receipt")
    /\ UNCHANGED <<receipts, markers, files, lost, faultVars>>

\* tryLock.  Other users of the script lock (an upload, the setup) may keep
\* it busy too.
TakeLock(e) ==
    /\ At(e, "lock")
    /\ \/ lock = None /\ lock' = e /\ GoTo(e, "receipt")
       \/ Answer(e, "busy", 0) /\ UNCHANGED lock
    /\ UNCHANGED <<receipts, markers, files, lost, faultVars>>

\* Answer and leave the try block.
AnswerAndUnlock(e, what, f) == Answer(e, what, f) /\ lock' = None

\* Slip: the receipt is returned whatever the bytes.
TrustReceipt(e) ==
    /\ At(e, "receipt")
    /\ LET receipt == receipts[exec[e].id] IN
       IF receipt = NoReceipt THEN GoTo(e, "search") /\ UNCHANGED lock
       ELSE AnswerAndUnlock(e, "ok", receipt.file)
    /\ UNCHANGED <<receipts, markers, files, lost, faultVars>>

\* A receipt answers the request: with its file, if the bytes are the same
\* and the file can still be read.
ReadReceipt(e) ==
    /\ At(e, "receipt")
    /\ LET receipt == receipts[exec[e].id] IN
       \/ receipt = NoReceipt /\ GoTo(e, "search") /\ UNCHANGED lock
       \/ /\ receipt # NoReceipt /\ receipt.content # exec[e].content
          /\ AnswerAndUnlock(e, "conflict", 0)
       \/ /\ receipt # NoReceipt /\ receipt.content = exec[e].content
          /\ IF files[receipt.file].state = "present"
             THEN AnswerAndUnlock(e, "ok", receipt.file)
             ELSE AnswerAndUnlock(e, "gone", 0)
    /\ UNCHANGED <<receipts, markers, files, lost, faultVars>>

\* The stored name is made of the request id and the file name.
Existing(e) == {f \in Present(exec[e].id) : files[f].name = exec[e].name}

\* Slip: the inbox is not searched.
SkipSearch(e) ==
    /\ At(e, "search") /\ GoTo(e, "create")
    /\ UNCHANGED <<receipts, markers, lock, files, lost, faultVars>>

\* A file of that name is the trace of an ingest that was cut short.  Inside
\* that branch "properties" is the file's appProperties, which has no
\* setProperty: the attempt to write the missing receipt throws a TypeError.
SearchInbox(e) ==
    /\ At(e, "search")
    /\ \/ Existing(e) = {} /\ GoTo(e, "create") /\ UNCHANGED lock
       \/ \E f \in Existing(e) :
            IF files[f].content # exec[e].content
            THEN AnswerAndUnlock(e, "conflict", 0)
            ELSE AnswerAndUnlock(e, "unexpected", 0)
    /\ UNCHANGED <<receipts, markers, files, lost, faultVars>>

Stored(f, source, n, c) ==
    [files EXCEPT ![f] = [state |-> "present", source |-> source, name |-> n, content |-> c]]

CreateFile(e) ==
    /\ At(e, "create")
    /\ \E f \in NewFile :
         /\ files' = Stored(f, exec[e].id, exec[e].name, exec[e].content)
         /\ exec' = [exec EXCEPT ![e].pc = "record", ![e].file = f]
    /\ UNCHANGED <<receipts, markers, lock, lost, faultVars>>

\* Slip: the receipt is left out.
RecordNothing(e) ==
    /\ At(e, "record")
    /\ AnswerAndUnlock(e, "ok", exec[e].file)
    /\ UNCHANGED <<receipts, markers, files, lost, faultVars>>

RecordReceipt(e) ==
    /\ At(e, "record")
    /\ receipts' = [receipts EXCEPT ![exec[e].id] =
           [file |-> exec[e].file, content |-> exec[e].content]]
    /\ AnswerAndUnlock(e, "ok", exec[e].file)
    /\ UNCHANGED <<markers, files, lost, faultVars>>

Fault == failures < MaxFailures /\ failures' = failures + 1

\* A call to Drive fails, or the answer to a create that took place is lost.
IngestFails(e) ==
    /\ exec[e].pc \in {"receipt", "search", "create"} /\ Fault
    /\ AnswerAndUnlock(e, "failed", 0)
    /\ \/ UNCHANGED <<files, lost>>
       \/ /\ At(e, "create")
          /\ \E f \in NewFile : files' = Stored(f, exec[e].id, exec[e].name, exec[e].content)
          /\ lost' = lost \cup {exec[e].id}
    /\ UNCHANGED <<receipts, markers, kills>>

HttpStep(e) ==
    \/ TakeLock(e) \/ ReadReceipt(e) \/ SearchInbox(e) \/ CreateFile(e) \/ RecordReceipt(e)

-----------------------------------------------------------------------------
(* ingestGmailVideoAttachments_.                                           *)

Scan(e, S) ==
    /\ exec[e].pc \in {"idle", "answered"}
    /\ exec' = [exec EXCEPT ![e] = [Idle EXCEPT !.pc = "scan", !.todo = S]]
    /\ UNCHANGED <<receipts, markers, lock, files, lost, faultVars>>

\* Another execution is between the check and the marker of an attachment.
Importing(a) == \E e \in Execution : exec[e].pc \in {"import", "mark"} /\ exec[e].id = a

Take(e, a) ==
    /\ exec' = [exec EXCEPT ![e].todo = @ \ {a}, ![e].pc = "import", ![e].id = a]
    /\ lost' = IF Importing(a) THEN lost \cup {a} ELSE lost

\* Slip: the marker is not looked at.
CheckNothing(e, a) ==
    /\ At(e, "scan") /\ a \in exec[e].todo
    /\ Take(e, a)
    /\ UNCHANGED <<receipts, markers, lock, files, faultVars>>

CheckMarker(e, a) ==
    /\ At(e, "scan") /\ a \in exec[e].todo
    /\ IF a \in markers
       THEN exec' = [exec EXCEPT ![e].todo = @ \ {a}] /\ UNCHANGED lost
       ELSE Take(e, a)
    /\ UNCHANGED <<receipts, markers, lock, files, faultVars>>

Import(e) ==
    /\ At(e, "import")
    /\ \E f \in NewFile : files' = Stored(f, exec[e].id, None, None)
    /\ GoTo(e, "mark")
    /\ UNCHANGED <<receipts, markers, lock, lost, faultVars>>

Mark(e) ==
    /\ At(e, "mark")
    /\ markers' = markers \cup {exec[e].id}
    /\ GoTo(e, "scan")
    /\ UNCHANGED <<receipts, lock, files, lost, faultVars>>

ScanEnds(e) ==
    /\ At(e, "scan") /\ exec[e].todo = {}
    /\ Answer(e, "ok", 0)
    /\ UNCHANGED <<receipts, markers, lock, files, lost, faultVars>>

\* The first failing attachment ends the run.
ImportFails(e) ==
    /\ At(e, "import") /\ Fault
    /\ Answer(e, "failed", 0)
    /\ \/ UNCHANGED <<files, lost>>
       \/ /\ \E f \in NewFile : files' = Stored(f, exec[e].id, None, None)
          /\ lost' = lost \cup {exec[e].id}
    /\ UNCHANGED <<receipts, markers, lock, kills>>

GmailStep(e) ==
    \/ \E a \in Attachment : CheckMarker(e, a)
    \/ Import(e) \/ Mark(e) \/ ScanEnds(e)

-----------------------------------------------------------------------------
(* The platform and the owner of the drive.                                *)

Kill(e) ==
    /\ exec[e].pc \notin {"idle", "answered"}
    /\ kills < MaxKills /\ kills' = kills + 1
    /\ exec' = [exec EXCEPT ![e] = Idle]
    /\ lock' = IF lock = e THEN None ELSE lock
    /\ lost' = IF exec[e].pc \in {"record", "mark"} THEN lost \cup {exec[e].id} ELSE lost
    /\ UNCHANGED <<receipts, markers, files, failures>>

DeleteFile(f) ==
    /\ files[f].state = "present"
    /\ files' = [files EXCEPT ![f].state = "deleted"]
    /\ UNCHANGED <<receipts, markers, lock, exec, lost, faultVars>>

Next ==
    \/ \E e \in Execution :
         \/ \E r \in RequestId, n \in Name, c \in Content : Submit(e, r, n, c)
         \/ \E S \in SUBSET Attachment : Scan(e, S)
         \/ HttpStep(e) \/ GmailStep(e)
         \/ IngestFails(e) \/ ImportFails(e) \/ Kill(e)
    \/ \E f \in File : DeleteFile(f)

Spec == Init /\ [][Next]_vars

-----------------------------------------------------------------------------
(* Properties.                                                             *)

\* HTTP-API.md: "Retries must reuse the same controlRequestId".  A request id
\* gets a second file only after an ingest was cut short between the file and
\* its receipt, whatever is retried, renamed, run at once or deleted.
SecondFileNeedsLoss ==
    \A r \in RequestId : Cardinality(Present(r)) > 1 => r \in lost

\* Even then a retry under the same file name finds the file and makes no copy.
ExactRetryMakesNoCopy ==
    \A r \in RequestId : \A f, g \in Present(r) : files[f].name = files[g].name => f = g

\* An answer never hands out somebody else's bytes: its file was created for
\* this request id and holds exactly the bytes of this request.
AnswersAreFaithful ==
    \A e \in Execution : exec[e].answer = "ok" /\ exec[e].id \in RequestId =>
        LET f == files[exec[e].file] IN
        f.source = exec[e].id /\ f.content = exec[e].content

\* README.md: "imported attachments are deduplicated".  Across any number of
\* scans an attachment is imported once, unless two of them are at it at the
\* same time or one is cut short between the file and its marker.
SecondImportNeedsRace ==
    \A a \in Attachment :
        Cardinality({f \in File : files[f].source = a}) > 1 => a \in lost

\* HTTP-API.md: "an exact replay returns the existing Drive file".  An ingest
\* that finds the file of its request id, name and bytes answers with it.
ExactReplayReturnsFile ==
    [][\A e \in Execution :
        (/\ exec[e].pc = "search" /\ exec'[e].pc = "answered"
         /\ failures' = failures
         /\ \E f \in Existing(e) : files[f].content = exec[e].content)
        => exec'[e].answer = "ok"]_vars

=============================================================================
