-------------------------- MODULE InboxIngestProofs --------------------------
(***************************************************************************)
(* Proofs about InboxIngest, for any set of executions, request ids, names,*)
(* contents and attachments, and any bounds on files, kills and failures.  *)
(***************************************************************************)
EXTENDS InboxIngest, FiniteSetTheorems, TLAPS

-----------------------------------------------------------------------------
(* The inductive invariant.                                                *)

\* What an execution works for goes with its position; it has answered only
\* at its end.
RunsAgree ==
    \A e \in Execution :
        /\ exec[e].pc \in {"lock", "receipt", "search", "create", "record"} =>
             exec[e].id \in RequestId /\ exec[e].name \in Name /\ exec[e].content \in Content
        /\ exec[e].pc \in {"import", "mark"} => exec[e].id \in Attachment
        /\ exec[e].pc = "scan" => exec[e].id \notin RequestId
        /\ exec[e].pc # "answered" => exec[e].answer = None

\* The files not created yet are those without a source.
FilesAgree == \A f \in File : files[f].state = "unused" <=> files[f].source = None

\* A file of this source with these bytes.
Holds(f, source, content) ==
    f \in File /\ files[f].source = source /\ files[f].content = content

\* A receipt, an execution about to write one and one that has answered name
\* a file that was created for the request id and holds its bytes.
RecordsAreFaithful ==
    /\ \A r \in RequestId : receipts[r] # NoReceipt =>
         Holds(receipts[r].file, r, receipts[r].content)
    /\ \A e \in Execution : At(e, "record") =>
         Holds(exec[e].file, exec[e].id, exec[e].content)
    /\ \A e \in Execution : exec[e].answer = "ok" /\ exec[e].id \in RequestId =>
         Holds(exec[e].file, exec[e].id, exec[e].content)

\* The lock keeps what its holder has found out true: there is no receipt,
\* and no file under the name it is about to create.
FindingsLast ==
    \A e \in Execution :
        /\ exec[e].pc \in {"search", "create", "record"} => receipts[exec[e].id] = NoReceipt
        /\ At(e, "create") => Existing(e) = {}

\* Unless an ingest was cut short, every file of a request id is on its
\* receipt or about to be.
RequestFilesAreKnown ==
    \A r \in RequestId, f \in File : files[f].source = r /\ r \notin lost =>
        \/ f = receipts[r].file
        \/ \E e \in Execution : At(e, "record") /\ exec[e].id = r /\ exec[e].file = f

\* Unless two scans were at it or one was cut short, an attachment with a
\* file is marked or about to be; one execution at most is importing it, and
\* before the import there is no file.
ImportsAreKnown ==
    \A a \in Attachment : a \notin lost =>
        /\ \A f \in File : files[f].source = a =>
             a \in markers \/ \E e \in Execution : At(e, "mark") /\ exec[e].id = a
        /\ \A e, d \in Execution :
             exec[e].pc \in {"import", "mark"} /\ exec[d].pc \in {"import", "mark"}
               /\ exec[e].id = a /\ exec[d].id = a => e = d
        /\ \A e \in Execution, f \in File :
             At(e, "import") /\ exec[e].id = a => files[f].source # a
        /\ \A f, g \in File : files[f].source = a /\ files[g].source = a => f = g

IngestInv ==
    /\ TypeOK /\ RunsAgree /\ FilesAgree /\ RecordsAreFaithful /\ FindingsLast
    /\ RequestFilesAreKnown /\ ImportsAreKnown
    /\ ExactRetryMakesNoCopy

-----------------------------------------------------------------------------
(* Runs of executions.                                                     *)

Pc == {"idle", "lock", "receipt", "search", "create", "record",
       "scan", "import", "mark", "answered"}

TryBlock == {"receipt", "search", "create", "record"}

Run ==
    [pc: Pc, id: RequestId \cup Attachment \cup {None},
     name: Name \cup {None}, content: Content \cup {None}, file: 0..MaxFiles,
     answer: {"ok", "busy", "conflict", "gone", "unexpected", "failed", None},
     todo: SUBSET Attachment]

Outcome == {"ok", "busy", "conflict", "gone", "unexpected", "failed"}

LEMMA Zero == 0 \in 0..MaxFiles /\ File \subseteq 0..MaxFiles /\ 0 \notin File
  BY IngestAssumption DEF File

LEMMA IdleRun ==
    /\ Idle \in Run /\ Idle.pc = "idle" /\ Idle.id = None /\ Idle.answer = None
  BY Zero DEF Idle, Run, Pc

\* The records an execution can be left with.
MovedTo(x, pc)           == [x EXCEPT !.pc = pc]
AnsweredWith(x, what, f) == [x EXCEPT !.pc = "answered", !.answer = what, !.file = f]
SubmittedFor(r, n, c)    == [Idle EXCEPT !.pc = "lock", !.id = r, !.name = n, !.content = c]
Scanning(S)              == [Idle EXCEPT !.pc = "scan", !.todo = S]
CreatedAs(x, f)          == [x EXCEPT !.pc = "record", !.file = f]
TakenOn(x, a)            == [x EXCEPT !.todo = @ \ {a}, !.pc = "import", !.id = a]
SkippedOver(x, a)        == [x EXCEPT !.todo = @ \ {a}]

LEMMA MovedRun ==
    ASSUME NEW x \in Run, NEW pc \in Pc
    PROVE  LET y == MovedTo(x, pc) IN
           /\ y \in Run /\ y.pc = pc /\ y.id = x.id /\ y.name = x.name /\ y.content = x.content
           /\ y.file = x.file /\ y.answer = x.answer
  BY DEF Run, MovedTo

LEMMA AnsweredRun ==
    ASSUME NEW x \in Run, NEW what \in Outcome, NEW f \in 0..MaxFiles
    PROVE  LET y == AnsweredWith(x, what, f) IN
           /\ y \in Run /\ y.pc = "answered" /\ y.id = x.id /\ y.content = x.content
           /\ y.file = f /\ y.answer = what
  BY DEF Run, Pc, Outcome, AnsweredWith

LEMMA SubmittedRun ==
    ASSUME NEW r \in RequestId, NEW n \in Name, NEW c \in Content
    PROVE  LET y == SubmittedFor(r, n, c) IN
           /\ y \in Run /\ y.pc = "lock" /\ y.id = r /\ y.name = n /\ y.content = c
           /\ y.answer = None
  BY Zero DEF Idle, Run, Pc, SubmittedFor

LEMMA ScanningRun ==
    ASSUME NEW S \in SUBSET Attachment
    PROVE  LET y == Scanning(S) IN
           y \in Run /\ y.pc = "scan" /\ y.id = None /\ y.answer = None
  BY Zero DEF Idle, Run, Pc, Scanning

LEMMA CreatedRun ==
    ASSUME NEW x \in Run, NEW f \in File
    PROVE  LET y == CreatedAs(x, f) IN
           /\ y \in Run /\ y.pc = "record" /\ y.id = x.id /\ y.name = x.name
           /\ y.content = x.content /\ y.file = f /\ y.answer = x.answer
  BY Zero DEF Run, Pc, CreatedAs

LEMMA TakenRun ==
    ASSUME NEW x \in Run, NEW a \in Attachment
    PROVE  LET y == TakenOn(x, a)  z == SkippedOver(x, a) IN
           /\ y \in Run /\ y.pc = "import" /\ y.id = a /\ y.answer = x.answer
           /\ z \in Run /\ z.pc = x.pc /\ z.id = x.id /\ z.answer = x.answer
  BY DEF Run, Pc, TakenOn, SkippedOver

LEMMA TypedRuns ==
    TypeOK => /\ exec \in [Execution -> Run]
              /\ \A e \in Execution : lock = e <=> exec[e].pc \in TryBlock
              /\ lock \in Execution \cup {None} /\ None \notin Execution
  BY IngestAssumption DEF TypeOK, Run, Pc, TryBlock

\* A step of execution e leaves the others where they are and gives e the
\* record y, which agrees with itself; the lock goes with it.
Steps(e, y) == y \in Run /\ exec' = [exec EXCEPT ![e] = y]

Agrees(y) ==
    /\ y.pc \in {"lock", "receipt", "search", "create", "record"} =>
         y.id \in RequestId /\ y.name \in Name /\ y.content \in Content
    /\ y.pc \in {"import", "mark"} => y.id \in Attachment
    /\ y.pc = "scan" => y.id \notin RequestId
    /\ y.pc # "answered" => y.answer = None

LockGoes(e, pc, pcNext) ==
    \/ pc \in TryBlock /\ pcNext \in TryBlock /\ UNCHANGED lock
    \/ pc \notin TryBlock /\ pcNext \notin TryBlock /\ UNCHANGED lock
    \/ lock = None /\ pcNext \in TryBlock /\ lock' = e
    \/ pc \in TryBlock /\ pcNext \notin TryBlock /\ lock' = None

LEMMA RunsStepWith ==
    ASSUME TypeOK, RunsAgree, NEW e \in Execution, NEW y, Steps(e, y), Agrees(y),
           LockGoes(e, exec[e].pc, y.pc)
    PROVE  /\ exec' \in [Execution -> Run]
           /\ \A d \in Execution : lock' = d <=> exec'[d].pc \in TryBlock
           /\ lock' \in Execution \cup {None}
           /\ RunsAgree'
<1> USE TypedRuns
<1>1. exec' \in [Execution -> Run] /\ exec'[e] = y /\ \A d \in Execution \ {e} : exec'[d] = exec[d]
  BY DEF Steps
<1>2. \A d \in Execution : lock' = d <=> exec'[d].pc \in TryBlock
  BY <1>1 DEF LockGoes
<1>3. RunsAgree'
  BY <1>1 DEF RunsAgree, Agrees
<1> QED
  BY <1>1, <1>2, <1>3 DEF LockGoes

\* Where each action takes the execution.
LEMMA RunsStep ==
    ASSUME TypeOK, RunsAgree, [Next]_vars
    PROVE  /\ exec' \in [Execution -> Run]
           /\ \A d \in Execution : lock' = d <=> exec'[d].pc \in TryBlock
           /\ lock' \in Execution \cup {None}
           /\ RunsAgree'
<1> DEFINE Good == /\ exec' \in [Execution -> Run]
                   /\ \A d \in Execution : lock' = d <=> exec'[d].pc \in TryBlock
                   /\ lock' \in Execution \cup {None}
                   /\ RunsAgree'
<1> USE TypedRuns
<1>1. ASSUME UNCHANGED <<exec, lock>>
      PROVE  Good
  BY <1>1 DEF RunsAgree
<1>2. ASSUME NEW e \in Execution, NEW r \in RequestId, NEW n \in Name, NEW c \in Content,
             Submit(e, r, n, c)
      PROVE  Good
  <2> DEFINE y == SubmittedFor(r, n, c)
  <2>1. Steps(e, y)
    BY <1>2, SubmittedRun DEF Submit, Steps, SubmittedFor
  <2>2. Agrees(y)
    BY SubmittedRun DEF Agrees
  <2>3. LockGoes(e, exec[e].pc, y.pc)
    BY <1>2, SubmittedRun DEF Submit, LockGoes, TryBlock
  <2> QED
    BY <2>1, <2>2, <2>3, RunsStepWith
<1>3. ASSUME NEW e \in Execution, NEW S \in SUBSET Attachment, Scan(e, S)
      PROVE  Good
  <2> DEFINE y == Scanning(S)
  <2>1. Steps(e, y)
    BY <1>3, ScanningRun DEF Scan, Steps, Scanning
  <2>2. Agrees(y)
    BY ScanningRun, IngestAssumption DEF Agrees
  <2>3. LockGoes(e, exec[e].pc, y.pc)
    BY <1>3, ScanningRun DEF Scan, LockGoes, TryBlock
  <2> QED
    BY <2>1, <2>2, <2>3, RunsStepWith
\* an answer, from inside the try block or outside it
<1>4. ASSUME NEW e \in Execution, NEW what \in Outcome, NEW f \in 0..MaxFiles, Answer(e, what, f),
             \/ exec[e].pc \in TryBlock /\ lock' = None
             \/ exec[e].pc \notin TryBlock /\ UNCHANGED lock
      PROVE  Good
  <2> DEFINE y == AnsweredWith(exec[e], what, f)
  <2>1. exec' = [exec EXCEPT ![e] = y]
    BY <1>4 DEF Answer, AnsweredWith
  <2>2. y \in Run /\ y.pc = "answered"
    BY <1>4, AnsweredRun
  <2>3. Agrees(y)
    BY <2>2 DEF Agrees
  <2>4. LockGoes(e, exec[e].pc, y.pc)
    BY <1>4, <2>2 DEF LockGoes, TryBlock
  <2> QED
    BY <2>1, <2>2, <2>3, <2>4, RunsStepWith DEF Steps
\* on to another position
<1>5. ASSUME NEW e \in Execution, NEW pc \in Pc, GoTo(e, pc), pc # "answered",
             exec[e].pc # "answered",
             \/ /\ exec[e].pc = "lock" /\ pc = "receipt" /\ lock = None /\ lock' = e
             \/ /\ exec[e].pc \in TryBlock /\ pc \in TryBlock /\ UNCHANGED lock
             \/ /\ exec[e].pc \in {"import", "mark"} /\ pc \in {"mark", "scan"} /\ UNCHANGED lock
      PROVE  Good
  <2> DEFINE y == MovedTo(exec[e], pc)
  <2>1. Steps(e, y) /\ y.pc = pc
    BY <1>5, MovedRun DEF GoTo, Steps, MovedTo
  <2>2. Agrees(y)
    BY <1>5, MovedRun, IngestAssumption DEF RunsAgree, Agrees, TryBlock
  <2>3. LockGoes(e, exec[e].pc, y.pc)
    BY <1>5, <2>1 DEF LockGoes, TryBlock
  <2> QED
    BY <2>1, <2>2, <2>3, RunsStepWith
<1>6. ASSUME NEW e \in Execution, CreateFile(e)
      PROVE  Good
  <2>0. PICK f \in NewFile : exec' = [exec EXCEPT ![e].pc = "record", ![e].file = f]
    BY <1>6 DEF CreateFile
  <2> DEFINE y == CreatedAs(exec[e], f)
  <2>1. exec' = [exec EXCEPT ![e] = y]
    BY <2>0 DEF CreatedAs
  <2>2. /\ y \in Run /\ y.pc = "record" /\ y.id = exec[e].id /\ y.name = exec[e].name
        /\ y.content = exec[e].content /\ y.answer = exec[e].answer
    BY CreatedRun DEF NewFile
  <2>3. Agrees(y)
    BY <1>6, <2>2 DEF CreateFile, At, RunsAgree, Agrees
  <2>4. LockGoes(e, exec[e].pc, y.pc)
    BY <1>6, <2>2 DEF CreateFile, At, LockGoes, TryBlock
  <2> QED
    BY <2>1, <2>2, <2>3, <2>4, RunsStepWith DEF Steps
<1>7. ASSUME NEW e \in Execution, NEW a \in Attachment, CheckMarker(e, a)
      PROVE  Good
  <2> DEFINE y == TakenOn(exec[e], a)
             z == SkippedOver(exec[e], a)
  <2>0. exec[e].pc = "scan" /\ exec[e].answer = None /\ exec[e].id \notin RequestId
    BY <1>7 DEF CheckMarker, At, RunsAgree
  <2>1. CASE Take(e, a)
    <3>1. exec' = [exec EXCEPT ![e] = y]
      BY <2>1 DEF Take, TakenOn
    <3>2. y \in Run /\ Agrees(y) /\ y.pc = "import"
      BY <2>0, TakenRun DEF Agrees
    <3>3. LockGoes(e, exec[e].pc, y.pc)
      BY <1>7, <2>0, <3>2 DEF CheckMarker, LockGoes, TryBlock
    <3> QED
      BY <3>1, <3>2, <3>3, RunsStepWith DEF Steps
  <2>2. CASE exec' = [exec EXCEPT ![e].todo = @ \ {a}]
    <3>1. exec' = [exec EXCEPT ![e] = z]
      BY <2>2 DEF SkippedOver
    <3>2. z \in Run /\ Agrees(z) /\ z.pc = "scan"
      BY <2>0, TakenRun DEF Agrees
    <3>3. LockGoes(e, exec[e].pc, z.pc)
      BY <1>7, <2>0, <3>2 DEF CheckMarker, LockGoes, TryBlock
    <3> QED
      BY <3>1, <3>2, <3>3, RunsStepWith DEF Steps
  <2> QED
    BY <1>7, <2>1, <2>2 DEF CheckMarker
<1>8. ASSUME NEW e \in Execution, Kill(e)
      PROVE  Good
  <2>1. Steps(e, Idle) /\ Agrees(Idle)
    BY <1>8, IdleRun DEF Kill, Steps, Agrees
  <2>2. LockGoes(e, exec[e].pc, Idle.pc)
    BY <1>8, IdleRun DEF Kill, LockGoes, TryBlock
  <2> QED
    BY <2>1, <2>2, RunsStepWith
<1>9. ASSUME NEW e \in Execution, HttpStep(e) \/ IngestFails(e)
      PROVE  Good
  <2>1. CASE TakeLock(e)
    BY <1>4, <1>5, <2>1, Zero DEF TakeLock, At, Pc, TryBlock, Outcome
  <2>2. CASE ReadReceipt(e)
    <3>1. \/ GoTo(e, "search") /\ UNCHANGED lock
          \/ \E what \in Outcome, f \in 0..MaxFiles : AnswerAndUnlock(e, what, f)
      <4>1. receipts[exec[e].id].file \in 0..MaxFiles
        BY <2>2 DEF ReadReceipt, At, RunsAgree, TypeOK
      <4> QED
        BY <2>2, <4>1, Zero DEF ReadReceipt, Outcome
    <3> QED
      BY <1>4, <1>5, <2>2, <3>1 DEF ReadReceipt, At, Pc, TryBlock, AnswerAndUnlock
  <2>3. CASE SearchInbox(e)
    <3>1. \/ GoTo(e, "create") /\ UNCHANGED lock
          \/ \E what \in Outcome, f \in 0..MaxFiles : AnswerAndUnlock(e, what, f)
      BY <2>3, Zero DEF SearchInbox, Outcome
    <3> QED
      BY <1>4, <1>5, <2>3, <3>1 DEF SearchInbox, At, Pc, TryBlock, AnswerAndUnlock
  <2>4. CASE RecordReceipt(e)
    <3>1. exec[e].file \in 0..MaxFiles
      BY DEF Run
    <3> QED
      BY <1>4, <2>4, <3>1 DEF RecordReceipt, At, TryBlock, Outcome, AnswerAndUnlock
  <2>5. CASE IngestFails(e)
    BY <1>4, <2>5, Zero DEF IngestFails, TryBlock, Outcome, AnswerAndUnlock
  <2> QED
    BY <1>6, <1>9, <2>1, <2>2, <2>3, <2>4, <2>5 DEF HttpStep
<1>10. ASSUME NEW e \in Execution, GmailStep(e) \/ ImportFails(e)
       PROVE  Good
  <2>1. CASE Import(e)
    BY <1>5, <2>1 DEF Import, At, Pc, TryBlock
  <2>2. CASE Mark(e)
    BY <1>5, <2>2 DEF Mark, At, Pc, TryBlock
  <2>3. CASE ScanEnds(e)
    BY <1>4, <2>3, Zero DEF ScanEnds, At, TryBlock, Outcome
  <2>4. CASE ImportFails(e)
    BY <1>4, <2>4, Zero DEF ImportFails, At, TryBlock, Outcome
  <2> QED
    BY <1>7, <1>10, <2>1, <2>2, <2>3, <2>4 DEF GmailStep
<1>11. ASSUME NEW f \in File, DeleteFile(f)
       PROVE  Good
  BY <1>1, <1>11 DEF DeleteFile
<1>12. CASE UNCHANGED vars
  BY <1>1, <1>12 DEF vars
<1> QED
  BY <1>2, <1>3, <1>8, <1>9, <1>10, <1>11, <1>12 DEF Next

-----------------------------------------------------------------------------
(* Files.                                                                  *)

FileRecord ==
    [state: {"unused", "present", "deleted"}, source: RequestId \cup Attachment \cup {None},
     name: Name \cup {None}, content: Content \cup {None}]

\* A file stays what it was created as; at most it is deleted.
KeptFile(f) ==
    /\ files'[f].source = files[f].source /\ files'[f].name = files[f].name
    /\ files'[f].content = files[f].content
    /\ files'[f].state = "unused" <=> files[f].state = "unused"
    /\ files'[f].state = "present" => files[f].state = "present"

\* Execution e creates file f, for a request or an attachment.  It goes on to
\* write the record of it, or its id is lost.
CreatedBy(e, f, n, c) ==
    /\ files[f].state = "unused"
    /\ files'[f] = [state |-> "present", source |-> exec[e].id, name |-> n, content |-> c]
    /\ \A g \in File \ {f} : files'[g] = files[g]

StoredForRequest(e, f) ==
    /\ At(e, "create") /\ CreatedBy(e, f, exec[e].name, exec[e].content)
    /\ \/ exec'[e] = CreatedAs(exec[e], f)
       \/ exec'[e].pc = "answered" /\ exec[e].id \in lost'

StoredForAttachment(e, f) ==
    /\ At(e, "import") /\ CreatedBy(e, f, None, None)
    /\ \/ exec'[e] = MovedTo(exec[e], "mark")
       \/ exec'[e].pc = "answered" /\ exec[e].id \in lost'

LEMMA StoredFile ==
    ASSUME TypeOK, NEW e \in Execution, NEW f \in NewFile, NEW n, NEW c,
           files' = Stored(f, exec[e].id, n, c)
    PROVE  f \in File /\ CreatedBy(e, f, n, c)
  BY DEF NewFile, Stored, CreatedBy, TypeOK

LEMMA FilesStep ==
    ASSUME TypeOK, [Next]_vars
    PROVE  \/ \A f \in File : KeptFile(f)
           \/ \E e \in Execution, f \in File : StoredForRequest(e, f) \/ StoredForAttachment(e, f)
<1>1. CASE UNCHANGED files
  BY <1>1 DEF KeptFile
<1>2. ASSUME NEW f \in File, DeleteFile(f)
      PROVE  \A g \in File : KeptFile(g)
  <2>1. files \in [File -> FileRecord]
    BY DEF TypeOK, FileRecord
  <2> QED
    BY <1>2, <2>1 DEF DeleteFile, KeptFile, FileRecord
<1>3. ASSUME NEW e \in Execution, CreateFile(e)
      PROVE  \E f \in File : StoredForRequest(e, f)
  <2>1. PICK f \in NewFile : /\ files' = Stored(f, exec[e].id, exec[e].name, exec[e].content)
                            /\ exec' = [exec EXCEPT ![e].pc = "record", ![e].file = f]
    BY <1>3 DEF CreateFile
  <2>2. exec'[e] = CreatedAs(exec[e], f)
    BY <2>1, TypedRuns DEF CreatedAs
  <2> QED
    BY <1>3, <2>1, <2>2, StoredFile DEF CreateFile, StoredForRequest
<1>4. ASSUME NEW e \in Execution, IngestFails(e), ~UNCHANGED files
      PROVE  \E f \in File : StoredForRequest(e, f)
  <2>1. PICK f \in NewFile : files' = Stored(f, exec[e].id, exec[e].name, exec[e].content)
    BY <1>4 DEF IngestFails
  <2>2. At(e, "create") /\ exec[e].id \in lost'
    BY <1>4 DEF IngestFails
  <2>3. exec'[e] = AnsweredWith(exec[e], "failed", 0)
    BY <1>4, TypedRuns DEF IngestFails, AnswerAndUnlock, Answer, AnsweredWith
  <2> QED
    <3>1. exec'[e].pc = "answered"
      BY <2>3, AnsweredRun, TypedRuns, Zero DEF Outcome
    <3> QED
      BY <2>1, <2>2, <3>1, StoredFile DEF StoredForRequest
<1>5. ASSUME NEW e \in Execution, Import(e)
      PROVE  \E f \in File : StoredForAttachment(e, f)
  <2>1. PICK f \in NewFile : files' = Stored(f, exec[e].id, None, None)
    BY <1>5 DEF Import
  <2>2. exec'[e] = MovedTo(exec[e], "mark")
    BY <1>5, TypedRuns DEF Import, GoTo, MovedTo
  <2> QED
    BY <1>5, <2>1, <2>2, StoredFile DEF Import, StoredForAttachment
<1>6. ASSUME NEW e \in Execution, ImportFails(e), ~UNCHANGED files
      PROVE  \E f \in File : StoredForAttachment(e, f)
  <2>1. PICK f \in NewFile : files' = Stored(f, exec[e].id, None, None)
    BY <1>6 DEF ImportFails
  <2>2. At(e, "import") /\ exec[e].id \in lost'
    BY <1>6 DEF ImportFails
  <2>3. exec'[e] = AnsweredWith(exec[e], "failed", 0)
    BY <1>6, TypedRuns DEF ImportFails, Answer, AnsweredWith
  <2> QED
    <3>1. exec'[e].pc = "answered"
      BY <2>3, AnsweredRun, TypedRuns, Zero DEF Outcome
    <3> QED
      BY <2>1, <2>2, <3>1, StoredFile DEF StoredForAttachment
<1>7. ASSUME NEW e \in Execution,
             \/ \E r \in RequestId, n \in Name, c \in Content : Submit(e, r, n, c)
             \/ \E S \in SUBSET Attachment : Scan(e, S)
             \/ TakeLock(e) \/ ReadReceipt(e) \/ SearchInbox(e) \/ RecordReceipt(e)
             \/ \E a \in Attachment : CheckMarker(e, a)
             \/ Mark(e) \/ ScanEnds(e) \/ Kill(e)
      PROVE  UNCHANGED files
  BY <1>7 DEF Submit, Scan, TakeLock, ReadReceipt, SearchInbox, RecordReceipt, CheckMarker, Mark,
     ScanEnds, Kill
<1>8. CASE UNCHANGED vars
  BY <1>1, <1>8 DEF vars
<1> QED
  BY <1>1, <1>2, <1>3, <1>4, <1>5, <1>6, <1>7, <1>8 DEF Next, HttpStep, GmailStep

\* The types of the variables the executions share.
SharedTypeOK ==
    /\ receipts \in [RequestId -> [file: 0..MaxFiles, content: Content \cup {None}]]
    /\ markers \subseteq Attachment
    /\ files \in [File -> FileRecord]
    /\ lost \subseteq RequestId \cup Attachment
    /\ kills \in 0..MaxKills /\ failures \in 0..MaxFailures

LEMMA TypeParts ==
    TypeOK <=> /\ SharedTypeOK /\ lock \in Execution \cup {None}
               /\ exec \in [Execution -> Run]
               /\ \A e \in Execution : lock = e <=> exec[e].pc \in TryBlock
  BY DEF TypeOK, SharedTypeOK, FileRecord, Run, Pc, TryBlock

LEMMA SharedTypeStep ==
    ASSUME SharedTypeOK, exec \in [Execution -> Run], RunsAgree, [Next]_vars
    PROVE  SharedTypeOK'
<1> USE IngestAssumption DEF SharedTypeOK
<1>1. ASSUME NEW e \in Execution, NEW f \in NewFile, NEW n \in Name \cup {None},
             NEW c \in Content \cup {None}, files' = Stored(f, exec[e].id, n, c)
      PROVE  files' \in [File -> FileRecord]
  <2>1. [state |-> "present", source |-> exec[e].id, name |-> n, content |-> c] \in FileRecord
    BY DEF FileRecord, Run
  <2> QED
    BY <1>1, <2>1 DEF Stored
<1>2. \A e \in Execution : /\ exec[e].name \in Name \cup {None} /\ exec[e].file \in 0..MaxFiles
                           /\ exec[e].content \in Content \cup {None}
  BY DEF Run
<1>3. CASE UNCHANGED <<receipts, markers, files, lost, faultVars>>
  BY <1>3 DEF faultVars
<1>4. ASSUME NEW e \in Execution,
             \/ \E r \in RequestId, n \in Name, c \in Content : Submit(e, r, n, c)
             \/ \E S \in SUBSET Attachment : Scan(e, S)
             \/ TakeLock(e) \/ ReadReceipt(e) \/ SearchInbox(e) \/ ScanEnds(e)
      PROVE  UNCHANGED <<receipts, markers, files, lost, faultVars>>
  BY <1>4 DEF Submit, Scan, TakeLock, ReadReceipt, SearchInbox, ScanEnds
<1>5. ASSUME NEW e \in Execution, CreateFile(e)
      PROVE  SharedTypeOK'
  BY <1>1, <1>2, <1>5 DEF CreateFile, faultVars
<1>6. ASSUME NEW e \in Execution, RecordReceipt(e)
      PROVE  SharedTypeOK'
  BY <1>2, <1>6 DEF RecordReceipt, faultVars
<1>7. ASSUME NEW e \in Execution, IngestFails(e)
      PROVE  SharedTypeOK'
  <2>1. UNCHANGED files \/ files' \in [File -> FileRecord]
    BY <1>1, <1>2, <1>7 DEF IngestFails
  <2>2. exec[e].pc = "create" => exec[e].id \in RequestId
    BY DEF RunsAgree
  <2>3. failures' \in 0..MaxFailures
    BY <1>7 DEF IngestFails, Fault
  <2> QED
    BY <1>7, <2>1, <2>2, <2>3 DEF IngestFails, At
<1>8. ASSUME NEW e \in Execution, NEW a \in Attachment, CheckMarker(e, a)
      PROVE  SharedTypeOK'
  BY <1>8 DEF CheckMarker, Take, faultVars
<1>9. ASSUME NEW e \in Execution, Import(e)
      PROVE  SharedTypeOK'
  BY <1>1, <1>9 DEF Import, faultVars
<1>10. ASSUME NEW e \in Execution, Mark(e)
       PROVE  SharedTypeOK'
  BY <1>10 DEF Mark, At, RunsAgree, faultVars
<1>11. ASSUME NEW e \in Execution, ImportFails(e)
       PROVE  SharedTypeOK'
  <2>1. UNCHANGED files \/ files' \in [File -> FileRecord]
    BY <1>1, <1>11 DEF ImportFails
  <2>2. exec[e].pc = "import" => exec[e].id \in Attachment
    BY DEF RunsAgree
  <2>3. failures' \in 0..MaxFailures
    BY <1>11 DEF ImportFails, Fault
  <2> QED
    BY <1>11, <2>1, <2>2, <2>3 DEF ImportFails, At
<1>12. ASSUME NEW e \in Execution, Kill(e)
       PROVE  SharedTypeOK'
  <2>1. exec[e].pc \in {"record", "mark"} => exec[e].id \in RequestId \cup Attachment
    BY DEF RunsAgree
  <2> QED
    BY <1>12, <2>1 DEF Kill
<1>13. ASSUME NEW f \in File, DeleteFile(f)
       PROVE  SharedTypeOK'
  BY <1>13 DEF DeleteFile, FileRecord, faultVars
<1>14. CASE UNCHANGED vars
  BY <1>3, <1>14 DEF vars
<1> QED
  BY <1>3, <1>4, <1>5, <1>6, <1>7, <1>8, <1>9, <1>10, <1>11, <1>12, <1>13, <1>14
     DEF Next, HttpStep, GmailStep

LEMMA TypeStep ==
    ASSUME TypeOK, RunsAgree, [Next]_vars
    PROVE  TypeOK' /\ RunsAgree'
<1>1. SharedTypeOK'
  BY SharedTypeStep, TypeParts
<1> QED
  BY <1>1, RunsStep DEF TypeOK, SharedTypeOK, FileRecord, Run, Pc, TryBlock

\* A file gets its source when it is created.
LEMMA FilesAgreeStep ==
    ASSUME TypeOK, RunsAgree, FilesAgree, [Next]_vars
    PROVE  FilesAgree'
<1>1. CASE \A f \in File : KeptFile(f)
  BY <1>1 DEF KeptFile, FilesAgree
<1>2. ASSUME NEW e \in Execution, NEW f \in File,
             StoredForRequest(e, f) \/ StoredForAttachment(e, f)
      PROVE  FilesAgree'
  <2>1. exec[e].id # None
    BY <1>2, IngestAssumption DEF StoredForRequest, StoredForAttachment, At, RunsAgree
  <2> QED
    BY <1>2, <2>1 DEF StoredForRequest, StoredForAttachment, CreatedBy, FilesAgree
<1> QED
  BY <1>1, <1>2, FilesStep

\* What a created file holds, it holds from then on.
LEMMA HoldsStays ==
    ASSUME TypeOK, RunsAgree, FilesAgree, [Next]_vars,
           NEW f, NEW source, NEW content, Holds(f, source, content), source # None
    PROVE  Holds(f, source, content)'
<1>1. f \in File /\ files[f].state # "unused"
  BY DEF Holds, FilesAgree
<1>2. CASE \A g \in File : KeptFile(g)
  BY <1>1, <1>2 DEF KeptFile, Holds
<1>3. ASSUME NEW e \in Execution, NEW g \in File,
             StoredForRequest(e, g) \/ StoredForAttachment(e, g)
      PROVE  files'[f] = files[f]
  BY <1>1, <1>3 DEF StoredForRequest, StoredForAttachment, CreatedBy
<1> QED
  BY <1>2, <1>3, FilesStep DEF Holds

-----------------------------------------------------------------------------
(* One execution.                                                          *)

\* What a step may make of one execution, as far as the invariant asks: it
\* stays, it is outside of everything (or has answered without handing out a
\* file), or it makes one of the moves that matter.
Stays(e)     == exec'[e] = exec[e]
IsOutside(e) == \/ exec'[e].pc \in {"idle", "lock", "receipt", "scan"}
                \/ /\ exec'[e].pc = "answered"
                   /\ exec'[e].answer # "ok" \/ exec'[e].id \notin RequestId
FindsNoReceipt(e) == /\ At(e, "receipt") /\ exec'[e] = MovedTo(exec[e], "search")
                     /\ receipts[exec[e].id] = NoReceipt
Replays(e)   == /\ At(e, "receipt") /\ receipts[exec[e].id] # NoReceipt
                /\ exec[e].content = receipts[exec[e].id].content
                /\ exec'[e] = AnsweredWith(exec[e], "ok", receipts[exec[e].id].file)
FindsNoFile(e) == /\ At(e, "search") /\ Existing(e) = {} /\ exec'[e] = MovedTo(exec[e], "create")
Takes(e)     == \E a \in Attachment : /\ exec'[e] = TakenOn(exec[e], a)
                                      /\ a \notin markers /\ (Importing(a) => a \in lost')

\* An execution moves by its own actions only.
Acts(e) ==
    \/ \E r \in RequestId, n \in Name, c \in Content : Submit(e, r, n, c)
    \/ \E S \in SUBSET Attachment : Scan(e, S)
    \/ HttpStep(e) \/ GmailStep(e) \/ IngestFails(e) \/ ImportFails(e) \/ Kill(e)

LEMMA OneActs ==
    ASSUME TypeOK, [Next]_vars
    PROVE  \/ \A e \in Execution : Stays(e)
           \/ \E d \in Execution : Acts(d) /\ \A e \in Execution \ {d} : Stays(e)
<1> USE TypedRuns
<1>1. ASSUME NEW d \in Execution, NEW e \in Execution \ {d},
             \/ \E r \in RequestId, n \in Name, c \in Content : Submit(d, r, n, c)
             \/ \E S \in SUBSET Attachment : Scan(d, S)
             \/ HttpStep(d) \/ IngestFails(d)
      PROVE  Stays(e)
  BY <1>1 DEF Submit, Scan, HttpStep, TakeLock, ReadReceipt, SearchInbox, CreateFile, RecordReceipt,
     IngestFails, AnswerAndUnlock, Answer, GoTo, Stays
<1>2. ASSUME NEW d \in Execution, NEW e \in Execution \ {d}, GmailStep(d) \/ ImportFails(d) \/ Kill(d)
      PROVE  Stays(e)
  BY <1>2 DEF GmailStep, CheckMarker, Take, Import, Mark, ScanEnds, ImportFails, Kill, Answer, GoTo,
     Stays
<1>3. ASSUME (\E f \in File : DeleteFile(f)) \/ UNCHANGED vars
      PROVE  \A e \in Execution : Stays(e)
  BY <1>3 DEF DeleteFile, vars, Stays
<1> QED
  BY <1>1, <1>2, <1>3 DEF Next, Acts

LEMMA OthersStay ==
    ASSUME TypeOK, [Next]_vars, NEW e \in Execution
    PROVE  Stays(e) \/ Acts(e)
  BY OneActs

LEMMA OneRun ==
    ASSUME TypeOK, RunsAgree, [Next]_vars, NEW e \in Execution
    PROVE  \/ Stays(e) \/ IsOutside(e) \/ FindsNoReceipt(e) \/ Replays(e) \/ FindsNoFile(e)
           \/ CreateFile(e) \/ RecordReceipt(e) \/ Takes(e) \/ Import(e)
<1> USE TypedRuns
<1>1. ASSUME NEW what \in Outcome, NEW f \in 0..MaxFiles, Answer(e, what, f)
      PROVE  exec'[e] = AnsweredWith(exec[e], what, f)
  BY <1>1 DEF Answer, AnsweredWith
<1>2. ASSUME NEW what \in Outcome, NEW f \in 0..MaxFiles, Answer(e, what, f),
             what # "ok" \/ exec[e].id \notin RequestId
      PROVE  IsOutside(e)
  BY <1>1, <1>2, AnsweredRun DEF IsOutside
<1>3. ASSUME NEW pc \in Pc, GoTo(e, pc)
      PROVE  exec'[e] = MovedTo(exec[e], pc) /\ exec'[e].pc = pc
  BY <1>3, MovedRun DEF GoTo, MovedTo
<1>4. ASSUME \/ \E r \in RequestId, n \in Name, c \in Content : Submit(e, r, n, c)
             \/ \E S \in SUBSET Attachment : Scan(e, S)
             \/ Kill(e)
      PROVE  IsOutside(e)
  <2>1. ASSUME NEW r \in RequestId, NEW n \in Name, NEW c \in Content, Submit(e, r, n, c)
        PROVE  exec'[e] = SubmittedFor(r, n, c)
    BY <2>1 DEF Submit, SubmittedFor
  <2>2. ASSUME NEW S \in SUBSET Attachment, Scan(e, S)
        PROVE  exec'[e] = Scanning(S)
    BY <2>2 DEF Scan, Scanning
  <2>3. Kill(e) => exec'[e] = Idle
    BY DEF Kill
  <2> QED
    BY <1>4, <2>1, <2>2, <2>3, SubmittedRun, ScanningRun, IdleRun DEF IsOutside
<1>5. ASSUME TakeLock(e)
      PROVE  IsOutside(e)
  BY <1>2, <1>3, <1>5, Zero DEF TakeLock, Outcome, Pc, IsOutside
<1>6. ASSUME ReadReceipt(e)
      PROVE  FindsNoReceipt(e) \/ Replays(e) \/ IsOutside(e)
  <2> DEFINE r == receipts[exec[e].id]
  <2>1. r.file \in 0..MaxFiles
    BY <1>6 DEF ReadReceipt, At, RunsAgree, TypeOK
  <2>2. CASE r = NoReceipt
    BY <1>3, <1>6, <2>2 DEF ReadReceipt, FindsNoReceipt, Pc
  <2>3. CASE r # NoReceipt /\ \E what \in {"conflict", "gone"} : Answer(e, what, 0)
    BY <1>2, <2>3, Zero DEF Outcome
  <2>4. CASE r # NoReceipt /\ r.content = exec[e].content /\ Answer(e, "ok", r.file)
    BY <1>1, <1>6, <2>1, <2>4 DEF ReadReceipt, Replays, Outcome
  <2> QED
    BY <1>6, <2>2, <2>3, <2>4 DEF ReadReceipt, AnswerAndUnlock
<1>7. ASSUME SearchInbox(e)
       PROVE  FindsNoFile(e) \/ IsOutside(e)
  <2>1. CASE Existing(e) = {} /\ GoTo(e, "create")
    BY <1>3, <1>7, <2>1 DEF SearchInbox, FindsNoFile, Pc
  <2>2. CASE \E what \in {"conflict", "unexpected"} : Answer(e, what, 0)
    BY <1>2, <2>2, Zero DEF Outcome
  <2> QED
    BY <1>7, <2>1, <2>2 DEF SearchInbox, AnswerAndUnlock
<1>8. ASSUME IngestFails(e) \/ ImportFails(e)
       PROVE  IsOutside(e)
  BY <1>2, <1>8, Zero DEF IngestFails, ImportFails, AnswerAndUnlock, Outcome
<1>9. ASSUME NEW a \in Attachment, CheckMarker(e, a)
       PROVE  Takes(e) \/ IsOutside(e)
  <2>1. CASE a \notin markers
    BY <1>9, <2>1 DEF CheckMarker, Take, TakenOn, Takes
  <2>2. CASE a \in markers
    <3>1. exec'[e] = SkippedOver(exec[e], a)
      BY <1>9, <2>2 DEF CheckMarker, SkippedOver
    <3> QED
      BY <1>9, <3>1, TakenRun DEF CheckMarker, At, IsOutside
  <2> QED
    BY <2>1, <2>2
<1>10. ASSUME Mark(e) \/ ScanEnds(e)
       PROVE  IsOutside(e)
  BY <1>2, <1>3, <1>10, Zero DEF Mark, ScanEnds, At, RunsAgree, Outcome, Pc, IsOutside
<1> QED
  BY OthersStay, <1>4, <1>5, <1>6, <1>7, <1>8, <1>9, <1>10 DEF Acts, HttpStep, GmailStep

\* Receipts and markers are only added, each by the execution that created
\* the file, and what is lost stays lost.
LEMMA RecordsStep ==
    ASSUME TypeOK, [Next]_vars
    PROVE  /\ UNCHANGED receipts \/ \E e \in Execution : RecordReceipt(e)
           /\ markers \subseteq markers' /\ lost \subseteq lost'
<1>1. ASSUME NEW e \in Execution, ~RecordReceipt(e),
             \/ \E r \in RequestId, n \in Name, c \in Content : Submit(e, r, n, c)
             \/ \E S \in SUBSET Attachment : Scan(e, S)
             \/ HttpStep(e) \/ IngestFails(e)
      PROVE  UNCHANGED <<receipts, markers>> /\ lost \subseteq lost'
  BY <1>1 DEF Submit, Scan, HttpStep, TakeLock, ReadReceipt, SearchInbox, CreateFile, IngestFails
<1>2. ASSUME NEW e \in Execution, GmailStep(e) \/ ImportFails(e) \/ Kill(e)
      PROVE  UNCHANGED receipts /\ markers \subseteq markers' /\ lost \subseteq lost'
  BY <1>2 DEF GmailStep, CheckMarker, Take, Import, Mark, ScanEnds, ImportFails, Kill
<1>3. ASSUME NEW e \in Execution, RecordReceipt(e)
      PROVE  markers \subseteq markers' /\ lost \subseteq lost'
  BY <1>3 DEF RecordReceipt
<1>4. ASSUME (\E f \in File : DeleteFile(f)) \/ UNCHANGED vars
      PROVE  UNCHANGED <<receipts, markers, lost>>
  BY <1>4 DEF DeleteFile, vars
<1> QED
  BY <1>1, <1>2, <1>3, <1>4 DEF Next

\* An execution between a file and its record leaves with the record written,
\* or with its id lost.
LEMMA RecordIsWritten ==
    ASSUME TypeOK, [Next]_vars, NEW e \in Execution
    PROVE  /\ At(e, "record") => \/ Stays(e) \/ RecordReceipt(e) \/ exec[e].id \in lost'
           /\ At(e, "mark") => \/ Stays(e) \/ exec[e].id \in markers' \/ exec[e].id \in lost'
<1> USE TypedRuns
<1>1. ASSUME \/ \E r \in RequestId, n \in Name, c \in Content : Submit(e, r, n, c)
             \/ \E S \in SUBSET Attachment : Scan(e, S)
             \/ TakeLock(e) \/ ReadReceipt(e) \/ SearchInbox(e) \/ CreateFile(e) \/ IngestFails(e)
      PROVE  exec[e].pc \notin {"record", "mark"}
  BY <1>1 DEF Submit, Scan, TakeLock, ReadReceipt, SearchInbox, CreateFile, IngestFails, At
<1>2. ASSUME \/ \E a \in Attachment : CheckMarker(e, a)
             \/ Import(e) \/ ScanEnds(e) \/ ImportFails(e)
      PROVE  exec[e].pc \notin {"record", "mark"}
  BY <1>2 DEF CheckMarker, Import, ScanEnds, ImportFails, At
<1>3. ASSUME Mark(e)
      PROVE  exec[e].pc = "mark" /\ exec[e].id \in markers'
  BY <1>3 DEF Mark, At
<1>4. ASSUME Kill(e), exec[e].pc \in {"record", "mark"}
      PROVE  exec[e].id \in lost'
  BY <1>4 DEF Kill
<1>5. RecordReceipt(e) => exec[e].pc = "record"
  BY DEF RecordReceipt, At
<1> QED
  BY OthersStay, <1>1, <1>2, <1>3, <1>4, <1>5 DEF Acts, HttpStep, GmailStep, At

-----------------------------------------------------------------------------
(* The records are faithful.                                               *)

LEMMA ReceiptEnds ==
    ASSUME TypeOK, NEW e \in Execution, RecordReceipt(e)
    PROVE  /\ exec'[e].pc = "answered" /\ exec'[e].id = exec[e].id
           /\ exec'[e].file = exec[e].file /\ exec'[e].content = exec[e].content
<1>1. exec'[e] = AnsweredWith(exec[e], "ok", exec[e].file)
  BY TypedRuns DEF RecordReceipt, AnswerAndUnlock, Answer, AnsweredWith
<1>2. exec[e].file \in 0..MaxFiles
  BY TypedRuns DEF Run
<1>3. exec[e] \in Run /\ "ok" \in Outcome
  BY TypedRuns DEF Outcome
<1> QED
  BY <1>1, <1>2, <1>3, AnsweredRun

LEMMA ReplayEnds ==
    ASSUME TypeOK, RunsAgree, NEW e \in Execution, Replays(e)
    PROVE  /\ exec'[e].pc = "answered" /\ exec'[e].id = exec[e].id
           /\ exec'[e].file = receipts[exec[e].id].file /\ exec'[e].content = exec[e].content
<1>1. receipts[exec[e].id].file \in 0..MaxFiles
  BY DEF Replays, At, RunsAgree, TypeOK
<1>2. exec[e] \in Run /\ "ok" \in Outcome
  BY TypedRuns DEF Outcome
<1>3. exec'[e] = AnsweredWith(exec[e], "ok", receipts[exec[e].id].file)
  BY DEF Replays
<1> QED
  BY <1>1, <1>2, <1>3, AnsweredRun

LEMMA FaithfulStep ==
    ASSUME TypeOK, RunsAgree, FilesAgree, RecordsAreFaithful, [Next]_vars
    PROVE  RecordsAreFaithful'
<1> USE TypedRuns
<1>0. \A e \in Execution : /\ exec[e].pc \in {"receipt", "search", "create", "record"} => exec[e].id # None
                           /\ exec[e].id \in RequestId => exec[e].id # None
  BY IngestAssumption DEF RunsAgree
<1>1. ASSUME NEW f, NEW source, NEW content, Holds(f, source, content), source # None
      PROVE  f \in File /\ files'[f].source = source /\ files'[f].content = content
  BY <1>1, HoldsStays DEF Holds
<1>2. ASSUME NEW r \in RequestId, receipts'[r] # NoReceipt
      PROVE  Holds(receipts[r].file, r, receipts[r].content)'
  <2>0. r # None
    BY IngestAssumption
  <2>1. CASE receipts'[r] = receipts[r]
    BY <1>1, <1>2, <2>0, <2>1 DEF RecordsAreFaithful, Holds
  <2>2. ASSUME NEW e \in Execution, RecordReceipt(e), exec[e].id = r
        PROVE  Holds(receipts[r].file, r, receipts[r].content)'
    <3>1. Holds(exec[e].file, exec[e].id, exec[e].content)
      BY <2>2 DEF RecordReceipt, RecordsAreFaithful
    <3>2. receipts'[r].file = exec[e].file /\ receipts'[r].content = exec[e].content
      BY <2>2 DEF RecordReceipt, TypeOK
    <3> QED
      BY <1>1, <2>0, <2>2, <3>1, <3>2 DEF Holds
  <2>3. ASSUME NEW e \in Execution, RecordReceipt(e), exec[e].id # r
        PROVE  receipts'[r] = receipts[r]
    BY <2>3 DEF RecordReceipt, TypeOK
  <2> QED
    BY <2>1, <2>2, <2>3, RecordsStep
<1>3. ASSUME NEW e \in Execution, CreateFile(e)
      PROVE  /\ exec'[e].pc = "record" /\ exec'[e].answer = None
             /\ Holds(exec[e].file, exec[e].id, exec[e].content)'
  <2>1. PICK f \in NewFile : /\ files' = Stored(f, exec[e].id, exec[e].name, exec[e].content)
                            /\ exec' = [exec EXCEPT ![e].pc = "record", ![e].file = f]
    BY <1>3 DEF CreateFile
  <2>2. exec'[e] = CreatedAs(exec[e], f) /\ f \in File
    BY <2>1 DEF CreatedAs, NewFile
  <2>3. /\ exec'[e].pc = "record" /\ exec'[e].file = f /\ exec'[e].id = exec[e].id
        /\ exec'[e].content = exec[e].content /\ exec'[e].answer = exec[e].answer
    BY <2>2, CreatedRun
  <2>4. exec[e].answer = None
    BY <1>3 DEF CreateFile, At, RunsAgree
  <2> QED
    <3>1. CreatedBy(e, f, exec[e].name, exec[e].content)
      BY <2>1, StoredFile
    <3>2. files'[f].source = exec[e].id /\ files'[f].content = exec[e].content
      BY <3>1 DEF CreatedBy
    <3> QED
      BY <2>2, <2>3, <2>4, <3>2 DEF Holds
<1>4. ASSUME NEW e \in Execution, At(e, "record")'
      PROVE  Holds(exec[e].file, exec[e].id, exec[e].content)'
  <2>1. CASE Stays(e)
    BY <1>0, <1>1, <1>4, <2>1 DEF Stays, RecordsAreFaithful, Holds, At
  <2>2. ~(FindsNoReceipt(e) \/ FindsNoFile(e) \/ Import(e))
    BY <1>4, MovedRun DEF FindsNoReceipt, FindsNoFile, Import, At, GoTo, MovedTo, Pc
  <2>3. ~(IsOutside(e) \/ Takes(e))
    BY <1>4, TakenRun DEF IsOutside, Takes, At
  <2>4. ~Replays(e)
    BY <1>4, ReplayEnds DEF At
  <2>5. ~RecordReceipt(e)
    BY <1>4, ReceiptEnds DEF At
  <2> QED
    BY <1>3, <2>1, <2>2, <2>3, <2>4, <2>5, OneRun
<1> DEFINE HandsOut(e) == exec'[e].answer = "ok" /\ exec'[e].id \in RequestId
<1>5. ASSUME NEW e \in Execution, HandsOut(e)
      PROVE  Holds(exec[e].file, exec[e].id, exec[e].content)'
  <2>0. exec'[e].pc = "answered"
    BY <1>5, RunsStep, IngestAssumption DEF RunsAgree
  <2>1. CASE Stays(e)
    BY <1>0, <1>1, <1>5, <2>1 DEF Stays, RecordsAreFaithful, Holds
  <2>2. ~(FindsNoReceipt(e) \/ FindsNoFile(e) \/ Import(e))
    BY <2>0, MovedRun DEF FindsNoReceipt, FindsNoFile, Import, At, GoTo, MovedTo, Pc
  <2>3. ~(IsOutside(e) \/ Takes(e) \/ CreateFile(e))
    BY <1>3, <1>5, <2>0, TakenRun DEF IsOutside, Takes
  <2>4. CASE Replays(e)
    <3>1. /\ Holds(receipts[exec[e].id].file, exec[e].id, exec[e].content) /\ exec[e].id # None
      BY <1>0, <1>5, <2>4, ReplayEnds DEF Replays, At, RecordsAreFaithful
    <3> QED
      BY <1>1, <2>4, <3>1, ReplayEnds DEF Holds
  <2>5. CASE RecordReceipt(e)
    <3>1. Holds(exec[e].file, exec[e].id, exec[e].content) /\ exec[e].id # None
      BY <1>0, <2>5 DEF RecordReceipt, At, RecordsAreFaithful
    <3> QED
      BY <1>1, <2>5, <3>1, ReceiptEnds DEF Holds
  <2> QED
    BY <2>1, <2>2, <2>3, <2>4, <2>5, OneRun
<1> QED
  BY <1>2, <1>4, <1>5 DEF RecordsAreFaithful

-----------------------------------------------------------------------------
(* The lock.                                                               *)

\* Two executions are never inside the try block together.
LEMMA LockExcludes ==
    ASSUME TypeOK, NEW e \in Execution, NEW d \in Execution,
           exec[e].pc \in TryBlock, exec[d].pc \in TryBlock
    PROVE  e = d
  BY TypedRuns

LEMMA FindingsStep ==
    ASSUME TypeOK, RunsAgree, FilesAgree, FindingsLast, [Next]_vars
    PROVE  FindingsLast'
<1> SUFFICES ASSUME NEW e \in Execution, exec'[e].pc \in {"search", "create", "record"}
             PROVE  /\ receipts'[exec'[e].id] = NoReceipt
                    /\ At(e, "create")' => Existing(e)' = {}
  BY DEF FindingsLast, At
<1> USE TypedRuns
<1>1. \/ Stays(e)
      \/ FindsNoReceipt(e) /\ exec'[e].pc = "search"
      \/ FindsNoFile(e) /\ exec'[e].pc = "create"
      \/ CreateFile(e) /\ exec'[e].pc = "record"
  <2>1. ~(IsOutside(e) \/ Takes(e) \/ Replays(e) \/ RecordReceipt(e))
    BY ReplayEnds, ReceiptEnds, TakenRun DEF IsOutside, Takes
  <2>2. FindsNoReceipt(e) => exec'[e].pc = "search"
    BY MovedRun DEF FindsNoReceipt, Pc
  <2>3. FindsNoFile(e) => exec'[e].pc = "create"
    BY MovedRun DEF FindsNoFile, Pc
  <2>4. CreateFile(e) => exec'[e].pc = "record"
    BY DEF CreateFile
  <2>5. ~Import(e)
    <3>1. Import(e) => exec'[e] = MovedTo(exec[e], "mark")
      BY DEF Import, GoTo, MovedTo
    <3> QED
      BY <3>1, MovedRun DEF Pc
  <2> QED
    BY <2>1, <2>2, <2>3, <2>4, <2>5, OneRun
<1>2. exec[e].pc \in TryBlock /\ (exec[e].pc # "record" \/ Stays(e))
  BY <1>1 DEF Stays, FindsNoReceipt, FindsNoFile, CreateFile, At, TryBlock
<1>3. /\ exec'[e].id = exec[e].id /\ exec'[e].name = exec[e].name
  <2>1. ASSUME NEW f \in NewFile, exec' = [exec EXCEPT ![e].pc = "record", ![e].file = f]
        PROVE  exec'[e] = CreatedAs(exec[e], f) /\ f \in File
    BY <2>1 DEF CreatedAs, NewFile
  <2>2. CreateFile(e) => \E f \in File : exec'[e] = CreatedAs(exec[e], f)
    BY <2>1 DEF CreateFile
  <2> QED
    BY <1>1, <2>2, MovedRun, CreatedRun DEF Stays, FindsNoReceipt, FindsNoFile, Pc
<1>4. receipts[exec[e].id] = NoReceipt
  BY <1>1 DEF Stays, FindsNoReceipt, FindsNoFile, CreateFile, At, FindingsLast
<1>5. receipts' = receipts
  <2>1. ASSUME NEW d \in Execution, RecordReceipt(d)
        PROVE  FALSE
    <3>1. d = e
      BY <1>2, <2>1, LockExcludes DEF RecordReceipt, At, TryBlock
    <3> QED
      BY <2>1, <3>1, ReceiptEnds
  <2> QED
    BY <2>1, RecordsStep
<1>6. ASSUME At(e, "create")'
      PROVE  Existing(e)' = {}
  <2>1. Existing(e) = {}
    BY <1>1, <1>6 DEF Stays, FindsNoFile, At, FindingsLast
  <2>2. ASSUME NEW f \in File, files'[f].state = "present", files'[f].source = exec[e].id,
               files'[f].name = exec[e].name, KeptFile(f)
        PROVE  FALSE
    BY <2>1, <2>2 DEF KeptFile, Existing, Present
  <2>3. exec[e].id \in RequestId
    BY <1>2 DEF RunsAgree, TryBlock
  <2>4. ASSUME NEW d \in Execution, NEW g \in File, StoredForRequest(d, g)
        PROVE  FALSE
    <3>1. d = e
      BY <1>2, <2>4, LockExcludes DEF StoredForRequest, At, TryBlock
    <3>2. exec'[e].pc \in {"record", "answered"}
      BY <2>4, <3>1, CreatedRun DEF StoredForRequest
    <3> QED
      BY <1>6, <3>2 DEF At
  <2>5. ASSUME NEW d \in Execution, NEW g \in File, StoredForAttachment(d, g), NEW f \in File
        PROVE  KeptFile(f) \/ files'[f].source \in Attachment
    BY <2>5 DEF StoredForAttachment, CreatedBy, At, RunsAgree, KeptFile
  <2>6. ASSUME NEW f \in File, files'[f].state = "present", files'[f].source = exec[e].id,
               files'[f].name = exec[e].name
        PROVE  FALSE
    BY <2>2, <2>3, <2>4, <2>5, <2>6, FilesStep, IngestAssumption
  <2> QED
    BY <1>3, <2>6 DEF Existing, Present
<1> QED
  BY <1>3, <1>4, <1>5, <1>6

\* The name of a file is taken once.
LEMMA NamesStep ==
    ASSUME TypeOK, RunsAgree, FilesAgree, FindingsLast, ExactRetryMakesNoCopy, [Next]_vars
    PROVE  ExactRetryMakesNoCopy'
<1> USE DEF ExactRetryMakesNoCopy, Present
<1>1. CASE \A f \in File : KeptFile(f)
  BY <1>1 DEF KeptFile
<1>2. ASSUME NEW e \in Execution, NEW f \in File, StoredForRequest(e, f)
      PROVE  ExactRetryMakesNoCopy'
  <2>1. \A g \in File \ {f} : files'[g] = files[g]
    BY <1>2 DEF StoredForRequest, CreatedBy
  <2>2. ASSUME NEW g \in File \ {f}, files[g].state = "present", files[g].source = files'[f].source,
               files[g].name = files'[f].name
        PROVE  FALSE
    BY <1>2, <2>2 DEF StoredForRequest, CreatedBy, FindingsLast, Existing
  <2> QED
    BY <2>1, <2>2
<1>3. ASSUME NEW e \in Execution, NEW f \in File, StoredForAttachment(e, f)
      PROVE  ExactRetryMakesNoCopy'
  <2>1. files'[f].source \notin RequestId /\ \A g \in File \ {f} : files'[g] = files[g]
    BY <1>3, IngestAssumption DEF StoredForAttachment, CreatedBy, At, RunsAgree
  <2> QED
    BY <2>1
<1> QED
  BY <1>1, <1>2, <1>3, FilesStep

-----------------------------------------------------------------------------
(* Every file is known, unless something was lost.                         *)

\* A file that a source has after a step was there before, or is being
\* created for that source.
LEMMA SourceOfFile ==
    ASSUME TypeOK, [Next]_vars, NEW f \in File
    PROVE  \/ files'[f].source = files[f].source
           \/ \E e \in Execution : /\ StoredForRequest(e, f) \/ StoredForAttachment(e, f)
                                   /\ files'[f].source = exec[e].id
<1>1. ASSUME NEW e \in Execution, NEW g \in File,
             StoredForRequest(e, g) \/ StoredForAttachment(e, g)
      PROVE  \/ f # g /\ files'[f] = files[f]
             \/ f = g /\ files'[f].source = exec[e].id
  BY <1>1 DEF StoredForRequest, StoredForAttachment, CreatedBy
<1> QED
  BY <1>1, FilesStep DEF KeptFile

LEMMA RequestFilesStep ==
    ASSUME TypeOK, RunsAgree, FindingsLast, RequestFilesAreKnown, [Next]_vars
    PROVE  RequestFilesAreKnown'
<1> USE TypedRuns
<1> SUFFICES ASSUME NEW r \in RequestId, NEW f \in File, files'[f].source = r, r \notin lost'
             PROVE  \/ f = receipts'[r].file
                    \/ \E e \in Execution : /\ exec'[e].pc = "record" /\ exec'[e].id = r
                                            /\ exec'[e].file = f
  BY DEF RequestFilesAreKnown, At
<1>1. r \notin lost
  BY RecordsStep
<1>2. CASE files[f].source = r /\ f = receipts[r].file
  <2>1. ASSUME NEW e \in Execution, RecordReceipt(e), exec[e].id = r
        PROVE  FALSE
    <3>1. receipts[r] = NoReceipt
      BY <2>1 DEF RecordReceipt, At, FindingsLast
    <3> QED
      BY <1>2, <3>1, Zero DEF NoReceipt
  <2>2. ASSUME NEW e \in Execution, RecordReceipt(e), exec[e].id # r
        PROVE  receipts'[r] = receipts[r]
    BY <2>2 DEF RecordReceipt, TypeOK
  <2> QED
    BY <1>2, <2>1, <2>2, RecordsStep
<1>3. ASSUME NEW e \in Execution, At(e, "record"), exec[e].id = r, exec[e].file = f
      PROVE  \/ f = receipts'[r].file
             \/ exec'[e].pc = "record" /\ exec'[e].id = r /\ exec'[e].file = f
  <2>1. CASE Stays(e)
    BY <1>3, <2>1 DEF Stays, At
  <2>2. CASE RecordReceipt(e)
    BY <1>3, <2>2 DEF RecordReceipt, TypeOK
  <2> QED
    BY <1>3, <2>1, <2>2, RecordIsWritten
<1>4. ASSUME NEW e \in Execution, StoredForRequest(e, f), exec[e].id = r
      PROVE  exec'[e].pc = "record" /\ exec'[e].id = r /\ exec'[e].file = f
  BY <1>4, CreatedRun DEF StoredForRequest
<1>5. ASSUME NEW e \in Execution, StoredForAttachment(e, f)
      PROVE  exec[e].id # r
  BY <1>5, IngestAssumption DEF StoredForAttachment, At, RunsAgree
<1> QED
  BY <1>1, <1>2, <1>3, <1>4, <1>5, SourceOfFile DEF RequestFilesAreKnown

\* An execution that is importing an attachment was so before, or takes it on
\* now; only the one that creates the file goes on to the marker.
LEMMA ImportersStep ==
    ASSUME TypeOK, RunsAgree, [Next]_vars, NEW e \in Execution, NEW a,
           exec'[e].pc \in {"import", "mark"}, exec'[e].id = a
    PROVE  \/ /\ exec[e].pc \in {"import", "mark"} /\ exec[e].id = a
              /\ exec'[e].pc = "import" => exec[e].pc = "import"
           \/ Acts(e) /\ Takes(e) /\ a \notin markers /\ (Importing(a) => a \in lost')
<1> USE TypedRuns
<1>1. CASE Stays(e)
  BY <1>1 DEF Stays
<1>2. ~(IsOutside(e) \/ Replays(e) \/ RecordReceipt(e))
  BY ReplayEnds, ReceiptEnds DEF IsOutside
<1>3. ~(FindsNoReceipt(e) \/ FindsNoFile(e))
  BY MovedRun DEF FindsNoReceipt, FindsNoFile, Pc
<1>4. ~CreateFile(e)
  <2>1. CreateFile(e) => exec'[e].pc = "record"
    BY DEF CreateFile
  <2> QED
    BY <2>1
<1>5. CASE Import(e)
  <2>1. exec'[e] = MovedTo(exec[e], "mark")
    BY <1>5 DEF Import, GoTo, MovedTo
  <2> QED
    BY <1>5, <2>1, MovedRun DEF Import, At, Pc
<1>6. CASE Takes(e) /\ ~Stays(e)
  <2>1. PICK b \in Attachment : /\ exec'[e] = TakenOn(exec[e], b)
                               /\ b \notin markers /\ (Importing(b) => b \in lost')
    BY <1>6 DEF Takes
  <2>2. b = a
    BY <2>1, TakenRun
  <2> QED
    BY <1>6, <2>1, <2>2, OthersStay
<1> QED
  BY <1>1, <1>2, <1>3, <1>4, <1>5, <1>6, OneRun

LEMMA ImportsStep ==
    ASSUME TypeOK, RunsAgree, ImportsAreKnown, [Next]_vars
    PROVE  ImportsAreKnown'
<1> USE TypedRuns
<1> DEFINE Works(e, a) == exec[e].pc \in {"import", "mark"} /\ exec[e].id = a
<1> SUFFICES ASSUME NEW a \in Attachment, a \notin lost'
             PROVE  /\ \A f \in File : files'[f].source = a =>
                         a \in markers' \/ \E e \in Execution : exec'[e].pc = "mark" /\ exec'[e].id = a
                    /\ \A e, d \in Execution : Works(e, a)' /\ Works(d, a)' => e = d
                    /\ \A e \in Execution, f \in File :
                         exec'[e].pc = "import" /\ exec'[e].id = a => files'[f].source # a
                    /\ \A f, g \in File : files'[f].source = a /\ files'[g].source = a => f = g
  BY DEF ImportsAreKnown, At
<1>0. a \notin lost
  BY RecordsStep
<1>1. ASSUME NEW e \in Execution, NEW f \in File, StoredForRequest(e, f)
      PROVE  exec[e].id # a
  BY <1>1, IngestAssumption DEF StoredForRequest, At, RunsAgree
\* where a file of this attachment comes from
<1>2. ASSUME NEW f \in File, files'[f].source = a
      PROVE  \/ files[f].source = a
             \/ \E e \in Execution : StoredForAttachment(e, f) /\ exec[e].id = a
  BY <1>1, <1>2, SourceOfFile
<1>3. ASSUME NEW f \in File, files'[f].source = a
      PROVE  a \in markers' \/ \E e \in Execution : exec'[e].pc = "mark" /\ exec'[e].id = a
  <2>1. CASE files[f].source = a /\ a \in markers
    BY <2>1, RecordsStep
  <2>2. ASSUME NEW e \in Execution, At(e, "mark"), exec[e].id = a
        PROVE  a \in markers' \/ (exec'[e].pc = "mark" /\ exec'[e].id = a)
    BY <2>2, RecordIsWritten DEF Stays, At
  <2>3. ASSUME NEW e \in Execution, StoredForAttachment(e, f), exec[e].id = a
        PROVE  exec'[e].pc = "mark" /\ exec'[e].id = a
    BY <2>3, MovedRun DEF StoredForAttachment, Pc
  <2> QED
    BY <1>0, <1>2, <1>3, <2>1, <2>2, <2>3 DEF ImportsAreKnown
<1>4. ASSUME NEW e \in Execution, NEW d \in Execution, Works(e, a), Works(d, a)
      PROVE  e = d
  BY <1>0, <1>4 DEF ImportsAreKnown
<1>5. ASSUME NEW e \in Execution, NEW d \in Execution, Works(e, a)', Works(d, a)'
      PROVE  e = d
  <2>1. ASSUME NEW x \in Execution, Works(x, a)'
        PROVE  Works(x, a) \/ (Acts(x) /\ ~Importing(a))
    BY <2>1, ImportersStep
  <2>2. ASSUME NEW x \in Execution, Works(x, a)
        PROVE  Importing(a)
    BY <2>2 DEF Importing
  <2>3. CASE Works(e, a) \/ Works(d, a)
    BY <1>4, <1>5, <2>1, <2>2, <2>3
  <2>4. CASE ~Works(e, a) /\ ~Works(d, a)
    <3>1. ~Stays(e) /\ ~Stays(d)
      BY <1>5, <2>4 DEF Stays
    <3> QED
      BY <3>1, OneActs
  <2> QED
    BY <2>3, <2>4
<1>6. ASSUME NEW e \in Execution, NEW f \in File, exec'[e].pc = "import", exec'[e].id = a,
             files'[f].source = a
      PROVE  FALSE
  <2>1. CASE exec[e].pc = "import" /\ exec[e].id = a
    <3>1. PICK d \in Execution : StoredForAttachment(d, f) /\ exec[d].id = a
      BY <1>0, <1>2, <1>6, <2>1 DEF ImportsAreKnown, At
    <3>2. d = e
      BY <1>4, <2>1, <3>1 DEF StoredForAttachment, At
    <3>3. exec'[e].pc \in {"mark", "answered"}
      BY <3>1, <3>2, MovedRun DEF StoredForAttachment, Pc
    <3> QED
      BY <1>6, <3>3
  <2>2. CASE a \notin markers /\ ~Importing(a)
    BY <1>0, <1>2, <1>6, <2>2 DEF ImportsAreKnown, Importing, StoredForAttachment, At
  <2> QED
    BY <1>6, <2>1, <2>2, ImportersStep
<1>7. ASSUME NEW f \in File, NEW g \in File, files'[f].source = a, files'[g].source = a
      PROVE  f = g
  <2>1. CASE files[f].source = a /\ files[g].source = a
    BY <1>0, <2>1 DEF ImportsAreKnown
  <2>2. ASSUME NEW e \in Execution, NEW x \in File, NEW y \in File,
               StoredForAttachment(e, x), exec[e].id = a, files'[y].source = a
        PROVE  x = y
    <3>1. x # y => files[y].source = a
      BY <2>2 DEF StoredForAttachment, CreatedBy
    <3>2. files[y].source # a
      BY <1>0, <2>2 DEF StoredForAttachment, ImportsAreKnown
    <3> QED
      BY <3>1, <3>2
  <2> QED
    BY <1>2, <1>7, <2>1, <2>2
<1> QED
  BY <1>3, <1>5, <1>6, <1>7

-----------------------------------------------------------------------------
(* The theorems.                                                           *)

LEMMA IngestStart == Init => IngestInv
<1> SUFFICES ASSUME Init PROVE IngestInv
  OBVIOUS
<1> USE IngestAssumption, Zero, IdleRun DEF Init
<1>1. exec \in [Execution -> Run]
  OBVIOUS
<1>2. NoFile \in FileRecord /\ NoReceipt \in [file: 0..MaxFiles, content: Content \cup {None}]
  BY DEF NoFile, NoReceipt, FileRecord
<1>3. SharedTypeOK
  BY <1>2 DEF SharedTypeOK
<1>4. TypeOK
  BY <1>1, <1>3, TypeParts DEF TryBlock
<1>5. \A f \in File : files[f].state = "unused" /\ files[f].source = None
  BY DEF NoFile
<1>6. RunsAgree /\ FilesAgree /\ FindingsLast
  BY <1>5 DEF RunsAgree, FilesAgree, FindingsLast, At
<1>7. RecordsAreFaithful /\ RequestFilesAreKnown /\ ImportsAreKnown /\ ExactRetryMakesNoCopy
  BY <1>5 DEF RecordsAreFaithful, RequestFilesAreKnown, ImportsAreKnown, ExactRetryMakesNoCopy,
     Present, At
<1> QED
  BY <1>4, <1>6, <1>7 DEF IngestInv

THEOREM IngestInvariance == Spec => []IngestInv
<1>1. IngestInv /\ [Next]_vars => IngestInv'
  BY TypeStep, FilesAgreeStep, FaithfulStep, FindingsStep, NamesStep, RequestFilesStep, ImportsStep
     DEF IngestInv
<1> QED
  BY IngestStart, <1>1, PTL DEF Spec

\* Every variable keeps its type, and the script lock is held by exactly the
\* execution that is inside ingestHttpVideo_'s try block.
THEOREM IngestTypeCorrect == Spec => []TypeOK
  BY IngestInvariance, PTL DEF IngestInv

\* A set whose members are all the same has one at most.
LEMMA AtMostOne ==
    ASSUME NEW S, \A x, y \in S : x = y
    PROVE  ~(Cardinality(S) > 1)
<1>1. CASE S = {}
  BY <1>1, FS_EmptySet
<1>2. CASE S # {}
  <2>1. PICK x : x \in S
    BY <1>2
  <2>2. S = {x}
    BY <2>1
  <2> QED
    BY <2>2, FS_Singleton
<1> QED
  BY <1>1, <1>2

\* A request id gets a second file only after an ingest was cut short between
\* the file and its receipt.
THEOREM OneFilePerRequest == Spec => []SecondFileNeedsLoss
<1>1. ASSUME IngestInv, NEW r \in RequestId, r \notin lost
      PROVE  ~(Cardinality(Present(r)) > 1)
  <2>1. ASSUME NEW f \in Present(r), NEW g \in Present(r)
        PROVE  f = g
    <3>1. f \in File /\ g \in File /\ files[f].source = r /\ files[g].source = r
      BY DEF Present
    <3>2. ASSUME NEW e \in Execution, At(e, "record"), exec[e].id = r
          PROVE  receipts[r].file = 0
      BY <1>1, <3>2 DEF IngestInv, FindingsLast, At, NoReceipt
    <3>3. ASSUME NEW e \in Execution, NEW d \in Execution, At(e, "record"), At(d, "record")
          PROVE  e = d
      BY <1>1, <3>3, LockExcludes DEF IngestInv, At, TryBlock
    <3> QED
      BY <1>1, <3>1, <3>2, <3>3, Zero DEF IngestInv, RequestFilesAreKnown
  <2> QED
    BY <2>1, AtMostOne
<1>2. IngestInv => SecondFileNeedsLoss
  BY <1>1 DEF SecondFileNeedsLoss
<1> QED
  BY <1>2, IngestInvariance, PTL

\* A retry under the same file name makes no copy, whatever was cut short.
THEOREM RetryMakesNoCopy == Spec => []ExactRetryMakesNoCopy
  BY IngestInvariance, PTL DEF IngestInv

\* The file of an answer was created for its request id and holds its bytes.
THEOREM NobodyElsesBytes == Spec => []AnswersAreFaithful
<1>1. IngestInv => AnswersAreFaithful
  BY DEF IngestInv, RecordsAreFaithful, Holds, AnswersAreFaithful
<1> QED
  BY <1>1, IngestInvariance, PTL

\* An attachment gets a second file only if two scans were importing it at
\* once, or one was cut short between the file and its marker.
THEOREM OneFilePerAttachment == Spec => []SecondImportNeedsRace
<1>1. ASSUME IngestInv, NEW a \in Attachment, a \notin lost
      PROVE  ~(Cardinality({f \in File : files[f].source = a}) > 1)
  <2>1. \A f, g \in {f \in File : files[f].source = a} : f = g
    BY <1>1 DEF IngestInv, ImportsAreKnown
  <2> QED
    BY <2>1, AtMostOne
<1>2. IngestInv => SecondImportNeedsRace
  BY <1>1 DEF SecondImportNeedsRace
<1> QED
  BY <1>2, IngestInvariance, PTL

=============================================================================
