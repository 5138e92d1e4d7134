----------------------------- MODULE UploadQueue -----------------------------
(***************************************************************************)
(* The YouTube upload queue of the Apps Script bridge                      *)
(* (apps-script/src/06_UploadQueue.gs): startUploadJob_ registers a job    *)
(* under an idempotency key, and processUploadJob_ moves the job's backup  *)
(* to a YouTube resumable session, chunk by chunk, from the five-minute    *)
(* trigger or from the user interface.                                     *)
(*                                                                         *)
(* Every call runs in an execution of its own.  Executions run at the same *)
(* time, share the script properties (idem, jobs) and the script lock, and *)
(* are stopped without notice by the platform's time limit.  YouTube's     *)
(* sessions are external.  A chunk is one unit of the video's size.        *)
(***************************************************************************)
EXTENDS Naturals, FiniteSets

CONSTANTS
    Execution,     \* executions that may run at the same time
    Key,           \* idempotency keys
    NoKey,         \* of a start that gives none
    MaxJobs,       \* bound on the jobs created
    MaxKeyless,    \* bound on those created without a key
    MaxSessions,   \* bound on the resumable sessions created
    TotalBytes,    \* size of a video, in chunks
    MaxChunks,     \* MAX_CHUNKS_PER_RUN
    TriggerBatch,  \* jobs one run of the trigger takes on (5 in the code)
    MaxKills,      \* bound on the executions stopped by the platform
    MaxLockTimeouts,  \* bound on waitLock giving up on a busy lock
    MaxFailures,   \* bound on failing calls to Drive and YouTube
    None

ASSUME UploadAssumption ==
    /\ MaxJobs \in Nat /\ MaxKeyless \in Nat /\ MaxSessions \in Nat
    /\ TotalBytes \in Nat \ {0} /\ MaxChunks \in Nat \ {0}
    /\ TriggerBatch \in Nat \ {0}
    /\ MaxKills \in Nat /\ MaxLockTimeouts \in Nat /\ MaxFailures \in Nat
    /\ None \notin Execution \cup Key \cup {NoKey}
    /\ NoKey \notin Key

Job     == 1..MaxJobs          \* in the order of their createdAt
Session == 1..MaxSessions

VARIABLES
    idem,      \* property of each idempotency key
    jobs,      \* property of each job
    lock,      \* the script lock
    exec,      \* what each execution is doing
    sessions,  \* YouTube's resumable sessions (external)
    keyOf,     \* history: the key a job was created for, or NoKey
    lost,      \* history: keys whose registration was cut short
    entries,   \* how often a job's video was put on its playlist, 2 for more than once
    mails,     \* how often its completion was mailed, likewise
    cutShort,  \* history: jobs stopped between the playlist and the last save
    reopened,  \* history: jobs put back in the queue after they were complete
    kills, lockTimeouts, failures

effectVars  == <<entries, mails>>
historyVars == <<cutShort, reopened>>
outsideVars == <<effectVars, historyVars>>
faultVars   == <<kills, lockTimeouts, failures>>
vars == <<idem, jobs, lock, exec, sessions, keyOf, lost, outsideVars, faultVars>>

NoJob == [status |-> "absent", offset |-> 0, session |-> 0, video |-> 0]
Idle  == [pc |-> "idle", key |-> None, job |-> 0, copy |-> NoJob, todo |-> {}, processed |-> 0]

JobRecord ==
    [status: {"absent", "queued", "uploading", "finalizing", "complete", "error"},
     offset: 0..TotalBytes,
     session: 0..MaxSessions,    \* uploadUrl
     video: 0..MaxSessions]      \* youtubeVideo.id: the session that made it, 0 for none

TypeOK ==
    /\ idem \in [Key -> [kind: {"none", "pending", "stale", "job"},
                         ref: {None} \cup Execution \cup Job]]
    /\ jobs \in [Job -> JobRecord]
    /\ lock \in {None} \cup Execution
    /\ exec \in [Execution ->
         [pc: {"idle", "reserve", "create", "resave", "commit", "release",
               "next", "sync", "put", "resync", "finalize", "complete", "announce", "fail"},
          key: {None, NoKey} \cup Key, job: 0..MaxJobs, copy: JobRecord,
          todo: SUBSET Job, processed: 0..MaxChunks]]
    /\ sessions \in [Session -> [state: {"unused", "open", "expired", "done"},
                                 job: 0..MaxJobs, received: 0..TotalBytes]]
    /\ keyOf \in [Job -> {None, NoKey} \cup Key]
    /\ lost \subseteq Key
    /\ entries \in [Job -> 0..2] /\ mails \in [Job -> 0..2]
    /\ cutShort \subseteq Job /\ reopened \subseteq Job
    /\ kills \in 0..MaxKills /\ lockTimeouts \in 0..MaxLockTimeouts
    /\ failures \in 0..MaxFailures

Init ==
    /\ idem = [k \in Key |-> [kind |-> "none", ref |-> None]]
    /\ jobs = [j \in Job |-> NoJob]
    /\ lock = None
    /\ exec = [e \in Execution |-> Idle]
    /\ sessions = [s \in Session |-> [state |-> "unused", job |-> 0, received |-> 0]]
    /\ keyOf = [j \in Job |-> None]
    /\ lost = {}
    /\ entries = [j \in Job |-> 0] /\ mails = [j \in Job |-> 0]
    /\ cutShort = {} /\ reopened = {}
    /\ kills = 0 /\ lockTimeouts = 0 /\ failures = 0

At(e, pc)   == exec[e].pc = pc
GoTo(e, pc) == exec' = [exec EXCEPT ![e].pc = pc]
End(e)      == exec' = [exec EXCEPT ![e] = Idle]

Fault == failures < MaxFailures /\ failures' = failures + 1

\* initiateResumableUpload_: YouTube opens a new session.
Unused(S, isFree(_)) == {n \in S : isFree(n) /\ \A i \in S : isFree(i) => n <= i}
NewSession == Unused(Session, LAMBDA s : sessions[s].state = "unused")
NewJob     == Unused(Job, LAMBDA j : keyOf[j] = None)

Opened(s, j) == [sessions EXCEPT ![s] = [state |-> "open", job |-> j, received |-> 0]]

-----------------------------------------------------------------------------
(* startUploadJob_.                                                        *)

StartUpload(e, k) ==
    /\ At(e, "idle")
    /\ exec' = [exec EXCEPT ![e].pc = "reserve", ![e].key = k]
    /\ UNCHANGED <<idem, jobs, lock, sessions, keyOf, lost, outsideVars, faultVars>>

HasKey(e) == exec[e].key # NoKey

\* Without a key, reserve, commit and release have nothing to do.
ReserveNothing(e) ==
    /\ At(e, "reserve") /\ ~HasKey(e)
    /\ GoTo(e, "create")
    /\ UNCHANGED <<idem, jobs, lock, sessions, keyOf, lost, outsideVars, faultVars>>

\* reserveUploadIdempotency_: answer with the job of this key, refuse while
\* it is being registered, or reserve it.  A busy lock refuses as well.
Reserve(e) ==
    /\ At(e, "reserve") /\ HasKey(e)
    /\ LET k == exec[e].key
           known == idem[k].kind = "job" /\ jobs[idem[k].ref].status # "absent"
           refused == lock # None \/ known \/ idem[k].kind = "pending" IN
       \/ refused /\ End(e) /\ UNCHANGED idem
       \/ /\ ~refused
          /\ idem' = [idem EXCEPT ![k] = [kind |-> "pending", ref |-> e]]
          /\ GoTo(e, "create")
    /\ UNCHANGED <<jobs, lock, sessions, keyOf, lost, outsideVars, faultVars>>

\* A reservation older than fifteen minutes no longer counts.  An execution
\* never lasts that long, so the one that made it has stopped.
ReservationAges(k) ==
    /\ idem[k].kind = "pending"
    /\ exec[idem[k].ref].key # k \/ exec[idem[k].ref].pc = "reserve"
    /\ idem' = [idem EXCEPT ![k].kind = "stale"]
    /\ UNCHANGED <<jobs, lock, exec, sessions, keyOf, lost, outsideVars, faultVars>>

\* A field is missing or the rights are not confirmed.
StartRefused(e) ==
    /\ At(e, "create")
    /\ GoTo(e, "release")
    /\ UNCHANGED <<idem, jobs, lock, sessions, keyOf, lost, outsideVars, faultVars>>

\* The backup, its session and the first save of the job.
CreateJob(e) ==
    /\ At(e, "create")
    /\ HasKey(e) \/ Cardinality({j \in Job : keyOf[j] = NoKey}) < MaxKeyless
    /\ \E j \in NewJob, s \in NewSession :
         LET job == [status |-> "queued", offset |-> 0, session |-> s, video |-> 0] IN
         /\ sessions' = Opened(s, j)
         /\ jobs' = [jobs EXCEPT ![j] = job]
         /\ keyOf' = [keyOf EXCEPT ![j] = exec[e].key]
         /\ exec' = [exec EXCEPT ![e].pc = "resave", ![e].job = j, ![e].copy = job]
    /\ UNCHANGED <<idem, lock, lost, outsideVars, faultVars>>

\* The second save, with the request manifest, writes the job as it was
\* created: progress made in between is overwritten.
SaveAgain(e) ==
    /\ At(e, "resave")
    /\ LET j == exec[e].job IN
       /\ jobs' = [jobs EXCEPT ![j] = exec[e].copy]
       /\ reopened' = IF jobs[j].status = "complete" THEN reopened \cup {j} ELSE reopened
    /\ GoTo(e, "commit")
    /\ UNCHANGED <<idem, lock, sessions, keyOf, lost, effectVars, cutShort, faultVars>>

StartFails(e) ==
    /\ exec[e].pc \in {"create", "resave"} /\ Fault
    /\ GoTo(e, "release")
    /\ UNCHANGED <<idem, jobs, lock, sessions, keyOf, lost, outsideVars, kills, lockTimeouts>>

\* Both end a start without a key.
EndWithoutKey(e) ==
    /\ exec[e].pc \in {"commit", "release"} /\ ~HasKey(e)
    /\ End(e)
    /\ UNCHANGED <<idem, jobs, lock, sessions, keyOf, lost, outsideVars, faultVars>>

CommitIdempotency(e) ==
    /\ At(e, "commit") /\ HasKey(e) /\ lock = None
    /\ LET k == exec[e].key IN
       idem' = IF idem[k].kind = "none" \/ idem[k].ref = e
               THEN [idem EXCEPT ![k] = [kind |-> "job", ref |-> exec[e].job]]
               ELSE idem
    /\ End(e)
    /\ UNCHANGED <<jobs, lock, sessions, keyOf, lost, outsideVars, faultVars>>

\* Slip: a failed start forgets its key although its job was saved.
ReleaseForgets(e) ==
    /\ At(e, "release") /\ HasKey(e) /\ lock = None
    /\ idem' = [idem EXCEPT ![exec[e].key] = [kind |-> "none", ref |-> None]]
    /\ End(e)
    /\ UNCHANGED <<jobs, lock, sessions, keyOf, lost, outsideVars, faultVars>>

ReleaseIdempotency(e) ==
    /\ At(e, "release") /\ HasKey(e) /\ lock = None
    /\ LET k == exec[e].key  j == exec[e].job IN
       idem' = IF j # 0
               THEN [idem EXCEPT ![k] = [kind |-> "job", ref |-> j]]
               ELSE IF idem[k].ref = e
               THEN [idem EXCEPT ![k] = [kind |-> "none", ref |-> None]]
               ELSE idem
    /\ End(e)
    /\ UNCHANGED <<jobs, lock, sessions, keyOf, lost, outsideVars, faultVars>>

\* waitLock(10000) throws while a long processUploadJob_ holds the lock: a
\* commit goes on to release, a release leaves the reservation behind.
WaitLockTimesOut(e) ==
    /\ exec[e].pc \in {"commit", "release"} /\ HasKey(e) /\ lock # None
    /\ lockTimeouts < MaxLockTimeouts /\ lockTimeouts' = lockTimeouts + 1
    /\ \/ At(e, "commit") /\ GoTo(e, "release") /\ UNCHANGED lost
       \/ At(e, "release") /\ End(e) /\ lost' = lost \cup {exec[e].key}
    /\ UNCHANGED <<idem, jobs, lock, sessions, keyOf, outsideVars, kills, failures>>

-----------------------------------------------------------------------------
(* processUploadJob_, for one job or for a batch of the trigger.           *)

Process(e, todo) ==
    /\ At(e, "idle") /\ todo # {}
    /\ exec' = [exec EXCEPT ![e].pc = "next", ![e].todo = todo]
    /\ UNCHANGED <<idem, jobs, lock, sessions, keyOf, lost, outsideVars, faultVars>>

ProcessOne(e) == \E j \in Job : jobs[j].status # "absent" /\ Process(e, {j})

\* Slip: the trigger does not come back to a job that failed.
PendingWithoutErrors == {j \in Job : jobs[j].status \in {"queued", "uploading"}}

\* processAllPendingUploads: the newest of the jobs that wait.
Pending == {j \in Job : jobs[j].status \in {"queued", "uploading", "error"}}
Newest(S) == {j \in S : Cardinality({i \in S : i > j}) < TriggerBatch}

Trigger(e) == Process(e, Newest(Pending))

\* A batch is worked through from its newest job.
NewestOf(todo) == {j \in todo : \A n \in todo : n <= j}

\* The job leaves the batch; the lock, if it was taken, is released.
LeaveJob(e) ==
    exec' = [exec EXCEPT ![e] = [Idle EXCEPT !.pc = "next", !.todo = exec[e].todo]]

\* Slip: a busy lock does not keep anybody out.
LoadUnlocked(e) ==
    /\ At(e, "next")
    /\ \E j \in NewestOf(exec[e].todo) :
         LET job == [jobs[j] EXCEPT !.status = "uploading"] IN
         IF jobs[j].status = "complete"
         THEN exec' = [exec EXCEPT ![e].todo = @ \ {j}] /\ UNCHANGED <<lock, jobs>>
         ELSE /\ lock' = e
              /\ jobs' = [jobs EXCEPT ![j] = job]
              /\ exec' = [exec EXCEPT ![e].pc = "sync", ![e].job = j, ![e].copy = job,
                                      ![e].todo = @ \ {j}]
    /\ UNCHANGED <<idem, sessions, keyOf, lost, outsideVars, faultVars>>

LoadJob(e) ==
    /\ At(e, "next")
    /\ \E j \in NewestOf(exec[e].todo) :
         LET skipped == lock # None \/ jobs[j].status = "complete"
             job == [jobs[j] EXCEPT !.status = "uploading"] IN
         \/ /\ skipped
            /\ exec' = [exec EXCEPT ![e].todo = @ \ {j}]
            /\ UNCHANGED <<lock, jobs>>
         \/ /\ ~skipped
            /\ lock' = e
            /\ jobs' = [jobs EXCEPT ![j] = job]
            /\ exec' = [exec EXCEPT ![e].pc = "sync", ![e].job = j, ![e].copy = job,
                                    ![e].todo = @ \ {j}]
    /\ UNCHANGED <<idem, sessions, keyOf, lost, outsideVars, faultVars>>

ProcessEnds(e) ==
    /\ At(e, "next") /\ exec[e].todo = {}
    /\ End(e)
    /\ UNCHANGED <<idem, jobs, lock, sessions, keyOf, lost, outsideVars, faultVars>>

\* Save the copy in its new form and go on.
SaveCopy(e, job, pc, processed) ==
    /\ jobs' = [jobs EXCEPT ![exec[e].job] = job]
    /\ exec' = [exec EXCEPT ![e].copy = job, ![e].pc = pc, ![e].processed = processed]

\* The upload is put back in the queue, or done, and the lock released.
SaveAndLeave(e, job) ==
    /\ jobs' = [jobs EXCEPT ![exec[e].job] = job]
    /\ LeaveJob(e)
    /\ lock' = None

AfterChunk(e) == IF At(e, "put") THEN exec[e].processed + 1 ELSE exec[e].processed

\* Slip: the new session continues at the old position.
RestartKeepingOffset(e, pc) ==
    \E s \in NewSession :
        /\ sessions' = Opened(s, exec[e].job)
        /\ SaveCopy(e, [exec[e].copy EXCEPT !.session = s], pc, AfterChunk(e))

\* An expired session answers 404 and is replaced; the backup is sent again
\* from its first byte.
Restart(e, pc) ==
    \E s \in NewSession :
        /\ sessions' = Opened(s, exec[e].job)
        /\ SaveCopy(e, [exec[e].copy EXCEPT !.session = s, !.offset = 0], pc, AfterChunk(e))

\* syncResumableUploadState_ asks the session how far it got, before the
\* first chunk ("sync") and after a server error ("resync").
SyncAnswered(e) ==
    LET job == exec[e].copy  s == sessions[job.session] IN
    /\ exec[e].pc \in {"sync", "resync"}
    /\ \/ /\ s.state = "done"
          /\ SaveCopy(e, [job EXCEPT !.status = "finalizing", !.offset = TotalBytes,
                                     !.video = job.session], "finalize", exec[e].processed)
          /\ UNCHANGED <<sessions, lock>>
       \/ /\ s.state = "open"
          /\ IF At(e, "sync")
             THEN /\ SaveCopy(e, [job EXCEPT !.offset = s.received], "put", 0)
                  /\ UNCHANGED lock
             ELSE SaveAndLeave(e, [job EXCEPT !.offset = s.received, !.status = "queued"])
          /\ UNCHANGED sessions
       \/ /\ s.state = "expired"
          /\ IF At(e, "sync")
             THEN Restart(e, "put") /\ UNCHANGED lock
             ELSE \E n \in NewSession :
                    /\ sessions' = Opened(n, exec[e].job)
                    /\ SaveAndLeave(e, [job EXCEPT !.session = n, !.offset = 0,
                                                   !.status = "queued"])
    /\ UNCHANGED <<idem, keyOf, lost, outsideVars, faultVars>>

\* YouTube answers 5xx: the stored position is used as it is.
SyncUnavailable(e) ==
    /\ exec[e].pc \in {"sync", "resync"} /\ Fault
    /\ \/ At(e, "sync") /\ GoTo(e, "put") /\ UNCHANGED <<jobs, lock>>
       \/ At(e, "resync") /\ SaveAndLeave(e, [exec[e].copy EXCEPT !.status = "queued"])
    /\ UNCHANGED <<idem, sessions, keyOf, lost, outsideVars, kills, lockTimeouts>>

\* Slip: the limit of chunks per run is not looked at.
MoreBytes(e) == exec[e].copy.offset < TotalBytes

\* The loop goes on, up to the chunk limit.  The deadline of a run, never
\* before its first chunk, ends it early in StopSending.
MoreToSend(e) == exec[e].copy.offset < TotalBytes /\ exec[e].processed < MaxChunks

\* The session takes the chunk if it starts where the session stands, or
\* before, and completes the video with the last byte.
Taken(e) ==
    LET job == exec[e].copy  s == sessions[job.session]
        upTo == IF s.received < job.offset + 1 THEN job.offset + 1 ELSE s.received IN
    [sessions EXCEPT ![job.session] =
        [@ EXCEPT !.received = upTo, !.state = IF upTo = TotalBytes THEN "done" ELSE "open"]]

PutChunk(e) ==
    LET job == exec[e].copy IN
    /\ At(e, "put") /\ MoreToSend(e)
    /\ \/ /\ sessions[job.session].state \in {"open", "done"}
          /\ sessions' = Taken(e)
          /\ LET s == sessions'[job.session] IN
             IF s.state = "done"
             THEN SaveCopy(e, [job EXCEPT !.status = "finalizing", !.offset = TotalBytes,
                                          !.video = job.session], "finalize", exec[e].processed)
             ELSE SaveCopy(e, [job EXCEPT !.offset = s.received], "put", AfterChunk(e))
       \/ sessions[job.session].state = "expired" /\ Restart(e, "put")
    /\ UNCHANGED <<idem, lock, keyOf, lost, outsideVars, faultVars>>

\* The chunk arrives or not, and the answer is a server error (5xx, after
\* which the session is asked again) or none, or a refusal.
PutFails(e) ==
    /\ At(e, "put") /\ MoreToSend(e) /\ Fault
    /\ sessions' \in {sessions} \cup
         IF sessions[exec[e].copy.session].state = "open" THEN {Taken(e)} ELSE {}
    /\ \E pc \in {"resync", "fail"} : GoTo(e, pc)
    /\ UNCHANGED <<idem, jobs, lock, keyOf, lost, outsideVars, kills, lockTimeouts>>

\* Slip: the end of a run is taken for the end of the upload.
StopAndFinalize(e) ==
    /\ At(e, "put")
    /\ ~MoreToSend(e) \/ exec[e].processed > 0
    /\ GoTo(e, "finalize")
    /\ UNCHANGED <<idem, jobs, lock, sessions, keyOf, lost, outsideVars, faultVars>>

\* The run is over: limit, deadline, or nothing left to send.
StopSending(e) ==
    /\ At(e, "put")
    /\ ~MoreToSend(e) \/ exec[e].processed > 0
    /\ IF exec[e].copy.offset = TotalBytes /\ exec[e].copy.video # 0
       THEN GoTo(e, "finalize") /\ UNCHANGED <<jobs, lock>>
       ELSE SaveAndLeave(e, [exec[e].copy EXCEPT !.status = "queued"])
    /\ UNCHANGED <<idem, sessions, keyOf, lost, outsideVars, faultVars>>

\* finalizeUploadJob_ for a job that names a playlist.  What the calls make
\* of it is a warning at most, so attempts are counted, up to two.
Counted(n) == IF n < 2 THEN n + 1 ELSE n

\* The playlist entry is recorded only with the complete job, which is not
\* finalised again: the record holds nobody back who comes here.
InsertInPlaylist(e) ==
    /\ At(e, "finalize")
    /\ entries' = [entries EXCEPT ![exec[e].job] = Counted(@)]
    /\ GoTo(e, "complete")
    /\ UNCHANGED <<idem, jobs, lock, sessions, keyOf, lost, mails, historyVars, faultVars>>

\* Slip: the job is saved once, with the mail.
SaveCompleteLater(e) ==
    /\ At(e, "complete")
    /\ exec' = [exec EXCEPT ![e].pc = "announce", ![e].copy.status = "complete"]
    /\ UNCHANGED <<idem, jobs, lock, sessions, keyOf, lost, outsideVars, faultVars>>

SaveComplete(e) ==
    /\ At(e, "complete")
    /\ SaveCopy(e, [exec[e].copy EXCEPT !.status = "complete"], "announce", exec[e].processed)
    /\ UNCHANGED <<idem, lock, sessions, keyOf, lost, outsideVars, faultVars>>

\* The mail, and the job saved once more as complete.
Announce(e) ==
    /\ At(e, "announce")
    /\ mails' = [mails EXCEPT ![exec[e].job] = Counted(@)]
    /\ SaveAndLeave(e, exec[e].copy)
    /\ UNCHANGED <<idem, sessions, keyOf, lost, entries, historyVars, faultVars>>

Finalize(e) == InsertInPlaylist(e) \/ SaveComplete(e) \/ Announce(e)

ProcessFails(e) ==
    /\ exec[e].pc \in {"sync", "resync", "put"} /\ Fault
    /\ GoTo(e, "fail")
    /\ UNCHANGED <<idem, jobs, lock, sessions, keyOf, lost, outsideVars, kills, lockTimeouts>>

\* The handler of processUploadJob_ marks the stored job.
RecordError(e) ==
    /\ At(e, "fail")
    /\ SaveAndLeave(e, [jobs[exec[e].job] EXCEPT !.status = "error"])
    /\ UNCHANGED <<idem, sessions, keyOf, lost, outsideVars, faultVars>>

ProcessStep(e) ==
    \/ LoadJob(e) \/ ProcessEnds(e) \/ SyncAnswered(e) \/ PutChunk(e)
    \/ StopSending(e) \/ Finalize(e) \/ RecordError(e)

StartStep(e) ==
    \/ ReserveNothing(e) \/ Reserve(e) \/ StartRefused(e) \/ CreateJob(e) \/ SaveAgain(e)
    \/ CommitIdempotency(e) \/ ReleaseIdempotency(e) \/ EndWithoutKey(e)

-----------------------------------------------------------------------------
(* The platform and YouTube.                                               *)

\* The time limit stops an execution anywhere and frees its lock.
Kill(e) ==
    /\ ~At(e, "idle") /\ kills < MaxKills /\ kills' = kills + 1
    /\ End(e)
    /\ lock' = IF lock = e THEN None ELSE lock
    /\ lost' = IF exec[e].pc \in {"create", "resave", "commit", "release"} /\ HasKey(e)
               THEN lost \cup {exec[e].key} ELSE lost
    /\ cutShort' = IF At(e, "complete") THEN cutShort \cup {exec[e].job} ELSE cutShort
    \* between the mail and the save, which changes nothing
    /\ mails' \in {mails} \cup IF At(e, "announce")
                              THEN {[mails EXCEPT ![exec[e].job] = Counted(@)]} ELSE {}
    /\ UNCHANGED <<idem, jobs, sessions, keyOf, entries, reopened, lockTimeouts, failures>>

\* An unfinished session expires after about a week: not while the start
\* that opened it runs.  YouTube remembers a finished one for as long.
SessionExpires(s) ==
    /\ sessions[s].state = "open"
    /\ \A e \in Execution : At(e, "resave") => exec[e].copy.session # s
    /\ NewSession # {}
    /\ sessions' = [sessions EXCEPT ![s].state = "expired"]
    /\ UNCHANGED <<idem, jobs, lock, exec, keyOf, lost, outsideVars, faultVars>>

Next ==
    \/ \E e \in Execution :
         \/ \E k \in Key \cup {NoKey} : StartUpload(e, k)
         \/ StartStep(e) \/ StartFails(e) \/ WaitLockTimesOut(e)
         \/ ProcessOne(e) \/ Trigger(e)
         \/ ProcessStep(e) \/ SyncUnavailable(e) \/ PutFails(e) \/ ProcessFails(e)
         \/ Kill(e)
    \/ \E k \in Key : ReservationAges(k)
    \/ \E s \in Session : SessionExpires(s)

Spec == Init /\ [][Next]_vars

\* Executions run on, the trigger fires, and an execution that keeps finding
\* the lock free gets it.
FairSpec ==
    /\ Spec
    /\ \A e \in Execution :
         /\ WF_vars(ProcessStep(e)) /\ WF_vars(StartStep(e))
         /\ SF_vars(Trigger(e)) /\ SF_vars(LoadJob(e) /\ lock' = e)

-----------------------------------------------------------------------------
(* Properties.                                                             *)

JobsOf(k) == {j \in Job : keyOf[j] = k}

\* HTTP-API.md: "Reuse the same idempotencyKey when retrying an uncertain client
\* request.  The server returns the existing job instead of making another".
OneJobPerKey == \A k \in Key : Cardinality(JobsOf(k)) <= 1

\* That is not so: the retry makes a second job once the reservation of a start
\* that was cut short, by the time limit or by a lock nobody would give up, is
\* fifteen minutes old.  But for that the reservation serialises the starts of
\* a key, whichever of them fail or overlap.
SecondJobNeedsLoss == \A k \in Key : Cardinality(JobsOf(k)) > 1 => k \in lost

\* However executions overlap, stop and start again, and whatever the second
\* save of a start overwrites, a job's file becomes one video.
VideosOf(j) == {s \in Session : sessions[s].state = "done" /\ sessions[s].job = j}
OneVideoPerJob == \A j \in Job : Cardinality(VideosOf(j)) <= 1

\* A job that says it is complete, or about to be, names a video that YouTube
\* has made from it.
CompletionIsReal ==
    \A j \in Job : jobs[j].status \in {"finalizing", "complete"} =>
        /\ jobs[j].video # 0
        /\ sessions[jobs[j].video].state = "done" /\ sessions[jobs[j].video].job = j

\* A chunk never starts beyond what its session has received: stale positions
\* are behind, never ahead.
ChunksAreContiguous ==
    \A e \in Execution : At(e, "put") =>
        LET s == sessions[exec[e].copy.session] IN
        s.state # "expired" => exec[e].copy.offset <= s.received

\* The queue keeps what UploadLifecycle promises: a job is complete only when
\* its video is made, once; it is put on its playlist twice only if it was
\* stopped before its last save or the second save of its start undid its
\* completion, and only then is its completion mailed twice.
Stage ==
    [j \in Job |-> CASE jobs[j].status = "absent" -> "none"
                     [] jobs[j].status = "complete" -> "complete"
                     [] OTHER -> "pending"]
Videos == [j \in Job |-> Cardinality(VideosOf(j))]

Lifecycle == INSTANCE UploadLifecycle WITH
    stage <- Stage, videos <- Videos,
    entries <- entries, mails <- mails, cutShort <- cutShort, reopened <- reopened

ImplementsLifecycle == Lifecycle!Spec

\* The answer to startUpload: "the five-minute trigger will continue it
\* automatically".  A queued job is completed.
QueuedIsCompleted == \A j \in Job : jobs[j].status = "queued" ~> jobs[j].status = "complete"

=============================================================================
