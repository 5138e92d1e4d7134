-------------------------- MODULE UploadQueueProofs --------------------------
(***************************************************************************)
(* Proofs about UploadQueue, for any set of executions and keys, any size  *)
(* of the video and any limit and bound.                                   *)
(***************************************************************************)
EXTENDS UploadQueue, FiniteSetTheorems, TLAPS

-----------------------------------------------------------------------------
(* The inductive invariant.  Its parts are said of values: ss stands for   *)
(* the sessions, jj for the jobs, ko for the keys of the jobs, ii for the  *)
(* reservations and xx for the executions, before a step or after it.      *)

\* Positions of startUploadJob_ that own a reservation, those of them that
\* may have made a job, and positions of processUploadJob_ inside the lock.
Recording == {"resave", "commit", "release"}
Starting  == {"create"} \cup Recording
Holding   == {"sync", "put", "resync", "finalize", "complete", "announce", "fail"}
Copying   == {"resave"} \cup Holding

LockAgrees == \A e \in Execution : lock = e <=> exec[e].pc \in Holding

\* What an execution works on exists.
RunSound(ko, x) ==
    /\ x.pc = "idle" => x = Idle
    /\ x.pc \in {"reserve"} \cup Starting => x.key \in Key \cup {NoKey}
    /\ x.pc \in {"reserve", "create"} => x.job = 0
    /\ x.pc \in {"resave", "commit"} => x.job \in Job
    /\ x.pc \in Recording /\ x.job # 0 => ko[x.job] = x.key
    /\ x.pc \in Holding => x.job \in Job /\ ko[x.job] # None
    /\ \A j \in x.todo : ko[j] # None

RunsAgree == \A e \in Execution : RunSound(keyOf, exec[e])

\* What a record says of job j's video is so.
Real(ss, job, j) ==
    /\ job.video # 0 => ss[job.video].state = "done" /\ ss[job.video].job = j
    /\ job.status \in {"finalizing", "complete"} => job.video # 0

\* The position a record holds is not ahead of its session.
Behind(ss, job) ==
    ss[job.session].state # "expired" => job.offset <= ss[job.session].received

\* A job was registered with its first session, and its record is sound.
JobSound(ss, ko, job, j) ==
    /\ job.status = "absent" <=> ko[j] = None
    /\ Real(ss, job, j)
    /\ ko[j] # None =>
         /\ job.session \in Session /\ Behind(ss, job)
         /\ ss[job.session].state # "unused" /\ ss[job.session].job = j

JobsAgree == \A j \in Job : JobSound(sessions, keyOf, jobs[j], j)

\* A session that is not expired is the one its job has on record.
SessionSound(jj, ko, session, s) ==
    /\ session.state \in {"open", "done"} =>
         session.job \in Job /\ ko[session.job] # None /\ jj[session.job].session = s
    /\ session.state = "done" => session.received = TotalBytes

SessionsAgree == \A s \in Session : SessionSound(jobs, keyOf, sessions[s], s)

\* The copy an execution works with is sound, and in the session of the
\* stored job; the start saves its copy again before the session can expire.
CopySound(ss, jj, x) ==
    /\ x.pc \in Copying =>
         /\ Real(ss, x.copy, x.job) /\ Behind(ss, x.copy)
         /\ x.copy.session = jj[x.job].session /\ x.copy.status # "absent"
    /\ x.pc = "resave" => ss[x.copy.session].state # "expired"
    /\ x.pc \in {"finalize", "complete", "announce"} => x.copy.video # 0

CopiesAgree == \A e \in Execution : CopySound(sessions, jobs, exec[e])

\* Unless a registration of the key was cut short, a reservation belongs to
\* the one start of this key that is under way.
Reserved(e) == [kind |-> "pending", ref |-> e]
Recorded(j) == [kind |-> "job", ref |-> j]

ReservationSound(ii, ko, xx, k) ==
    /\ ii[k].kind # "stale"
    /\ ii[k].kind = "pending" =>
         \E e \in Execution : ii[k].ref = e /\ xx[e].key = k /\ xx[e].pc \in Starting
    /\ ii[k].kind = "job" => ii[k].ref \in Job /\ ko[ii[k].ref] = k
    /\ \A e \in Execution : xx[e].pc \in Starting /\ xx[e].key = k => ii[k] = Reserved(e)

ReservationsAgree == \A k \in Key \ lost : ReservationSound(idem, keyOf, exec, k)

\* Then a job of the key is on record, or its start is about to record it.
KnownAs(ii, xx, k, j) ==
    \/ ii[k] = Recorded(j)
    \/ \E e \in Execution : xx[e].pc \in Recording /\ xx[e].key = k /\ xx[e].job = j

JobsAreKnown ==
    \A k \in Key \ lost, j \in Job : keyOf[j] = k => KnownAs(idem, exec, k, j)

QueueInv ==
    /\ TypeOK /\ LockAgrees /\ RunsAgree /\ JobsAgree /\ SessionsAgree /\ CopiesAgree
    /\ ReservationsAgree /\ JobsAreKnown

-----------------------------------------------------------------------------
(* Records.                                                                *)

Pc == {"idle", "reserve", "create", "resave", "commit", "release",
       "next", "sync", "put", "resync", "finalize", "complete", "announce", "fail"}

Run ==
    [pc: Pc, key: {None, NoKey} \cup Key, job: 0..MaxJobs, copy: JobRecord,
     todo: SUBSET Job, processed: 0..MaxChunks]

SessionRecord ==
    [state: {"unused", "open", "expired", "done"}, job: 0..MaxJobs, received: 0..TotalBytes]

IdemRecord == [kind: {"none", "pending", "stale", "job"}, ref: {None} \cup Execution \cup Job]

SharedTypeOK ==
    /\ idem \in [Key -> IdemRecord] /\ jobs \in [Job -> JobRecord]
    /\ lock \in {None} \cup Execution
    /\ sessions \in [Session -> SessionRecord]
    /\ keyOf \in [Job -> {None, NoKey} \cup Key] /\ lost \subseteq Key

OutsideTypeOK ==
    /\ entries \in [Job -> 0..2] /\ mails \in [Job -> 0..2]
    /\ cutShort \subseteq Job /\ reopened \subseteq Job
    /\ kills \in 0..MaxKills /\ lockTimeouts \in 0..MaxLockTimeouts
    /\ failures \in 0..MaxFailures

LEMMA TypeParts ==
    TypeOK <=> SharedTypeOK /\ exec \in [Execution -> Run] /\ OutsideTypeOK
  BY DEF TypeOK, SharedTypeOK, OutsideTypeOK, Run, Pc, SessionRecord, IdemRecord

LEMMA Numbers ==
    /\ 0 \in 0..MaxJobs /\ 0 \in 0..MaxSessions /\ 0 \in 0..TotalBytes /\ 0 \in 0..MaxChunks
    /\ TotalBytes \in 0..TotalBytes
    /\ Job = (0..MaxJobs) \ {0} /\ Session = (0..MaxSessions) \ {0}
  BY UploadAssumption DEF Job, Session

\* The records a job can be left with.
Queued(s)       == [status |-> "queued", offset |-> 0, session |-> s, video |-> 0]
Marked(job, st) == [job EXCEPT !.status = st]
Moved(job, n)   == [job EXCEPT !.offset = n]
MovedAs(job, n, st)   == [job EXCEPT !.offset = n, !.status = st]
Made(job)             == [job EXCEPT !.status = "finalizing", !.offset = TotalBytes,
                                     !.video = job.session]
Renewed(job, s)       == [job EXCEPT !.session = s, !.offset = 0]
RenewedAs(job, s, st) == [job EXCEPT !.session = s, !.offset = 0, !.status = st]

Status == {"queued", "uploading", "finalizing", "complete", "error"}

LEMMA JobRecords ==
    /\ NoJob \in JobRecord /\ NoJob.status = "absent" /\ NoJob.video = 0
    /\ \A s \in Session :
         /\ Queued(s) \in JobRecord /\ Queued(s).status = "queued" /\ Queued(s).offset = 0
         /\ Queued(s).session = s /\ Queued(s).video = 0
  BY Numbers DEF JobRecord, NoJob, Queued

LEMMA ChangedJob ==
    ASSUME NEW job \in JobRecord, NEW st \in Status, NEW n \in 0..TotalBytes
    PROVE  /\ LET y == Marked(job, st) IN
              /\ y \in JobRecord /\ y.status = st /\ y.offset = job.offset
              /\ y.session = job.session /\ y.video = job.video
           /\ LET y == Moved(job, n) IN
              /\ y \in JobRecord /\ y.status = job.status /\ y.offset = n
              /\ y.session = job.session /\ y.video = job.video
           /\ LET y == MovedAs(job, n, st) IN
              /\ y \in JobRecord /\ y.status = st /\ y.offset = n
              /\ y.session = job.session /\ y.video = job.video
           /\ LET y == Made(job) IN
              /\ y \in JobRecord /\ y.status = "finalizing" /\ y.offset = TotalBytes
              /\ y.session = job.session /\ y.video = job.session
<1> USE Numbers DEF JobRecord, Status
<1>1. Marked(job, st) \in JobRecord
  BY DEF Marked
<1>2. Moved(job, n) \in JobRecord
  BY DEF Moved
<1>3. MovedAs(job, n, st) \in JobRecord
  BY DEF MovedAs
<1>4. Made(job) \in JobRecord
  BY DEF Made
<1> QED
  BY <1>1, <1>2, <1>3, <1>4 DEF Marked, Moved, MovedAs, Made

LEMMA RenewedJob ==
    ASSUME NEW job \in JobRecord, NEW st \in Status, NEW s \in Session
    PROVE  /\ LET y == Renewed(job, s) IN
              /\ y \in JobRecord /\ y.status = job.status /\ y.offset = 0
              /\ y.session = s /\ y.video = job.video
           /\ LET y == RenewedAs(job, s, st) IN
              /\ y \in JobRecord /\ y.status = st /\ y.offset = 0
              /\ y.session = s /\ y.video = job.video
  BY Numbers DEF JobRecord, Status, Renewed, RenewedAs

\* The records an execution can be left with.
GoneTo(x, pc)       == [x EXCEPT !.pc = pc]
Asking(x, k)        == [x EXCEPT !.pc = "reserve", !.key = k]
Created(x, j, job)  == [x EXCEPT !.pc = "resave", !.job = j, !.copy = job]
Batch(x, S)         == [x EXCEPT !.pc = "next", !.todo = S]
Skipped(x, j)       == [x EXCEPT !.todo = @ \ {j}]
Loaded(x, j, job)   == [x EXCEPT !.pc = "sync", !.job = j, !.copy = job, !.todo = @ \ {j}]
Saved(x, job, pc, n) == [x EXCEPT !.copy = job, !.pc = pc, !.processed = n]
Left(x)             == [Idle EXCEPT !.pc = "next", !.todo = x.todo]

LEMMA IdleRun ==
    /\ Idle \in Run /\ Idle.pc = "idle" /\ Idle.key = None /\ Idle.job = 0 /\ Idle.todo = {}
  BY Numbers, JobRecords DEF Idle, Run, Pc

LEMMA GoneRun ==
    ASSUME NEW x \in Run, NEW pc \in Pc
    PROVE  LET y == GoneTo(x, pc) IN
           /\ y \in Run /\ y.pc = pc /\ y.key = x.key /\ y.job = x.job /\ y.copy = x.copy
           /\ y.todo = x.todo
  BY DEF Run, GoneTo

LEMMA StartedRun ==
    ASSUME NEW x \in Run, NEW k \in Key \cup {NoKey}, NEW j \in Job, NEW job \in JobRecord
    PROVE  /\ LET y == Asking(x, k) IN
              /\ y \in Run /\ y.pc = "reserve" /\ y.key = k /\ y.job = x.job /\ y.todo = x.todo
           /\ LET y == Created(x, j, job) IN
              /\ y \in Run /\ y.pc = "resave" /\ y.key = x.key /\ y.job = j /\ y.copy = job
              /\ y.todo = x.todo
<1> USE Numbers DEF Run, Pc
<1>1. Asking(x, k) \in Run
  BY DEF Asking
<1>2. Created(x, j, job) \in Run
  BY DEF Created
<1> QED
  BY <1>1, <1>2 DEF Asking, Created

LEMMA BatchRun ==
    ASSUME NEW x \in Run, NEW S \in SUBSET Job
    PROVE  /\ LET y == Batch(x, S) IN y \in Run /\ y.pc = "next" /\ y.todo = S
           /\ LET y == Left(x) IN y \in Run /\ y.pc = "next" /\ y.todo = x.todo
<1> USE Numbers DEF Run, Pc
<1>1. Batch(x, S) \in Run
  BY DEF Batch
<1>2. Left(x) \in Run /\ Left(x).pc = "next" /\ Left(x).todo = x.todo
  BY IdleRun DEF Left
<1> QED
  BY <1>1, <1>2 DEF Batch

LEMMA SkippedRun ==
    ASSUME NEW x \in Run, NEW j \in Job
    PROVE  LET y == Skipped(x, j) IN y \in Run /\ y.pc = x.pc /\ y.todo = x.todo \ {j}
<1>1. Skipped(x, j) \in Run
  BY DEF Skipped, Run
<1> QED
  BY <1>1 DEF Skipped, Run

LEMMA LoadedRun ==
    ASSUME NEW x \in Run, NEW j \in Job, NEW job \in JobRecord
    PROVE  LET y == Loaded(x, j, job) IN
           /\ y \in Run /\ y.pc = "sync" /\ y.job = j /\ y.copy = job
           /\ y.todo = x.todo \ {j}
<1>1. Loaded(x, j, job) \in Run
  BY Numbers DEF Loaded, Run, Pc
<1> QED
  BY <1>1 DEF Loaded, Run

LEMMA SavedRun ==
    ASSUME NEW x \in Run, NEW job \in JobRecord, NEW pc \in Pc, NEW n \in 0..MaxChunks
    PROVE  LET y == Saved(x, job, pc, n) IN
           /\ y \in Run /\ y.pc = pc /\ y.key = x.key /\ y.job = x.job /\ y.copy = job
           /\ y.todo = x.todo
  BY DEF Run, Saved

\* An execution is left with y, the others as they were.
Becomes(e, y) == exec' = [exec EXCEPT ![e] = y] /\ y \in Run

LEMMA Others ==
    ASSUME exec \in [Execution -> Run], NEW e \in Execution, NEW y, Becomes(e, y)
    PROVE  /\ exec' \in [Execution -> Run] /\ exec'[e] = y
           /\ \A d \in Execution : d # e => exec'[d] = exec[d]
  BY DEF Becomes

\* A session or a job that is still free.
LEMMA FreeSession ==
    ASSUME NEW s \in NewSession
    PROVE  s \in Session /\ sessions[s].state = "unused"
  BY DEF NewSession, Unused

LEMMA FreeJob ==
    ASSUME NEW j \in NewJob
    PROVE  j \in Job /\ keyOf[j] = None
  BY DEF NewJob, Unused

-----------------------------------------------------------------------------
(* Sessions, stored jobs and copies.                                       *)

DataSound == JobsAgree /\ SessionsAgree /\ CopiesAgree

\* What a session may turn into while its job goes on.
Grown(old, new) ==
    /\ new.job = old.job
    /\ old.state = "done" => new.state = "done"
    /\ new.state \in {"open", "done"} => old.state \in {"open", "done"}
    /\ new.state = "unused" => old.state = "unused"
    /\ new.state # "expired" => old.state # "expired" /\ old.received <= new.received
    /\ new.state = "done" => new.received = TotalBytes

Grows(ss, tt) == \A s \in Session : Grown(ss[s], tt[s])

LEMMA Stays ==
    ASSUME SharedTypeOK, SessionsAgree
    PROVE  Grows(sessions, sessions)
<1>1. ASSUME NEW s \in Session
      PROVE  Grown(sessions[s], sessions[s])
  <2>1. sessions[s] \in SessionRecord /\ SessionSound(jobs, keyOf, sessions[s], s)
    BY DEF SharedTypeOK, SessionsAgree
  <2>2. sessions[s].received \in Nat
    BY <2>1 DEF SessionRecord
  <2> QED
    BY <2>1, <2>2 DEF Grown, SessionSound
<1> QED
  BY <1>1 DEF Grows

\* What is true of a record stays true while the sessions grow.
LEMMA RecordGrows ==
    ASSUME NEW ss \in [Session -> SessionRecord], NEW tt \in [Session -> SessionRecord],
           Grows(ss, tt), NEW job \in JobRecord, NEW j
    PROVE  /\ Real(ss, job, j) => Real(tt, job, j)
           /\ job.session \in Session /\ Behind(ss, job) => Behind(tt, job)
           /\ job.session \in Session /\ ss[job.session].state # "unused" =>
                tt[job.session].state # "unused"
<1>1. job.video # 0 => job.video \in Session
  BY Numbers DEF JobRecord
<1>2. job.offset \in Nat
  BY DEF JobRecord
<1>3. ASSUME NEW s \in Session
      PROVE  ss[s].received \in Nat /\ tt[s].received \in Nat /\ Grown(ss[s], tt[s])
  BY DEF SessionRecord, Grows
<1>4. Real(ss, job, j) => Real(tt, job, j)
  BY <1>1, <1>3 DEF Real, Grown
<1>5. job.session \in Session /\ Behind(ss, job) => Behind(tt, job)
  BY <1>2, <1>3 DEF Behind, Grown
<1>6. job.session \in Session /\ ss[job.session].state # "unused" =>
        tt[job.session].state # "unused"
  BY <1>3 DEF Grown
<1> QED
  BY <1>4, <1>5, <1>6

LEMMA JobGrows ==
    ASSUME NEW ss \in [Session -> SessionRecord], NEW tt \in [Session -> SessionRecord],
           Grows(ss, tt), NEW ko, NEW job \in JobRecord, NEW j, JobSound(ss, ko, job, j)
    PROVE  JobSound(tt, ko, job, j)
<1>1. Real(tt, job, j)
  BY RecordGrows DEF JobSound
<1>2. ASSUME ko[j] # None
      PROVE  /\ job.session \in Session /\ Behind(tt, job)
             /\ tt[job.session].state # "unused" /\ tt[job.session].job = j
  <2>1. job.session \in Session /\ Behind(ss, job) /\ ss[job.session].state # "unused"
    BY <1>2 DEF JobSound
  <2>2. tt[job.session].job = ss[job.session].job
    BY <2>1 DEF Grows, Grown
  <2>3. Behind(tt, job) /\ tt[job.session].state # "unused"
    BY <2>1, RecordGrows
  <2> QED
    BY <1>2, <2>1, <2>2, <2>3 DEF JobSound
<1> QED
  BY <1>1, <1>2 DEF JobSound

\* A saved record that is sound replaces a sound one.
LEMMA JobsSaved ==
    ASSUME SharedTypeOK, SharedTypeOK', JobsAgree, Grows(sessions, sessions'), keyOf' = keyOf,
           NEW j \in Job, NEW rec \in JobRecord, jobs' = [jobs EXCEPT ![j] = rec],
           keyOf[j] # None, rec.status # "absent", Real(sessions', rec, j),
           Behind(sessions', rec), rec.session = jobs[j].session
    PROVE  JobsAgree' /\ \A i \in Job : jobs'[i].session = jobs[i].session
<1> USE DEF SharedTypeOK
<1>1. jobs'[j] = rec /\ \A i \in Job : i # j => jobs'[i] = jobs[i]
  OBVIOUS
<1>2. ASSUME NEW i \in Job, i # j
      PROVE  JobSound(sessions', keyOf', jobs'[i], i)
  BY <1>1, <1>2, JobGrows DEF JobsAgree
<1>3. JobSound(sessions', keyOf', rec, j)
  <2>1. JobSound(sessions', keyOf', jobs[j], j)
    BY JobGrows DEF JobsAgree
  <2> QED
    BY <2>1 DEF JobSound
<1>4. \A i \in Job : JobSound(sessions', keyOf', jobs'[i], i)
  BY <1>1, <1>2, <1>3
<1>5. JobsAgree'
  BY <1>4 DEF JobsAgree
<1> QED
  BY <1>1, <1>5

LEMMA JobsKept ==
    ASSUME SharedTypeOK, SharedTypeOK', JobsAgree, Grows(sessions, sessions'), keyOf' = keyOf,
           jobs' = jobs
    PROVE  JobsAgree' /\ \A i \in Job : jobs'[i].session = jobs[i].session
<1>1. \A i \in Job : JobSound(sessions', keyOf', jobs'[i], i)
  BY JobGrows DEF JobsAgree, SharedTypeOK
<1> QED
  BY <1>1 DEF JobsAgree

\* The copy of an execution that does not take part.
LEMMA CopyGrows ==
    ASSUME SharedTypeOK, SharedTypeOK', RunsAgree, DataSound, Grows(sessions, sessions'),
           \A i \in Job : jobs'[i].session = jobs[i].session,
           NEW d \in Execution, exec[d] \in Run,
           exec[d].pc = "resave" => sessions'[exec[d].copy.session].state # "expired"
    PROVE  CopySound(sessions', jobs', exec[d])
<1> DEFINE x == exec[d]
<1>1. CopySound(sessions, jobs, x) /\ RunSound(keyOf, x)
  BY DEF DataSound, CopiesAgree, RunsAgree
<1>2. x.copy \in JobRecord
  BY DEF Run
<1>3. ASSUME x.pc \in Copying
      PROVE  /\ Real(sessions', x.copy, x.job) /\ Behind(sessions', x.copy)
             /\ x.copy.session = jobs'[x.job].session /\ x.copy.status # "absent"
  <2>1. x.job \in Job /\ keyOf[x.job] # None
    BY <1>1, <1>3, Numbers, UploadAssumption DEF RunSound, Copying, Holding, Recording, Starting
  <2>2. x.copy.session = jobs[x.job].session /\ x.copy.session \in Session
    BY <1>1, <1>3, <2>1 DEF CopySound, DataSound, JobsAgree, JobSound
  <2>3. Real(sessions', x.copy, x.job) /\ Behind(sessions', x.copy)
    BY <1>1, <1>2, <1>3, <2>2, RecordGrows DEF CopySound, SharedTypeOK
  <2> QED
    BY <1>1, <1>3, <2>1, <2>2, <2>3 DEF CopySound
<1> QED
  BY <1>1, <1>3 DEF CopySound

\* A step in which sessions grow and every job keeps its session.
LEMMA GrowKeeps ==
    ASSUME SharedTypeOK, SharedTypeOK', exec \in [Execution -> Run], RunsAgree, DataSound,
           Grows(sessions, sessions'), keyOf' = keyOf,
           JobsAgree', \A i \in Job : jobs'[i].session = jobs[i].session,
           NEW e \in Execution, NEW y, Becomes(e, y), CopySound(sessions', jobs', y),
           \A d \in Execution : exec[d].pc = "resave" =>
             d = e \/ sessions'[exec[d].copy.session].state # "expired"
    PROVE  DataSound'
<1>1. ASSUME NEW s \in Session
      PROVE  SessionSound(jobs', keyOf', sessions'[s], s)
  BY DEF DataSound, SessionsAgree, SessionSound, Grows, Grown
<1>2. ASSUME NEW d \in Execution, d # e
      PROVE  CopySound(sessions', jobs', exec'[d])
  BY <1>2, CopyGrows, Others
<1>3. CopySound(sessions', jobs', exec'[e])
  BY Others
<1>4. SessionsAgree'
  BY <1>1 DEF SessionsAgree
<1>5. CopiesAgree'
  BY <1>2, <1>3 DEF CopiesAgree
<1> QED
  BY <1>4, <1>5 DEF DataSound

LEMMA NoCopy ==
    ASSUME NEW ss, NEW jj, NEW y, y.pc \notin Copying
    PROVE  CopySound(ss, jj, y)
  BY DEF CopySound, Copying, Holding

\* A step that leaves sessions, jobs and keys alone, and e without a copy.
LEMMA NothingSaved ==
    ASSUME SharedTypeOK, SharedTypeOK', exec \in [Execution -> Run], RunsAgree, DataSound,
           UNCHANGED <<jobs, sessions, keyOf>>,
           NEW e \in Execution, NEW y, Becomes(e, y), y.pc \notin Copying
    PROVE  DataSound'
<1>1. Grows(sessions, sessions')
  BY Stays DEF DataSound
<1>2. JobsAgree' /\ \A i \in Job : jobs'[i].session = jobs[i].session
  BY <1>1, JobsKept DEF DataSound
<1>3. CopySound(sessions', jobs', y)
  BY NoCopy
<1>4. \A d \in Execution : exec[d].pc = "resave" =>
        sessions'[exec[d].copy.session].state # "expired"
  BY DEF DataSound, CopiesAgree, CopySound
<1> QED
  BY <1>1, <1>2, <1>3, <1>4, GrowKeeps

KeyGiven(j) == keyOf'[j] # None /\ \A i \in Job : i # j => keyOf'[i] = keyOf[i]

NoLiveSession(j) ==
    \A s \in Session : sessions[s].state \in {"open", "done"} => sessions[s].job # j

NobodyElse(e, j) ==
    \A d \in Execution : d # e /\ exec[d].pc \in Copying => exec[d].job # j

\* A step in which job j gets a session that was free, its other sessions
\* being expired and no other execution working on it.
LEMMA OpenKeeps ==
    ASSUME SharedTypeOK, SharedTypeOK', exec \in [Execution -> Run], RunsAgree, DataSound,
           NEW n \in Session, sessions[n].state = "unused", NEW j \in Job,
           sessions' = Opened(n, j),
           NEW rec \in JobRecord, jobs' = [jobs EXCEPT ![j] = rec],
           rec.session = n, rec.offset = 0, rec.status # "absent", Real(sessions, rec, j),
           KeyGiven(j), NoLiveSession(j), NEW e \in Execution, NobodyElse(e, j),
           NEW y, Becomes(e, y), y.pc \in Copying => y.copy = rec /\ y.job = j,
           y.pc \notin {"finalize", "complete", "announce"}
    PROVE  DataSound'
<1> USE DEF KeyGiven, NoLiveSession, NobodyElse
<1>1. /\ sessions'[n].state = "open" /\ sessions'[n].job = j /\ sessions'[n].received = 0
      /\ \A s \in Session : s # n => sessions'[s] = sessions[s]
  BY DEF Opened, SharedTypeOK
<1>2. jobs'[j] = rec /\ \A i \in Job : i # j => jobs'[i] = jobs[i]
  BY DEF SharedTypeOK
<1>3. ASSUME NEW job \in JobRecord, NEW i, Real(sessions, job, i)
      PROVE  Real(sessions', job, i)
  <2>1. job.video # 0 => job.video \in Session
    BY Numbers DEF JobRecord
  <2> QED
    BY <1>1, <1>3, <2>1 DEF Real
<1>4. ASSUME NEW job, job.session \in Session, job.session # n, Behind(sessions, job)
      PROVE  Behind(sessions', job)
  BY <1>1, <1>4 DEF Behind
<1>5. Behind(sessions', rec)
  BY <1>1 DEF Behind
<1>6. ASSUME NEW i \in Job, i # j
      PROVE  JobSound(sessions', keyOf', jobs'[i], i)
  <2>1. JobSound(sessions, keyOf, jobs[i], i) /\ jobs[i] \in JobRecord
    BY DEF DataSound, JobsAgree, SharedTypeOK
  <2>2. Real(sessions', jobs[i], i)
    BY <1>3, <2>1 DEF JobSound
  <2>3. ASSUME keyOf[i] # None
        PROVE  /\ jobs[i].session \in Session /\ Behind(sessions', jobs[i])
               /\ sessions'[jobs[i].session].state # "unused"
               /\ sessions'[jobs[i].session].job = i
    <3>1. /\ jobs[i].session \in Session /\ Behind(sessions, jobs[i])
          /\ sessions[jobs[i].session].state # "unused" /\ sessions[jobs[i].session].job = i
      BY <2>1, <2>3 DEF JobSound
    <3>2. jobs[i].session # n
      BY <3>1
    <3> QED
      BY <1>1, <1>4, <3>1, <3>2
  <2> QED
    BY <1>2, <1>6, <2>1, <2>2, <2>3 DEF JobSound
<1>7. JobSound(sessions', keyOf', jobs'[j], j)
  BY <1>1, <1>2, <1>3, <1>5 DEF JobSound
<1>8. JobsAgree'
  BY <1>6, <1>7 DEF JobsAgree
<1>9. ASSUME NEW s \in Session
      PROVE  SessionSound(jobs', keyOf', sessions'[s], s)
  <2>1. CASE s = n
    BY <1>1, <1>2, <2>1 DEF SessionSound
  <2>2. CASE s # n
    <3>1. SessionSound(jobs, keyOf, sessions[s], s)
      BY DEF DataSound, SessionsAgree
    <3> QED
      BY <1>1, <1>2, <2>2, <3>1 DEF SessionSound
  <2> QED
    BY <2>1, <2>2
<1>10. SessionsAgree'
  BY <1>9 DEF SessionsAgree
<1>11. ASSUME NEW d \in Execution, d # e
       PROVE  CopySound(sessions', jobs', exec'[d])
  <2> DEFINE x == exec[d]
  <2>1. CopySound(sessions, jobs, x) /\ RunSound(keyOf, x) /\ x \in Run /\ exec'[d] = x
    BY <1>11, Others DEF DataSound, CopiesAgree, RunsAgree
  <2>2. ASSUME x.pc \in Copying
        PROVE  /\ Real(sessions', x.copy, x.job) /\ Behind(sessions', x.copy)
               /\ x.copy.session = jobs'[x.job].session /\ x.copy.status # "absent"
               /\ x.copy.session # n /\ x.copy.session \in Session
    <3>1. x.job \in Job /\ keyOf[x.job] # None /\ x.job # j
      BY <1>11, <2>1, <2>2, Numbers, UploadAssumption
         DEF RunSound, Copying, Holding, Recording, Starting
    <3>2. /\ x.copy.session = jobs[x.job].session /\ x.copy.session \in Session
          /\ x.copy.session # n
      BY <2>1, <2>2, <3>1 DEF CopySound, DataSound, JobsAgree, JobSound
    <3>3. x.copy \in JobRecord
      BY <2>1 DEF Run
    <3> QED
      BY <1>2, <1>3, <1>4, <2>1, <2>2, <3>1, <3>2, <3>3 DEF CopySound
  <2> QED
    BY <1>1, <2>1, <2>2 DEF CopySound, Copying
<1>12. CopySound(sessions', jobs', exec'[e])
  <2>1. exec'[e] = y
    BY Others
  <2> QED
    BY <1>1, <1>2, <1>3, <1>5, <2>1 DEF CopySound, Copying
<1>13. CopiesAgree'
  BY <1>11, <1>12 DEF CopiesAgree
<1> QED
  BY <1>8, <1>10, <1>13 DEF DataSound

\* A session expires that no start still has to save.
LEMMA ExpireKeeps ==
    ASSUME SharedTypeOK, SharedTypeOK', exec \in [Execution -> Run], RunsAgree, DataSound,
           NEW s \in Session, SessionExpires(s)
    PROVE  DataSound'
<1>1. /\ sessions'[s].state = "expired" /\ sessions'[s].job = sessions[s].job
      /\ sessions[s].state = "open"
      /\ \A t \in Session : t # s => sessions'[t] = sessions[t]
  BY DEF SessionExpires, SharedTypeOK, SessionRecord
<1>2. Grows(sessions, sessions')
  <2>1. Grows(sessions, sessions)
    BY Stays DEF DataSound
  <2>2. Grown(sessions[s], sessions'[s])
    BY <1>1 DEF Grown
  <2> QED
    BY <1>1, <2>1, <2>2 DEF Grows
<1>3. jobs' = jobs /\ keyOf' = keyOf /\ exec' = exec
  BY DEF SessionExpires
<1>4. JobsAgree'
  BY <1>2, <1>3, JobsKept DEF DataSound
<1>5. ASSUME NEW t \in Session
      PROVE  SessionSound(jobs', keyOf', sessions'[t], t)
  BY <1>2, <1>3 DEF DataSound, SessionsAgree, SessionSound, Grows, Grown
<1>6. ASSUME NEW d \in Execution
      PROVE  CopySound(sessions', jobs', exec'[d])
  <2>1. exec[d].pc = "resave" => sessions'[exec[d].copy.session].state # "expired"
    <3>1. ASSUME exec[d].pc = "resave"
          PROVE  /\ exec[d].copy.session \in Session
                 /\ sessions[exec[d].copy.session].state # "expired"
                 /\ exec[d].copy.session # s
      <4>1. exec[d].copy.session = jobs[exec[d].job].session
            /\ sessions[exec[d].copy.session].state # "expired"
        BY <3>1 DEF DataSound, CopiesAgree, CopySound, Copying
      <4>2. exec[d].job \in Job /\ keyOf[exec[d].job] # None
        BY <3>1, Numbers, UploadAssumption DEF RunsAgree, RunSound, Recording, Starting
      <4> QED
        BY <3>1, <4>1, <4>2 DEF DataSound, JobsAgree, JobSound, SessionExpires, At
    <3> QED
      BY <1>1, <3>1
  <2> QED
    BY <1>2, <1>3, <2>1, CopyGrows
<1>7. SessionsAgree'
  BY <1>5 DEF SessionsAgree
<1>8. CopiesAgree'
  BY <1>6 DEF CopiesAgree
<1> QED
  BY <1>4, <1>7, <1>8 DEF DataSound

-----------------------------------------------------------------------------
(* Reservations and the jobs of a key.                                     *)

KeysSound == ReservationsAgree /\ JobsAreKnown

\* A step that registers nothing and leaves no start of a key in another
\* position of its own: what is known of the keys stays.
LEMMA KeysKept ==
    ASSUME exec \in [Execution -> Run], KeysSound, UNCHANGED <<idem, keyOf>>, lost \subseteq lost',
           NEW e \in Execution, NEW y, Becomes(e, y),
           \/ exec[e].pc \notin Starting \/ exec[e].key \in lost' \/ exec[e].key \notin Key
           \/ /\ y.pc \in Recording /\ y.key = exec[e].key
              /\ exec[e].pc \in Recording => y.job = exec[e].job,
           y.pc \in Starting /\ y.key \in Key => exec[e].pc \in Starting /\ y.key = exec[e].key
    PROVE  KeysSound'
<1>1. /\ exec'[e] = y /\ exec' \in [Execution -> Run]
      /\ \A d \in Execution : d # e => exec'[d] = exec[d]
  BY Others
<1>2. ASSUME NEW k \in Key \ lost'
      PROVE  ReservationSound(idem', keyOf', exec', k)
  <2>1. ReservationSound(idem, keyOf, exec, k)
    BY DEF KeysSound, ReservationsAgree
  <2>2. ASSUME NEW d \in Execution
        PROVE  exec[d].pc \in Starting /\ exec[d].key = k <=>
               exec'[d].pc \in Starting /\ exec'[d].key = k
    BY <1>1 DEF Starting
  <2> QED
    BY <2>1, <2>2 DEF ReservationSound
<1>3. ASSUME NEW k \in Key \ lost', NEW j \in Job, keyOf'[j] = k
      PROVE  KnownAs(idem', exec', k, j)
  <2>1. KnownAs(idem, exec, k, j)
    BY <1>3 DEF KeysSound, JobsAreKnown
  <2> QED
    BY <1>1, <2>1 DEF KnownAs, Starting
<1> QED
  BY <1>2, <1>3 DEF KeysSound, ReservationsAgree, JobsAreKnown

\* A step on one key leaves the other keys as they were.
LEMMA OtherKeys ==
    ASSUME exec \in [Execution -> Run], idem \in [Key -> IdemRecord], KeysSound,
           lost' = lost, NEW k \in Key, NEW ref, idem' = [idem EXCEPT ![k] = ref],
           \A j \in Job : keyOf'[j] # keyOf[j] => keyOf[j] = None /\ keyOf'[j] = k,
           NEW e \in Execution, NEW y, Becomes(e, y), exec[e].key = k, None \notin Key,
           y.pc \in Starting => y.key = k,
           k \notin lost => /\ ReservationSound(idem', keyOf', exec', k)
                            /\ \A j \in Job : keyOf'[j] = k => KnownAs(idem', exec', k, j)
    PROVE  KeysSound'
<1>1. /\ exec'[e] = y /\ exec' \in [Execution -> Run]
      /\ \A d \in Execution : d # e => exec'[d] = exec[d]
  BY Others
<1>2. ASSUME NEW l \in Key \ lost', l # k
      PROVE  ReservationSound(idem', keyOf', exec', l)
  <2>1. ReservationSound(idem, keyOf, exec, l)
    BY DEF KeysSound, ReservationsAgree
  <2>2. ASSUME NEW d \in Execution
        PROVE  exec[d].pc \in Starting /\ exec[d].key = l <=>
               exec'[d].pc \in Starting /\ exec'[d].key = l
    BY <1>1, <1>2
  <2>3. idem'[l] = idem[l]
    BY <1>2
  <2>4. \A j \in Job : keyOf[j] = l => keyOf'[j] = l
    OBVIOUS
  <2> QED
    BY <2>1, <2>2, <2>3, <2>4 DEF ReservationSound
<1>3. ASSUME NEW l \in Key \ lost', l # k, NEW j \in Job, keyOf'[j] = l
      PROVE  KnownAs(idem', exec', l, j)
  <2>1. KnownAs(idem, exec, l, j)
    BY <1>3 DEF KeysSound, JobsAreKnown
  <2> QED
    BY <1>1, <1>3, <2>1 DEF KnownAs
<1>4. ReservationsAgree'
  BY <1>2 DEF ReservationsAgree
<1>5. JobsAreKnown'
  BY <1>3 DEF JobsAreKnown
<1> QED
  BY <1>4, <1>5 DEF KeysSound

LEMMA Entries ==
    /\ \A e : Reserved(e).kind = "pending" /\ Reserved(e).ref = e
    /\ \A j : Recorded(j).kind = "job" /\ Recorded(j).ref = j
  BY DEF Reserved, Recorded

\* The start of a key that lost nothing is the only one, it has the
\* reservation, and no job of the key is on record.
LEMMA OneStart ==
    ASSUME KeysSound, NEW e \in Execution, exec[e].pc \in Starting,
           exec[e].key \in Key \ lost
    PROVE  /\ idem[exec[e].key] = Reserved(e)
           /\ \A d \in Execution :
                exec[d].pc \in Starting /\ exec[d].key = exec[e].key => d = e
           /\ \A j \in Job : keyOf[j] = exec[e].key => exec[e].pc \in Recording /\ exec[e].job = j
<1> DEFINE k == exec[e].key
<1>1. ReservationSound(idem, keyOf, exec, k)
  BY DEF KeysSound, ReservationsAgree
<1>2. idem[k] = Reserved(e)
  BY <1>1 DEF ReservationSound
<1>3. ASSUME NEW d \in Execution, exec[d].pc \in Starting, exec[d].key = k
      PROVE  d = e
  BY <1>1, <1>2, <1>3, Entries DEF ReservationSound
<1>4. ASSUME NEW j \in Job, keyOf[j] = k
      PROVE  exec[e].pc \in Recording /\ exec[e].job = j
  <2>1. KnownAs(idem, exec, k, j)
    BY <1>4 DEF KeysSound, JobsAreKnown
  <2> QED
    BY <1>2, <1>3, <2>1, Entries DEF KnownAs, Starting
<1> QED
  BY <1>2, <1>3, <1>4

\* Only a key without a job and without a start is reserved.
LEMMA ReserveKeys ==
    ASSUME SharedTypeOK, exec \in [Execution -> Run], RunsAgree, JobsAgree, KeysSound,
           NEW e \in Execution, Reserve(e)
    PROVE  KeysSound'
<1> DEFINE k == exec[e].key
<1>1. k \in Key /\ exec[e].pc = "reserve" /\ exec[e] \in Run /\ lost' = lost /\ keyOf' = keyOf
  BY DEF Reserve, At, HasKey, RunsAgree, RunSound
<1>2. CASE idem' = idem /\ End(e)
  <2>1. Becomes(e, Idle)
    BY <1>2, IdleRun DEF End, Becomes
  <2> QED
    BY <1>1, <1>2, <2>1, IdleRun, KeysKept DEF Starting, Recording
<1>3. CASE /\ ~(idem[k].kind = "job" /\ jobs[idem[k].ref].status # "absent")
           /\ idem[k].kind # "pending"
           /\ idem' = [idem EXCEPT ![k] = Reserved(e)] /\ GoTo(e, "create")
  <2> DEFINE y == GoneTo(exec[e], "create")
  <2>1. Becomes(e, y) /\ y.pc = "create" /\ y.key = k
    BY <1>1, <1>3, GoneRun DEF GoTo, GoneTo, Becomes, Pc
  <2>2. ASSUME k \notin lost
        PROVE  /\ ReservationSound(idem', keyOf', exec', k)
               /\ \A j \in Job : keyOf'[j] = k => KnownAs(idem', exec', k, j)
    <3>1. ReservationSound(idem, keyOf, exec, k)
      BY <1>1, <2>2 DEF KeysSound, ReservationsAgree
    <3>2. ASSUME NEW d \in Execution, exec[d].pc \in Starting
          PROVE  exec[d].key # k
      BY <1>3, <3>1, <3>2, Entries DEF ReservationSound
    <3>3. idem'[k] = Reserved(e)
      BY <1>1, <1>3 DEF SharedTypeOK
    <3>4. ReservationSound(idem', keyOf', exec', k)
      BY <2>1, <3>2, <3>3, Others DEF ReservationSound, Reserved, Starting
    <3>5. ASSUME NEW j \in Job, keyOf[j] = k
          PROVE  FALSE
      <4>1. KnownAs(idem, exec, k, j)
        BY <1>1, <2>2, <3>5 DEF KeysSound, JobsAreKnown
      <4>2. idem[k] = Recorded(j)
        BY <3>2, <4>1 DEF KnownAs, Starting
      <4>3. jobs[j].status # "absent"
        BY <1>1, <3>5, UploadAssumption DEF JobsAgree, JobSound
      <4> QED
        BY <1>3, <4>2, <4>3 DEF Recorded
    <3> QED
      BY <1>1, <3>4, <3>5
  <2>3. \A j \in Job : keyOf'[j] = keyOf[j]
    BY <1>1
  <2> HIDE DEF y
  <2> QED
    BY <1>1, <1>3, <2>1, <2>2, <2>3, OtherKeys, UploadAssumption DEF SharedTypeOK
<1> QED
  BY <1>2, <1>3 DEF Reserve, Reserved

\* A reservation of a key that lost nothing does not age.
LEMMA AgeKeys ==
    ASSUME SharedTypeOK, KeysSound, NEW k \in Key, ReservationAges(k)
    PROVE  KeysSound'
<1>1. k \in lost
  <2>1. ASSUME k \notin lost PROVE FALSE
    <3>1. ReservationSound(idem, keyOf, exec, k)
      BY <2>1 DEF KeysSound, ReservationsAgree
    <3> QED
      BY <3>1 DEF ReservationSound, ReservationAges, Starting, Recording
  <2> QED
    BY <2>1
<1>2. \A l \in Key : l # k => idem'[l] = idem[l]
  BY DEF ReservationAges, SharedTypeOK
<1>3. exec' = exec /\ keyOf' = keyOf /\ lost' = lost
  BY DEF ReservationAges
<1>4. ASSUME NEW l \in Key \ lost'
      PROVE  ReservationSound(idem', keyOf', exec', l)
  <2>1. ReservationSound(idem, keyOf, exec, l) /\ idem'[l] = idem[l]
    BY <1>1, <1>2, <1>3 DEF KeysSound, ReservationsAgree
  <2> QED
    BY <1>3, <2>1 DEF ReservationSound
<1>5. ASSUME NEW l \in Key \ lost', NEW j \in Job, keyOf'[j] = l
      PROVE  KnownAs(idem', exec', l, j)
  <2>1. KnownAs(idem, exec, l, j) /\ idem'[l] = idem[l]
    BY <1>1, <1>2, <1>3, <1>5 DEF KeysSound, JobsAreKnown
  <2> QED
    BY <1>3, <2>1 DEF KnownAs
<1> QED
  BY <1>4, <1>5 DEF KeysSound, ReservationsAgree, JobsAreKnown

LEMMA CreateKeys ==
    ASSUME SharedTypeOK, exec \in [Execution -> Run], RunsAgree, KeysSound,
           NEW e \in Execution, exec[e].pc = "create", NEW j \in Job, keyOf[j] = None,
           exec[e].key \in Key,
           keyOf' = [keyOf EXCEPT ![j] = exec[e].key], UNCHANGED <<idem, lost>>,
           NEW y, Becomes(e, y), y.pc = "resave", y.key = exec[e].key, y.job = j
    PROVE  KeysSound'
<1> DEFINE k == exec[e].key
           ref == idem[k]
<1>1. k \in Key /\ exec[e].pc \in Starting /\ exec[e].pc \notin Recording
  BY DEF RunsAgree, RunSound, Starting, Recording
<1>2. keyOf'[j] = k /\ \A i \in Job : i # j => keyOf'[i] = keyOf[i]
  BY DEF SharedTypeOK
<1>3. idem' = [idem EXCEPT ![k] = ref] /\ lost' = lost
  BY DEF SharedTypeOK
<1>4. ASSUME k \notin lost
      PROVE  /\ ReservationSound(idem', keyOf', exec', k)
             /\ \A i \in Job : keyOf'[i] = k => KnownAs(idem', exec', k, i)
  <2>1. /\ idem[k] = Reserved(e)
        /\ \A d \in Execution : exec[d].pc \in Starting /\ exec[d].key = k => d = e
        /\ \A i \in Job : keyOf[i] # k
    BY <1>1, <1>4, OneStart
  <2>2. exec'[e] = y /\ \A d \in Execution : d # e => exec'[d] = exec[d]
    BY Others
  <2>3. ReservationSound(idem', keyOf', exec', k)
    BY <2>1, <2>2, Entries DEF ReservationSound, Starting, Recording
  <2>4. \A i \in Job : keyOf'[i] = k => i = j
    BY <1>2, <2>1
  <2>5. KnownAs(idem', exec', k, j)
    BY <2>2 DEF KnownAs, Recording
  <2> QED
    BY <2>3, <2>4, <2>5
<1>5. \A i \in Job : keyOf'[i] # keyOf[i] => keyOf[i] = None /\ keyOf'[i] = k
  BY <1>2
<1>6. exec[e].key = k /\ y.key = k /\ None \notin Key /\ idem \in [Key -> IdemRecord]
  BY UploadAssumption DEF SharedTypeOK
<1> HIDE DEF k, ref
<1> QED
  BY <1>1, <1>3, <1>4, <1>5, <1>6, OtherKeys

\* A job without a key.
LEMMA CreateWithoutKey ==
    ASSUME SharedTypeOK, exec \in [Execution -> Run], KeysSound,
           NEW e \in Execution, exec[e].key \notin Key, NEW j \in Job, keyOf[j] = None,
           keyOf' = [keyOf EXCEPT ![j] = exec[e].key], UNCHANGED <<idem, lost>>,
           NEW y, Becomes(e, y), y.key = exec[e].key
    PROVE  KeysSound'
<1>1. /\ exec'[e] = y /\ \A d \in Execution : d # e => exec'[d] = exec[d]
      /\ \A i \in Job : keyOf'[i] \in Key \/ keyOf[i] \in Key => keyOf'[i] = keyOf[i]
  BY Others, UploadAssumption DEF SharedTypeOK
<1>2. ASSUME NEW k \in Key \ lost'
      PROVE  ReservationSound(idem', keyOf', exec', k)
  <2>1. ReservationSound(idem, keyOf, exec, k)
    BY DEF KeysSound, ReservationsAgree
  <2>2. \A d \in Execution : exec'[d].key = k \/ exec[d].key = k => exec'[d] = exec[d]
    BY <1>1
  <2> QED
    BY <1>1, <2>1, <2>2 DEF ReservationSound
<1>3. ASSUME NEW k \in Key \ lost', NEW i \in Job, keyOf'[i] = k
      PROVE  KnownAs(idem', exec', k, i)
  <2>1. KnownAs(idem, exec, k, i)
    BY <1>1, <1>3 DEF KeysSound, JobsAreKnown
  <2> QED
    BY <1>1, <2>1 DEF KnownAs
<1> QED
  BY <1>2, <1>3 DEF KeysSound, ReservationsAgree, JobsAreKnown

LEMMA CommitKeys ==
    ASSUME SharedTypeOK, exec \in [Execution -> Run], RunsAgree, KeysSound,
           NEW e \in Execution, CommitIdempotency(e) \/ ReleaseIdempotency(e)
    PROVE  KeysSound'
<1> DEFINE k == exec[e].key
           ref == idem'[k]
<1>1. /\ k \in Key /\ exec[e].pc \in Recording /\ exec[e].pc \in Starting
      /\ exec[e].job \in 0..MaxJobs
      /\ exec[e].job # 0 => keyOf[exec[e].job] = k
      /\ exec[e].pc = "commit" => exec[e].job # 0
      /\ lost' = lost /\ keyOf' = keyOf
  BY Numbers DEF CommitIdempotency, ReleaseIdempotency, At, HasKey, RunsAgree, RunSound,
     Starting, Recording, Run
<1>2. Becomes(e, Idle)
  BY IdleRun DEF CommitIdempotency, ReleaseIdempotency, End, Becomes
<1>3. idem' = [idem EXCEPT ![k] = ref]
  BY <1>1 DEF CommitIdempotency, ReleaseIdempotency, SharedTypeOK
<1>4. ASSUME k \notin lost
      PROVE  /\ ReservationSound(idem', keyOf', exec', k)
             /\ \A i \in Job : keyOf'[i] = k => KnownAs(idem', exec', k, i)
  <2>1. /\ idem[k] = Reserved(e)
        /\ \A d \in Execution : exec[d].pc \in Starting /\ exec[d].key = k => d = e
        /\ \A i \in Job : keyOf[i] = k => exec[e].job = i
    BY <1>1, <1>4, OneStart
  <2>2. exec'[e] = Idle /\ \A d \in Execution : d # e => exec'[d] = exec[d]
    BY <1>2, Others
  <2>3. \A d \in Execution : ~(exec'[d].pc \in Starting /\ exec'[d].key = k)
    BY <2>1, <2>2, IdleRun DEF Starting, Recording
  <2>4. CASE exec[e].job # 0
    <3>1. exec[e].job \in Job /\ keyOf[exec[e].job] = k
      BY <1>1, <2>4, Numbers
    <3>2. idem'[k] = Recorded(exec[e].job)
      BY <1>1, <2>1, <2>4, Entries DEF CommitIdempotency, ReleaseIdempotency, Recorded, SharedTypeOK
    <3>3. ReservationSound(idem', keyOf', exec', k)
      BY <1>1, <2>3, <3>1, <3>2, Entries DEF ReservationSound
    <3> QED
      BY <1>1, <2>1, <3>2, <3>3 DEF KnownAs
  <2>5. CASE exec[e].job = 0
    <3>1. exec[e].pc # "commit"
      BY <1>1, <2>5
    <3>2. idem'[k].kind = "none"
      BY <1>1, <2>1, <2>5, <3>1, Entries
         DEF CommitIdempotency, ReleaseIdempotency, At, SharedTypeOK
    <3>3. ReservationSound(idem', keyOf', exec', k)
      BY <2>3, <3>2 DEF ReservationSound
    <3>4. \A i \in Job : keyOf[i] # k
      BY <2>1, <2>5, Numbers
    <3> QED
      BY <1>1, <3>3, <3>4
  <2> QED
    BY <2>4, <2>5
<1>5. \A i \in Job : keyOf'[i] = keyOf[i]
  BY <1>1
<1>6. exec[e].key = k /\ Idle.pc \notin Starting
  BY IdleRun DEF Starting, Recording
<1> HIDE DEF k, ref
<1> QED
  BY <1>1, <1>2, <1>3, <1>4, <1>5, <1>6, OtherKeys, UploadAssumption DEF SharedTypeOK

-----------------------------------------------------------------------------
(* The lock and the positions.                                             *)

LEMMA LockKept ==
    ASSUME exec \in [Execution -> Run], LockAgrees, lock' = lock,
           NEW e \in Execution, NEW y, Becomes(e, y), y.pc \in Holding <=> exec[e].pc \in Holding
    PROVE  LockAgrees'
  BY Others DEF LockAgrees

LEMMA LockLeft ==
    ASSUME exec \in [Execution -> Run], LockAgrees, lock' = None,
           NEW e \in Execution, exec[e].pc \in Holding, NEW y, Becomes(e, y), y.pc \notin Holding
    PROVE  LockAgrees'
  BY Others, UploadAssumption DEF LockAgrees

LEMMA LockTaken ==
    ASSUME exec \in [Execution -> Run], LockAgrees, lock = None, NEW e \in Execution, lock' = e,
           NEW y, Becomes(e, y), y.pc \in Holding
    PROVE  LockAgrees'
  BY Others, UploadAssumption DEF LockAgrees

LEMMA RunsKept ==
    ASSUME exec \in [Execution -> Run], RunsAgree, keyOf' = keyOf,
           NEW e \in Execution, NEW y, Becomes(e, y), RunSound(keyOf, y)
    PROVE  RunsAgree'
<1>1. \A d \in Execution : RunSound(keyOf', exec'[d])
  BY Others DEF RunsAgree
<1> QED
  BY <1>1 DEF RunsAgree

-----------------------------------------------------------------------------
(* The kinds of steps.                                                     *)

Core ==
    /\ SharedTypeOK /\ exec \in [Execution -> Run]
    /\ LockAgrees /\ RunsAgree /\ DataSound /\ KeysSound

LEMMA CoreParts == QueueInv <=> Core /\ OutsideTypeOK
  BY TypeParts DEF QueueInv, Core, DataSound, KeysSound

\* An execution in the lock goes on with y, or leaves.
GoesOn(e, y) ==
    /\ exec[e].pc \in Holding /\ Becomes(e, y) /\ y.todo = exec[e].todo
    /\ \/ y.pc \in Holding /\ y.job = exec[e].job /\ lock' = lock
       \/ y.pc = "next" /\ lock' = None
    /\ UNCHANGED <<idem, keyOf, lost>>

\* The execution in the lock, and what its copy says.
LEMMA Holder ==
    ASSUME Core, NEW e \in Execution, exec[e].pc \in Holding
    PROVE  /\ exec[e] \in Run /\ exec[e].copy \in JobRecord /\ exec[e].job \in Job
           /\ keyOf[exec[e].job] # None /\ exec[e].copy.session \in Session
           /\ exec[e].copy.session = jobs[exec[e].job].session
           /\ exec[e].copy.status # "absent" /\ exec[e].copy.offset \in 0..TotalBytes
           /\ Real(sessions, exec[e].copy, exec[e].job) /\ Behind(sessions, exec[e].copy)
           /\ JobSound(sessions, keyOf, jobs[exec[e].job], exec[e].job)
           /\ jobs[exec[e].job] \in JobRecord
           /\ sessions[exec[e].copy.session] \in SessionRecord
           /\ sessions[exec[e].copy.session].job = exec[e].job
           /\ sessions[exec[e].copy.session].state # "unused"
           /\ lock = e /\ \A d \in Execution : exec[d].pc \in Holding => d = e
<1>1. exec[e] \in Run /\ exec[e].copy \in JobRecord
  BY DEF Core, Run
<1>2. exec[e].job \in Job /\ keyOf[exec[e].job] # None
  BY DEF Core, RunsAgree, RunSound
<1>3. /\ exec[e].copy.session = jobs[exec[e].job].session /\ exec[e].copy.status # "absent"
      /\ Real(sessions, exec[e].copy, exec[e].job) /\ Behind(sessions, exec[e].copy)
  BY DEF Core, DataSound, CopiesAgree, CopySound, Copying
<1>4. JobSound(sessions, keyOf, jobs[exec[e].job], exec[e].job)
  BY <1>2 DEF Core, DataSound, JobsAgree
<1>5. /\ exec[e].copy.session \in Session
      /\ sessions[exec[e].copy.session].job = exec[e].job
      /\ sessions[exec[e].copy.session].state # "unused"
  BY <1>2, <1>3, <1>4 DEF JobSound
<1>6. /\ jobs[exec[e].job] \in JobRecord /\ sessions[exec[e].copy.session] \in SessionRecord
  BY <1>2, <1>5 DEF Core, SharedTypeOK
<1>7. lock = e /\ \A d \in Execution : exec[d].pc \in Holding => d = e
  BY DEF Core, LockAgrees
<1>8. exec[e].copy.offset \in 0..TotalBytes
  BY <1>1 DEF JobRecord
<1> QED
  BY <1>1, <1>2, <1>3, <1>4, <1>5, <1>6, <1>7, <1>8

LEMMA HolderGoesOn ==
    ASSUME Core, NEW e \in Execution, NEW y, GoesOn(e, y)
    PROVE  /\ LockAgrees' /\ RunsAgree' /\ KeysSound' /\ exec' \in [Execution -> Run]
           /\ lock' \in {None} \cup Execution
<1>1. LockAgrees'
  <2>1. CASE y.pc \in Holding /\ lock' = lock
    BY <2>1, LockKept DEF Core, GoesOn
  <2>2. CASE y.pc = "next" /\ lock' = None
    BY <2>2, LockLeft DEF Core, GoesOn, Holding
  <2> QED
    BY <2>1, <2>2 DEF GoesOn
<1>2. RunSound(keyOf, y)
  <2>1. RunSound(keyOf, exec[e])
    BY DEF Core, RunsAgree
  <2> QED
    BY <2>1 DEF RunSound, GoesOn, Holding, Starting, Recording
<1>3. RunsAgree'
  BY <1>2, RunsKept DEF Core, GoesOn
<1>4. exec[e].pc \notin Starting /\ y.pc \notin Starting
  BY DEF GoesOn, Holding, Starting, Recording
<1>5. KeysSound'
  BY <1>4, KeysKept DEF Core, GoesOn
<1>6. exec' \in [Execution -> Run]
  BY Others DEF Core, GoesOn
<1>7. lock' \in {None} \cup Execution
  BY DEF Core, SharedTypeOK, GoesOn
<1> QED
  BY <1>1, <1>3, <1>5, <1>6, <1>7

NoneExpires ==
    \A s \in Session : sessions'[s].state = "expired" => sessions[s].state = "expired"

\* It saves rec, a sound record in the session it works with.
LEMMA SaveStep ==
    ASSUME Core, NEW e \in Execution, NEW y, GoesOn(e, y),
           sessions' \in [Session -> SessionRecord], Grows(sessions, sessions'), NoneExpires,
           NEW rec \in JobRecord, jobs' = [jobs EXCEPT ![exec[e].job] = rec],
           rec.status # "absent", rec.session = exec[e].copy.session,
           Real(sessions', rec, exec[e].job), Behind(sessions', rec),
           y.pc \in Holding => y.copy = rec,
           y.pc \in {"finalize", "complete", "announce"} => rec.video # 0
    PROVE  Core'
<1> DEFINE j == exec[e].job
<1>1. exec[e].pc \in Holding /\ Becomes(e, y)
  BY DEF GoesOn
<1>2. j \in Job /\ keyOf[j] # None /\ rec.session = jobs[j].session
  BY <1>1, Holder
<1>3. SharedTypeOK'
  <2>1. jobs' \in [Job -> JobRecord]
    BY DEF Core, SharedTypeOK
  <2> QED
    BY <2>1, HolderGoesOn DEF Core, SharedTypeOK, GoesOn
<1>4. JobsAgree' /\ \A i \in Job : jobs'[i].session = jobs[i].session
  BY <1>2, <1>3, JobsSaved DEF Core, DataSound, GoesOn
<1>5. CopySound(sessions', jobs', y)
  <2>1. CASE y.pc = "next"
    BY <2>1, NoCopy DEF Copying, Holding
  <2>2. CASE y.pc \in Holding /\ y.job = j
    BY <1>2, <1>4, <2>2 DEF CopySound, Holding
  <2> QED
    BY <2>1, <2>2 DEF GoesOn
<1>6. \A d \in Execution : exec[d].pc = "resave" =>
        d = e \/ sessions'[exec[d].copy.session].state # "expired"
  <2>1. ASSUME NEW d \in Execution, exec[d].pc = "resave"
        PROVE  sessions'[exec[d].copy.session].state # "expired"
    <3>1. exec[d].job \in Job /\ keyOf[exec[d].job] # None
      BY <2>1, Numbers, UploadAssumption DEF Core, RunsAgree, RunSound, Recording, Starting
    <3>2. /\ exec[d].copy.session = jobs[exec[d].job].session
          /\ sessions[exec[d].copy.session].state # "expired"
      BY <2>1 DEF Core, DataSound, CopiesAgree, CopySound, Copying
    <3> QED
      BY <3>1, <3>2 DEF Core, DataSound, JobsAgree, JobSound, NoneExpires
  <2> QED
    BY <2>1
<1>7. DataSound'
  BY <1>1, <1>3, <1>4, <1>5, <1>6, GrowKeeps DEF Core, GoesOn
<1> QED
  BY <1>3, <1>7, HolderGoesOn DEF Core

\* It saves nothing, and goes on with the copy it has.
LEMMA GoStep ==
    ASSUME Core, NEW e \in Execution, NEW y, GoesOn(e, y), y.pc \in Holding, jobs' = jobs,
           sessions' \in [Session -> SessionRecord], Grows(sessions, sessions'), NoneExpires,
           y.copy = exec[e].copy,
           y.pc \in {"finalize", "complete", "announce"} => exec[e].copy.video # 0
    PROVE  Core'
<1> DEFINE j == exec[e].job
<1>1. exec[e].pc \in Holding /\ Becomes(e, y) /\ y.job = j
  BY DEF GoesOn, Holding
<1>2. /\ j \in Job /\ exec[e].copy \in JobRecord /\ exec[e].copy.session = jobs[j].session
      /\ exec[e].copy.session \in Session /\ exec[e].copy.status # "absent"
      /\ Real(sessions, exec[e].copy, j) /\ Behind(sessions, exec[e].copy)
  BY <1>1, Holder
<1>3. SharedTypeOK'
  BY HolderGoesOn DEF Core, SharedTypeOK, GoesOn
<1>4. JobsAgree' /\ \A i \in Job : jobs'[i].session = jobs[i].session
  BY <1>3, JobsKept DEF Core, DataSound, GoesOn
<1>5. Real(sessions', y.copy, j) /\ Behind(sessions', y.copy)
  BY <1>2, <1>3, RecordGrows DEF Core, SharedTypeOK
<1>6. CopySound(sessions', jobs', y)
  BY <1>1, <1>2, <1>5 DEF CopySound, Holding
<1>7. \A d \in Execution : exec[d].pc = "resave" =>
        d = e \/ sessions'[exec[d].copy.session].state # "expired"
  <2>1. ASSUME NEW d \in Execution, exec[d].pc = "resave"
        PROVE  sessions'[exec[d].copy.session].state # "expired"
    <3>1. exec[d].job \in Job /\ keyOf[exec[d].job] # None
      BY <2>1, Numbers, UploadAssumption DEF Core, RunsAgree, RunSound, Recording, Starting
    <3>2. /\ exec[d].copy.session = jobs[exec[d].job].session
          /\ sessions[exec[d].copy.session].state # "expired"
      BY <2>1 DEF Core, DataSound, CopiesAgree, CopySound, Copying
    <3> QED
      BY <3>1, <3>2 DEF Core, DataSound, JobsAgree, JobSound, NoneExpires
  <2> QED
    BY <2>1
<1>8. DataSound'
  BY <1>1, <1>3, <1>4, <1>6, <1>7, GrowKeeps DEF Core, GoesOn
<1> QED
  BY <1>3, <1>8, HolderGoesOn DEF Core

\* Its session being expired, it takes a new one and saves the record anew.
LEMMA RenewStep ==
    ASSUME Core, NEW e \in Execution, NEW y, GoesOn(e, y),
           sessions[exec[e].copy.session].state = "expired",
           NEW n \in NewSession, sessions' = Opened(n, exec[e].job),
           NEW rec \in JobRecord, jobs' = [jobs EXCEPT ![exec[e].job] = rec],
           rec.status \in {exec[e].copy.status, "queued"}, rec.session = n, rec.offset = 0,
           rec.video = exec[e].copy.video,
           y.pc \in Holding => y.copy = rec, y.pc \notin {"finalize", "complete", "announce"}
    PROVE  Core'
<1> DEFINE j == exec[e].job
<1>1. exec[e].pc \in Holding /\ Becomes(e, y)
  BY DEF GoesOn
<1>2. n \in Session /\ sessions[n].state = "unused"
  BY FreeSession
<1>3. /\ j \in Job /\ keyOf[j] # None /\ exec[e].copy.session = jobs[j].session
      /\ exec[e].copy.status # "absent" /\ Real(sessions, exec[e].copy, j)
      /\ \A d \in Execution : exec[d].pc \in Holding => d = e
  BY <1>1, Holder
<1>4. SharedTypeOK'
  <2>1. jobs' \in [Job -> JobRecord]
    BY DEF Core, SharedTypeOK
  <2>2. sessions' \in [Session -> SessionRecord]
    BY <1>3, Numbers DEF Core, SharedTypeOK, Opened, SessionRecord
  <2> QED
    BY <2>1, <2>2, HolderGoesOn DEF Core, SharedTypeOK, GoesOn
<1>5. Real(sessions, rec, j) /\ rec.status # "absent"
  BY <1>3 DEF Real
<1>6. NoLiveSession(j)
  BY <1>3 DEF Core, DataSound, SessionsAgree, SessionSound, NoLiveSession
<1>7. NobodyElse(e, j)
  <2>1. ASSUME NEW d \in Execution, d # e, exec[d].pc \in Copying
        PROVE  exec[d].job # j
    <3>1. exec[d].pc = "resave"
      BY <1>3, <2>1 DEF Copying
    <3>2. /\ exec[d].copy.session = jobs[exec[d].job].session
          /\ sessions[exec[d].copy.session].state # "expired"
      BY <3>1 DEF Core, DataSound, CopiesAgree, CopySound, Copying
    <3> QED
      BY <1>3, <3>2
  <2> QED
    BY <2>1 DEF NobodyElse
<1>8. y.pc \in Copying => y.copy = rec /\ y.job = j
  BY DEF GoesOn, Copying, Holding
<1>9. DataSound'
  <2>1. KeyGiven(j)
    BY <1>3 DEF GoesOn, KeyGiven
  <2>2. sessions' = Opened(n, j) /\ jobs' = [jobs EXCEPT ![j] = rec]
    OBVIOUS
  <2>3. SharedTypeOK /\ exec \in [Execution -> Run] /\ RunsAgree /\ DataSound
    BY DEF Core
  <2> HIDE DEF j
  <2> QED
    BY <1>1, <1>2, <1>3, <1>4, <1>5, <1>6, <1>7, <1>8, <2>1, <2>2, <2>3, OpenKeeps
<1> QED
  BY <1>4, <1>9, HolderGoesOn DEF Core

LEMMA SameSessions ==
    ASSUME Core, sessions' = sessions
    PROVE  /\ Grows(sessions, sessions') /\ NoneExpires
           /\ sessions' \in [Session -> SessionRecord]
           /\ \A d \in Execution : exec[d].pc = "resave" =>
                sessions'[exec[d].copy.session].state # "expired"
<1>1. Grows(sessions, sessions') /\ sessions' \in [Session -> SessionRecord]
  BY Stays DEF Core, DataSound, SharedTypeOK
<1>2. \A d \in Execution : exec[d].pc = "resave" =>
        sessions'[exec[d].copy.session].state # "expired"
  BY DEF Core, DataSound, CopiesAgree, CopySound
<1> QED
  BY <1>1, <1>2 DEF NoneExpires

\* A step of e that saves nothing and leaves it without a copy.
LEMMA QuietStep ==
    ASSUME Core, NEW e \in Execution, NEW y, Becomes(e, y), y.pc \notin Copying,
           RunSound(keyOf, y), UNCHANGED <<jobs, sessions, keyOf>>,
           idem' \in [Key -> IdemRecord], lost' \subseteq Key, lock' \in {None} \cup Execution,
           LockAgrees', KeysSound'
    PROVE  Core'
<1>1. SharedTypeOK'
  BY DEF Core, SharedTypeOK
<1>2. RunsAgree' /\ exec' \in [Execution -> Run]
  BY RunsKept, Others DEF Core
<1>3. DataSound'
  BY <1>1, NothingSaved DEF Core
<1> QED
  BY <1>1, <1>2, <1>3 DEF Core

\* Such a step outside the lock, which registers nothing.
LEMMA IdleStep ==
    ASSUME Core, NEW e \in Execution, NEW y, Becomes(e, y), exec[e].pc \notin Holding,
           exec[e].pc \notin Starting, y.pc \notin Copying, y.pc \notin Starting,
           RunSound(keyOf, y), UNCHANGED <<idem, jobs, lock, sessions, keyOf, lost>>
    PROVE  Core'
<1>1. LockAgrees'
  BY LockKept DEF Core, Copying
<1>2. KeysSound'
  BY KeysKept DEF Core
<1> QED
  BY <1>1, <1>2, QuietStep DEF Core, SharedTypeOK

-----------------------------------------------------------------------------
(* The steps of startUploadJob_.                                           *)

LEMMA StartUploadStep ==
    ASSUME Core, NEW e \in Execution, NEW k \in Key \cup {NoKey}, StartUpload(e, k)
    PROVE  Core'
<1> DEFINE y == Asking(exec[e], k)
<1>1. exec[e] = Idle /\ exec[e].pc = "idle"
  BY DEF StartUpload, At, Core, RunsAgree, RunSound
<1>2. /\ Becomes(e, y) /\ y.pc = "reserve" /\ y.key = k /\ y.job = 0 /\ y.todo = {}
  <2>1. y \in Run /\ y.pc = "reserve" /\ y.key = k /\ y.job = 0 /\ y.todo = {}
    BY <1>1, IdleRun DEF Asking, Run, Pc
  <2> QED
    BY <2>1 DEF StartUpload, Becomes, Asking, Core
<1>3. RunSound(keyOf, y)
  BY <1>2 DEF RunSound, Recording, Holding
<1> HIDE DEF y
<1> QED
  BY <1>1, <1>2, <1>3, IdleStep DEF StartUpload, Copying, Starting, Recording, Holding

LEMMA ReserveStep ==
    ASSUME Core, NEW e \in Execution, Reserve(e)
    PROVE  Core'
<1>1. /\ exec[e].pc = "reserve" /\ exec[e].key \in Key /\ exec[e].job = 0 /\ exec[e] \in Run
      /\ RunSound(keyOf, exec[e])
  BY DEF Reserve, At, HasKey, Core, RunsAgree, RunSound
<1>2. KeysSound'
  BY ReserveKeys DEF Core, DataSound
<1>3. idem' \in [Key -> IdemRecord]
  BY DEF Reserve, Core, SharedTypeOK, IdemRecord
<1>4. CASE End(e)
  <2>1. Becomes(e, Idle) /\ RunSound(keyOf, Idle)
    BY <1>4, IdleRun DEF End, Becomes, RunSound, Starting, Recording, Holding
  <2>2. LockAgrees'
    BY <1>1, <2>1, IdleRun, LockKept DEF Reserve, Core, Holding
  <2> QED
    BY <1>2, <1>3, <2>1, <2>2, IdleRun, QuietStep
       DEF Reserve, Core, SharedTypeOK, Copying, Holding
<1>5. CASE GoTo(e, "create")
  <2> DEFINE y == GoneTo(exec[e], "create")
  <2>1. /\ Becomes(e, y) /\ y.pc = "create" /\ y.key = exec[e].key /\ y.job = exec[e].job
        /\ y.todo = exec[e].todo
    BY <1>1, <1>5, GoneRun DEF GoTo, GoneTo, Becomes, Pc
  <2> HIDE DEF y
  <2>2. RunSound(keyOf, y)
    BY <1>1, <2>1 DEF RunSound, Recording, Holding
  <2>3. LockAgrees'
    BY <1>1, <2>1, LockKept DEF Reserve, Core, Holding
  <2> QED
    BY <1>2, <1>3, <2>1, <2>2, <2>3, QuietStep
       DEF Reserve, Core, SharedTypeOK, Copying, Holding
<1> QED
  BY <1>4, <1>5 DEF Reserve

\* A start without a key has nothing to reserve.
LEMMA ReserveNothingStep ==
    ASSUME Core, NEW e \in Execution, ReserveNothing(e)
    PROVE  Core'
<1> DEFINE y == GoneTo(exec[e], "create")
<1>1. /\ exec[e].pc = "reserve" /\ exec[e].key = NoKey /\ exec[e] \in Run
      /\ RunSound(keyOf, exec[e])
      /\ UNCHANGED <<idem, jobs, lock, sessions, keyOf, lost>>
  BY DEF ReserveNothing, At, HasKey, Core, RunsAgree
<1>2. /\ Becomes(e, y) /\ y.pc = "create" /\ y.key = NoKey /\ y.job = exec[e].job
      /\ y.todo = exec[e].todo
  BY <1>1, GoneRun DEF ReserveNothing, GoTo, GoneTo, Becomes, Pc
<1> HIDE DEF y
<1>3. RunSound(keyOf, y)
  BY <1>1, <1>2 DEF RunSound, Starting, Recording, Holding
<1>4. LockAgrees'
  BY <1>1, <1>2, LockKept DEF Core, Holding
<1>5. KeysSound'
  BY <1>1, <1>2, KeysKept, UploadAssumption DEF Core, Starting, Recording
<1> QED
  BY <1>1, <1>2, <1>3, <1>4, <1>5, QuietStep DEF Core, SharedTypeOK, Copying, Holding

\* Nor to register.
LEMMA EndWithoutKeyStep ==
    ASSUME Core, NEW e \in Execution, EndWithoutKey(e)
    PROVE  Core'
<1>1. /\ exec[e].pc \in Recording /\ exec[e].key = NoKey /\ End(e)
      /\ UNCHANGED <<idem, jobs, lock, sessions, keyOf, lost>>
  BY DEF EndWithoutKey, HasKey, Recording
<1>2. Becomes(e, Idle) /\ RunSound(keyOf, Idle)
  BY <1>1, IdleRun DEF End, Becomes, RunSound, Starting, Recording, Holding
<1>3. LockAgrees'
  BY <1>1, <1>2, IdleRun, LockKept DEF Core, Holding, Recording
<1>4. KeysSound'
  BY <1>1, <1>2, IdleRun, KeysKept, UploadAssumption DEF Core, Starting, Recording
<1> QED
  BY <1>1, <1>2, <1>3, <1>4, IdleRun, QuietStep DEF Core, SharedTypeOK, Copying, Holding

LEMMA CommitStep ==
    ASSUME Core, NEW e \in Execution, CommitIdempotency(e) \/ ReleaseIdempotency(e)
    PROVE  Core'
<1>1. /\ exec[e].pc \in Recording /\ exec[e] \in Run /\ End(e)
      /\ exec[e].pc = "commit" => exec[e].job \in Job
      /\ UNCHANGED <<jobs, lock, sessions, keyOf, lost>>
  BY DEF CommitIdempotency, ReleaseIdempotency, At, Core, RunsAgree, RunSound, Recording
<1>2. KeysSound'
  BY CommitKeys DEF Core
<1>3. idem' \in [Key -> IdemRecord]
  <2>1. exec[e].job # 0 => exec[e].job \in Job
    BY <1>1, Numbers DEF Run
  <2> QED
    BY <1>1, <2>1
       DEF CommitIdempotency, ReleaseIdempotency, At, Core, SharedTypeOK, IdemRecord
<1>4. Becomes(e, Idle) /\ RunSound(keyOf, Idle)
  BY <1>1, IdleRun DEF End, Becomes, RunSound, Starting, Recording, Holding
<1>5. LockAgrees'
  BY <1>1, <1>4, IdleRun, LockKept DEF Core, Holding, Recording
<1> QED
  BY <1>1, <1>2, <1>3, <1>4, <1>5, IdleRun, QuietStep
     DEF Core, SharedTypeOK, Copying, Holding

LEMMA ReleaseStep ==
    ASSUME Core, NEW e \in Execution,
           StartRefused(e) \/ StartFails(e) \/ WaitLockTimesOut(e)
    PROVE  Core'
<1>1. /\ exec[e].pc \in Starting /\ exec[e] \in Run
      /\ RunSound(keyOf, exec[e])
      /\ UNCHANGED <<idem, jobs, lock, sessions, keyOf>>
  BY DEF StartRefused, StartFails, WaitLockTimesOut, At, Core, RunsAgree, Starting, Recording
<1>2. CASE GoTo(e, "release") /\ lost' = lost
  <2> DEFINE y == GoneTo(exec[e], "release")
  <2>1. /\ Becomes(e, y) /\ y.pc = "release" /\ y.key = exec[e].key /\ y.job = exec[e].job
        /\ y.todo = exec[e].todo
    BY <1>1, <1>2, GoneRun DEF GoTo, GoneTo, Becomes, Pc
  <2> HIDE DEF y
  <2>2. RunSound(keyOf, y)
    BY <1>1, <2>1 DEF RunSound, Starting, Recording, Holding
  <2>3. LockAgrees'
    BY <1>1, <2>1, LockKept DEF Core, Holding, Starting, Recording
  <2>4. KeysSound'
    BY <1>1, <1>2, <2>1, KeysKept DEF Core, Starting, Recording
  <2> QED
    BY <1>1, <1>2, <2>1, <2>2, <2>3, <2>4, QuietStep DEF Core, SharedTypeOK, Copying, Holding
<1>3. CASE End(e) /\ exec[e].key # NoKey /\ lost' = lost \cup {exec[e].key}
  <2>1. Becomes(e, Idle) /\ RunSound(keyOf, Idle)
    BY <1>1, <1>3, IdleRun DEF End, Becomes, RunSound, Starting, Recording, Holding
  <2>2. LockAgrees'
    BY <1>1, <2>1, IdleRun, LockKept DEF Core, Holding, Starting, Recording
  <2>3. KeysSound'
    BY <1>1, <1>3, <2>1, IdleRun, KeysKept DEF Core, Starting, Recording
  <2>4. exec[e].key \in Key
    BY <1>1, <1>3 DEF RunSound
  <2> QED
    BY <1>1, <1>3, <2>1, <2>2, <2>3, <2>4, IdleRun, QuietStep
       DEF Core, SharedTypeOK, Copying, Holding
<1> QED
  BY <1>2, <1>3 DEF StartRefused, StartFails, WaitLockTimesOut, HasKey

LEMMA CreateJobStep ==
    ASSUME Core, NEW e \in Execution, CreateJob(e)
    PROVE  Core'
<1>1. PICK j \in NewJob, s \in NewSession :
        /\ sessions' = Opened(s, j) /\ jobs' = [jobs EXCEPT ![j] = Queued(s)]
        /\ keyOf' = [keyOf EXCEPT ![j] = exec[e].key]
        /\ exec' = [exec EXCEPT ![e].pc = "resave", ![e].job = j, ![e].copy = Queued(s)]
  BY DEF CreateJob, Queued
<1>2. j \in Job /\ keyOf[j] = None /\ s \in Session /\ sessions[s].state = "unused"
  BY FreeJob, FreeSession
<1> DEFINE k == exec[e].key
           y == Created(exec[e], j, Queued(s))
<1>3. /\ exec[e].pc = "create" /\ k \in Key \cup {NoKey} /\ exec[e] \in Run
      /\ RunSound(keyOf, exec[e])
      /\ UNCHANGED <<idem, lock, lost>>
  BY DEF CreateJob, At, Core, RunsAgree, RunSound, Starting
<1>4. /\ Becomes(e, y) /\ y.pc = "resave" /\ y.key = k /\ y.job = j /\ y.copy = Queued(s)
      /\ y.todo = exec[e].todo
  <2>1. /\ y \in Run /\ y.pc = "resave" /\ y.key = k /\ y.job = j /\ y.copy = Queued(s)
        /\ y.todo = exec[e].todo
    BY <1>2, <1>3, StartedRun, JobRecords
  <2>2. exec' = [exec EXCEPT ![e] = y]
    BY <1>1 DEF Created, Core
  <2> QED
    BY <2>1, <2>2 DEF Becomes
<1> HIDE DEF y
<1>5. keyOf'[j] = k /\ \A i \in Job : i # j => keyOf'[i] = keyOf[i]
  BY <1>1, <1>2 DEF Core, SharedTypeOK
<1>6. KeyGiven(j)
  BY <1>3, <1>5, UploadAssumption DEF KeyGiven
<1>7. SharedTypeOK'
  <2>1. jobs' \in [Job -> JobRecord]
    BY <1>1, <1>2, JobRecords DEF Core, SharedTypeOK
  <2>2. sessions' \in [Session -> SessionRecord]
    BY <1>1, <1>2, Numbers DEF Core, SharedTypeOK, Opened, SessionRecord
  <2>3. keyOf' \in [Job -> {None, NoKey} \cup Key]
    BY <1>1, <1>3 DEF Core, SharedTypeOK
  <2> QED
    BY <1>3, <2>1, <2>2, <2>3 DEF Core, SharedTypeOK
<1>8. LockAgrees'
  BY <1>3, <1>4, LockKept DEF Core, Holding
<1>9. KeysSound'
  <2>1. CASE k \in Key
    BY <1>1, <1>2, <1>3, <1>4, <2>1, CreateKeys DEF Core
  <2>2. CASE k \notin Key
    BY <1>1, <1>2, <1>3, <1>4, <2>2, CreateWithoutKey DEF Core
  <2> QED
    BY <2>1, <2>2
<1>10. exec' \in [Execution -> Run] /\ RunsAgree'
  <2>1. exec' \in [Execution -> Run] /\ exec'[e] = y
        /\ \A d \in Execution : d # e => exec'[d] = exec[d]
    BY <1>4, Others DEF Core
  <2>2. ASSUME NEW d \in Execution, d # e
        PROVE  RunSound(keyOf', exec'[d])
    <3>1. RunSound(keyOf, exec[d]) /\ exec[d] \in Run
      BY DEF Core, RunsAgree
    <3>2. exec[d].job \in 0..MaxJobs /\ exec[d].todo \subseteq Job
      BY <3>1 DEF Run
    <3>3. exec[d].pc \in Recording /\ exec[d].job # 0 =>
            exec[d].job \in Job /\ keyOf'[exec[d].job] = exec[d].key
      BY <1>2, <1>5, <3>1, <3>2, Numbers, UploadAssumption DEF RunSound, Starting
    <3>4. exec[d].pc \in Holding => exec[d].job \in Job /\ keyOf'[exec[d].job] # None
      BY <1>2, <1>5, <3>1 DEF RunSound
    <3>5. \A i \in exec[d].todo : keyOf'[i] # None
      BY <1>2, <1>5, <3>1, <3>2 DEF RunSound
    <3> QED
      BY <2>1, <2>2, <3>1, <3>3, <3>4, <3>5 DEF RunSound
  <2>3. RunSound(keyOf', y)
    <3>1. \A i \in y.todo : keyOf'[i] # None
      BY <1>2, <1>3, <1>4, <1>5 DEF RunSound, Run
    <3> QED
      BY <1>2, <1>3, <1>4, <1>5, <3>1 DEF RunSound, Holding
  <2> QED
    BY <2>1, <2>2, <2>3 DEF RunsAgree
<1>11. DataSound'
  <2>1. Real(sessions, Queued(s), j) /\ Queued(s) \in JobRecord /\ Queued(s).session = s
        /\ Queued(s).offset = 0 /\ Queued(s).status # "absent"
    BY <1>2, JobRecords DEF Real
  <2>2. NoLiveSession(j)
    BY <1>2 DEF Core, DataSound, SessionsAgree, SessionSound, NoLiveSession
  <2>3. NobodyElse(e, j)
    <3>1. ASSUME NEW d \in Execution, exec[d].pc \in Copying
          PROVE  keyOf[exec[d].job] # None
      BY <3>1, Numbers, UploadAssumption
         DEF Core, RunsAgree, RunSound, Copying, Recording, Starting
    <3> QED
      BY <1>2, <3>1 DEF NobodyElse
  <2>4. SharedTypeOK /\ exec \in [Execution -> Run] /\ RunsAgree /\ DataSound
    BY DEF Core
  <2>5. y.pc \notin {"finalize", "complete", "announce"}
    BY <1>4
  <2> QED
    BY <1>1, <1>2, <1>4, <1>6, <1>7, <2>1, <2>2, <2>3, <2>4, <2>5, OpenKeeps
<1> QED
  BY <1>7, <1>8, <1>9, <1>10, <1>11 DEF Core

LEMMA SaveAgainStep ==
    ASSUME Core, NEW e \in Execution, SaveAgain(e)
    PROVE  Core'
<1> DEFINE j == exec[e].job
           y == GoneTo(exec[e], "commit")
<1>1. /\ exec[e].pc = "resave" /\ exec[e] \in Run /\ j \in Job
      /\ RunSound(keyOf, exec[e]) /\ exec[e].copy \in JobRecord
      /\ jobs' = [jobs EXCEPT ![j] = exec[e].copy]
      /\ UNCHANGED <<idem, lock, sessions, keyOf, lost>>
  BY DEF SaveAgain, At, Core, RunsAgree, RunSound, Starting, Recording, Run
<1>2. keyOf[j] # None
  BY <1>1, Numbers, UploadAssumption DEF RunSound, Starting, Recording
<1>3. /\ Becomes(e, y) /\ y.pc = "commit" /\ y.key = exec[e].key /\ y.job = j
      /\ y.todo = exec[e].todo
  BY <1>1, GoneRun DEF SaveAgain, GoTo, GoneTo, Becomes, Pc
<1> HIDE DEF y
<1>4. RunSound(keyOf, y)
  BY <1>1, <1>3 DEF RunSound, Starting, Recording, Holding
<1>5. LockAgrees'
  BY <1>1, <1>3, LockKept DEF Core, Holding
<1>6. KeysSound'
  BY <1>1, <1>3, KeysKept DEF Core, Starting, Recording
<1>7. RunsAgree' /\ exec' \in [Execution -> Run]
  BY <1>1, <1>3, <1>4, RunsKept, Others DEF Core
<1>8. SharedTypeOK'
  BY <1>1 DEF Core, SharedTypeOK
<1>9. DataSound'
  <2>1. CopySound(sessions, jobs, exec[e])
    BY DEF Core, DataSound, CopiesAgree
  <2>2. /\ Real(sessions', exec[e].copy, j) /\ Behind(sessions', exec[e].copy)
        /\ exec[e].copy.session = jobs[j].session /\ exec[e].copy.status # "absent"
    BY <1>1, <2>1 DEF CopySound, Copying
  <2>3. Grows(sessions, sessions') /\ \A d \in Execution : exec[d].pc = "resave" =>
          sessions'[exec[d].copy.session].state # "expired"
    BY <1>1, SameSessions
  <2>4. JobsAgree' /\ \A i \in Job : jobs'[i].session = jobs[i].session
    BY <1>1, <1>2, <1>8, <2>2, <2>3, JobsSaved DEF Core, DataSound
  <2>5. CopySound(sessions', jobs', y)
    BY <1>3, NoCopy DEF Copying, Holding
  <2> QED
    BY <1>1, <1>3, <1>8, <2>3, <2>4, <2>5, GrowKeeps DEF Core
<1> QED
  BY <1>5, <1>6, <1>7, <1>8, <1>9 DEF Core

LEMMA AgesStep ==
    ASSUME Core, NEW k \in Key, ReservationAges(k)
    PROVE  Core'
<1>1. UNCHANGED <<jobs, lock, exec, sessions, keyOf, lost>>
  BY DEF ReservationAges
<1>2. KeysSound'
  BY AgeKeys DEF Core
<1>3. SharedTypeOK'
  BY <1>1 DEF ReservationAges, Core, SharedTypeOK, IdemRecord
<1>4. LockAgrees' /\ RunsAgree' /\ DataSound' /\ exec' \in [Execution -> Run]
  BY <1>1 DEF Core, LockAgrees, RunsAgree, DataSound, JobsAgree, SessionsAgree, CopiesAgree
<1> QED
  BY <1>2, <1>3, <1>4 DEF Core

-----------------------------------------------------------------------------
(* The steps of processUploadJob_.                                         *)

LEMMA ProcessBegins ==
    ASSUME Core, NEW e \in Execution, ProcessOne(e) \/ Trigger(e)
    PROVE  Core'
<1>1. PICK S \in SUBSET Job : Process(e, S) /\ \A j \in S : keyOf[j] # None
  <2>1. ASSUME NEW j \in Job, jobs[j].status # "absent"
        PROVE  keyOf[j] # None
    BY <2>1 DEF Core, DataSound, JobsAgree, JobSound
  <2>2. CASE ProcessOne(e)
    BY <2>1, <2>2 DEF ProcessOne
  <2>3. CASE Trigger(e)
    <3>1. Newest(Pending) \subseteq Pending
      BY DEF Newest
    <3>2. \A j \in Newest(Pending) : j \in Job /\ keyOf[j] # None
      BY <2>1, <3>1 DEF Pending
    <3>3. Newest(Pending) \in SUBSET Job /\ Process(e, Newest(Pending))
      BY <2>3, <3>2 DEF Trigger
    <3> QED
      BY <3>2, <3>3
  <2> QED
    BY <2>2, <2>3
<1> DEFINE y == Batch(exec[e], S)
<1>2. exec[e].pc = "idle" /\ exec[e] \in Run
  BY <1>1 DEF Process, At, Core
<1>3. Becomes(e, y) /\ y.pc = "next" /\ y.todo = S
  <2>1. exec' = [exec EXCEPT ![e] = y]
    BY <1>1 DEF Process, Batch
  <2> QED
    BY <1>2, <2>1, BatchRun DEF Becomes
<1> HIDE DEF y
<1>4. RunSound(keyOf, y)
  BY <1>1, <1>3 DEF RunSound, Starting, Recording, Holding
<1> QED
  BY <1>1, <1>2, <1>3, <1>4, IdleStep DEF Process, Copying, Starting, Recording, Holding

LEMMA ProcessEndsStep ==
    ASSUME Core, NEW e \in Execution, ProcessEnds(e)
    PROVE  Core'
<1>1. Becomes(e, Idle) /\ RunSound(keyOf, Idle)
  BY IdleRun DEF ProcessEnds, End, Becomes, RunSound, Starting, Recording, Holding
<1> QED
  BY <1>1, IdleRun, IdleStep DEF ProcessEnds, At, Copying, Starting, Recording, Holding

\* Whoever finds the lock free and the job unfinished takes both.
LEMMA LoadJobStep ==
    ASSUME Core, NEW e \in Execution, LoadJob(e)
    PROVE  Core'
<1>1. PICK j \in NewestOf(exec[e].todo) :
        \/ /\ exec' = [exec EXCEPT ![e].todo = @ \ {j}]
           /\ UNCHANGED <<lock, jobs>>
        \/ /\ lock = None /\ lock' = e /\ jobs[j].status # "complete"
           /\ jobs' = [jobs EXCEPT ![j] = Marked(jobs[j], "uploading")]
           /\ exec' = [exec EXCEPT ![e].pc = "sync", ![e].job = j,
                                   ![e].copy = Marked(jobs[j], "uploading"),
                                   ![e].todo = @ \ {j}]
  BY DEF LoadJob, Marked
<1>2. /\ exec[e].pc = "next" /\ exec[e] \in Run /\ RunSound(keyOf, exec[e])
      /\ UNCHANGED <<idem, sessions, keyOf, lost>>
  BY DEF LoadJob, At, Core, RunsAgree
<1>3. j \in Job /\ keyOf[j] # None /\ jobs[j] \in JobRecord
      /\ JobSound(sessions, keyOf, jobs[j], j)
  BY <1>2 DEF NewestOf, Run, RunSound, Core, SharedTypeOK, DataSound, JobsAgree
<1>4. CASE exec' = [exec EXCEPT ![e].todo = @ \ {j}] /\ UNCHANGED <<lock, jobs>>
  <2> DEFINE y == Skipped(exec[e], j)
  <2>1. Becomes(e, y) /\ y.pc = "next" /\ y.todo = exec[e].todo \ {j}
    <3>1. exec' = [exec EXCEPT ![e] = y]
      BY <1>4 DEF Skipped
    <3> QED
      BY <1>2, <1>3, <3>1, SkippedRun DEF Becomes
  <2> HIDE DEF y
  <2>2. RunSound(keyOf, y)
    BY <1>2, <2>1 DEF RunSound, Starting, Recording, Holding
  <2> QED
    BY <1>2, <1>4, <2>1, <2>2, IdleStep DEF Copying, Starting, Recording, Holding
<1>5. CASE /\ lock = None /\ lock' = e /\ jobs[j].status # "complete"
           /\ jobs' = [jobs EXCEPT ![j] = Marked(jobs[j], "uploading")]
           /\ exec' = [exec EXCEPT ![e].pc = "sync", ![e].job = j,
                                   ![e].copy = Marked(jobs[j], "uploading"),
                                   ![e].todo = @ \ {j}]
  <2> DEFINE rec == Marked(jobs[j], "uploading")
             y == Loaded(exec[e], j, rec)
  <2>1. /\ rec \in JobRecord /\ rec.status = "uploading" /\ rec.offset = jobs[j].offset
        /\ rec.session = jobs[j].session /\ rec.video = jobs[j].video
    BY <1>3, ChangedJob, Numbers DEF Status
  <2>2. jobs' = [jobs EXCEPT ![j] = rec]
    BY <1>5
  <2>3. /\ Becomes(e, y) /\ y.pc = "sync" /\ y.job = j /\ y.copy = rec
        /\ y.todo = exec[e].todo \ {j}
    <3>1. exec' = [exec EXCEPT ![e] = y]
      BY <1>5 DEF Loaded, Core
    <3> HIDE DEF rec
    <3> QED
      BY <1>2, <1>3, <2>1, <3>1, LoadedRun DEF Becomes
  <2> HIDE DEF rec, y
  <2>4. RunSound(keyOf, y)
    BY <1>2, <1>3, <2>3 DEF RunSound, Starting, Recording
  <2>5. LockAgrees'
    BY <1>5, <2>3, LockTaken DEF Core, Holding
  <2>6. KeysSound'
    BY <1>2, <2>3, KeysKept DEF Core, Starting, Recording
  <2>7. RunsAgree' /\ exec' \in [Execution -> Run]
    BY <1>2, <2>3, <2>4, RunsKept, Others DEF Core
  <2>8. SharedTypeOK'
    BY <1>2, <1>3, <1>5, <2>1, <2>2 DEF Core, SharedTypeOK
  <2>9. Real(sessions', rec, j) /\ Behind(sessions', rec)
    BY <1>2, <1>3, <2>1 DEF JobSound, Real, Behind
  <2>10. Grows(sessions, sessions') /\ \A d \in Execution : exec[d].pc = "resave" =>
           sessions'[exec[d].copy.session].state # "expired"
    BY <1>2, SameSessions
  <2>11. JobsAgree' /\ \A i \in Job : jobs'[i].session = jobs[i].session
    BY <1>2, <1>3, <2>1, <2>2, <2>8, <2>9, <2>10, JobsSaved DEF Core, DataSound
  <2>12. CopySound(sessions', jobs', y)
    BY <1>3, <2>1, <2>3, <2>9, <2>11 DEF CopySound
  <2>13. DataSound'
    BY <1>2, <2>3, <2>8, <2>10, <2>11, <2>12, GrowKeeps DEF Core
  <2> QED
    BY <2>5, <2>6, <2>7, <2>8, <2>13 DEF Core
<1> QED
  BY <1>1, <1>4, <1>5

\* The steps inside the lock leave e with one of these.
LEMMA GoesTo ==
    ASSUME Core, NEW e \in Execution, exec[e].pc \in Holding, NEW pc \in Holding,
           GoTo(e, pc), UNCHANGED <<idem, lock, keyOf, lost>>
    PROVE  LET y == GoneTo(exec[e], pc) IN
           GoesOn(e, y) /\ y.pc = pc /\ y.job = exec[e].job /\ y.copy = exec[e].copy
<1>1. pc \in Pc /\ exec[e] \in Run
  BY DEF Holding, Pc, Core
<1>2. exec' = [exec EXCEPT ![e] = GoneTo(exec[e], pc)]
  BY DEF GoTo, GoneTo
<1> QED
  BY <1>1, <1>2, GoneRun DEF GoesOn, Becomes

LEMMA GoesWith ==
    ASSUME Core, NEW e \in Execution, exec[e].pc \in Holding, NEW rec \in JobRecord,
           NEW pc \in Holding, NEW n \in 0..MaxChunks, SaveCopy(e, rec, pc, n),
           UNCHANGED <<idem, lock, keyOf, lost>>
    PROVE  LET y == Saved(exec[e], rec, pc, n) IN
           /\ GoesOn(e, y) /\ y.pc = pc /\ y.job = exec[e].job /\ y.copy = rec
           /\ jobs' = [jobs EXCEPT ![exec[e].job] = rec]
<1>1. pc \in Pc /\ exec[e] \in Run
  BY DEF Holding, Pc, Core
<1>2. exec' = [exec EXCEPT ![e] = Saved(exec[e], rec, pc, n)]
  BY DEF SaveCopy, Saved
<1>3. jobs' = [jobs EXCEPT ![exec[e].job] = rec]
  BY DEF SaveCopy
<1> QED
  BY <1>1, <1>2, <1>3, SavedRun DEF GoesOn, Becomes

LEMMA Leaves ==
    ASSUME Core, NEW e \in Execution, exec[e].pc \in Holding, NEW rec,
           SaveAndLeave(e, rec), UNCHANGED <<idem, keyOf, lost>>
    PROVE  LET y == Left(exec[e]) IN
           /\ GoesOn(e, y) /\ y.pc = "next" /\ jobs' = [jobs EXCEPT ![exec[e].job] = rec]
<1>1. exec[e] \in Run
  BY DEF Core
<1>2. exec' = [exec EXCEPT ![e] = Left(exec[e])]
  BY DEF SaveAndLeave, LeaveJob, Left
<1>3. Left(exec[e]) \in Run /\ Left(exec[e]).pc = "next" /\ Left(exec[e]).todo = exec[e].todo
  BY <1>1, BatchRun
<1> QED
  BY <1>2, <1>3 DEF GoesOn, Becomes, SaveAndLeave

\* A chunk makes its session grow, at most to the whole video.
LEMMA TakenGrows ==
    ASSUME Core, NEW e \in Execution, exec[e].pc \in Holding, exec[e].copy.offset < TotalBytes,
           sessions[exec[e].copy.session].state \in {"open", "done"}, sessions' = Taken(e)
    PROVE  LET s == sessions'[exec[e].copy.session] IN
           /\ sessions' \in [Session -> SessionRecord] /\ Grows(sessions, sessions')
           /\ NoneExpires /\ s \in SessionRecord /\ s.state \in {"open", "done"}
           /\ s.job = exec[e].job /\ (s.state = "done" => s.received = TotalBytes)
<1> DEFINE c == exec[e].copy.session
           upTo == IF sessions[c].received < exec[e].copy.offset + 1
                   THEN exec[e].copy.offset + 1 ELSE sessions[c].received
           new == [sessions[c] EXCEPT !.received = upTo,
                                      !.state = IF upTo = TotalBytes THEN "done" ELSE "open"]
<1>1. /\ c \in Session /\ exec[e].copy.offset \in 0..TotalBytes
      /\ sessions[c] \in SessionRecord /\ sessions[c].job = exec[e].job
  BY Holder
<1>2. sessions[c].received \in 0..TotalBytes /\ TotalBytes \in Nat
  BY <1>1, UploadAssumption DEF SessionRecord
<1>3. upTo \in 0..TotalBytes /\ sessions[c].received <= upTo
  BY <1>1, <1>2
<1>4. sessions[c].state = "done" => sessions[c].received = TotalBytes
  BY <1>1 DEF Core, DataSound, SessionsAgree, SessionSound
<1>5. sessions[c].state = "done" => upTo = TotalBytes
  BY <1>2, <1>3, <1>4
<1>6. sessions' = [sessions EXCEPT ![c] = new]
  BY DEF Taken
<1> HIDE DEF upTo
<1>7. /\ new \in SessionRecord /\ new.job = sessions[c].job /\ new.received = upTo
      /\ new.state = (IF upTo = TotalBytes THEN "done" ELSE "open")
  BY <1>1, <1>3 DEF SessionRecord
<1> HIDE DEF new
<1>8. /\ sessions'[c] = new /\ sessions' \in [Session -> SessionRecord]
      /\ \A s \in Session : s # c => sessions'[s] = sessions[s]
  BY <1>1, <1>6, <1>7 DEF Core, SharedTypeOK
<1>9. Grown(sessions[c], new)
  BY <1>3, <1>5, <1>7 DEF Grown
<1>10. Grows(sessions, sessions')
  <2>1. Grows(sessions, sessions)
    BY Stays DEF Core, DataSound
  <2> QED
    BY <1>8, <1>9, <2>1 DEF Grows
<1>11. NoneExpires
  BY <1>7, <1>8 DEF NoneExpires
<1> QED
  BY <1>1, <1>7, <1>8, <1>10, <1>11

\* The record of a job whose session has made the video.
LEMMA MadeReal ==
    ASSUME Core, NEW e \in Execution, exec[e].pc \in Holding,
           NEW tt, tt[exec[e].copy.session].state = "done",
           tt[exec[e].copy.session].job = exec[e].job,
           tt[exec[e].copy.session].received = TotalBytes
    PROVE  LET rec == Made(exec[e].copy) IN
           /\ rec \in JobRecord /\ rec.status # "absent" /\ rec.session = exec[e].copy.session
           /\ Real(tt, rec, exec[e].job) /\ Behind(tt, rec) /\ rec.video # 0
<1> DEFINE rec == Made(exec[e].copy)
<1>1. exec[e].copy \in JobRecord /\ exec[e].copy.session \in Session
  BY Holder
<1>2. /\ rec \in JobRecord /\ rec.status = "finalizing" /\ rec.offset = TotalBytes
      /\ rec.session = exec[e].copy.session /\ rec.video = exec[e].copy.session
  BY <1>1, ChangedJob, Numbers DEF Status
<1> HIDE DEF rec
<1>3. rec.video # 0
  BY <1>1, <1>2, Numbers
<1>4. Behind(tt, rec)
  BY <1>2, UploadAssumption DEF Behind
<1>5. Real(tt, rec, exec[e].job)
  BY <1>2, <1>3 DEF Real
<1> QED
  BY <1>2, <1>3, <1>4, <1>5 DEF rec

\* The record of a job moved to where its session stands.
LEMMA MovedReal ==
    ASSUME Core, NEW e \in Execution, exec[e].pc \in Holding,
           sessions' \in [Session -> SessionRecord], Grows(sessions, sessions'), NEW st \in Status,
           st \notin {"finalizing", "complete"}
    PROVE  LET n    == sessions'[exec[e].copy.session].received
               rec  == Moved(exec[e].copy, n)
               left == MovedAs(exec[e].copy, n, st) IN
           /\ n \in 0..TotalBytes
           /\ rec \in JobRecord /\ rec.status # "absent" /\ rec.session = exec[e].copy.session
           /\ Real(sessions', rec, exec[e].job) /\ Behind(sessions', rec)
           /\ left \in JobRecord /\ left.status # "absent" /\ left.session = exec[e].copy.session
           /\ Real(sessions', left, exec[e].job) /\ Behind(sessions', left)
<1> DEFINE c == exec[e].copy
           n == sessions'[c.session].received
           rec == Moved(c, n)
           left == MovedAs(c, n, st)
<1>1. /\ c \in JobRecord /\ c.session \in Session /\ c.status # "absent"
      /\ Real(sessions, c, exec[e].job)
  BY Holder
<1>2. n \in 0..TotalBytes /\ n <= n
  BY <1>1, UploadAssumption DEF SessionRecord
<1>3. Real(sessions', c, exec[e].job)
  BY <1>1, RecordGrows DEF Core, SharedTypeOK
<1>4. /\ rec \in JobRecord /\ rec.status = c.status /\ rec.offset = n
      /\ rec.session = c.session /\ rec.video = c.video
      /\ left \in JobRecord /\ left.status = st /\ left.offset = n
      /\ left.session = c.session /\ left.video = c.video
  <2> HIDE DEF c, n
  <2>1. c \in JobRecord /\ n \in 0..TotalBytes
    BY <1>1, <1>2
  <2> QED
    BY <2>1, ChangedJob
<1> HIDE DEF rec, left
<1>5. Real(sessions', rec, exec[e].job) /\ Real(sessions', left, exec[e].job)
  BY <1>3, <1>4 DEF Real
<1>6. Behind(sessions', rec) /\ Behind(sessions', left)
  BY <1>2, <1>4 DEF Behind
<1> QED
  BY <1>1, <1>2, <1>4, <1>5, <1>6 DEF rec, left, Status

\* The record of a job put back in the queue, or marked as failed, as it is.
LEMMA MarkedReal ==
    ASSUME NEW job \in JobRecord, NEW st \in {"queued", "error"}, NEW j,
           Real(sessions, job, j), Behind(sessions, job)
    PROVE  LET rec == Marked(job, st) IN
           /\ rec \in JobRecord /\ rec.status # "absent" /\ rec.session = job.session
           /\ Real(sessions, rec, j) /\ Behind(sessions, rec)
<1> DEFINE rec == Marked(job, st)
<1>1. /\ rec \in JobRecord /\ rec.status = st /\ rec.offset = job.offset
      /\ rec.session = job.session /\ rec.video = job.video
  BY ChangedJob, Numbers DEF Status
<1> HIDE DEF rec
<1>2. Real(sessions, rec, j) /\ Behind(sessions, rec)
  BY <1>1 DEF Real, Behind
<1> QED
  BY <1>1, <1>2 DEF rec

LEMMA RenewedReal ==
    ASSUME Core, NEW e \in Execution, exec[e].pc \in Holding, NEW s \in NewSession
    PROVE  LET rec  == Renewed(exec[e].copy, s)
               left == RenewedAs(exec[e].copy, s, "queued") IN
           /\ rec \in JobRecord /\ rec.status \in {exec[e].copy.status, "queued"}
           /\ rec.session = s /\ rec.offset = 0 /\ rec.video = exec[e].copy.video
           /\ left \in JobRecord /\ left.status \in {exec[e].copy.status, "queued"}
           /\ left.session = s /\ left.offset = 0 /\ left.video = exec[e].copy.video
<1>1. exec[e].copy \in JobRecord /\ s \in Session
  BY Holder, FreeSession
<1> DEFINE c == exec[e].copy
           rec == Renewed(c, s)
           left == RenewedAs(c, s, "queued")
<1>2. c \in JobRecord /\ "queued" \in Status
  BY <1>1 DEF Status
<1> HIDE DEF c
<1>3. /\ rec \in JobRecord /\ rec.status = c.status /\ rec.offset = 0
      /\ rec.session = s /\ rec.video = c.video
  BY <1>1, <1>2, RenewedJob
<1>4. /\ left \in JobRecord /\ left.status = "queued" /\ left.offset = 0
      /\ left.session = s /\ left.video = c.video
  BY <1>1, <1>2, RenewedJob
<1> HIDE DEF rec, left
<1> QED
  BY <1>3, <1>4 DEF rec, left, c

\* What the session answers, before the first chunk or after a server error.
LEMMA SyncDone ==
    ASSUME Core, NEW e \in Execution, SyncAnswered(e),
           sessions[exec[e].copy.session].state = "done",
           SaveCopy(e, Made(exec[e].copy), "finalize", exec[e].processed),
           UNCHANGED <<sessions, lock>>
    PROVE  Core'
<1> DEFINE rec == Made(exec[e].copy)
           y == Saved(exec[e], rec, "finalize", exec[e].processed)
<1>1. exec[e].pc \in Holding /\ exec[e] \in Run /\ UNCHANGED <<idem, lock, keyOf, lost>>
  BY DEF SyncAnswered, Holding, Core
<1>2. /\ sessions[exec[e].copy.session].job = exec[e].job
      /\ sessions[exec[e].copy.session].received = TotalBytes
  BY <1>1, Holder DEF Core, DataSound, SessionsAgree, SessionSound
<1>3. /\ rec \in JobRecord /\ rec.status # "absent" /\ rec.session = exec[e].copy.session
      /\ Real(sessions', rec, exec[e].job) /\ Behind(sessions', rec) /\ rec.video # 0
  BY <1>1, <1>2, MadeReal
<1>4. exec[e].processed \in 0..MaxChunks
  BY <1>1 DEF Run
<1> HIDE DEF rec
<1>5. SaveCopy(e, rec, "finalize", exec[e].processed)
  BY DEF rec
<1>6. /\ GoesOn(e, y) /\ y.pc = "finalize" /\ y.copy = rec
      /\ jobs' = [jobs EXCEPT ![exec[e].job] = rec]
  BY <1>1, <1>3, <1>4, <1>5, GoesWith DEF Holding
<1> HIDE DEF y
<1>7. /\ Grows(sessions, sessions') /\ NoneExpires
      /\ sessions' \in [Session -> SessionRecord]
  BY SameSessions
<1> QED
  BY <1>3, <1>6, <1>7, SaveStep

LEMMA SyncOpen ==
    ASSUME Core, NEW e \in Execution, SyncAnswered(e),
           sessions[exec[e].copy.session].state = "open", UNCHANGED sessions,
           LET n == sessions[exec[e].copy.session].received IN
           \/ SaveCopy(e, Moved(exec[e].copy, n), "put", 0) /\ UNCHANGED lock
           \/ SaveAndLeave(e, MovedAs(exec[e].copy, n, "queued"))
    PROVE  Core'
<1> DEFINE n == sessions'[exec[e].copy.session].received
           rec == Moved(exec[e].copy, n)
           left == MovedAs(exec[e].copy, n, "queued")
<1>1. exec[e].pc \in Holding /\ UNCHANGED <<idem, keyOf, lost>>
  BY DEF SyncAnswered, Holding
<1>2. /\ Grows(sessions, sessions') /\ NoneExpires
      /\ sessions' \in [Session -> SessionRecord]
  BY SameSessions
<1>3. /\ rec \in JobRecord /\ rec.status # "absent" /\ rec.session = exec[e].copy.session
      /\ Real(sessions', rec, exec[e].job) /\ Behind(sessions', rec)
      /\ left \in JobRecord /\ left.status # "absent" /\ left.session = exec[e].copy.session
      /\ Real(sessions', left, exec[e].job) /\ Behind(sessions', left)
  BY <1>1, <1>2, MovedReal DEF Status
<1>4. \/ SaveCopy(e, rec, "put", 0) /\ UNCHANGED lock
      \/ SaveAndLeave(e, left)
  OBVIOUS
<1> HIDE DEF rec, left
<1>5. CASE SaveCopy(e, rec, "put", 0) /\ UNCHANGED lock
  <2> DEFINE y == Saved(exec[e], rec, "put", 0)
  <2>1. /\ GoesOn(e, y) /\ y.pc = "put" /\ y.copy = rec
        /\ jobs' = [jobs EXCEPT ![exec[e].job] = rec]
    BY <1>1, <1>3, <1>5, GoesWith, Numbers DEF Holding
  <2> HIDE DEF y
  <2> QED
    BY <1>2, <1>3, <2>1, SaveStep
<1>6. CASE SaveAndLeave(e, left)
  <2> DEFINE y == Left(exec[e])
  <2>1. /\ GoesOn(e, y) /\ y.pc = "next" /\ jobs' = [jobs EXCEPT ![exec[e].job] = left]
    BY <1>1, <1>6, Leaves
  <2> HIDE DEF y
  <2> QED
    BY <1>2, <1>3, <2>1, SaveStep DEF Holding
<1> QED
  BY <1>4, <1>5, <1>6

LEMMA RestartStep ==
    ASSUME Core, NEW e \in Execution, exec[e].pc \in Holding,
           sessions[exec[e].copy.session].state = "expired",
           NEW s \in NewSession, sessions' = Opened(s, exec[e].job),
           \/ /\ SaveCopy(e, Renewed(exec[e].copy, s), "put", AfterChunk(e)) /\ UNCHANGED lock
              /\ AfterChunk(e) \in 0..MaxChunks
           \/ SaveAndLeave(e, RenewedAs(exec[e].copy, s, "queued")),
           UNCHANGED <<idem, keyOf, lost>>
    PROVE  Core'
<1> DEFINE rec == Renewed(exec[e].copy, s)
           left == RenewedAs(exec[e].copy, s, "queued")
<1>1. /\ rec \in JobRecord /\ rec.status \in {exec[e].copy.status, "queued"}
      /\ rec.session = s /\ rec.offset = 0 /\ rec.video = exec[e].copy.video
      /\ left \in JobRecord /\ left.status \in {exec[e].copy.status, "queued"}
      /\ left.session = s /\ left.offset = 0 /\ left.video = exec[e].copy.video
  BY RenewedReal
<1>2. \/ /\ SaveCopy(e, rec, "put", AfterChunk(e)) /\ UNCHANGED lock
         /\ AfterChunk(e) \in 0..MaxChunks
      \/ SaveAndLeave(e, left)
  OBVIOUS
<1> HIDE DEF rec, left
<1>3. CASE /\ SaveCopy(e, rec, "put", AfterChunk(e)) /\ UNCHANGED lock
           /\ AfterChunk(e) \in 0..MaxChunks
  <2> DEFINE y == Saved(exec[e], rec, "put", AfterChunk(e))
  <2>1. /\ GoesOn(e, y) /\ y.pc = "put" /\ y.copy = rec
        /\ jobs' = [jobs EXCEPT ![exec[e].job] = rec]
    BY <1>1, <1>3, GoesWith DEF Holding
  <2> HIDE DEF y
  <2> QED
    BY <1>1, <2>1, RenewStep
<1>4. CASE SaveAndLeave(e, left)
  <2> DEFINE y == Left(exec[e])
  <2>1. /\ GoesOn(e, y) /\ y.pc = "next" /\ jobs' = [jobs EXCEPT ![exec[e].job] = left]
    BY <1>4, Leaves
  <2> HIDE DEF y
  <2> QED
    BY <1>1, <2>1, RenewStep DEF Holding
<1> QED
  BY <1>2, <1>3, <1>4

LEMMA SyncAnsweredStep ==
    ASSUME Core, NEW e \in Execution, SyncAnswered(e)
    PROVE  Core'
<1> DEFINE job == exec[e].copy
           s == sessions[job.session]
<1>1. /\ exec[e].pc \in Holding /\ exec[e].pc \in {"sync", "resync"} /\ exec[e] \in Run
      /\ UNCHANGED <<idem, keyOf, lost>>
  BY DEF SyncAnswered, Holding, Core
<1>2. AfterChunk(e) \in 0..MaxChunks
  BY <1>1 DEF AfterChunk, At, Run
<1>3. CASE /\ s.state = "done" /\ UNCHANGED <<sessions, lock>>
           /\ SaveCopy(e, Made(job), "finalize", exec[e].processed)
  BY <1>3, SyncDone
<1>4. CASE /\ s.state = "open" /\ UNCHANGED sessions
           /\ \/ SaveCopy(e, Moved(job, s.received), "put", 0) /\ UNCHANGED lock
              \/ SaveAndLeave(e, MovedAs(job, s.received, "queued"))
  BY <1>4, SyncOpen
<1>5. CASE /\ s.state = "expired"
           /\ \E n \in NewSession :
                /\ sessions' = Opened(n, exec[e].job)
                /\ \/ SaveCopy(e, Renewed(job, n), "put", AfterChunk(e)) /\ UNCHANGED lock
                   \/ SaveAndLeave(e, RenewedAs(job, n, "queued"))
  BY <1>1, <1>2, <1>5, RestartStep
<1> QED
  BY <1>3, <1>4, <1>5
     DEF SyncAnswered, Restart, Made, Moved, MovedAs, Renewed, RenewedAs

LEMMA SyncUnavailableStep ==
    ASSUME Core, NEW e \in Execution, SyncUnavailable(e)
    PROVE  Core'
<1>1. /\ exec[e].pc \in Holding /\ UNCHANGED <<idem, sessions, keyOf, lost>>
  BY DEF SyncUnavailable, Holding
<1>2. /\ Grows(sessions, sessions') /\ NoneExpires
      /\ sessions' \in [Session -> SessionRecord]
  BY <1>1, SameSessions
<1>3. CASE GoTo(e, "put") /\ UNCHANGED <<jobs, lock>>
  <2> DEFINE y == GoneTo(exec[e], "put")
  <2>1. GoesOn(e, y) /\ y.pc = "put" /\ y.job = exec[e].job /\ y.copy = exec[e].copy
    BY <1>1, <1>3, GoesTo DEF Holding
  <2> HIDE DEF y
  <2> QED
    BY <1>2, <1>3, <2>1, GoStep DEF Holding
<1>4. CASE SaveAndLeave(e, Marked(exec[e].copy, "queued"))
  <2> DEFINE rec == Marked(exec[e].copy, "queued")
             y == Left(exec[e])
  <2>1. /\ rec \in JobRecord /\ rec.status # "absent" /\ rec.session = exec[e].copy.session
        /\ Real(sessions', rec, exec[e].job) /\ Behind(sessions', rec)
    BY <1>1, Holder, MarkedReal
  <2>2. SaveAndLeave(e, rec)
    BY <1>4
  <2> HIDE DEF rec
  <2>3. /\ GoesOn(e, y) /\ y.pc = "next" /\ jobs' = [jobs EXCEPT ![exec[e].job] = rec]
    BY <1>1, <2>2, Leaves
  <2> HIDE DEF y
  <2> QED
    BY <1>2, <2>1, <2>3, SaveStep DEF Holding
<1> QED
  BY <1>3, <1>4 DEF SyncUnavailable, Marked

LEMMA PutChunkStep ==
    ASSUME Core, NEW e \in Execution, PutChunk(e)
    PROVE  Core'
<1> DEFINE job == exec[e].copy
           s == sessions'[job.session]
<1>1. /\ exec[e].pc = "put" /\ exec[e].pc \in Holding /\ exec[e] \in Run
      /\ UNCHANGED <<idem, lock, keyOf, lost>>
      /\ job.offset < TotalBytes /\ exec[e].processed < MaxChunks
  BY DEF PutChunk, At, MoreToSend, Holding, Core
<1>2. AfterChunk(e) \in 0..MaxChunks /\ exec[e].processed \in 0..MaxChunks
  BY <1>1, UploadAssumption DEF AfterChunk, At, Run
<1>3. CASE sessions[job.session].state \in {"open", "done"} /\ sessions' = Taken(e)
  <2>1. /\ sessions' \in [Session -> SessionRecord] /\ Grows(sessions, sessions')
        /\ NoneExpires /\ s.state \in {"open", "done"} /\ s.job = exec[e].job
        /\ (s.state = "done" => s.received = TotalBytes)
    BY <1>1, <1>3, TakenGrows
  <2>2. CASE s.state = "done" /\ SaveCopy(e, Made(job), "finalize", exec[e].processed)
    <3> DEFINE rec == Made(job)
               y == Saved(exec[e], rec, "finalize", exec[e].processed)
    <3>1. /\ rec \in JobRecord /\ rec.status # "absent" /\ rec.session = job.session
          /\ Real(sessions', rec, exec[e].job) /\ Behind(sessions', rec) /\ rec.video # 0
      BY <1>1, <2>1, <2>2, MadeReal
    <3>2. SaveCopy(e, rec, "finalize", exec[e].processed)
      BY <2>2
    <3> HIDE DEF rec
    <3>3. /\ GoesOn(e, y) /\ y.pc = "finalize" /\ y.copy = rec
          /\ jobs' = [jobs EXCEPT ![exec[e].job] = rec]
      BY <1>1, <1>2, <3>1, <3>2, GoesWith DEF Holding
    <3> HIDE DEF y
    <3> QED
      BY <2>1, <3>1, <3>3, SaveStep
  <2>3. CASE SaveCopy(e, Moved(job, s.received), "put", AfterChunk(e))
    <3> DEFINE rec == Moved(job, s.received)
               y == Saved(exec[e], rec, "put", AfterChunk(e))
    <3>1. /\ rec \in JobRecord /\ rec.status # "absent" /\ rec.session = job.session
          /\ Real(sessions', rec, exec[e].job) /\ Behind(sessions', rec)
      BY <1>1, <2>1, MovedReal DEF Status
    <3>2. SaveCopy(e, rec, "put", AfterChunk(e))
      BY <2>3
    <3> HIDE DEF rec
    <3>3. /\ GoesOn(e, y) /\ y.pc = "put" /\ y.copy = rec
          /\ jobs' = [jobs EXCEPT ![exec[e].job] = rec]
      BY <1>1, <1>2, <3>1, <3>2, GoesWith DEF Holding
    <3> HIDE DEF y
    <3> QED
      BY <2>1, <3>1, <3>3, SaveStep
  <2> QED
    BY <1>3, <2>2, <2>3 DEF PutChunk, Made, Moved
<1>4. CASE sessions[job.session].state = "expired" /\ Restart(e, "put")
  <2>1. PICK n \in NewSession :
          /\ sessions' = Opened(n, exec[e].job)
          /\ SaveCopy(e, Renewed(job, n), "put", AfterChunk(e))
    BY <1>4 DEF Restart, Renewed
  <2> QED
    BY <1>1, <1>2, <1>4, <2>1, RestartStep
<1> QED
  BY <1>3, <1>4 DEF PutChunk

\* Steps that only move an execution inside the lock.
LEMMA GoToStep ==
    ASSUME Core, NEW e \in Execution, exec[e].pc \in Holding, NEW pc \in Holding,
           GoTo(e, pc), jobs' = jobs, UNCHANGED <<idem, lock, keyOf, lost>>,
           sessions' \in [Session -> SessionRecord], Grows(sessions, sessions'), NoneExpires,
           pc \in {"finalize", "complete", "announce"} => exec[e].copy.video # 0
    PROVE  Core'
<1> DEFINE y == GoneTo(exec[e], pc)
<1>1. GoesOn(e, y) /\ y.pc = pc /\ y.job = exec[e].job /\ y.copy = exec[e].copy
  BY GoesTo
<1> HIDE DEF y
<1> QED
  BY <1>1, GoStep

LEMMA FailsStep ==
    ASSUME Core, NEW e \in Execution, PutFails(e) \/ ProcessFails(e)
    PROVE  Core'
<1>1. /\ exec[e].pc \in Holding /\ jobs' = jobs /\ UNCHANGED <<idem, lock, keyOf, lost>>
  BY DEF PutFails, ProcessFails, At, Holding
<1>2. /\ Grows(sessions, sessions') /\ NoneExpires
      /\ sessions' \in [Session -> SessionRecord]
  <2>1. CASE sessions' = sessions
    BY <2>1, SameSessions
  <2>2. CASE /\ sessions' = Taken(e) /\ exec[e].copy.offset < TotalBytes
             /\ sessions[exec[e].copy.session].state = "open"
    BY <1>1, <2>2, TakenGrows
  <2> QED
    BY <2>1, <2>2 DEF PutFails, ProcessFails, MoreToSend
<1>3. GoTo(e, "resync") \/ GoTo(e, "fail")
  BY DEF PutFails, ProcessFails
<1> QED
  BY <1>1, <1>2, <1>3, GoToStep DEF Holding

LEMMA StopSendingStep ==
    ASSUME Core, NEW e \in Execution, StopSending(e)
    PROVE  Core'
<1>1. /\ exec[e].pc \in Holding /\ UNCHANGED <<idem, sessions, keyOf, lost>>
  BY DEF StopSending, At, Holding
<1>2. /\ Grows(sessions, sessions') /\ NoneExpires
      /\ sessions' \in [Session -> SessionRecord]
  BY <1>1, SameSessions
<1>3. CASE exec[e].copy.video # 0 /\ GoTo(e, "finalize") /\ UNCHANGED <<jobs, lock>>
  BY <1>1, <1>2, <1>3, GoToStep DEF Holding
<1>4. CASE SaveAndLeave(e, Marked(exec[e].copy, "queued"))
  <2> DEFINE rec == Marked(exec[e].copy, "queued")
             y == Left(exec[e])
  <2>1. /\ rec \in JobRecord /\ rec.status # "absent" /\ rec.session = exec[e].copy.session
        /\ Real(sessions', rec, exec[e].job) /\ Behind(sessions', rec)
    BY <1>1, Holder, MarkedReal
  <2>2. SaveAndLeave(e, rec)
    BY <1>4
  <2> HIDE DEF rec
  <2>3. /\ GoesOn(e, y) /\ y.pc = "next" /\ jobs' = [jobs EXCEPT ![exec[e].job] = rec]
    BY <1>1, <2>2, Leaves
  <2> HIDE DEF y
  <2> QED
    BY <1>2, <2>1, <2>3, SaveStep DEF Holding
<1> QED
  BY <1>3, <1>4 DEF StopSending, Marked

LEMMA RecordErrorStep ==
    ASSUME Core, NEW e \in Execution, RecordError(e)
    PROVE  Core'
<1> DEFINE rec == Marked(jobs[exec[e].job], "error")
           y == Left(exec[e])
<1>1. /\ exec[e].pc \in Holding /\ UNCHANGED <<idem, sessions, keyOf, lost>>
      /\ SaveAndLeave(e, rec)
  BY DEF RecordError, At, Holding, Marked
<1>2. /\ Grows(sessions, sessions') /\ NoneExpires
      /\ sessions' \in [Session -> SessionRecord]
  BY <1>1, SameSessions
<1>3. /\ rec \in JobRecord /\ rec.status # "absent" /\ rec.session = exec[e].copy.session
      /\ Real(sessions', rec, exec[e].job) /\ Behind(sessions', rec)
  <2>1. /\ jobs[exec[e].job] \in JobRecord
        /\ Real(sessions, jobs[exec[e].job], exec[e].job) /\ Behind(sessions, jobs[exec[e].job])
        /\ exec[e].copy.session = jobs[exec[e].job].session
    BY <1>1, Holder DEF JobSound
  <2> QED
    BY <1>1, <2>1, MarkedReal
<1> HIDE DEF rec
<1>4. /\ GoesOn(e, y) /\ y.pc = "next" /\ jobs' = [jobs EXCEPT ![exec[e].job] = rec]
  BY <1>1, Leaves
<1> HIDE DEF y
<1> QED
  BY <1>2, <1>3, <1>4, SaveStep DEF Holding

LEMMA FinalizeStep ==
    ASSUME Core, NEW e \in Execution, Finalize(e)
    PROVE  Core'
<1>1. /\ exec[e].pc \in Holding /\ exec[e].pc \in {"finalize", "complete", "announce"}
      /\ UNCHANGED <<idem, sessions, keyOf, lost>> /\ exec[e] \in Run
  BY DEF Finalize, InsertInPlaylist, SaveComplete, Announce, At, Holding, Core
<1>2. /\ Grows(sessions, sessions') /\ NoneExpires
      /\ sessions' \in [Session -> SessionRecord]
  BY <1>1, SameSessions
<1>3. exec[e].copy.video # 0
  BY <1>1 DEF Core, DataSound, CopiesAgree, CopySound
<1>4. /\ exec[e].copy \in JobRecord /\ exec[e].copy.status # "absent"
      /\ Real(sessions, exec[e].copy, exec[e].job) /\ Behind(sessions, exec[e].copy)
  BY <1>1, Holder
<1>5. CASE InsertInPlaylist(e)
  BY <1>1, <1>2, <1>3, <1>5, GoToStep DEF InsertInPlaylist, Holding
<1>6. CASE SaveComplete(e)
  <2> DEFINE rec == Marked(exec[e].copy, "complete")
             y == Saved(exec[e], rec, "announce", exec[e].processed)
  <2>1. /\ rec \in JobRecord /\ rec.status = "complete" /\ rec.offset = exec[e].copy.offset
        /\ rec.session = exec[e].copy.session /\ rec.video = exec[e].copy.video
    BY <1>4, ChangedJob, Numbers DEF Status
  <2>2. SaveCopy(e, rec, "announce", exec[e].processed) /\ UNCHANGED lock
    BY <1>6 DEF SaveComplete, Marked
  <2> HIDE DEF rec
  <2>3. Real(sessions', rec, exec[e].job) /\ Behind(sessions', rec)
    BY <1>1, <1>3, <1>4, <2>1 DEF Real, Behind
  <2>4. exec[e].processed \in 0..MaxChunks
    BY <1>1 DEF Run
  <2>5. /\ GoesOn(e, y) /\ y.pc = "announce" /\ y.copy = rec
        /\ jobs' = [jobs EXCEPT ![exec[e].job] = rec]
    BY <1>1, <2>1, <2>2, <2>4, GoesWith DEF Holding
  <2> HIDE DEF y
  <2> QED
    BY <1>2, <1>3, <2>1, <2>3, <2>5, SaveStep
<1>7. CASE Announce(e)
  <2> DEFINE y == Left(exec[e])
  <2>1. /\ GoesOn(e, y) /\ y.pc = "next" /\ jobs' = [jobs EXCEPT ![exec[e].job] = exec[e].copy]
    BY <1>1, <1>7, Leaves DEF Announce
  <2>2. Real(sessions', exec[e].copy, exec[e].job) /\ Behind(sessions', exec[e].copy)
    BY <1>1, <1>4
  <2> HIDE DEF y
  <2> QED
    BY <1>2, <1>4, <2>1, <2>2, SaveStep DEF Holding
<1> QED
  BY <1>5, <1>6, <1>7 DEF Finalize

LEMMA KillStep ==
    ASSUME Core, NEW e \in Execution, Kill(e)
    PROVE  Core'
<1>1. /\ UNCHANGED <<idem, jobs, sessions, keyOf>>
      /\ lock' = (IF lock = e THEN None ELSE lock)
      /\ lost' = (IF exec[e].pc \in Starting /\ HasKey(e) THEN lost \cup {exec[e].key}
                  ELSE lost)
  BY DEF Kill, Starting, Recording
<1>2. Becomes(e, Idle) /\ RunSound(keyOf, Idle)
  BY IdleRun DEF Kill, End, Becomes, RunSound, Starting, Recording, Holding
<1>3. LockAgrees'
  <2>1. CASE exec[e].pc \in Holding
    BY <1>1, <1>2, <2>1, IdleRun, LockLeft DEF Core, LockAgrees, Holding
  <2>2. CASE exec[e].pc \notin Holding
    BY <1>1, <1>2, <2>2, IdleRun, LockKept DEF Core, LockAgrees, Holding
  <2> QED
    BY <2>1, <2>2
<1>4. KeysSound'
  <2>1. lost \subseteq lost' /\ Idle.pc \notin Starting
    BY <1>1, IdleRun DEF Starting, Recording
  <2>2. \/ exec[e].pc \notin Starting \/ exec[e].key \in lost' \/ exec[e].key \notin Key
    BY <1>1, UploadAssumption DEF HasKey
  <2> QED
    BY <1>1, <1>2, <2>1, <2>2, KeysKept DEF Core
<1>5. lost' \subseteq Key /\ lock' \in {None} \cup Execution /\ idem' \in [Key -> IdemRecord]
  BY <1>1 DEF Core, SharedTypeOK, RunsAgree, RunSound, HasKey
<1> QED
  BY <1>1, <1>2, <1>3, <1>4, <1>5, IdleRun, QuietStep DEF Copying, Holding

LEMMA ExpiresStep ==
    ASSUME Core, NEW s \in Session, SessionExpires(s)
    PROVE  Core'
<1>1. UNCHANGED <<idem, jobs, lock, exec, keyOf, lost>>
  BY DEF SessionExpires
<1>2. SharedTypeOK'
  BY <1>1 DEF SessionExpires, Core, SharedTypeOK, SessionRecord
<1>3. DataSound'
  BY <1>2, ExpireKeeps DEF Core
<1>4. LockAgrees' /\ RunsAgree' /\ KeysSound' /\ exec' \in [Execution -> Run]
  BY <1>1 DEF Core, LockAgrees, RunsAgree, KeysSound, ReservationsAgree, JobsAreKnown
<1> QED
  BY <1>2, <1>3, <1>4 DEF Core

-----------------------------------------------------------------------------
(* The invariant.                                                          *)

\* Playlist entries, mails and the counters keep their types.
LEMMA OutsideTypeStep ==
    ASSUME Core, OutsideTypeOK, [Next]_vars
    PROVE  OutsideTypeOK'
<1> USE DEF outsideVars, effectVars, historyVars, faultVars
<1>1. /\ MaxKills \in Nat /\ MaxLockTimeouts \in Nat /\ MaxFailures \in Nat
      /\ \A n \in 0..2 : Counted(n) \in 0..2
  BY UploadAssumption DEF Counted
<1>2. CASE UNCHANGED <<outsideVars, faultVars>>
  BY <1>2 DEF OutsideTypeOK
<1>3. ASSUME NEW e \in Execution, StartFails(e) \/ SyncUnavailable(e) \/ PutFails(e) \/ ProcessFails(e)
      PROVE  OutsideTypeOK'
  BY <1>1, <1>3 DEF OutsideTypeOK, StartFails, SyncUnavailable, PutFails, ProcessFails, Fault
<1>4. ASSUME NEW e \in Execution, WaitLockTimesOut(e)
      PROVE  OutsideTypeOK'
  BY <1>1, <1>4 DEF OutsideTypeOK, WaitLockTimesOut
<1>5. ASSUME NEW e \in Execution, SaveAgain(e)
      PROVE  OutsideTypeOK'
  <2>1. exec[e].job \in Job
    BY <1>5 DEF SaveAgain, At, Core, RunsAgree, RunSound
  <2> QED
    BY <1>5, <2>1 DEF OutsideTypeOK, SaveAgain
<1>6. ASSUME NEW e \in Execution, InsertInPlaylist(e)
      PROVE  OutsideTypeOK'
  BY <1>1, <1>6 DEF OutsideTypeOK, InsertInPlaylist
<1>7. ASSUME NEW e \in Execution, Announce(e)
      PROVE  OutsideTypeOK'
  BY <1>1, <1>7 DEF OutsideTypeOK, Announce
<1>8. ASSUME NEW e \in Execution, Kill(e)
      PROVE  OutsideTypeOK'
  <2>1. At(e, "complete") => exec[e].job \in Job
    BY DEF At, Core, RunsAgree, RunSound, Holding
  <2>2. mails' \in [Job -> 0..2]
    BY <1>1, <1>8 DEF OutsideTypeOK, Kill
  <2> QED
    BY <1>1, <1>8, <2>1, <2>2 DEF OutsideTypeOK, Kill
<1>9. ASSUME NEW e \in Execution,
             \/ ReserveNothing(e) \/ Reserve(e) \/ StartRefused(e) \/ CreateJob(e)
             \/ CommitIdempotency(e) \/ ReleaseIdempotency(e) \/ EndWithoutKey(e)
             \/ (\E k \in Key \cup {NoKey} : StartUpload(e, k)) \/ ProcessOne(e) \/ Trigger(e)
             \/ LoadJob(e) \/ ProcessEnds(e) \/ SyncAnswered(e) \/ PutChunk(e)
             \/ StopSending(e) \/ SaveComplete(e) \/ RecordError(e)
      PROVE  UNCHANGED <<outsideVars, faultVars>>
  BY <1>9, Zenon DEF ReserveNothing, Reserve, StartRefused, CreateJob, CommitIdempotency,
     ReleaseIdempotency, EndWithoutKey, StartUpload, ProcessOne, Trigger, Process, LoadJob,
     ProcessEnds, SyncAnswered, PutChunk, StopSending,
     SaveComplete, RecordError
<1>10. ASSUME \/ \E k \in Key : ReservationAges(k)
              \/ \E s \in Session : SessionExpires(s)
       PROVE  UNCHANGED <<outsideVars, faultVars>>
  BY <1>10 DEF ReservationAges, SessionExpires
<1>11. CASE UNCHANGED vars
  BY <1>2, <1>11 DEF vars
<1> QED
  BY <1>2, <1>3, <1>4, <1>5, <1>6, <1>7, <1>8, <1>9, <1>10, <1>11, Zenon
     DEF Next, StartStep, ProcessStep, Finalize

LEMMA CoreStep ==
    ASSUME Core, [Next]_vars
    PROVE  Core'
<1>1. CASE UNCHANGED vars
  BY <1>1 DEF vars, Core, SharedTypeOK, LockAgrees, RunsAgree, DataSound, JobsAgree,
     SessionsAgree, CopiesAgree, KeysSound, ReservationsAgree, JobsAreKnown
<1>2. ASSUME NEW e \in Execution, StartStep(e)
      PROVE  Core'
  BY <1>2, ReserveNothingStep, ReserveStep, ReleaseStep, CreateJobStep, SaveAgainStep,
     CommitStep, EndWithoutKeyStep, Zenon DEF StartStep
<1>3. ASSUME NEW e \in Execution, ProcessStep(e)
      PROVE  Core'
  BY <1>3, LoadJobStep, ProcessEndsStep, SyncAnsweredStep, PutChunkStep, StopSendingStep,
     FinalizeStep, RecordErrorStep, Zenon DEF ProcessStep
<1> QED
  BY <1>1, <1>2, <1>3, StartUploadStep, ReleaseStep, ProcessBegins, SyncUnavailableStep,
     FailsStep, KillStep, AgesStep, ExpiresStep, Zenon DEF Next

LEMMA QueueStart == Init => QueueInv
<1> SUFFICES ASSUME Init PROVE QueueInv
  OBVIOUS
<1> USE UploadAssumption, Numbers, IdleRun, JobRecords DEF Init
<1>1. exec \in [Execution -> Run] /\ SharedTypeOK
  BY DEF SharedTypeOK, IdemRecord, SessionRecord
<1>2. OutsideTypeOK
  BY DEF OutsideTypeOK
<1>3. LockAgrees /\ RunsAgree
  BY DEF LockAgrees, RunsAgree, RunSound, Starting, Recording, Holding
<1>4. JobsAgree
  BY DEF JobsAgree, JobSound, Real
<1>5. SessionsAgree
  BY DEF SessionsAgree, SessionSound
<1>6. CopiesAgree
  BY DEF CopiesAgree, CopySound, Copying, Holding
<1>7. KeysSound
  BY DEF KeysSound, ReservationsAgree, ReservationSound, JobsAreKnown, Starting, Recording
<1>8. Core
  BY <1>1, <1>3, <1>4, <1>5, <1>6, <1>7 DEF Core, DataSound
<1> QED
  BY <1>2, <1>8, CoreParts

\* In every reachable state the lock is held by exactly the execution that is
\* inside it, whatever is recorded of a job's video has been made, stored
\* positions and copies are not ahead of their session, and what is recorded
\* of a key agrees with the start and the jobs it has.
THEOREM QueueInvariance == Spec => []QueueInv
<1>1. QueueInv /\ [Next]_vars => QueueInv'
  <2>1. ASSUME Core, OutsideTypeOK, [Next]_vars
        PROVE  Core' /\ OutsideTypeOK'
    BY <2>1, CoreStep, OutsideTypeStep
  <2>2. (Core /\ OutsideTypeOK)' => QueueInv'
    BY CoreParts, PTL
  <2> QED
    BY <2>1, <2>2, CoreParts
<1> QED
  BY QueueStart, <1>1, PTL DEF Spec

-----------------------------------------------------------------------------
(* The properties.                                                         *)

\* Every variable keeps its type.
THEOREM QueueTypeCorrect == Spec => []TypeOK
  BY QueueInvariance, PTL DEF QueueInv

\* A set whose members are all the same is finite and has one at most.
LEMMA AtMostOne ==
    ASSUME NEW S, \A x, y \in S : x = y
    PROVE  Cardinality(S) \in {0, 1}
<1>1. CASE S = {}
  BY <1>1, FS_EmptySet
<1>2. CASE S # {}
  <2>1. PICK x : x \in S
    BY <1>2
  <2>2. S = {x}
    BY <2>1
  <2> QED
    BY <2>2, FS_Singleton
<1> QED
  BY <1>1, <1>2

\* The same idempotency key starts a second upload only after a registration
\* of it was cut short.
THEOREM SecondJobOnlyAfterLoss == Spec => []SecondJobNeedsLoss
<1>1. ASSUME QueueInv, NEW k \in Key, k \notin lost
      PROVE  ~(Cardinality(JobsOf(k)) > 1)
  <2>1. ReservationSound(idem, keyOf, exec, k)
    BY <1>1 DEF QueueInv, ReservationsAgree
  <2>2. ASSUME NEW i \in JobsOf(k)
        PROVE  i \in Job /\ KnownAs(idem, exec, k, i)
    BY <1>1 DEF QueueInv, JobsAreKnown, JobsOf
  <2>3. ASSUME NEW e \in Execution, exec[e].pc \in Recording, exec[e].key = k
        PROVE  idem[k] = Reserved(e)
    BY <2>1, <2>3 DEF ReservationSound, Starting
  <2>4. ASSUME NEW i \in JobsOf(k), NEW j \in JobsOf(k)
        PROVE  i = j
    <3>1. KnownAs(idem, exec, k, i) /\ KnownAs(idem, exec, k, j)
      BY <2>2
    <3>2. \/ idem[k] = Recorded(i)
          \/ \E e \in Execution : idem[k] = Reserved(e) /\ exec[e].job = i
      BY <2>3, <3>1 DEF KnownAs
    <3>3. \/ idem[k] = Recorded(j)
          \/ \E e \in Execution : idem[k] = Reserved(e) /\ exec[e].job = j
      BY <2>3, <3>1 DEF KnownAs
    <3> QED
      BY <3>2, <3>3, Entries
  <2> QED
    BY <2>4, AtMostOne
<1>2. QueueInv => SecondJobNeedsLoss
  BY <1>1 DEF SecondJobNeedsLoss
<1> QED
  BY <1>2, QueueInvariance, PTL

\* However executions overlap, stop and start again, a job's file becomes one
\* video: a finished session is the one its job has on record.
THEOREM OneVideoOfAJob == Spec => []OneVideoPerJob
<1>1. ASSUME QueueInv, NEW j \in Job
      PROVE  Cardinality(VideosOf(j)) <= 1
  <2>1. ASSUME NEW s \in Session, sessions[s].state = "done", sessions[s].job = j
        PROVE  s = jobs[j].session
    BY <1>1, <2>1 DEF QueueInv, SessionsAgree, SessionSound
  <2>2. \A s, t \in VideosOf(j) : s = t
    BY <2>1 DEF VideosOf
  <2> QED
    BY <2>2, AtMostOne
<1>2. QueueInv => OneVideoPerJob
  BY <1>1 DEF OneVideoPerJob
<1> QED
  BY <1>2, QueueInvariance, PTL

\* A job that says it is complete, or about to be, names a video YouTube has
\* made from it, whichever stale copy was saved last.
THEOREM CompleteMeansMade == Spec => []CompletionIsReal
<1>1. QueueInv => CompletionIsReal
  BY DEF QueueInv, JobsAgree, JobSound, Real, CompletionIsReal
<1> QED
  BY <1>1, QueueInvariance, PTL

\* No chunk is sent from beyond what its session has received.
THEOREM NoGapInTheVideo == Spec => []ChunksAreContiguous
<1>1. QueueInv => ChunksAreContiguous
  BY DEF QueueInv, CopiesAgree, CopySound, Copying, Holding, Behind, ChunksAreContiguous, At
<1> QED
  BY <1>1, QueueInvariance, PTL

-----------------------------------------------------------------------------
(* UploadQueue implements UploadLifecycle.                                 *)

\* A job is not complete on record while an execution still works on it,
\* until the one that completed it announces that; if it is not complete any
\* more by then, it was put back in the queue.
EffectSound(jj, en, re, x) ==
    /\ x.pc \in Copying \ {"announce"} => x.copy.status # "complete"
    /\ x.pc \in Holding \ {"announce"} => jj[x.job].status # "complete"
    /\ x.pc = "announce" =>
         x.copy.status = "complete" /\ (jj[x.job].status = "complete" \/ x.job \in re)
    /\ x.pc = "complete" => en[x.job] > 0

EffectsAgree == \A e \in Execution : EffectSound(jobs, entries, reopened, exec[e])

\* A job that is on its playlist was stopped or put back, or is complete, or
\* is about to be saved as complete.
EntrySound(xx, job, cut, re, j) ==
    j \in cut \cup re \/ job.status = "complete"
      \/ \E e \in Execution : xx[e].pc = "complete" /\ xx[e].job = j

EntriesAgree ==
    \A j \in Job : entries[j] > 0 => EntrySound(exec, jobs[j], cutShort, reopened, j)

\* A job whose completion was mailed was put back, or it is complete and
\* nobody works on it.
MailSound(xx, job, re, j) ==
    j \in re \/ /\ job.status = "complete"
                /\ \A e \in Execution : xx[e].pc \in Holding => xx[e].job # j

MailsAgree ==
    \A j \in Job : mails[j] > 0 => MailSound(exec, jobs[j], reopened, j)

EffectsInv == EffectsAgree /\ EntriesAgree /\ MailsAgree

\* How the stored status is seen.
LEMMA StageOf ==
    \A j \in Job :
      /\ jobs[j].status = "absent" <=> Stage[j] = "none"
      /\ jobs[j].status = "complete" <=> Stage[j] = "complete"
      /\ jobs[j].status \notin {"absent", "complete"} <=> Stage[j] = "pending"
  BY DEF Stage

LEMMA StageKept ==
    ASSUME \A j \in Job : /\ jobs'[j].status = "absent" <=> jobs[j].status = "absent"
                          /\ jobs'[j].status = "complete" <=> jobs[j].status = "complete"
    PROVE  Stage' = Stage
  BY DEF Stage

LEMMA StageSaved ==
    ASSUME SharedTypeOK, NEW j \in Job, NEW rec, jobs' = [jobs EXCEPT ![j] = rec],
           rec.status # "absent"
    PROVE  /\ rec.status = "complete" => Stage' = [Stage EXCEPT ![j] = "complete"]
           /\ rec.status # "complete" => Stage' = [Stage EXCEPT ![j] = "pending"]
           /\ rec.status # "complete" /\ jobs[j].status \notin {"absent", "complete"} =>
                Stage' = Stage
<1>1. jobs'[j] = rec /\ \A i \in Job : i # j => jobs'[i] = jobs[i]
  BY DEF SharedTypeOK
<1>2. rec.status = "complete" => Stage' = [Stage EXCEPT ![j] = "complete"]
  BY <1>1 DEF Stage
<1>3. rec.status # "complete" => Stage' = [Stage EXCEPT ![j] = "pending"]
  BY <1>1 DEF Stage
<1>4. rec.status # "complete" /\ jobs[j].status \notin {"absent", "complete"} => Stage' = Stage
  BY <1>1, StageKept
<1> QED
  BY <1>2, <1>3, <1>4

\* How the sessions are seen.
LEMMA VideosKept ==
    ASSUME \A s \in Session : /\ sessions'[s].state = "done" <=> sessions[s].state = "done"
                              /\ sessions[s].state = "done" => sessions'[s].job = sessions[s].job
    PROVE  Videos' = Videos
<1>1. ASSUME NEW j \in Job
      PROVE  VideosOf(j)' = VideosOf(j)
  BY DEF VideosOf
<1> QED
  BY <1>1 DEF Videos

LEMMA VideosMade ==
    ASSUME Core, NEW s \in Session, sessions[s].state = "open",
           sessions'[s].state = "done", sessions'[s].job = sessions[s].job,
           \A t \in Session : t # s => sessions'[t] = sessions[t]
    PROVE  LET j == sessions[s].job IN Videos[j] = 0 /\ Videos' = [Videos EXCEPT ![j] = 1]
<1> DEFINE j == sessions[s].job
<1>1. j \in Job /\ \A t \in Session :
        sessions[t].state \in {"open", "done"} /\ sessions[t].job = j => t = s
  BY DEF Core, DataSound, SessionsAgree, SessionSound
<1>2. VideosOf(j) = {} /\ VideosOf(j)' = {s}
  BY <1>1 DEF VideosOf
<1>3. ASSUME NEW i \in Job, i # j
      PROVE  VideosOf(i)' = VideosOf(i)
  BY <1>3 DEF VideosOf
<1>4. Videos[j] = 0 /\ Cardinality(VideosOf(j)') = 1
  BY <1>1, <1>2, FS_EmptySet, FS_Singleton DEF Videos
<1>5. Videos' = [Videos EXCEPT ![j] = 1]
  <2>1. \A i \in Job : Cardinality(VideosOf(i)') = (IF i = j THEN 1 ELSE Cardinality(VideosOf(i)))
    BY <1>3, <1>4
  <2> QED
    BY <2>1 DEF Videos
<1> QED
  BY <1>4, <1>5

LEMMA VideoThere ==
    ASSUME Core, NEW e \in Execution, exec[e].pc \in {"finalize", "complete", "announce"}
    PROVE  exec[e].job \in Job /\ Videos[exec[e].job] = 1
<1> DEFINE j == exec[e].job
           v == exec[e].copy.video
<1>1. exec[e].pc \in Holding /\ v # 0
  BY DEF Holding, Core, DataSound, CopiesAgree, CopySound
<1>2. j \in Job /\ exec[e].copy \in JobRecord /\ Real(sessions, exec[e].copy, j)
  BY <1>1, Holder
<1>3. v \in Session /\ sessions[v].state = "done" /\ sessions[v].job = j
  BY <1>1, <1>2, Numbers DEF Real, JobRecord
<1>4. \A s \in Session : sessions[s].state = "done" /\ sessions[s].job = j => s = v
  BY <1>3 DEF Core, DataSound, SessionsAgree, SessionSound
<1>5. VideosOf(j) = {v}
  BY <1>3, <1>4 DEF VideosOf
<1> QED
  BY <1>2, <1>5, FS_Singleton DEF Videos

LEMMA TakenVideos ==
    ASSUME Core, NEW e \in Execution, exec[e].pc \in Holding,
           exec[e].copy.offset < TotalBytes,
           sessions[exec[e].copy.session].state \in {"open", "done"}, sessions' = Taken(e)
    PROVE  \/ Videos' = Videos
           \/ Videos[exec[e].job] = 0 /\ Videos' = [Videos EXCEPT ![exec[e].job] = 1]
<1> DEFINE c == exec[e].copy.session
<1>1. c \in Session /\ sessions[c].job = exec[e].job
  BY Holder
<1>2. /\ sessions'[c].state \in {"open", "done"} /\ sessions'[c].job = exec[e].job
      /\ Grown(sessions[c], sessions'[c])
  BY <1>1, TakenGrows DEF Grows
<1>3. \A t \in Session : t # c => sessions'[t] = sessions[t]
  BY <1>1 DEF Taken, Core, SharedTypeOK
<1>4. CASE sessions[c].state = "open" /\ sessions'[c].state = "done"
  BY <1>1, <1>2, <1>3, <1>4, VideosMade
<1>5. CASE sessions[c].state = "done" <=> sessions'[c].state = "done"
  <2>1. \A s \in Session : /\ sessions'[s].state = "done" <=> sessions[s].state = "done"
                           /\ sessions[s].state = "done" => sessions'[s].job = sessions[s].job
    BY <1>1, <1>2, <1>3, <1>5
  <2> QED
    BY <2>1, VideosKept
<1> QED
  BY <1>2, <1>4, <1>5 DEF Grown

LEMMA OpenedVideos ==
    ASSUME Core, NEW s \in NewSession, NEW j, sessions' = Opened(s, j)
    PROVE  Videos' = Videos
<1>1. s \in Session /\ sessions[s].state = "unused"
  BY FreeSession
<1>2. /\ sessions'[s].state = "open" /\ \A t \in Session : t # s => sessions'[t] = sessions[t]
  BY <1>1 DEF Opened, Core, SharedTypeOK
<1>3. \A t \in Session : /\ sessions'[t].state = "done" <=> sessions[t].state = "done"
                         /\ sessions[t].state = "done" => sessions'[t].job = sessions[t].job
  BY <1>1, <1>2
<1> QED
  BY <1>3, VideosKept

\* The steps of UploadLifecycle.
Outside == UNCHANGED <<entries, mails, cutShort, reopened>>

LEMMA Stutters ==
    ASSUME Stage' = Stage, Videos' = Videos, Outside
    PROVE  UNCHANGED Lifecycle!vars
  BY DEF Lifecycle!vars, Outside

LEMMA Registers ==
    ASSUME NEW j \in Job, Stage[j] = "none", Stage' = [Stage EXCEPT ![j] = "pending"],
           Videos' = Videos, Outside
    PROVE  Lifecycle!Next
<1>1. Lifecycle!Register(j)
  BY DEF Lifecycle!Register, Outside
<1> QED
  BY <1>1 DEF Lifecycle!Next

LEMMA MakesVideo ==
    ASSUME NEW j \in Job, Stage[j] # "none", Videos[j] = 0, Videos' = [Videos EXCEPT ![j] = 1],
           Stage' = Stage, Outside
    PROVE  Lifecycle!Next
<1>1. Lifecycle!MakeVideo(j)
  BY DEF Lifecycle!MakeVideo, Outside
<1> QED
  BY <1>1 DEF Lifecycle!Next

-----------------------------------------------------------------------------
(* The effects outside, kept by the kinds of steps.                        *)

\* A step that saves nothing and leaves e without a copy.
LEMMA EffectsQuiet ==
    ASSUME Core, EffectsInv, NEW e \in Execution, NEW y, Becomes(e, y), y.pc \notin Copying,
           exec[e].pc # "complete", jobs' = jobs, Outside
    PROVE  EffectsInv'
<1>1. exec'[e] = y /\ \A d \in Execution : d # e => exec'[d] = exec[d]
  BY Others DEF Core
<1>2. ASSUME NEW d \in Execution
      PROVE  EffectSound(jobs', entries', reopened', exec'[d])
  BY <1>1 DEF EffectSound, EffectsInv, EffectsAgree, Outside, Copying, Holding
<1>3. ASSUME NEW j \in Job, entries'[j] > 0
      PROVE  EntrySound(exec', jobs'[j], cutShort', reopened', j)
  BY <1>1, <1>3 DEF EntrySound, EffectsInv, EntriesAgree, Outside
<1>4. ASSUME NEW j \in Job, mails'[j] > 0
      PROVE  MailSound(exec', jobs'[j], reopened', j)
  BY <1>1, <1>4 DEF MailSound, EffectsInv, MailsAgree, Outside, Copying
<1> QED
  BY <1>2, <1>3, <1>4 DEF EffectsInv, EffectsAgree, EntriesAgree, MailsAgree

Finalizing == {"complete", "announce"}

\* A step in the lock that saves nothing.
LEMMA EffectsGo ==
    ASSUME Core, EffectsInv, NEW e \in Execution, NEW y, Becomes(e, y),
           exec[e].pc \in Holding \ Finalizing, y.pc \in Holding \ Finalizing,
           y.job = exec[e].job, y.copy = exec[e].copy, jobs' = jobs, Outside
    PROVE  EffectsInv'
<1>1. exec'[e] = y /\ \A d \in Execution : d # e => exec'[d] = exec[d]
  BY Others DEF Core
<1>2. EffectSound(jobs', entries', reopened', y)
  <2>1. EffectSound(jobs, entries, reopened, exec[e])
    BY DEF EffectsInv, EffectsAgree
  <2> QED
    BY <2>1 DEF EffectSound, Outside, Copying, Finalizing
<1>3. ASSUME NEW d \in Execution
      PROVE  EffectSound(jobs', entries', reopened', exec'[d])
  BY <1>1, <1>2 DEF EffectsInv, EffectsAgree, Outside
<1>4. ASSUME NEW j \in Job, entries'[j] > 0
      PROVE  EntrySound(exec', jobs'[j], cutShort', reopened', j)
  BY <1>1, <1>4 DEF EntrySound, EffectsInv, EntriesAgree, Outside, Finalizing
<1>5. ASSUME NEW j \in Job, mails'[j] > 0
      PROVE  MailSound(exec', jobs'[j], reopened', j)
  BY <1>1, <1>5 DEF MailSound, EffectsInv, MailsAgree, Outside
<1> QED
  BY <1>3, <1>4, <1>5 DEF EffectsInv, EffectsAgree, EntriesAgree, MailsAgree

\* A step that saves an unfinished job as unfinished.
LEMMA EffectsSave ==
    ASSUME Core, EffectsInv, NEW e \in Execution, NEW y, Becomes(e, y),
           exec[e].pc \notin Finalizing, y.pc \notin Finalizing,
           y.pc \in Copying => y.copy.status # "complete",
           NEW j \in Job, y.pc \in Holding => y.job = j,
           NEW rec, jobs' = [jobs EXCEPT ![j] = rec],
           rec.status # "complete", jobs[j].status # "complete", Outside
    PROVE  EffectsInv'
<1>1. exec'[e] = y /\ \A d \in Execution : d # e => exec'[d] = exec[d]
  BY Others DEF Core
<1>2. jobs'[j] = rec /\ \A i \in Job : i # j => jobs'[i] = jobs[i]
  BY DEF Core, SharedTypeOK
<1>3. ASSUME NEW d \in Execution
      PROVE  EffectSound(jobs', entries', reopened', exec'[d])
  <2>1. CASE d = e
    BY <1>1, <1>2, <2>1 DEF EffectSound, Finalizing, Copying
  <2>2. CASE d # e
    <3>1. EffectSound(jobs, entries, reopened, exec[d])
      BY DEF EffectsInv, EffectsAgree
    <3>2. exec[d].pc \in Holding => exec[d].job \in Job
      BY DEF Core, RunsAgree, RunSound
    <3>3. exec'[d] = exec[d] /\ entries' = entries /\ reopened' = reopened
      BY <1>1, <2>2 DEF Outside
    <3> QED
      BY <1>2, <3>1, <3>2, <3>3 DEF EffectSound, Holding
  <2> QED
    BY <2>1, <2>2
<1>4. ASSUME NEW i \in Job, entries'[i] > 0
      PROVE  EntrySound(exec', jobs'[i], cutShort', reopened', i)
  <2>1. EntrySound(exec, jobs[i], cutShort, reopened, i)
    BY <1>4 DEF EffectsInv, EntriesAgree, Outside
  <2> QED
    BY <1>1, <1>2, <2>1 DEF EntrySound, Outside, Finalizing
<1>5. ASSUME NEW i \in Job, mails'[i] > 0
      PROVE  MailSound(exec', jobs'[i], reopened', i)
  <2>1. MailSound(exec, jobs[i], reopened, i)
    BY <1>5 DEF EffectsInv, MailsAgree, Outside
  <2> QED
    BY <1>1, <1>2, <2>1 DEF MailSound, Outside
<1> QED
  BY <1>3, <1>4, <1>5 DEF EffectsInv, EffectsAgree, EntriesAgree, MailsAgree

-----------------------------------------------------------------------------
(* Every step is a step of UploadLifecycle, or none.                       *)

Maps == Lifecycle!Next \/ UNCHANGED Lifecycle!vars

MoreVideos(j) ==
    \/ Videos' = Videos
    \/ Videos[j] = 0 /\ Videos' = [Videos EXCEPT ![j] = 1]

LEMMA MapsVideos ==
    ASSUME NEW j \in Job, jobs[j].status # "absent", MoreVideos(j), Stage' = Stage, Outside
    PROVE  Maps
<1>1. Stage[j] # "none"
  BY StageOf
<1> QED
  BY <1>1, Stutters, MakesVideo DEF Maps, MoreVideos

\* The job an execution works on is on record as unfinished.
LEMMA Unfinished ==
    ASSUME Core, EffectsInv, NEW e \in Execution, exec[e].pc \in Holding \ {"announce"}
    PROVE  /\ exec[e].job \in Job /\ jobs[exec[e].job].status \notin {"absent", "complete"}
           /\ exec[e].copy.status \notin {"absent", "complete"} /\ exec[e].copy \in JobRecord
           /\ Stage[exec[e].job] = "pending"
<1>1. /\ exec[e].job \in Job /\ keyOf[exec[e].job] # None /\ exec[e].copy \in JobRecord
      /\ JobSound(sessions, keyOf, jobs[exec[e].job], exec[e].job)
      /\ exec[e].copy.status # "absent"
  BY Holder
<1>2. jobs[exec[e].job].status # "complete" /\ exec[e].copy.status # "complete"
  BY DEF EffectsInv, EffectsAgree, EffectSound, Copying
<1>3. jobs[exec[e].job].status # "absent"
  BY <1>1 DEF JobSound
<1> QED
  BY <1>1, <1>2, <1>3, StageOf

\* It saves the job as unfinished and goes on, or leaves it.
LEMMA SavesUnfinished ==
    ASSUME Core, EffectsInv, NEW e \in Execution,
           exec[e].pc \in Holding \ Finalizing, NEW rec \in JobRecord,
           rec.status \notin {"absent", "complete"},
           \/ \E pc \in {"put", "finalize"}, n \in 0..MaxChunks :
                SaveCopy(e, rec, pc, n) /\ UNCHANGED lock
           \/ SaveAndLeave(e, rec),
           UNCHANGED <<idem, keyOf, lost>>, Outside, MoreVideos(exec[e].job)
    PROVE  EffectsInv' /\ Maps
<1> DEFINE j == exec[e].job
<1>1. /\ j \in Job /\ jobs[j].status \notin {"absent", "complete"} /\ exec[e].pc \in Holding
      /\ exec[e].pc \notin Finalizing
  BY Unfinished DEF Finalizing
<1>2. jobs' = [jobs EXCEPT ![j] = rec]
  BY DEF SaveCopy, SaveAndLeave
<1>3. Maps
  BY <1>1, <1>2, StageSaved, MapsVideos DEF Core
<1>4. ASSUME NEW pc \in {"put", "finalize"}, NEW n \in 0..MaxChunks,
             SaveCopy(e, rec, pc, n), UNCHANGED lock
      PROVE  EffectsInv'
  <2> DEFINE y == Saved(exec[e], rec, pc, n)
  <2>1. GoesOn(e, y) /\ y.pc = pc /\ y.job = j /\ y.copy = rec
    BY <1>1, <1>4, GoesWith DEF Holding
  <2> HIDE DEF y
  <2>2. Becomes(e, y) /\ y.pc \notin Finalizing
    BY <2>1 DEF GoesOn, Finalizing
  <2> QED
    BY <1>1, <1>2, <2>1, <2>2, EffectsSave
<1>5. CASE SaveAndLeave(e, rec)
  <2> DEFINE y == Left(exec[e])
  <2>1. GoesOn(e, y) /\ y.pc = "next"
    BY <1>1, <1>5, Leaves
  <2> HIDE DEF y
  <2>2. /\ Becomes(e, y) /\ y.pc \notin Finalizing
        /\ y.pc \in Copying => y.copy.status # "complete"
        /\ y.pc \in Holding => y.job = j
    BY <2>1 DEF GoesOn, Finalizing, Copying, Holding
  <2> QED
    BY <1>1, <1>2, <1>3, <2>2, EffectsSave
<1> QED
  BY <1>3, <1>4, <1>5

\* It goes on and saves nothing.
LEMMA GoesUnfinished ==
    ASSUME Core, EffectsInv, NEW e \in Execution,
           exec[e].pc \in Holding \ Finalizing, NEW pc \in Holding \ Finalizing,
           GoTo(e, pc), UNCHANGED <<idem, jobs, lock, keyOf, lost>>, Outside,
           MoreVideos(exec[e].job)
    PROVE  EffectsInv' /\ Maps
<1> DEFINE y == GoneTo(exec[e], pc)
<1>1. GoesOn(e, y) /\ y.pc = pc /\ y.job = exec[e].job /\ y.copy = exec[e].copy
  BY GoesTo
<1> HIDE DEF y
<1>2. EffectsInv'
  BY <1>1, EffectsGo DEF GoesOn
<1>3. exec[e].job \in Job /\ jobs[exec[e].job].status # "absent"
  BY Unfinished DEF Finalizing
<1>4. Stage' = Stage
  BY StageKept
<1> QED
  BY <1>2, <1>3, <1>4, MapsVideos

LEMMA SyncMaps ==
    ASSUME Core, EffectsInv, NEW e \in Execution, SyncAnswered(e) \/ SyncUnavailable(e)
    PROVE  EffectsInv' /\ Maps
<1> DEFINE c == exec[e].copy
           s == sessions[c.session]
<1>1. /\ exec[e].pc \in Holding \ Finalizing /\ UNCHANGED <<idem, keyOf, lost>> /\ Outside
      /\ exec[e].pc \in {"sync", "resync"}
  BY DEF SyncAnswered, SyncUnavailable, Holding, Finalizing, Outside, outsideVars, effectVars,
     historyVars
<1>2. /\ c \in JobRecord /\ c.status \notin {"absent", "complete"} /\ exec[e].job \in Job
  BY <1>1, Unfinished DEF Finalizing
<1>3. s.received \in 0..TotalBytes /\ exec[e].processed \in 0..MaxChunks
      /\ 0 \in 0..MaxChunks /\ AfterChunk(e) = exec[e].processed
  <2>1. s \in SessionRecord /\ exec[e] \in Run
    BY <1>1, Holder
  <2> QED
    BY <1>1, <2>1, Numbers DEF SessionRecord, Run, AfterChunk, At
<1>4. sessions' = sessions => MoreVideos(exec[e].job)
  <2>1. ASSUME sessions' = sessions PROVE Videos' = Videos
    BY <2>1, VideosKept
  <2> QED
    BY <2>1 DEF MoreVideos
<1>5. /\ Made(c) \in JobRecord /\ Made(c).status \notin {"absent", "complete"}
      /\ Moved(c, s.received) \in JobRecord
      /\ Moved(c, s.received).status \notin {"absent", "complete"}
      /\ MovedAs(c, s.received, "queued") \in JobRecord
      /\ MovedAs(c, s.received, "queued").status \notin {"absent", "complete"}
      /\ Marked(c, "queued") \in JobRecord
      /\ Marked(c, "queued").status \notin {"absent", "complete"}
  <2>1. "queued" \in Status
    BY DEF Status
  <2> HIDE DEF c, s
  <2> DEFINE n == s.received
  <2>2. n \in 0..TotalBytes
    BY <1>3
  <2> HIDE DEF n
  <2>3. /\ Made(c) \in JobRecord /\ Made(c).status = "finalizing"
        /\ Moved(c, n) \in JobRecord /\ Moved(c, n).status = c.status
        /\ MovedAs(c, n, "queued") \in JobRecord /\ MovedAs(c, n, "queued").status = "queued"
        /\ Marked(c, "queued") \in JobRecord /\ Marked(c, "queued").status = "queued"
    BY <1>2, <2>1, <2>2, ChangedJob
  <2> QED
    BY <1>2, <2>3 DEF n
<1>6. CASE \/ /\ sessions' = sessions /\ UNCHANGED lock
              /\ \/ SaveCopy(e, Made(c), "finalize", exec[e].processed)
                 \/ SaveCopy(e, Moved(c, s.received), "put", 0)
           \/ /\ sessions' = sessions
              /\ \/ SaveAndLeave(e, MovedAs(c, s.received, "queued"))
                 \/ SaveAndLeave(e, Marked(c, "queued"))
  <2> HIDE DEF c, s
  <2> QED
    BY <1>1, <1>3, <1>4, <1>5, <1>6, SavesUnfinished
<1>7. CASE sessions' = sessions /\ GoTo(e, "put") /\ UNCHANGED <<jobs, lock>>
  BY <1>1, <1>4, <1>7, GoesUnfinished DEF Holding, Finalizing
<1>8. ASSUME NEW n \in NewSession, sessions' = Opened(n, exec[e].job),
             \/ SaveCopy(e, Renewed(c, n), "put", exec[e].processed) /\ UNCHANGED lock
             \/ SaveAndLeave(e, RenewedAs(c, n, "queued"))
      PROVE  EffectsInv' /\ Maps
  <2>1. MoreVideos(exec[e].job)
    <3>1. Videos' = Videos
      BY <1>8, OpenedVideos
    <3> QED
      BY <3>1 DEF MoreVideos
  <2>2. /\ Renewed(c, n) \in JobRecord /\ Renewed(c, n).status \in {c.status, "queued"}
        /\ RenewedAs(c, n, "queued") \in JobRecord
        /\ RenewedAs(c, n, "queued").status \in {c.status, "queued"}
    BY <1>1, RenewedReal
  <2>3. /\ Renewed(c, n).status \notin {"absent", "complete"}
        /\ RenewedAs(c, n, "queued").status \notin {"absent", "complete"}
    BY <1>2, <2>2
  <2> HIDE DEF c
  <2> QED
    BY <1>1, <1>3, <1>8, <2>1, <2>2, <2>3, SavesUnfinished
<1>9. CASE SyncAnswered(e)
  BY <1>1, <1>3, <1>6, <1>8, <1>9
     DEF SyncAnswered, Restart, Made, Moved, MovedAs, Renewed, RenewedAs
<1>10. CASE SyncUnavailable(e)
  BY <1>6, <1>7, <1>10 DEF SyncUnavailable, Marked
<1> QED
  BY <1>9, <1>10

LEMMA PutMaps ==
    ASSUME Core, EffectsInv, NEW e \in Execution,
           PutChunk(e) \/ PutFails(e) \/ ProcessFails(e)
    PROVE  EffectsInv' /\ Maps
<1> DEFINE c == exec[e].copy
           s == sessions'[c.session]
<1>1. /\ exec[e].pc \in Holding \ Finalizing /\ UNCHANGED <<idem, lock, keyOf, lost>>
      /\ Outside
  BY DEF PutChunk, PutFails, ProcessFails, At, Holding, Finalizing, Outside, outsideVars,
     effectVars, historyVars
<1>2. /\ c \in JobRecord /\ c.status \notin {"absent", "complete"} /\ exec[e].job \in Job
      /\ exec[e] \in Run
  BY <1>1, Unfinished, Holder DEF Finalizing
<1>3. ASSUME sessions' = sessions PROVE Videos' = Videos
  BY <1>3, VideosKept
<1>4. ASSUME sessions' = Taken(e), c.offset < TotalBytes,
             sessions[c.session].state \in {"open", "done"}
      PROVE  MoreVideos(exec[e].job) /\ s.received \in 0..TotalBytes
  <2>1. MoreVideos(exec[e].job)
    BY <1>1, <1>4, TakenVideos DEF MoreVideos
  <2>2. s \in SessionRecord
    BY <1>1, <1>4, TakenGrows
  <2> QED
    BY <2>1, <2>2 DEF SessionRecord
<1>5. CASE PutFails(e) \/ ProcessFails(e)
  <2>1. MoreVideos(exec[e].job)
    <3>1. CASE sessions' = sessions
      BY <1>3, <3>1 DEF MoreVideos
    <3>2. CASE /\ sessions' = Taken(e) /\ c.offset < TotalBytes
               /\ sessions[c.session].state = "open"
      BY <1>4, <3>2
    <3> QED
      BY <1>5, <3>1, <3>2 DEF PutFails, ProcessFails, MoreToSend
  <2>2. jobs' = jobs /\ (GoTo(e, "resync") \/ GoTo(e, "fail"))
    BY <1>5 DEF PutFails, ProcessFails
  <2> QED
    BY <1>1, <2>1, <2>2, GoesUnfinished DEF Holding, Finalizing
<1>6. CASE PutChunk(e)
  <2>1. c.offset < TotalBytes /\ exec[e].processed < MaxChunks /\ At(e, "put")
    BY <1>6 DEF PutChunk, MoreToSend
  <2>2. AfterChunk(e) \in 0..MaxChunks /\ exec[e].processed \in 0..MaxChunks
    BY <1>2, <2>1, UploadAssumption DEF AfterChunk, Run
  <2>3. CASE /\ sessions' = Taken(e) /\ sessions[c.session].state \in {"open", "done"}
             /\ \/ SaveCopy(e, Made(c), "finalize", exec[e].processed)
                \/ SaveCopy(e, Moved(c, s.received), "put", AfterChunk(e))
    <3> DEFINE n == s.received
    <3>1. MoreVideos(exec[e].job) /\ n \in 0..TotalBytes
      BY <1>4, <2>1, <2>3
    <3>2. "queued" \in Status /\ c \in JobRecord
      BY <1>2 DEF Status
    <3>3. \/ SaveCopy(e, Made(c), "finalize", exec[e].processed)
          \/ SaveCopy(e, Moved(c, n), "put", AfterChunk(e))
      BY <2>3
    <3>4. c.status \notin {"absent", "complete"}
      BY <1>2
    <3> HIDE DEF c, n
    <3>5. /\ Made(c) \in JobRecord /\ Made(c).status = "finalizing"
          /\ Moved(c, n) \in JobRecord /\ Moved(c, n).status = c.status
      BY <3>1, <3>2, ChangedJob
    <3>6. CASE SaveCopy(e, Made(c), "finalize", exec[e].processed)
      BY <1>1, <2>2, <3>1, <3>5, <3>6, SavesUnfinished
    <3>7. CASE SaveCopy(e, Moved(c, n), "put", AfterChunk(e))
      BY <1>1, <2>2, <3>1, <3>4, <3>5, <3>7, SavesUnfinished
    <3> QED
      BY <3>3, <3>6, <3>7
  <2>4. ASSUME NEW n \in NewSession, sessions' = Opened(n, exec[e].job),
               SaveCopy(e, Renewed(c, n), "put", AfterChunk(e))
        PROVE  EffectsInv' /\ Maps
    <3>1. Videos' = Videos
      BY <2>4, OpenedVideos
    <3>2. Renewed(c, n) \in JobRecord /\ Renewed(c, n).status \in {c.status, "queued"}
      BY <1>1, RenewedReal
    <3>3. Renewed(c, n).status \notin {"absent", "complete"} /\ MoreVideos(exec[e].job)
      BY <1>2, <3>1, <3>2 DEF MoreVideos
    <3> HIDE DEF c
    <3> QED
      BY <1>1, <2>2, <2>4, <3>2, <3>3, SavesUnfinished
  <2> QED
    BY <1>6, <2>3, <2>4 DEF PutChunk, Restart, Made, Moved, Renewed
<1> QED
  BY <1>5, <1>6

LEMMA StopMaps ==
    ASSUME Core, EffectsInv, NEW e \in Execution, StopSending(e) \/ RecordError(e)
    PROVE  EffectsInv' /\ Maps
<1> DEFINE c == exec[e].copy
           j == exec[e].job
<1>1. /\ exec[e].pc \in Holding \ Finalizing /\ UNCHANGED <<idem, sessions, keyOf, lost>>
      /\ Outside
  BY DEF StopSending, RecordError, At, Holding, Finalizing, Outside, outsideVars, effectVars,
     historyVars
<1>2. c \in JobRecord /\ j \in Job /\ jobs[j] \in JobRecord
  BY <1>1, Holder
<1>3. MoreVideos(j)
  <2>1. Videos' = Videos
    BY <1>1, VideosKept
  <2> QED
    BY <2>1 DEF MoreVideos
<1>4. /\ Marked(c, "queued") \in JobRecord /\ Marked(c, "queued").status = "queued"
      /\ Marked(jobs[j], "error") \in JobRecord /\ Marked(jobs[j], "error").status = "error"
  <2>1. "queued" \in Status /\ "error" \in Status
    BY DEF Status
  <2> HIDE DEF c, j
  <2> QED
    BY <1>2, <2>1, ChangedJob, Numbers
<1>5. \/ GoTo(e, "finalize") /\ UNCHANGED <<jobs, lock>>
      \/ SaveAndLeave(e, Marked(c, "queued"))
      \/ SaveAndLeave(e, Marked(jobs[j], "error"))
  BY DEF StopSending, RecordError, Marked
<1>6. CASE GoTo(e, "finalize") /\ UNCHANGED <<jobs, lock>>
  BY <1>1, <1>3, <1>6, GoesUnfinished DEF Holding, Finalizing
<1>7. CASE SaveAndLeave(e, Marked(c, "queued"))
  BY <1>1, <1>3, <1>4, <1>7, SavesUnfinished
<1>8. CASE SaveAndLeave(e, Marked(jobs[j], "error"))
  BY <1>1, <1>3, <1>4, <1>8, SavesUnfinished
<1> QED
  BY <1>5, <1>6, <1>7, <1>8

\* A step that saves nothing, leaves the sessions alone and e without a copy.
LEMMA QuietMaps ==
    ASSUME Core, EffectsInv, NEW e \in Execution, NEW y, Becomes(e, y), y.pc \notin Copying,
           exec[e].pc # "complete", UNCHANGED <<jobs, sessions>>, Outside
    PROVE  EffectsInv' /\ Maps
<1>1. EffectsInv'
  BY EffectsQuiet
<1>2. Stage' = Stage
  BY StageKept
<1>3. Videos' = Videos
  BY VideosKept
<1> QED
  BY <1>1, <1>2, <1>3, Stutters DEF Maps

LEMMA StartMaps ==
    ASSUME Core, EffectsInv, NEW e \in Execution,
           \/ \E k \in Key \cup {NoKey} : StartUpload(e, k)
           \/ ReserveNothing(e) \/ Reserve(e) \/ CommitIdempotency(e)
           \/ ReleaseIdempotency(e) \/ EndWithoutKey(e) \/ StartRefused(e)
           \/ StartFails(e) \/ WaitLockTimesOut(e) \/ ProcessEnds(e)
    PROVE  EffectsInv' /\ Maps
<1>1. /\ UNCHANGED <<jobs, sessions>> /\ Outside
      /\ exec[e].pc \in {"idle", "reserve", "create", "resave", "commit", "release", "next"}
  BY DEF StartUpload, ReserveNothing, Reserve, CommitIdempotency, ReleaseIdempotency,
     EndWithoutKey, StartRefused, StartFails, WaitLockTimesOut, ProcessEnds, At, Outside,
     outsideVars, effectVars, historyVars
<1>2. exec[e].pc # "complete" /\ exec[e] \in Run
  BY <1>1 DEF Core
<1>3. CASE End(e)
  BY <1>1, <1>2, <1>3, IdleRun, QuietMaps DEF End, Becomes, Copying, Holding
<1>4. ASSUME NEW pc \in {"create", "release"}, GoTo(e, pc)
      PROVE  EffectsInv' /\ Maps
  <2> DEFINE y == GoneTo(exec[e], pc)
  <2>1. Becomes(e, y) /\ y.pc = pc
    <3>1. pc \in Pc
      BY DEF Pc
    <3>2. exec' = [exec EXCEPT ![e] = y]
      BY <1>4 DEF GoTo, GoneTo
    <3> QED
      BY <1>2, <3>1, <3>2, GoneRun DEF Becomes
  <2> HIDE DEF y
  <2>2. y.pc \notin Copying
    BY <2>1 DEF Copying, Holding
  <2> QED
    BY <1>1, <1>2, <2>1, <2>2, QuietMaps
<1>5. ASSUME NEW k \in Key \cup {NoKey}, StartUpload(e, k)
      PROVE  EffectsInv' /\ Maps
  <2> DEFINE y == Asking(exec[e], k)
  <2>1. y \in Run /\ y.pc = "reserve"
    BY <1>2 DEF Asking, Run, Pc
  <2>2. exec' = [exec EXCEPT ![e] = y]
    BY <1>5 DEF StartUpload, Asking
  <2> HIDE DEF y
  <2>3. Becomes(e, y) /\ y.pc \notin Copying
    BY <2>1, <2>2 DEF Becomes, Copying, Holding
  <2> QED
    BY <1>1, <1>2, <2>3, QuietMaps
<1> QED
  BY <1>3, <1>4, <1>5 DEF ReserveNothing, Reserve, CommitIdempotency, ReleaseIdempotency,
     EndWithoutKey, StartRefused, StartFails, WaitLockTimesOut, ProcessEnds

LEMMA BeginMaps ==
    ASSUME Core, EffectsInv, NEW e \in Execution, ProcessOne(e) \/ Trigger(e)
    PROVE  EffectsInv' /\ Maps
<1>1. PICK S \in SUBSET Job : Process(e, S)
  <2>1. Newest(Pending) \in SUBSET Job
    BY DEF Newest, Pending
  <2> QED
    BY <2>1 DEF ProcessOne, Trigger
<1> DEFINE y == Batch(exec[e], S)
<1>2. exec' = [exec EXCEPT ![e] = y]
  BY <1>1 DEF Process, Batch
<1>3. y \in Run /\ y.pc = "next"
  BY BatchRun DEF Core
<1> HIDE DEF y
<1>4. Becomes(e, y) /\ y.pc \notin Copying
  BY <1>2, <1>3 DEF Becomes, Copying, Holding
<1>5. /\ exec[e].pc # "complete" /\ UNCHANGED <<jobs, sessions>> /\ Outside
  BY <1>1 DEF Process, At, Outside, outsideVars, effectVars, historyVars
<1> QED
  BY <1>4, <1>5, QuietMaps

LEMMA LoadMaps ==
    ASSUME Core, EffectsInv, NEW e \in Execution, LoadJob(e)
    PROVE  EffectsInv' /\ Maps
<1>1. PICK j \in NewestOf(exec[e].todo) :
        \/ /\ exec' = [exec EXCEPT ![e].todo = @ \ {j}]
           /\ UNCHANGED <<lock, jobs>>
        \/ /\ jobs[j].status # "complete"
           /\ jobs' = [jobs EXCEPT ![j] = Marked(jobs[j], "uploading")]
           /\ exec' = [exec EXCEPT ![e].pc = "sync", ![e].job = j,
                                   ![e].copy = Marked(jobs[j], "uploading"),
                                   ![e].todo = @ \ {j}]
  BY DEF LoadJob, Marked
<1>2. /\ exec[e].pc = "next" /\ exec[e] \in Run /\ RunSound(keyOf, exec[e])
      /\ UNCHANGED sessions /\ Outside
  BY DEF LoadJob, At, Core, RunsAgree, Outside, outsideVars, effectVars, historyVars
<1>3. j \in Job /\ jobs[j] \in JobRecord /\ jobs[j].status # "absent"
  <2>1. j \in Job /\ keyOf[j] # None
    BY <1>2 DEF NewestOf, Run, RunSound
  <2> QED
    BY <2>1 DEF Core, SharedTypeOK, DataSound, JobsAgree, JobSound
<1>4. CASE exec' = [exec EXCEPT ![e].todo = @ \ {j}] /\ UNCHANGED <<lock, jobs>>
  <2> DEFINE y == Skipped(exec[e], j)
  <2>1. exec' = [exec EXCEPT ![e] = y]
    BY <1>4 DEF Skipped
  <2>2. y \in Run /\ y.pc = "next"
    BY <1>2, <1>3, SkippedRun
  <2> HIDE DEF y
  <2>3. Becomes(e, y) /\ y.pc \notin Copying
    BY <2>1, <2>2 DEF Becomes, Copying, Holding
  <2> QED
    BY <1>2, <1>4, <2>3, QuietMaps
<1>5. CASE /\ jobs[j].status # "complete"
           /\ jobs' = [jobs EXCEPT ![j] = Marked(jobs[j], "uploading")]
           /\ exec' = [exec EXCEPT ![e].pc = "sync", ![e].job = j,
                                   ![e].copy = Marked(jobs[j], "uploading"),
                                   ![e].todo = @ \ {j}]
  <2> DEFINE rec == Marked(jobs[j], "uploading")
             y == Loaded(exec[e], j, rec)
  <2>1. rec \in JobRecord /\ rec.status = "uploading"
    BY <1>3, ChangedJob, Numbers DEF Status
  <2>2. exec' = [exec EXCEPT ![e] = y]
    BY <1>5 DEF Loaded
  <2>3. jobs' = [jobs EXCEPT ![j] = rec]
    BY <1>5
  <2> HIDE DEF rec
  <2>4. y \in Run /\ y.pc = "sync" /\ y.job = j /\ y.copy = rec
    BY <1>2, <1>3, <2>1, LoadedRun
  <2> HIDE DEF y
  <2>5. Becomes(e, y) /\ y.pc \notin Finalizing /\ exec[e].pc \notin Finalizing
    BY <1>2, <2>2, <2>4 DEF Becomes, Finalizing
  <2>6. EffectsInv'
    <3>1. y.copy.status # "complete" /\ y.job = j /\ rec.status # "complete"
      BY <2>1, <2>4
    <3> QED
      BY <1>2, <1>3, <1>5, <2>3, <2>5, <3>1, EffectsSave
  <2>7. Stage' = Stage
    BY <1>3, <1>5, <2>1, <2>3, StageSaved DEF Core
  <2>8. Videos' = Videos
    BY <1>2, VideosKept
  <2> QED
    BY <1>2, <2>6, <2>7, <2>8, Stutters DEF Maps
<1> QED
  BY <1>1, <1>4, <1>5

LEMMA CreateMaps ==
    ASSUME Core, EffectsInv, NEW e \in Execution, CreateJob(e)
    PROVE  EffectsInv' /\ Maps
<1>1. PICK j \in NewJob, s \in NewSession :
        /\ sessions' = Opened(s, j) /\ jobs' = [jobs EXCEPT ![j] = Queued(s)]
        /\ exec' = [exec EXCEPT ![e].pc = "resave", ![e].job = j, ![e].copy = Queued(s)]
  BY DEF CreateJob, Queued
<1>2. j \in Job /\ keyOf[j] = None /\ s \in Session /\ jobs[j].status = "absent"
  BY FreeJob, FreeSession DEF Core, DataSound, JobsAgree, JobSound
<1> DEFINE y == Created(exec[e], j, Queued(s))
<1>3. exec[e].pc = "create" /\ exec[e] \in Run /\ Outside
  BY DEF CreateJob, At, Core, RunsAgree, RunSound, Starting, Outside, outsideVars, effectVars,
     historyVars
<1>4. y \in Run /\ y.pc = "resave" /\ y.job = j /\ y.copy = Queued(s)
  BY <1>2, <1>3, StartedRun, JobRecords
<1>5. exec' = [exec EXCEPT ![e] = y]
  BY <1>1 DEF Created
<1> HIDE DEF y
<1>6. Queued(s).status = "queued"
  BY <1>2, JobRecords
<1>7. /\ Becomes(e, y) /\ y.pc \notin Finalizing /\ exec[e].pc \notin Finalizing
      /\ y.copy.status # "complete" /\ y.pc \notin Holding
  BY <1>3, <1>4, <1>5, <1>6 DEF Becomes, Finalizing, Holding
<1>8. EffectsInv'
  BY <1>1, <1>2, <1>3, <1>6, <1>7, EffectsSave
<1>9. Stage[j] = "none" /\ Stage' = [Stage EXCEPT ![j] = "pending"]
  BY <1>1, <1>2, <1>6, StageOf, StageSaved DEF Core
<1>10. Videos' = Videos
  BY <1>1, OpenedVideos
<1> QED
  BY <1>2, <1>3, <1>8, <1>9, <1>10, Registers DEF Maps

\* The second save of the start puts a complete job back in the queue.
LEMMA SaveAgainMaps ==
    ASSUME Core, EffectsInv, NEW e \in Execution, SaveAgain(e)
    PROVE  EffectsInv' /\ Maps
<1> DEFINE j == exec[e].job
           rec == exec[e].copy
           y == GoneTo(exec[e], "commit")
<1>1. /\ exec[e].pc = "resave" /\ exec[e] \in Run /\ j \in Job /\ keyOf[j] # None
      /\ jobs' = [jobs EXCEPT ![j] = rec] /\ sessions' = sessions
      /\ reopened' = IF jobs[j].status = "complete" THEN reopened \cup {j} ELSE reopened
      /\ UNCHANGED <<entries, mails, cutShort>>
  <2>1. exec[e].pc = "resave" /\ RunSound(keyOf, exec[e]) /\ exec[e] \in Run
    BY DEF SaveAgain, At, Core, RunsAgree
  <2>2. j \in Job /\ keyOf[j] # None
    BY <2>1, Numbers, UploadAssumption DEF RunSound, Starting, Recording
  <2> QED
    BY <2>1, <2>2 DEF SaveAgain, effectVars
<1>2. rec.status \notin {"absent", "complete"} /\ jobs[j].status # "absent"
  BY <1>1 DEF EffectsInv, EffectsAgree, EffectSound, Core, DataSound, CopiesAgree, CopySound,
     JobsAgree, JobSound, Copying
<1>3. Becomes(e, y) /\ y.pc = "commit"
  <2>1. exec' = [exec EXCEPT ![e] = y]
    BY DEF SaveAgain, GoTo, GoneTo
  <2> QED
    BY <1>1, <2>1, GoneRun DEF Becomes, Pc
<1> HIDE DEF y
<1>4. /\ exec'[e] = y /\ \A d \in Execution : d # e => exec'[d] = exec[d]
      /\ jobs'[j] = rec /\ \A i \in Job : i # j => jobs'[i] = jobs[i]
  BY <1>1, <1>3, Others DEF Core, SharedTypeOK
<1> HIDE DEF rec
<1>5. ASSUME NEW d \in Execution
      PROVE  EffectSound(jobs', entries', reopened', exec'[d])
  <2>1. CASE d = e
    BY <1>3, <1>4, <2>1 DEF EffectSound, Copying, Holding
  <2>2. CASE d # e
    <3>1. EffectSound(jobs, entries, reopened, exec[d]) /\ exec'[d] = exec[d]
      BY <1>4, <2>2 DEF EffectsInv, EffectsAgree
    <3>2. exec[d].pc \in Holding => exec[d].job \in Job
      BY DEF Core, RunsAgree, RunSound
    <3> HIDE DEF j
    <3> QED
      BY <1>1, <1>2, <1>4, <3>1, <3>2 DEF EffectSound, Holding
  <2> QED
    BY <2>1, <2>2
<1>6. ASSUME NEW i \in Job, entries'[i] > 0
      PROVE  EntrySound(exec', jobs'[i], cutShort', reopened', i)
  <2>1. EntrySound(exec, jobs[i], cutShort, reopened, i)
    BY <1>1, <1>6 DEF EffectsInv, EntriesAgree
  <2> HIDE DEF j
  <2> QED
    BY <1>1, <1>4, <2>1 DEF EntrySound
<1>7. ASSUME NEW i \in Job, mails'[i] > 0
      PROVE  MailSound(exec', jobs'[i], reopened', i)
  <2>1. MailSound(exec, jobs[i], reopened, i)
    BY <1>1, <1>7 DEF EffectsInv, MailsAgree
  <2> HIDE DEF j
  <2> QED
    BY <1>1, <1>3, <1>4, <2>1 DEF MailSound, Holding
<1>8. EffectsInv'
  BY <1>5, <1>6, <1>7 DEF EffectsInv, EffectsAgree, EntriesAgree, MailsAgree
<1>9. Videos' = Videos
  BY <1>1, VideosKept
<1>10. CASE jobs[j].status = "complete"
  <2>1. Stage[j] = "complete" /\ Stage' = [Stage EXCEPT ![j] = "pending"]
    BY <1>1, <1>2, <1>10, StageOf, StageSaved DEF Core
  <2>2. Lifecycle!Reopen(j)
    BY <1>1, <1>9, <1>10, <2>1 DEF Lifecycle!Reopen
  <2> QED
    BY <1>1, <1>8, <2>2 DEF Maps, Lifecycle!Next
<1>11. CASE jobs[j].status # "complete"
  <2>1. Stage' = Stage
    BY <1>1, <1>2, <1>11, StageSaved DEF Core
  <2> QED
    BY <1>1, <1>8, <1>9, <1>11, <2>1, Stutters DEF Maps, Outside
<1> QED
  BY <1>10, <1>11

LEMMA InsertMaps ==
    ASSUME Core, EffectsInv, OutsideTypeOK, NEW e \in Execution, InsertInPlaylist(e)
    PROVE  EffectsInv' /\ Maps
<1> DEFINE j == exec[e].job
           y == GoneTo(exec[e], "complete")
<1>1. /\ exec[e].pc = "finalize" /\ exec[e] \in Run
      /\ UNCHANGED <<jobs, sessions, mails, cutShort, reopened>>
      /\ entries' = [entries EXCEPT ![j] = Counted(@)]
  BY DEF InsertInPlaylist, At, historyVars, Core
<1>2. /\ j \in Job /\ Stage[j] = "pending" /\ Videos[j] = 1 /\ jobs[j].status # "complete"
      /\ exec[e].copy.status # "complete"
      /\ \A d \in Execution : exec[d].pc \in Holding => d = e
  BY <1>1, Unfinished, VideoThere, Holder DEF Holding
<1>3. Becomes(e, y) /\ y.pc = "complete" /\ y.job = j /\ y.copy = exec[e].copy
  <2>1. exec' = [exec EXCEPT ![e] = y]
    BY DEF InsertInPlaylist, GoTo, GoneTo
  <2> QED
    BY <1>1, <2>1, GoneRun DEF Becomes, Pc
<1> HIDE DEF y
<1>4. /\ exec'[e] = y /\ \A d \in Execution : d # e => exec'[d] = exec[d]
  BY <1>3, Others DEF Core
<1>5. /\ entries[j] \in 0..2 /\ entries'[j] = Counted(entries[j]) /\ entries'[j] > 0
      /\ \A i \in Job : i # j => entries'[i] = entries[i]
  BY <1>1, <1>2 DEF OutsideTypeOK, Counted
<1> HIDE DEF j
<1>6. ASSUME NEW d \in Execution
      PROVE  EffectSound(jobs', entries', reopened', exec'[d])
  <2>1. CASE d = e
    BY <1>1, <1>2, <1>3, <1>4, <1>5, <2>1 DEF EffectSound, Copying
  <2>2. CASE d # e
    <3>1. EffectSound(jobs, entries, reopened, exec[d]) /\ exec'[d] = exec[d]
      BY <1>4, <2>2 DEF EffectsInv, EffectsAgree
    <3>2. exec[d].pc \notin Holding
      BY <1>2, <2>2
    <3> QED
      BY <3>1, <3>2 DEF EffectSound, Holding
  <2> QED
    BY <2>1, <2>2
<1>7. ASSUME NEW i \in Job, entries'[i] > 0
      PROVE  EntrySound(exec', jobs'[i], cutShort', reopened', i)
  <2>1. CASE i = j
    BY <1>3, <1>4, <2>1 DEF EntrySound
  <2>2. CASE i # j
    <3>1. EntrySound(exec, jobs[i], cutShort, reopened, i)
      BY <1>5, <1>7, <2>2 DEF EffectsInv, EntriesAgree
    <3> QED
      BY <1>1, <1>4, <3>1 DEF EntrySound
  <2> QED
    BY <2>1, <2>2
<1>8. ASSUME NEW i \in Job, mails'[i] > 0
      PROVE  MailSound(exec', jobs'[i], reopened', i)
  <2>1. MailSound(exec, jobs[i], reopened, i)
    BY <1>1, <1>8 DEF EffectsInv, MailsAgree
  <2>2. y.job = exec[e].job /\ exec[e].pc \in Holding
    BY <1>1, <1>3 DEF j, Holding
  <2> QED
    BY <1>1, <1>4, <2>1, <2>2 DEF MailSound
<1>9. EffectsInv'
  BY <1>6, <1>7, <1>8 DEF EffectsInv, EffectsAgree, EntriesAgree, MailsAgree
<1>10. Videos' = Videos /\ Stage' = Stage
  BY <1>1, VideosKept, StageKept
<1>11. entries[j] > 0 => j \in cutShort \cup reopened
  <2>1. ASSUME entries[j] > 0 PROVE j \in cutShort \cup reopened
    <3>1. EntrySound(exec, jobs[j], cutShort, reopened, j)
      BY <1>2, <2>1 DEF EffectsInv, EntriesAgree
    <3> QED
      BY <1>1, <1>2, <3>1 DEF EntrySound, Holding
  <2> QED
    BY <2>1
<1>12. CASE entries[j] = 2
  <2>1. Counted(entries[j]) = entries[j]
    BY <1>12 DEF Counted
  <2>2. entries' = entries
    BY <1>1, <1>2, <2>1 DEF OutsideTypeOK, j
  <2> QED
    BY <1>1, <1>9, <1>10, <2>2, Stutters DEF Maps, Outside
<1>13. CASE entries[j] # 2
  <2>1. Counted(entries[j]) = entries[j] + 1
    BY <1>5, <1>13 DEF Counted
  <2>2. entries' = [entries EXCEPT ![j] = @ + 1]
    BY <1>1, <1>2, <2>1 DEF OutsideTypeOK, j
  <2>3. entries[j] = 0 \/ (entries[j] = 1 /\ j \in cutShort \cup reopened)
    BY <1>5, <1>11, <1>13
  <2>4. Lifecycle!Insert(j)
    BY <1>1, <1>2, <1>10, <2>2, <2>3 DEF Lifecycle!Insert
  <2> QED
    BY <1>2, <1>9, <2>4 DEF Maps, Lifecycle!Next
<1> QED
  BY <1>12, <1>13

\* The executions after a step of the one in the lock, and what they are sound
\* for.
LEMMA EffectsOthers ==
    ASSUME Core, EffectsInv, NEW e \in Execution, exec[e].pc \in Holding, NEW y, Becomes(e, y),
           EffectSound(jobs', entries', reopened', y)
    PROVE  EffectsAgree'
<1>1. exec'[e] = y /\ \A d \in Execution : d # e => exec'[d] = exec[d]
  BY Others DEF Core
<1>2. ASSUME NEW d \in Execution, d # e
      PROVE  EffectSound(jobs', entries', reopened', exec[d])
  <2>1. exec[d].pc \notin Holding
    BY <1>2, Holder
  <2>2. EffectSound(jobs, entries, reopened, exec[d])
    BY DEF EffectsInv, EffectsAgree
  <2> QED
    BY <2>1, <2>2 DEF EffectSound, Holding
<1> QED
  BY <1>1, <1>2 DEF EffectsAgree

LEMMA SaveCompleteMaps ==
    ASSUME Core, EffectsInv, NEW e \in Execution, SaveComplete(e)
    PROVE  EffectsInv' /\ Maps
<1> DEFINE j == exec[e].job
           rec == Marked(exec[e].copy, "complete")
           y == Saved(exec[e], rec, "announce", exec[e].processed)
<1>1. /\ exec[e].pc = "complete" /\ exec[e].pc \in Holding /\ sessions' = sessions /\ Outside
      /\ UNCHANGED <<idem, keyOf, lost>>
      /\ SaveCopy(e, rec, "announce", exec[e].processed) /\ UNCHANGED lock
  BY DEF SaveComplete, At, Holding, Marked, Outside, outsideVars, effectVars, historyVars
<1>2. /\ j \in Job /\ jobs[j].status # "complete" /\ Stage[j] = "pending" /\ Videos[j] = 1
      /\ \A d \in Execution : exec[d].pc \in Holding => d = e
  BY <1>1, Unfinished, VideoThere, Holder
<1>3. rec \in JobRecord /\ rec.status = "complete" /\ exec[e].processed \in 0..MaxChunks
  BY <1>1, Holder, ChangedJob, Numbers DEF Status, Run
<1> HIDE DEF rec
<1>4. /\ Becomes(e, y) /\ y.pc = "announce" /\ y.job = j /\ y.copy = rec
      /\ jobs' = [jobs EXCEPT ![j] = rec]
  BY <1>1, <1>3, GoesWith DEF GoesOn, Holding
<1> HIDE DEF y
<1>5. /\ exec'[e] = y /\ \A d \in Execution : d # e => exec'[d] = exec[d]
      /\ jobs'[j] = rec /\ \A i \in Job : i # j => jobs'[i] = jobs[i]
  BY <1>2, <1>4, Others DEF Core, SharedTypeOK
<1>6. EffectSound(jobs', entries', reopened', y)
  BY <1>3, <1>4, <1>5 DEF EffectSound
<1>7. EffectsAgree'
  BY <1>1, <1>4, <1>6, EffectsOthers
<1>8. exec[e].job = j
  OBVIOUS
<1> HIDE DEF j
<1>9. ASSUME NEW i \in Job, entries'[i] > 0
      PROVE  EntrySound(exec', jobs'[i], cutShort', reopened', i)
  <2>1. EntrySound(exec, jobs[i], cutShort, reopened, i)
    BY <1>1, <1>9 DEF EffectsInv, EntriesAgree, Outside
  <2>2. CASE i = j
    BY <1>3, <1>5, <2>2 DEF EntrySound
  <2>3. CASE i # j
    BY <1>1, <1>2, <1>5, <1>8, <2>1, <2>3 DEF EntrySound, Outside, Holding
  <2> QED
    BY <2>2, <2>3
<1>10. ASSUME NEW i \in Job, mails'[i] > 0
       PROVE  MailSound(exec', jobs'[i], reopened', i)
  <2>1. MailSound(exec, jobs[i], reopened, i)
    BY <1>1, <1>10 DEF EffectsInv, MailsAgree, Outside
  <2>2. CASE i = j
    BY <1>1, <1>2, <2>1, <2>2 DEF MailSound, Outside
  <2>3. CASE i # j
    BY <1>1, <1>4, <1>5, <2>1, <2>3 DEF MailSound, Outside
  <2> QED
    BY <2>2, <2>3
<1>11. EffectsInv'
  BY <1>7, <1>9, <1>10 DEF EffectsInv, EntriesAgree, MailsAgree
<1>12. Stage' = [Stage EXCEPT ![j] = "complete"] /\ Videos' = Videos
  BY <1>1, <1>2, <1>3, <1>4, StageSaved, VideosKept DEF Core
<1>13. Lifecycle!Complete(j)
  BY <1>1, <1>2, <1>12 DEF Lifecycle!Complete, Outside
<1> QED
  BY <1>2, <1>11, <1>13 DEF Maps, Lifecycle!Next

\* The mail of a job's completion, on the record (Complete, if it was put back
\* meanwhile and mailed twice before), or on the way to it.
LEMMA MailMaps ==
    ASSUME OutsideTypeOK, NEW j \in Job, Videos[j] = 1, Videos' = Videos,
           UNCHANGED <<entries, cutShort, reopened>>,
           mails' = [mails EXCEPT ![j] = Counted(@)],
           mails[j] > 0 => j \in reopened,
           \/ Stage' = Stage
           \/ /\ Stage[j] = "pending" /\ j \in reopened
              /\ Stage' = [Stage EXCEPT ![j] = "complete"]
    PROVE  Maps
<1>1. mails[j] \in 0..2 /\ mails \in [Job -> 0..2]
  BY DEF OutsideTypeOK
<1>2. CASE mails[j] = 2
  <2>1. Counted(mails[j]) = mails[j]
    BY <1>2 DEF Counted
  <2>2. mails' = mails
    BY <1>1, <2>1
  <2>3. CASE Stage' = Stage
    BY <2>2, <2>3, Stutters DEF Maps, Outside
  <2>4. CASE Stage[j] = "pending" /\ Stage' = [Stage EXCEPT ![j] = "complete"]
    <3>1. Lifecycle!Complete(j)
      BY <2>2, <2>4 DEF Lifecycle!Complete
    <3> QED
      BY <3>1 DEF Maps, Lifecycle!Next
  <2> QED
    BY <2>3, <2>4
<1>3. CASE mails[j] # 2
  <2>1. Counted(mails[j]) = mails[j] + 1
    BY <1>1, <1>3 DEF Counted
  <2>2. mails' = [mails EXCEPT ![j] = @ + 1]
    BY <1>1, <2>1
  <2>3. mails[j] = 0 \/ (mails[j] = 1 /\ j \in reopened)
    BY <1>1, <1>3
  <2>4. Lifecycle!Announce(j)
    BY <2>2, <2>3 DEF Lifecycle!Announce
  <2> QED
    BY <2>4 DEF Maps, Lifecycle!Next
<1> QED
  BY <1>2, <1>3

\* A completion is not mailed again unless the job was put back.
LEMMA AnnouncedOnce ==
    ASSUME Core, EffectsInv, NEW e \in Execution, exec[e].pc = "announce",
           mails[exec[e].job] > 0
    PROVE  exec[e].job \in reopened
<1>1. exec[e].pc \in Holding
  BY DEF Holding
<1>2. MailSound(exec, jobs[exec[e].job], reopened, exec[e].job)
  BY <1>1, Holder DEF EffectsInv, MailsAgree
<1> QED
  BY <1>1, <1>2 DEF MailSound

LEMMA AnnounceMaps ==
    ASSUME Core, EffectsInv, OutsideTypeOK, NEW e \in Execution, Announce(e)
    PROVE  EffectsInv' /\ Maps
<1> DEFINE j == exec[e].job
           rec == exec[e].copy
           y == Left(exec[e])
<1>1. /\ exec[e].pc = "announce" /\ exec[e].pc \in Holding
      /\ UNCHANGED <<idem, keyOf, lost>> /\ sessions' = sessions
      /\ UNCHANGED <<entries, cutShort, reopened>>
      /\ mails' = [mails EXCEPT ![j] = Counted(@)]
      /\ SaveAndLeave(e, rec)
  BY DEF Announce, At, Holding, historyVars
<1>2. /\ j \in Job /\ Videos[j] = 1 /\ JobSound(sessions, keyOf, jobs[j], j)
      /\ keyOf[j] # None
      /\ \A d \in Execution : exec[d].pc \in Holding => d = e
  BY <1>1, VideoThere, Holder
<1>3. rec.status = "complete" /\ (jobs[j].status = "complete" \/ j \in reopened)
  BY <1>1 DEF EffectsInv, EffectsAgree, EffectSound
<1>4. mails[j] > 0 => j \in reopened
  BY <1>1, AnnouncedOnce
<1>5. Becomes(e, y) /\ y.pc = "next" /\ jobs' = [jobs EXCEPT ![j] = rec]
  BY <1>1, Leaves DEF GoesOn
<1> HIDE DEF y, j, rec
<1>6. /\ exec'[e] = y /\ \A d \in Execution : d # e => exec'[d] = exec[d]
      /\ jobs'[j] = rec /\ \A i \in Job : i # j => jobs'[i] = jobs[i]
  BY <1>2, <1>5, Others DEF Core, SharedTypeOK
<1>7. \A d \in Execution : exec'[d].pc \notin Holding
  BY <1>2, <1>5, <1>6 DEF Holding
<1>8. EffectsAgree'
  <2>1. EffectSound(jobs', entries', reopened', y)
    BY <1>5 DEF EffectSound, Copying, Holding
  <2> QED
    BY <1>1, <1>5, <2>1, EffectsOthers
<1>9. ASSUME NEW i \in Job, entries'[i] > 0
      PROVE  EntrySound(exec', jobs'[i], cutShort', reopened', i)
  <2>1. EntrySound(exec, jobs[i], cutShort, reopened, i)
    BY <1>1, <1>9 DEF EffectsInv, EntriesAgree
  <2>2. CASE i = j
    BY <1>3, <1>6, <2>2 DEF EntrySound
  <2>3. CASE i # j
    BY <1>1, <1>2, <1>6, <2>1, <2>3 DEF EntrySound, Holding
  <2> QED
    BY <2>2, <2>3
<1>10. ASSUME NEW i \in Job, mails'[i] > 0
       PROVE  MailSound(exec', jobs'[i], reopened', i)
  <2>1. CASE i = j
    BY <1>3, <1>6, <1>7, <2>1 DEF MailSound
  <2>2. CASE i # j
    <3>1. mails[i] = mails'[i]
      BY <1>1, <2>2 DEF OutsideTypeOK
    <3>2. MailSound(exec, jobs[i], reopened, i)
      BY <1>10, <3>1 DEF EffectsInv, MailsAgree
    <3> QED
      BY <1>1, <1>6, <1>7, <2>2, <3>2 DEF MailSound
  <2> QED
    BY <2>1, <2>2
<1>11. EffectsInv'
  BY <1>8, <1>9, <1>10 DEF EffectsInv, EntriesAgree, MailsAgree
<1>12. \/ Stage' = Stage
       \/ /\ Stage[j] = "pending" /\ j \in reopened
          /\ Stage' = [Stage EXCEPT ![j] = "complete"]
  <2>1. CASE jobs[j].status = "complete"
    <3>1. \A i \in Job : /\ jobs'[i].status = "absent" <=> jobs[i].status = "absent"
                         /\ jobs'[i].status = "complete" <=> jobs[i].status = "complete"
      BY <1>3, <1>6, <2>1
    <3> QED
      BY <3>1, StageKept
  <2>2. CASE jobs[j].status # "complete"
    <3>1. jobs[j].status # "absent"
      BY <1>2 DEF JobSound
    <3>2. Stage[j] = "pending"
      BY <1>2, <2>2, <3>1, StageOf
    <3>3. Stage' = [Stage EXCEPT ![j] = "complete"]
      BY <1>2, <1>3, <1>5, StageSaved DEF Core
    <3> QED
      BY <1>3, <2>2, <3>2, <3>3
  <2> QED
    BY <2>1, <2>2
<1>13. Videos' = Videos
  BY <1>1, VideosKept
<1>14. Maps
  BY <1>1, <1>2, <1>4, <1>12, <1>13, MailMaps
<1> QED
  BY <1>11, <1>14

\* The platform stops an execution: between the playlist and the save, or
\* with the mail on its way, or before any of that.
LEMMA KillMaps ==
    ASSUME Core, EffectsInv, OutsideTypeOK, NEW e \in Execution, Kill(e)
    PROVE  EffectsInv' /\ Maps
<1> DEFINE j == exec[e].job
<1>1. /\ UNCHANGED <<jobs, sessions, entries, reopened>>
      /\ cutShort' = (IF exec[e].pc = "complete" THEN cutShort \cup {j} ELSE cutShort)
      /\ mails' # mails => exec[e].pc = "announce" /\ mails' = [mails EXCEPT ![j] = Counted(@)]
  BY DEF Kill, At
<1>2. Becomes(e, Idle) /\ Idle.pc = "idle"
  BY IdleRun DEF Kill, End, Becomes
<1>3. exec'[e] = Idle /\ \A d \in Execution : d # e => exec'[d] = exec[d]
  BY <1>2, Others DEF Core
<1>4. Stage' = Stage /\ Videos' = Videos
  BY <1>1, StageKept, VideosKept
<1>5. CASE exec[e].pc \notin Finalizing
  <2>1. exec[e].pc # "complete" /\ Idle.pc \notin Copying
    BY <1>2, <1>5 DEF Finalizing, Copying, Holding
  <2>2. Outside
    BY <1>1, <1>5 DEF Outside, Finalizing
  <2> QED
    BY <1>1, <1>2, <2>1, <2>2, QuietMaps
<1>6. ASSUME exec[e].pc \in Finalizing
      PROVE  /\ j \in Job /\ exec[e].pc \in Holding /\ EffectsAgree'
             /\ \A d \in Execution : exec[d].pc \in Holding => d = e
             /\ \A d \in Execution : exec'[d].pc \notin Holding
  <2>1. exec[e].pc \in Holding
    BY <1>6 DEF Finalizing, Holding
  <2>2. EffectSound(jobs', entries', reopened', Idle)
    BY <1>2 DEF EffectSound, Copying, Holding
  <2>3. EffectsAgree'
    BY <1>2, <2>1, <2>2, EffectsOthers
  <2>4. j \in Job /\ \A d \in Execution : exec[d].pc \in Holding => d = e
    BY <2>1, Holder
  <2>5. \A d \in Execution : exec'[d].pc \notin Holding
    BY <1>2, <1>3, <2>4 DEF Holding
  <2> QED
    BY <2>1, <2>3, <2>4, <2>5
<1>7. CASE exec[e].pc = "complete"
  <2>1. /\ j \in Job /\ EffectsAgree' /\ mails' = mails
        /\ \A d \in Execution : exec[d].pc \in Holding => d = e
        /\ \A d \in Execution : exec'[d].pc \notin Holding
        /\ cutShort' = cutShort \cup {j}
    BY <1>1, <1>6, <1>7 DEF Finalizing
  <2>2. Stage[j] = "pending" /\ entries[j] > 0
    BY <1>7, Unfinished DEF EffectsInv, EffectsAgree, EffectSound, Holding
  <2>3. Lifecycle!CutShort(j)
    BY <1>1, <1>4, <2>1, <2>2 DEF Lifecycle!CutShort
  <2>4. ASSUME NEW i \in Job, entries'[i] > 0
        PROVE  EntrySound(exec', jobs'[i], cutShort', reopened', i)
    <3>1. EntrySound(exec, jobs[i], cutShort, reopened, i)
      BY <1>1, <2>4 DEF EffectsInv, EntriesAgree
    <3>2. \A d \in Execution : exec[d].pc = "complete" => exec[d].job = j
      BY <2>1 DEF Holding
    <3> HIDE DEF j
    <3> QED
      BY <1>1, <2>1, <3>1, <3>2 DEF EntrySound
  <2>5. ASSUME NEW i \in Job, mails'[i] > 0
        PROVE  MailSound(exec', jobs'[i], reopened', i)
    <3>1. MailSound(exec, jobs[i], reopened, i)
      BY <2>1, <2>5 DEF EffectsInv, MailsAgree
    <3> QED
      BY <1>1, <2>1, <3>1 DEF MailSound
  <2> QED
    BY <2>1, <2>3, <2>4, <2>5 DEF EffectsInv, EntriesAgree, MailsAgree, Maps, Lifecycle!Next
<1>8. CASE exec[e].pc = "announce"
  <2>1. /\ j \in Job /\ EffectsAgree' /\ cutShort' = cutShort
        /\ \A d \in Execution : exec[d].pc \in Holding => d = e
        /\ \A d \in Execution : exec'[d].pc \notin Holding
    BY <1>1, <1>6, <1>8 DEF Finalizing
  <2>2. jobs[j].status = "complete" \/ j \in reopened
    BY <1>8 DEF EffectsInv, EffectsAgree, EffectSound
  <2>3. (mails[j] > 0 => j \in reopened) /\ Videos[j] = 1
    BY <1>8, AnnouncedOnce, VideoThere
  <2>4. Maps
    <3>1. CASE mails' = mails
      BY <1>1, <1>4, <2>1, <3>1, Stutters DEF Maps, Outside
    <3>2. CASE mails' = [mails EXCEPT ![j] = Counted(@)]
      <4> HIDE DEF j
      <4> QED
        BY <1>1, <1>4, <2>1, <2>3, <3>2, MailMaps
    <3> QED
      BY <1>1, <3>1, <3>2
  <2>5. ASSUME NEW i \in Job, entries'[i] > 0
        PROVE  EntrySound(exec', jobs'[i], cutShort', reopened', i)
    <3>1. EntrySound(exec, jobs[i], cutShort, reopened, i)
      BY <1>1, <2>5 DEF EffectsInv, EntriesAgree
    <3>2. \A d \in Execution : exec[d].pc # "complete"
      BY <1>8, <2>1 DEF Holding
    <3> QED
      BY <1>1, <2>1, <3>1, <3>2 DEF EntrySound
  <2>6. ASSUME NEW i \in Job, mails'[i] > 0
        PROVE  MailSound(exec', jobs'[i], reopened', i)
    <3>1. CASE i = j
      BY <1>1, <2>1, <2>2, <3>1 DEF MailSound
    <3>2. CASE i # j
      <4>1. mails'[i] = mails[i]
        BY <1>1, <3>2 DEF OutsideTypeOK
      <4>2. MailSound(exec, jobs[i], reopened, i)
        BY <2>6, <4>1 DEF EffectsInv, MailsAgree
      <4> QED
        BY <1>1, <2>1, <4>2 DEF MailSound
    <3> QED
      BY <3>1, <3>2
  <2> QED
    BY <2>1, <2>4, <2>5, <2>6 DEF EffectsInv, EntriesAgree, MailsAgree
<1> QED
  BY <1>5, <1>7, <1>8 DEF Finalizing

\* The steps of the reservations and of the sessions change nothing that
\* UploadLifecycle sees.
LEMMA OutsideMaps ==
    ASSUME Core, EffectsInv,
           \/ \E k \in Key : ReservationAges(k)
           \/ \E s \in Session : SessionExpires(s)
           \/ UNCHANGED vars
    PROVE  EffectsInv' /\ Maps
<1>1. UNCHANGED <<jobs, exec>> /\ Outside
  BY DEF ReservationAges, SessionExpires, vars, Outside, outsideVars, effectVars, historyVars
<1>2. EffectsInv'
  BY <1>1 DEF EffectsInv, EffectsAgree, EntriesAgree, MailsAgree, Outside, EntrySound, MailSound
<1>3. \A s \in Session : /\ sessions'[s].state = "done" <=> sessions[s].state = "done"
                         /\ sessions[s].state = "done" => sessions'[s].job = sessions[s].job
  <2>1. CASE sessions' = sessions
    BY <2>1
  <2>2. ASSUME NEW t \in Session, SessionExpires(t)
        PROVE  \A s \in Session :
                 /\ sessions'[s].state = "done" <=> sessions[s].state = "done"
                 /\ sessions[s].state = "done" => sessions'[s].job = sessions[s].job
    BY <2>2 DEF SessionExpires, Core, SharedTypeOK, SessionRecord
  <2> QED
    BY <2>1, <2>2 DEF ReservationAges, vars
<1>4. Stage' = Stage /\ Videos' = Videos
  BY <1>1, <1>3, StageKept, VideosKept
<1> QED
  BY <1>1, <1>2, <1>4, Stutters DEF Maps

LEMMA LifecycleStart == Init => EffectsInv /\ Lifecycle!Init
<1> SUFFICES ASSUME Init PROVE EffectsInv /\ Lifecycle!Init
  OBVIOUS
<1>1. EffectsInv
  BY IdleRun DEF Init, EffectsInv, EffectsAgree, EntriesAgree, MailsAgree, EffectSound, Copying,
     Holding
<1>2. \A j \in Job : Stage[j] = "none" /\ Videos[j] = 0
  <2>1. ASSUME NEW j \in Job
        PROVE  VideosOf(j) = {} /\ Stage[j] = "none"
    BY <2>1, JobRecords DEF Init, VideosOf, Stage
  <2> QED
    BY <2>1, FS_EmptySet DEF Videos
<1>3. Stage = [j \in Job |-> "none"] /\ Videos = [j \in Job |-> 0]
  BY <1>2 DEF Stage, Videos
<1> QED
  BY <1>1, <1>3 DEF Init, Lifecycle!Init

LEMMA LifecycleStep ==
    ASSUME Core, OutsideTypeOK, EffectsInv, [Next]_vars
    PROVE  EffectsInv' /\ Maps
<1>1. ASSUME NEW e \in Execution, StartStep(e)
      PROVE  EffectsInv' /\ Maps
  BY <1>1, StartMaps, CreateMaps, SaveAgainMaps, Zenon DEF StartStep
<1>2. ASSUME NEW e \in Execution, ProcessStep(e)
      PROVE  EffectsInv' /\ Maps
  BY <1>2, LoadMaps, StartMaps, SyncMaps, PutMaps, StopMaps, InsertMaps, SaveCompleteMaps,
     AnnounceMaps, Zenon DEF ProcessStep, Finalize
<1>3. ASSUME NEW e \in Execution, \E k \in Key \cup {NoKey} : StartUpload(e, k)
      PROVE  EffectsInv' /\ Maps
  BY <1>3, StartMaps
<1> QED
  BY <1>1, <1>2, <1>3, StartMaps, BeginMaps, SyncMaps, PutMaps, KillMaps, OutsideMaps, Zenon
     DEF Next

\* Playlist entries, mails and the stored jobs agree in every reachable state:
\* only a job that was stopped at the last save or put back in the queue is
\* finalised a second time.
THEOREM EffectsInvariance == Spec => []EffectsInv
<1>1. QueueInv /\ EffectsInv /\ [Next]_vars => EffectsInv'
  BY CoreParts, LifecycleStep
<1> QED
  BY <1>1, LifecycleStart, QueueInvariance, PTL DEF Spec

\* The queue implements UploadLifecycle: every step of an execution, of the
\* platform or of YouTube is a step of a job's life, or none that is seen.
THEOREM QueueRefinement == Spec => ImplementsLifecycle
<1>1. QueueInv /\ EffectsInv /\ [Next]_vars => [Lifecycle!Next]_(Lifecycle!vars)
  <2>1. ASSUME QueueInv, EffectsInv, [Next]_vars
        PROVE  Lifecycle!Next \/ UNCHANGED Lifecycle!vars
    BY <2>1, CoreParts, LifecycleStep DEF Maps
  <2> QED
    BY <2>1
<1>2. Init => Lifecycle!Init
  BY LifecycleStart
<1> QED
  BY <1>1, <1>2, QueueInvariance, EffectsInvariance, PTL
     DEF Spec, ImplementsLifecycle, Lifecycle!Spec

=============================================================================
