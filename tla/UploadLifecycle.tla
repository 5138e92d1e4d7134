--------------------------- MODULE UploadLifecycle ---------------------------
(***************************************************************************)
(* What the upload queue promises about a job, without executions, locks,  *)
(* sessions or chunks: one video is made of it; once there is a video, it  *)
(* is put on its playlist, the job is complete, and a mail says so.  The   *)
(* two effects outside are repeated only if the finalisation was cut short *)
(* after the first of them, or a complete job was put back in the queue.   *)
(***************************************************************************)
EXTENDS Naturals

CONSTANTS Job

VARIABLES
    stage,     \* of each job: "none", "pending" or "complete"
    videos,    \* how many videos were made of it
    entries,   \* how often it was put on its playlist, 2 for more than once
    mails,     \* how often its completion was mailed, likewise
    cutShort,  \* jobs whose finalisation was stopped after the playlist
    reopened   \* jobs put back in the queue after they were complete

vars == <<stage, videos, entries, mails, cutShort, reopened>>

Init ==
    /\ stage = [j \in Job |-> "none"]
    /\ videos = [j \in Job |-> 0]
    /\ entries = [j \in Job |-> 0] /\ mails = [j \in Job |-> 0]
    /\ cutShort = {} /\ reopened = {}

Register(j) ==
    /\ stage[j] = "none" /\ stage' = [stage EXCEPT ![j] = "pending"]
    /\ UNCHANGED <<videos, entries, mails, cutShort, reopened>>

MakeVideo(j) ==
    /\ stage[j] # "none" /\ videos[j] = 0
    /\ videos' = [videos EXCEPT ![j] = 1]
    /\ UNCHANGED <<stage, entries, mails, cutShort, reopened>>

Insert(j) ==
    /\ stage[j] = "pending" /\ videos[j] = 1
    /\ entries[j] = 0 \/ (entries[j] = 1 /\ j \in cutShort \cup reopened)
    /\ entries' = [entries EXCEPT ![j] = @ + 1]
    /\ UNCHANGED <<stage, videos, mails, cutShort, reopened>>

Complete(j) ==
    /\ stage[j] = "pending" /\ videos[j] = 1
    /\ stage' = [stage EXCEPT ![j] = "complete"]
    /\ UNCHANGED <<videos, entries, mails, cutShort, reopened>>

Announce(j) ==
    /\ videos[j] = 1
    /\ mails[j] = 0 \/ (mails[j] = 1 /\ j \in reopened)
    /\ mails' = [mails EXCEPT ![j] = @ + 1]
    \* the save that goes with the mail takes a reopening back
    /\ \/ UNCHANGED stage
       \/ j \in reopened /\ stage' = [stage EXCEPT ![j] = "complete"]
    /\ UNCHANGED <<videos, entries, cutShort, reopened>>

CutShort(j) ==
    /\ stage[j] = "pending" /\ entries[j] > 0
    /\ cutShort' = cutShort \cup {j}
    /\ UNCHANGED <<stage, videos, entries, mails, reopened>>

Reopen(j) ==
    /\ stage[j] = "complete" /\ stage' = [stage EXCEPT ![j] = "pending"]
    /\ reopened' = reopened \cup {j}
    /\ UNCHANGED <<videos, entries, mails, cutShort>>

Next ==
    \E j \in Job :
        \/ Register(j) \/ MakeVideo(j) \/ Insert(j) \/ Complete(j) \/ Announce(j)
        \/ CutShort(j) \/ Reopen(j)

Spec == Init /\ [][Next]_vars

=============================================================================
