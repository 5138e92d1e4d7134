--------------------------- MODULE VideoVisibility ---------------------------
(***************************************************************************)
(* What the control plane and its bridge promise to whoever watches, with  *)
(* no requests, policies or executions: a video shows what was written to  *)
(* it last, by somebody who had decided on it when that was permitted, or  *)
(* had found the video so and writes that back.  Nothing else changes it   *)
(* but its upload and the time its owner set.  Several may be about to     *)
(* write at once: only a writer who began before can undo a decision.      *)
(***************************************************************************)
CONSTANTS
    Actor,    \* who may be about to write
    Video,
    Visible   \* privacy values other than "private"

VARIABLES
    shown,    \* status of each video: privacy, scheduled
    intent,   \* what each actor is about to write, {} for nothing
    allowed,  \* the switch for public decisions
    due       \* the time of every scheduled publication has passed

vars == <<shown, intent, allowed, due>>

Absent == [privacy |-> "absent", scheduled |-> FALSE]
Hidden == [privacy |-> "private", scheduled |-> FALSE]

Init ==
    /\ shown \in [Video -> {Absent, Hidden}]
    /\ intent = [c \in Actor |-> {}]
    /\ allowed = FALSE /\ due = FALSE

Upload(v) ==
    /\ shown[v] = Absent /\ shown' = [shown EXCEPT ![v] = Hidden]
    /\ UNCHANGED <<intent, allowed, due>>

\* Permission counts when the decision is made, not when it is written.
Decide(c, v, p, at) ==
    /\ intent[c] = {} /\ (p \in Visible => allowed)
    /\ intent' = [intent EXCEPT ![c] = {[video |-> v, status |-> [privacy |-> p, scheduled |-> at]]}]
    /\ UNCHANGED <<shown, allowed, due>>

Find(c, v) ==
    /\ intent[c] = {} /\ shown[v].privacy # "absent"
    /\ intent' = [intent EXCEPT ![c] = {[video |-> v, status |-> shown[v]]}]
    /\ UNCHANGED <<shown, allowed, due>>

Write(c) ==
    /\ \E i \in intent[c] :
         /\ i.status.scheduled => i.status.privacy = "private" /\ ~due
         /\ shown' = [shown EXCEPT ![i.video] = i.status]
    /\ intent' = [intent EXCEPT ![c] = {}]
    /\ UNCHANGED <<allowed, due>>

GiveUp(c) ==
    /\ intent[c] # {} /\ intent' = [intent EXCEPT ![c] = {}]
    /\ UNCHANGED <<shown, allowed, due>>

Switch ==
    /\ allowed' = ~allowed
    /\ UNCHANGED <<shown, intent, due>>

TimeComes(p) ==
    /\ ~due /\ due' = TRUE
    /\ shown' = [v \in Video |-> IF shown[v].scheduled
                                 THEN [privacy |-> p, scheduled |-> FALSE] ELSE shown[v]]
    /\ UNCHANGED <<intent, allowed>>

Next ==
    \/ \E v \in Video : Upload(v)
    \/ \E c \in Actor :
         \/ \E v \in Video, p \in {"private"} \cup Visible, at \in BOOLEAN : Decide(c, v, p, at)
         \/ \E v \in Video : Find(c, v)
         \/ Write(c) \/ GiveUp(c)
    \/ Switch
    \/ \E p \in Visible : TimeComes(p)

Spec == Init /\ [][Next]_vars

=============================================================================
