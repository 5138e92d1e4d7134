----------------------------- MODULE MtlsListener -----------------------------
(***************************************************************************)
(* The mutual-TLS operation listener of src/transport_runtime.rs           *)
(* (serve_mtls_tcp, serve_tls_connection, process_payload), spawned by     *)
(* src/server.rs, with the service that executes what its peers ask        *)
(* (RuntimeOperationService::execute, through Shared Auth).                *)
(*                                                                         *)
(* The actors are the listener, one task per accepted connection, the      *)
(* peers, which may send ahead, stop reading, or leave, and Shared Auth,   *)
(* which may revoke a bearer at any time.  A bearer is named by the        *)
(* subject Shared Auth returns for it.  Durations are not modelled: what   *)
(* has a timeout may run out of time at any moment.  What has none, the    *)
(* wait for a peer's next frame, only ends by the peer.                    *)
(***************************************************************************)
EXTENDS Naturals, Sequences, FiniteSets

CONSTANTS
    Connection,      \* TCP connections peers may make
    Subject,         \* whom envelopes name
    Bearer,          \* the subjects that have a bearer
    MaxConnections,  \* max_connections of serve_mtls_tcp
    MaxFrames        \* bound on the frames sent, over all connections

ASSUME ListenerAssumption ==
    Bearer \subseteq Subject /\ MaxConnections \in Nat \ {0} /\ MaxFrames \in Nat

\* A frame is an operation that validates, a payload that does not, or bytes
\* the length-delimited codec refuses (a length above MAX_TRANSPORT_BYTES).
Frame ==
    [form: {"sound"}, bearer: Bearer, subject: Subject]
        \cup [form: {"invalid", "unreadable"}]

\* OperationReply: the position of the frame it names by its operation id, 0
\* without one, and its code.
Reply == [to: Nat, code: {"ok", "invalid_request", "unauthorized", "failed"}]

VARIABLES
    listening,  \* the task of serve_mtls_tcp is running
    permits,    \* permits left in its semaphore
    at,         \* where a connection, and then its task, is
    gone,       \* connections whose peer will send no more
    sent,       \* frames the peer sent, and whether their bearer was revoked by then
    taken,      \* how many of them the codec has decoded
    broken,     \* connections whose stream gave an error: it ends after the reply
    reply,      \* the reply a task is sending
    replies,    \* the replies written to a connection
    revoked     \* bearers Shared Auth no longer accepts

listenerVars == <<listening, permits>>
peerVars == <<gone, sent>>
taskVars == <<taken, broken, reply, replies>>
vars == <<listenerVars, at, peerVars, taskVars, revoked>>

InTask == {"handshake", "reading", "executing", "sending"}

\* The connections whose task holds a permit.
Held == {c \in Connection : at[c] \in InTask}

NoReply    == [to |-> 0, code |-> "failed"]
BadFrame   == [to |-> 0, code |-> "invalid_request"]

TypeOK ==
    /\ listening \in BOOLEAN
    /\ permits \in 0..MaxConnections
    /\ at \in [Connection -> {"absent", "queued", "done"} \cup InTask]
    /\ gone \subseteq Connection /\ broken \subseteq Connection
    /\ sent \in [Connection -> Seq([frame: Frame, revoked: BOOLEAN])]
    /\ taken \in [Connection -> Nat]
    /\ reply \in [Connection -> Reply]
    /\ replies \in [Connection -> Seq(Reply)]
    /\ revoked \subseteq Bearer

Init ==
    /\ listening = TRUE /\ permits = MaxConnections
    /\ at = [c \in Connection |-> "absent"]
    /\ gone = {} /\ sent = [c \in Connection |-> <<>>]
    /\ taken = [c \in Connection |-> 0] /\ broken = {}
    /\ reply = [c \in Connection |-> NoReply]
    /\ replies = [c \in Connection |-> <<>>]
    /\ revoked = {}

-----------------------------------------------------------------------------
(* The listener.                                                           *)

\* Slip: the connection is accepted without a permit to take.
AcceptAlways(c) ==
    /\ listening /\ at[c] = "queued"
    /\ permits' = permits - 1
    /\ at' = [at EXCEPT ![c] = "handshake"]
    /\ UNCHANGED <<listening, peerVars, taskVars, revoked>>

Accept(c) ==
    /\ listening /\ at[c] = "queued" /\ permits > 0
    /\ permits' = permits - 1
    /\ at' = [at EXCEPT ![c] = "handshake"]
    /\ UNCHANGED <<listening, peerVars, taskVars, revoked>>

\* At capacity the new connection is dropped at once.
Reject(c) ==
    /\ listening /\ at[c] = "queued" /\ permits = 0
    /\ at' = [at EXCEPT ![c] = "done"]
    /\ UNCHANGED <<listenerVars, peerVars, taskVars, revoked>>

\* An error of accept ends the listener for good, and closes what it had not
\* accepted.  The tasks it spawned go on.
AcceptFails ==
    /\ listening /\ listening' = FALSE
    /\ at' = [c \in Connection |-> IF at[c] = "queued" THEN "done" ELSE at[c]]
    /\ UNCHANGED <<permits, peerVars, taskVars, revoked>>

-----------------------------------------------------------------------------
(* One connection's task.                                                  *)

\* The task ends and its permit returns.
Close(c) ==
    /\ at' = [at EXCEPT ![c] = "done"]
    /\ permits' = permits + 1
    /\ UNCHANGED listening

Handshake(c) ==
    /\ at[c] = "handshake" /\ c \notin gone
    /\ at' = [at EXCEPT ![c] = "reading"]
    /\ UNCHANGED <<listenerVars, peerVars, taskVars, revoked>>

\* Slips: the permit is forgotten when no TLS session comes about; and a
\* silent peer is waited for.
ForgetPermit(c) ==
    /\ at[c] = "handshake"
    /\ at' = [at EXCEPT ![c] = "done"]
    /\ UNCHANGED <<listenerVars, peerVars, taskVars, revoked>>

WaitForHandshake(c) ==
    /\ at[c] = "handshake" /\ c \in gone
    /\ Close(c)
    /\ UNCHANGED <<peerVars, taskVars, revoked>>

\* The handshake is refused, or OPERATION_TIMEOUT passes.
HandshakeFails(c) ==
    /\ at[c] = "handshake"
    /\ Close(c)
    /\ UNCHANGED <<peerVars, taskVars, revoked>>

NextFrame(c) == sent[c][taken[c] + 1].frame

Unread(c) == taken[c] < Len(sent[c])

\* Slip: the next frame is read while an operation is executed.
ReadAhead(c) ==
    /\ at[c] \in {"reading", "executing"} /\ Unread(c) /\ NextFrame(c).form = "sound"
    /\ taken' = [taken EXCEPT ![c] = @ + 1]
    /\ at' = [at EXCEPT ![c] = "executing"]
    /\ UNCHANGED <<listenerVars, peerVars, broken, reply, replies, revoked>>

\* A frame is decoded.  What does not parse is answered without an id; what
\* parses and does not validate, with it.
ReadFrame(c) ==
    /\ at[c] = "reading" /\ Unread(c) /\ NextFrame(c).form # "unreadable"
    /\ taken' = [taken EXCEPT ![c] = @ + 1]
    /\ \/ /\ NextFrame(c).form = "sound"
          /\ at' = [at EXCEPT ![c] = "executing"] /\ UNCHANGED reply
       \/ /\ NextFrame(c).form = "invalid"
          /\ at' = [at EXCEPT ![c] = "sending"]
          /\ \E answer \in [to: {0}, code: {"invalid_request"}]
                     \cup [to: {taken'[c]}, code: {"invalid_request", "unauthorized"}] :
               reply' = [reply EXCEPT ![c] = answer]
    /\ UNCHANGED <<listenerVars, peerVars, broken, replies, revoked>>

\* The stream gives an error: bytes the codec refuses, a frame cut short, a
\* connection reset.  That too is answered, and is the last answer.
ReadFails(c) ==
    /\ at[c] = "reading"
    /\ c \in gone \/ (Unread(c) /\ NextFrame(c).form = "unreadable")
    /\ broken' = broken \cup {c}
    /\ reply' = [reply EXCEPT ![c] = BadFrame]
    /\ at' = [at EXCEPT ![c] = "sending"]
    /\ UNCHANGED <<listenerVars, peerVars, taken, replies, revoked>>

\* The peer closed the connection and everything it sent has been read.
ReadEnd(c) ==
    /\ at[c] = "reading" /\ ~Unread(c) /\ c \in gone
    /\ Close(c)
    /\ UNCHANGED <<peerVars, taskVars, revoked>>

Answer(c, code) ==
    /\ reply' = [reply EXCEPT ![c] = [to |-> taken[c], code |-> code]]
    /\ at' = [at EXCEPT ![c] = "sending"]

\* RuntimeOperationService::execute, for the frame the task holds: Shared
\* Auth verifies its bearer, now, and the verified subject must be the
\* envelope's.
Permitted(c) ==
    LET frame == sent[c][taken[c]].frame IN
    frame.bearer \notin revoked /\ frame.bearer = frame.subject

\* Slip: a connection that was served once is served.
TrustConnection(c) ==
    /\ at[c] = "executing"
    /\ Answer(c, IF Permitted(c) \/ \E i \in 1..Len(replies[c]) : replies[c][i].code = "ok"
                 THEN "ok" ELSE "unauthorized")
    /\ UNCHANGED <<listenerVars, peerVars, taken, broken, replies, revoked>>

Execute(c) ==
    /\ at[c] = "executing"
    /\ Answer(c, IF Permitted(c) THEN "ok" ELSE "unauthorized")
    /\ UNCHANGED <<listenerVars, peerVars, taken, broken, replies, revoked>>

\* Slip: an execution that hangs is waited for.
ExecuteWithoutTimeout(c) ==
    /\ at[c] = "executing" /\ c \in gone
    /\ Answer(c, "failed")
    /\ UNCHANGED <<listenerVars, peerVars, taken, broken, replies, revoked>>

\* Shared Auth is unavailable, the operation unsupported, or the time over.
ExecuteFails(c) ==
    /\ at[c] = "executing"
    /\ Answer(c, "failed")
    /\ UNCHANGED <<listenerVars, peerVars, taken, broken, replies, revoked>>

\* After an error the stream yields no other frame.
SendReply(c) ==
    /\ at[c] = "sending"
    /\ replies' = [replies EXCEPT ![c] = Append(@, reply[c])]
    /\ \/ c \in broken /\ Close(c)
       \/ /\ c \notin broken /\ at' = [at EXCEPT ![c] = "reading"]
          /\ UNCHANGED listenerVars
    /\ UNCHANGED <<peerVars, taken, broken, reply, revoked>>

\* The reply is too long, the peer does not read it in time, or writing fails.
SendFails(c) ==
    /\ at[c] = "sending"
    /\ Close(c)
    /\ UNCHANGED <<peerVars, taskVars, revoked>>

Read(c) == ReadFrame(c) \/ ReadFails(c) \/ ReadEnd(c)

-----------------------------------------------------------------------------
(* The peers and Shared Auth.                                              *)

Connect(c) ==
    /\ listening /\ at[c] = "absent"
    /\ at' = [at EXCEPT ![c] = "queued"]
    /\ UNCHANGED <<listenerVars, peerVars, taskVars, revoked>>

SentFrames == {m \in Connection \X (1..MaxFrames) : m[2] <= Len(sent[m[1]])}

\* A peer need not wait for a reply before it sends the next frame.
Send(c, frame) ==
    /\ at[c] \in {"reading", "executing", "sending"} /\ c \notin gone
    /\ Cardinality(SentFrames) < MaxFrames
    /\ LET late == frame.form = "sound" /\ frame.bearer \in revoked IN
       sent' = [sent EXCEPT ![c] = Append(@, [frame |-> frame, revoked |-> late])]
    /\ UNCHANGED <<listenerVars, at, gone, taskVars, revoked>>

HangUp(c) ==
    /\ at[c] \in InTask /\ c \notin gone
    /\ gone' = gone \cup {c}
    /\ UNCHANGED <<listenerVars, at, sent, taskVars, revoked>>

Revoke(b) ==
    /\ b \notin revoked
    /\ revoked' = revoked \cup {b}
    /\ UNCHANGED <<listenerVars, at, peerVars, taskVars>>

-----------------------------------------------------------------------------
Next ==
    \/ AcceptFails
    \/ \E c \in Connection :
         \/ Connect(c) \/ Accept(c) \/ Reject(c)
         \/ Handshake(c) \/ HandshakeFails(c)
         \/ Read(c)
         \/ Execute(c) \/ ExecuteFails(c)
         \/ SendReply(c) \/ SendFails(c)
         \/ HangUp(c)
         \/ \E frame \in Frame : Send(c, frame)
    \/ \E b \in Bearer : Revoke(b)

Spec == Init /\ [][Next]_vars

\* The runtime polls a task whose stream is ready, and the three timeouts run
\* out.  Nothing is assumed of peers, Shared Auth or accept.
FairSpec ==
    /\ Spec
    /\ \A c \in Connection :
         /\ WF_vars(HandshakeFails(c)) /\ WF_vars(Read(c))
         /\ WF_vars(ExecuteFails(c)) /\ WF_vars(SendFails(c))

-----------------------------------------------------------------------------
(* Properties.                                                             *)

\* No way a task can end (refused or late handshake, end of stream, error,
\* unsent reply, with the listener running or stopped) loses a permit or
\* returns it twice.
PermitsAreAccounted == permits + Cardinality(Held) = MaxConnections

\* r may stand in the place of the reply to c's i-th frame.
Answers(c, i, r) ==
    r.to = i \/ (r.to = 0 /\ sent[c][i].frame.form = "invalid")

Authenticated(c, i) ==
    LET m == sent[c][i] IN
    m.frame.form = "sound" /\ m.frame.bearer = m.frame.subject /\ ~m.revoked

RepliesMatchOn(c) ==
    /\ taken[c] <= Len(replies[c]) + 1
    /\ taken[c] = Len(replies[c]) + 1 => at[c] \in {"executing", "sending", "done"}
    /\ \A i \in 1..Len(replies[c]) :
         IF i <= taken[c]
         THEN Answers(c, i, replies[c][i])
         ELSE replies[c][i] = BadFrame /\ c \in broken /\ i = Len(replies[c])

\* A peer that sends ahead can match replies with frames by their order
\* alone: operations on a connection never overlap, none is skipped, a reply
\* with an id names the frame in its place, and an error that answers no
\* frame is the last reply.
RepliesMatchFrames == \A c \in Connection : RepliesMatchOn(c)

ServedOn(c) ==
    \A i \in 1..Len(replies[c]) : replies[c][i].code = "ok" => Authenticated(c, i)

\* README.md: every operation is authenticated "rather than trusting
\* connection age".  What is served names its bearer's own subject, and the
\* bearer was not revoked before the frame was sent, however long ago the
\* connection was made and whatever it was served before.
ServedIsAuthenticated == \A c \in Connection : ServedOn(c)

\* A peer cannot hold a permit by stalling the handshake, an operation or a
\* reply: the permit returns, or its task waits for the peer's next frame.
PermitComesBack ==
    \A c \in Connection :
        c \in Held ~> (c \notin Held \/ (at[c] = "reading" /\ ~Unread(c) /\ c \notin gone))

\* Every frame is answered or its connection is closed, although Shared Auth
\* never answers and the peer never reads.
FramesAreAnswered ==
    \A c \in Connection : \A n \in 1..MaxFrames :
        Len(sent[c]) >= n ~> (Len(replies[c]) >= n \/ at[c] = "done")

-----------------------------------------------------------------------------
(* The inductive invariant behind the safety properties.                   *)

\* Where a task is decides how far its replies are behind its frames, and
\* what the reply it is sending may be.
TaskAgreesOn(c) ==
    /\ taken[c] <= Len(sent[c])
    /\ at[c] \in {"absent", "queued", "handshake", "reading"} =>
         taken[c] = Len(replies[c]) /\ c \notin broken
    /\ at[c] = "executing" =>
         /\ taken[c] = Len(replies[c]) + 1 /\ c \notin broken
         /\ sent[c][taken[c]].frame.form = "sound"
    /\ at[c] = "sending" =>
         \/ c \in broken /\ taken[c] = Len(replies[c]) /\ reply[c] = BadFrame
         \/ /\ c \notin broken /\ taken[c] = Len(replies[c]) + 1
            /\ Answers(c, taken[c], reply[c])
            /\ reply[c].code = "ok" => Authenticated(c, taken[c])

\* What was revoked stays revoked.
RevokedOn(c) ==
    \A i \in 1..Len(sent[c]) :
        sent[c][i].revoked => sent[c][i].frame.form = "sound"
                              /\ sent[c][i].frame.bearer \in revoked

ConnectionInv(c) ==
    TaskAgreesOn(c) /\ RevokedOn(c) /\ RepliesMatchOn(c) /\ ServedOn(c)

PermitsInv == IsFiniteSet(Held) /\ PermitsAreAccounted

IInv == TypeOK /\ PermitsInv /\ \A c \in Connection : ConnectionInv(c)

=============================================================================
