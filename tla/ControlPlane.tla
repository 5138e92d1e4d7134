---------------------------- MODULE ControlPlane ----------------------------
(***************************************************************************)
(* The HTTP control plane of the Rust server (src/routes.rs, src/youtube.rs*)
(* and src/auth.rs): youtube_action authorizes a request, announces it on  *)
(* NATS, checks it against the policy of prepare_payload, posts it to the  *)
(* Apps Script bridge (Publication) and reports the outcome.  The bridge   *)
(* can also be used without the server: from the owner's dashboard and     *)
(* with its own API key.                                                   *)
(*                                                                         *)
(* Server and bridge share nothing but the request and its response.  The  *)
(* server gives up waiting after its client timeout and is cancelled when  *)
(* the caller disconnects; the execution it started goes on.               *)
(***************************************************************************)
EXTENDS Publication

VARIABLES
    calls,         \* what youtube_action is doing for each call
    publicActions  \* YOUTUBE_ALLOW_PUBLIC_ACTIONS, the server's switch

vars == <<bridgeVars, calls, publicActions>>

AtRest == {"idle", "answered", "cancelled"}

TypeOK ==
    /\ BridgeTypeOK
    /\ calls \in [Call -> [pc: AtRest \cup {"authorize", "prepare", "waiting",
                                            "report", "elsewhere"},
                           req: Request,
                           event: {"none", "requested", "succeeded", "failed"},
                           outcome: {"none", "refused", "invalid", "ok", "error"}]]
    /\ publicActions \in BOOLEAN

Init ==
    /\ BridgeInit
    /\ calls = [c \in Call |-> [pc |-> "idle", req |-> CHOOSE q \in Request : TRUE,
                                event |-> "none", outcome |-> "none"]]
    /\ publicActions \in BOOLEAN

Req(c)       == calls[c].req
In(c, pc)    == calls[c].pc = pc
Moves(c, pc) == calls' = [calls EXCEPT ![c].pc = pc]
Ends(c, outcome) == calls' = [calls EXCEPT ![c].pc = "answered", ![c].outcome = outcome]

-----------------------------------------------------------------------------
(* youtube_action.                                                         *)

Arrives(c, q) ==
    /\ In(c, "idle")
    /\ calls' = [calls EXCEPT ![c].pc = "authorize", ![c].req = q]
    /\ UNCHANGED <<bridgeVars, publicActions>>

\* Shared Auth does not admit the bearer or cannot be asked, the action is
\* unknown, its header malformed, or the bridge not configured.
Refuse(c) ==
    /\ In(c, "authorize")
    /\ Ends(c, "refused")
    /\ UNCHANGED <<bridgeVars, publicActions>>

\* The event is sent if NATS is there; the request goes on in any case.
Announce(c) ==
    /\ In(c, "authorize")
    /\ calls' = [calls EXCEPT ![c].pc = "prepare", ![c].event = "requested"]
    /\ UNCHANGED <<bridgeVars, publicActions>>

\* Slip: the server leaves the public switch to the bridge.
AcceptsAnyPrivacy(q) ==
    /\ q.action = "startUpload" => q.privacy = "private"
    /\ q.action = "publishVideo" => q.confirms = q.privacy

\* What prepare_payload demands of a request it posts, besides well-formed
\* fields.
Accepts(q) ==
    /\ q.action = "startUpload" => q.privacy = "private"
    /\ q.action = "publishVideo" =>
         /\ q.privacy = "private" \/ publicActions
         /\ q.confirms = q.privacy
    /\ q.action = "createPlaylist" => q.privacy = "private" \/ publicActions

\* execute posts the prepared payload, or returns a validation error: for
\* what Accepts excludes, or for a field.
Prepare(c) ==
    /\ In(c, "prepare")
    /\ \/ Accepts(Req(c)) /\ Moves(c, "waiting") /\ Begins(c, "rust")
       \/ /\ calls' = [calls EXCEPT ![c].pc = "report", ![c].outcome = "invalid"]
          /\ UNCHANGED exec
    /\ UNCHANGED <<videos, playlists, allowed, due, confirmed, wasAllowed, publicActions>>

\* Slip: any answer that arrives counts as success.
AnyResponse(c) ==
    /\ In(c, "waiting") /\ exec[c].pc \in {"done", "failed"}
    /\ calls' = [calls EXCEPT ![c].pc = "report", ![c].outcome = "ok"]
    /\ UNCHANGED <<bridgeVars, publicActions>>

\* parse_response.
Response(c) ==
    /\ In(c, "waiting")
    /\ \/ /\ At(c, "done")
          /\ calls' = [calls EXCEPT ![c].pc = "report", ![c].outcome = "ok"]
       \/ /\ At(c, "failed")
          /\ calls' = [calls EXCEPT ![c].pc = "report", ![c].outcome = "error"]
    /\ UNCHANGED <<bridgeVars, publicActions>>

\* The client's timeout, a connection error, a redirect that is not followed,
\* or a response that is too large or not JSON.
ResponseFails(c) ==
    /\ In(c, "waiting")
    /\ calls' = [calls EXCEPT ![c].pc = "report", ![c].outcome = "error"]
    /\ UNCHANGED <<bridgeVars, publicActions>>

\* Slip: a refused payload is answered without its closing event.
ReportAnswersOnly(c) ==
    /\ In(c, "report") /\ calls[c].outcome # "invalid"
    /\ calls' = [calls EXCEPT ![c].pc = "answered",
                    ![c].event = IF calls[c].outcome = "ok" THEN "succeeded" ELSE "failed"]
    /\ UNCHANGED <<bridgeVars, publicActions>>

\* The handler answers after one attempt to publish the closing event: without
\* a client, or when publishing fails, publish_json only returns.
Report(c) ==
    /\ In(c, "report")
    /\ calls' = [calls EXCEPT ![c].pc = "answered",
                    ![c].event = IF calls[c].outcome = "ok" THEN "succeeded" ELSE "failed"]
    /\ UNCHANGED <<bridgeVars, publicActions>>

\* The caller disconnects: the handler is dropped where it waits.
Disconnect(c) ==
    /\ calls[c].pc \in {"authorize", "prepare", "waiting", "report"}
    /\ Moves(c, "cancelled")
    /\ UNCHANGED <<bridgeVars, publicActions>>

ServerStep(c) ==
    \/ Refuse(c) \/ Announce(c) \/ Prepare(c) \/ Response(c) \/ ResponseFails(c) \/ Report(c)

-----------------------------------------------------------------------------
(* Requests that do not come from the server.                              *)

Direct(c, q) ==
    /\ In(c, "idle")
    /\ calls' = [calls EXCEPT ![c].pc = "elsewhere", ![c].req = q]
    /\ Begins(c, "direct")
    /\ UNCHANGED <<videos, playlists, allowed, due, confirmed, wasAllowed, publicActions>>

Bridge ==
    /\ \/ \E c \in Call : Executes(c, Req(c))
       \/ \E on \in BOOLEAN : SaveConfig(on)
       \/ \E p \in Visible : TimeComes(p)
    /\ UNCHANGED <<calls, publicActions>>

Next ==
    \/ \E c \in Call :
         \/ \E q \in Request : Arrives(c, q) \/ Direct(c, q)
         \/ ServerStep(c) \/ Disconnect(c)
    \/ Bridge

Spec == Init /\ [][Next]_vars

\* The runtime polls every handler, and the client's timeout ends every wait.
FairSpec == Spec /\ \A c \in Call : WF_vars(ServerStep(c))

-----------------------------------------------------------------------------
(* Properties.                                                             *)

\* Whoever may see a video was confirmed.  However updates, publications and
\* the two switches interleave, a visible video was confirmed for exactly
\* that privacy, while the dashboard's switch could be seen on, through the
\* server only if its own switch is on; or a publication time was confirmed
\* for it and has come, which neither switch holds back.  No playlist was
\* made for others to see before the dashboard's switch was on.
VisibleWasConfirmed ==
    /\ playlists \cap Visible # {} => wasAllowed
    /\ \A v \in Video : videos[v].privacy \in Visible =>
         \E k \in confirmed :
           /\ k.video = v
           /\ \/ /\ k.privacy = videos[v].privacy
                 /\ wasAllowed /\ (k.via = "direct" \/ publicActions)
              \/ k.privacy = "private" /\ k.at /\ due

\* What the caller is told is so: a success was executed to its end by the
\* bridge, and a request the server refused never reached it.
AnswersAreTrue ==
    \A c \in Call :
        /\ calls[c].outcome = "ok" \/ calls[c].event = "succeeded" => At(c, "done")
        /\ calls[c].outcome \in {"refused", "invalid"} => At(c, "none")

\* What a request is about to write to a video: its decision, once it is
\* confirmed, or for a change of madeForKids the status it has read.
IntentOf(x, q) ==
    CASE q.action = "publishVideo" /\ x.pc \in {"read", "write"} ->
           {[video |-> q.video, status |-> [privacy |-> q.privacy, scheduled |-> q.at]]}
      [] q.action = "updateVideo" /\ q.kids /\ x.pc = "write" ->
           {[video |-> q.video, status |-> x.seen]}
      [] OTHER -> {}
Intent == [c \in Call |-> IntentOf(exec[c], Req(c))]

Visibility == INSTANCE VideoVisibility WITH Actor <- Call, shown <- videos, intent <- Intent

\* Nobody's view of a video changes but by its upload, its time, a decision
\* that was confirmed when the switch allowed it, or an update that writes back
\* what it found: a withdrawal is undone only by a request that had got past
\* its checks, or had read the video, before.
ImplementsVisibility == Visibility!Spec

\* A handler that announced its request comes to publish the closing event,
\* however the request ends, except when the caller disconnects.  NATS is no
\* hard dependency: whether the event arrives is not said.
AnnouncedIsReported ==
    \A c \in Call :
        calls[c].event = "requested" ~>
            (calls[c].event \in {"succeeded", "failed"} \/ In(c, "cancelled"))

=============================================================================
