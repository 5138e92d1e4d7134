----------------------------- MODULE Publication -----------------------------
(***************************************************************************)
(* The Apps Script bridge as an executor of control requests: the HTTP     *)
(* policy and dispatch of apps-script/src/02_WebApp.gs, and the actions of *)
(* 05_YouTubeService.gs that decide who may see a video.  Every request    *)
(* runs in an execution of its own; executions overlap between any two     *)
(* calls to YouTube (external) or to the configuration.  An action that    *)
(* changes nobody's view of a video (channel, analytics, thumbnails...) is *)
(* left out, and so are the fields of a request that decide nothing here:  *)
(* that one of them is missing or malformed is a failure at any time.      *)
(*                                                                         *)
(* One moment in time stands for every publishAt: "due" says it has passed.*)
(* The video of an upload appears at once; UploadQueue has the way there.  *)
(***************************************************************************)
EXTENDS Naturals

CONSTANTS
    Call,    \* the requests made in a behaviour (the bound of the model)
    Video,
    Visible, \* privacy values other than "private"
    Request  \* what the requests ask for

Privacy == {"private"} \cup Visible

RequestRecord ==
    [action: {"publishVideo", "updateVideo", "startUpload", "createPlaylist"},
     video: Video,
     privacy: Privacy,    \* privacyStatus
     at: BOOLEAN,         \* publishAt is given
     confirms: Privacy,   \* the privacy named by the confirmation phrase
     kids: BOOLEAN]       \* madeForKids is given

ASSUME PublicationAssumption ==
    /\ Visible \cap {"private", "absent"} = {}
    /\ Request \subseteq RequestRecord /\ Request # {}

VARIABLES
    videos,     \* status of each video at YouTube: privacy, scheduled
    playlists,  \* privacies of the playlists created
    allowed,    \* ALLOW_PUBLIC_UPLOADS, the dashboard's switch
    due,        \* the time of every publishAt has passed
    exec,       \* the execution of each request
    confirmed,  \* history: publications that passed the checks
    wasAllowed  \* history: the dashboard's switch has been on

bridgeVars == <<videos, playlists, allowed, due, exec, confirmed, wasAllowed>>

Hidden  == [privacy |-> "private", scheduled |-> FALSE]
NoVideo == [privacy |-> "absent", scheduled |-> FALSE]
Resting == [pc |-> "none", via |-> "none", seen |-> NoVideo]

Status == [privacy: Privacy \cup {"absent"}, scheduled: BOOLEAN]

BridgeTypeOK ==
    /\ videos \in [Video -> Status]
    \* YouTube keeps a publication time for private videos only
    /\ \A v \in Video : videos[v].scheduled => videos[v].privacy = "private" /\ ~due
    /\ playlists \subseteq Privacy
    /\ allowed \in BOOLEAN /\ due \in BOOLEAN /\ wasAllowed \in BOOLEAN
    /\ exec \in [Call -> [pc: {"none", "check", "read", "write", "done", "failed"},
                          via: {"none", "rust", "direct"}, seen: Status]]
    /\ confirmed \subseteq [video: Video, privacy: Privacy, at: BOOLEAN, via: {"rust", "direct"}]

BridgeInit ==
    /\ videos \in [Video -> {NoVideo, Hidden}]
    /\ playlists = {} /\ confirmed = {} /\ due = FALSE
    /\ allowed = FALSE /\ wasAllowed = FALSE
    /\ exec = [c \in Call |-> Resting]

At(c, pc)   == exec[c].pc = pc
GoTo(c, pc) == exec' = [exec EXCEPT ![c].pc = pc]

Ongoing(c) == exec[c].pc \in {"check", "read", "write"}

\* A request reaches the bridge.
Begins(c, via) == exec' = [exec EXCEPT ![c] = [Resting EXCEPT !.pc = "check", !.via = via]]

\* Its execution ends, and with it what it has read.
Stops(c, pc) == exec' = [exec EXCEPT ![c] = [Resting EXCEPT !.pc = pc]]

-----------------------------------------------------------------------------
(* One execution, for request q of call c.                                 *)

\* handleHttpRequest_ and dispatchAction_ refuse a request that breaks the
\* policy (the API key may also have been rotated); a call to a Google
\* service fails; the platform stops the execution.
Fails(c) ==
    /\ Ongoing(c)
    /\ Stops(c, "failed")
    /\ UNCHANGED <<videos, playlists, allowed, due, confirmed, wasAllowed>>

\* publishVideo_ up to its first call to YouTube.
CheckPublication(c, q) ==
    /\ At(c, "check") /\ q.action = "publishVideo"
    /\ q.privacy = "private" \/ allowed
    /\ q.confirms = q.privacy
    /\ GoTo(c, "read")
    /\ confirmed' = confirmed \cup
         {[video |-> q.video, privacy |-> q.privacy, at |-> q.at, via |-> exec[c].via]}
    /\ UNCHANGED <<videos, playlists, allowed, due, wasAllowed>>

CheckOther(c, q) ==
    /\ At(c, "check") /\ q.action # "publishVideo"
    /\ q.action = "createPlaylist" => q.privacy = "private" \/ allowed
    /\ GoTo(c, IF q.action = "updateVideo" THEN "read" ELSE "write")
    /\ UNCHANGED <<videos, playlists, allowed, due, confirmed, wasAllowed>>

\* Videos.list: what is read here is written back below.
ReadVideo(c, q) ==
    /\ At(c, "read")
    /\ videos[q.video].privacy # "absent"
    /\ exec' = [exec EXCEPT ![c].pc = "write", ![c].seen = videos[q.video]]
    /\ UNCHANGED <<videos, playlists, allowed, due, confirmed, wasAllowed>>

\* Slip: a change of madeForKids makes up a privacy instead of reading it.
NewStatusHidden(c, q) ==
    CASE q.action = "publishVideo" -> [privacy |-> q.privacy, scheduled |-> q.at]
      [] q.action = "updateVideo" /\ q.kids -> Hidden
      [] OTHER -> videos[q.video]

\* The status part of Videos.update: the new privacy, or for a change of
\* madeForKids the privacy and publication time that were read.
NewStatus(c, q) ==
    CASE q.action = "publishVideo" -> [privacy |-> q.privacy, scheduled |-> q.at]
      [] q.action = "updateVideo" /\ q.kids -> exec[c].seen
      [] OTHER -> videos[q.video]

\* Slip: a publication time may lie in the past.
RefusedIfVisible(s) == s.scheduled /\ s.privacy # "private"

\* A publication time goes with "private" only, and lies in the future.  The
\* script says so of a request; that YouTube says so of what an update writes
\* back, which the script does not check, is an assumption.
Refused(s) == s.scheduled /\ (s.privacy # "private" \/ due)

WriteVideo(c, q) ==
    /\ At(c, "write")
    /\ Stops(c, "done")
    /\ \/ /\ q.action \in {"publishVideo", "updateVideo"}
          /\ ~Refused(NewStatus(c, q))
          /\ videos' = [videos EXCEPT ![q.video] = NewStatus(c, q)]
          /\ UNCHANGED playlists
       \/ /\ q.action = "startUpload"
          /\ videos' = [videos EXCEPT ![q.video] = IF @ = NoVideo THEN Hidden ELSE @]
          /\ UNCHANGED playlists
       \/ /\ q.action = "createPlaylist"
          /\ playlists' = playlists \cup {q.privacy}
          /\ UNCHANGED videos
    /\ UNCHANGED <<allowed, due, confirmed, wasAllowed>>

Executes(c, q) ==
    CheckPublication(c, q) \/ CheckOther(c, q) \/ ReadVideo(c, q) \/ WriteVideo(c, q) \/ Fails(c)

-----------------------------------------------------------------------------
(* The owner's dashboard and YouTube's clock.                              *)

\* savePublicConfig_ sets the switch, setupApplication_ puts it off.
SaveConfig(on) ==
    /\ allowed # on
    /\ allowed' = on /\ wasAllowed' = (wasAllowed \/ on)
    /\ UNCHANGED <<videos, playlists, due, exec, confirmed>>

\* The publication time comes: YouTube publishes what is scheduled.
TimeComes(p) ==
    /\ ~due /\ due' = TRUE
    /\ videos' = [v \in Video |-> IF videos[v].scheduled
                                  THEN [privacy |-> p, scheduled |-> FALSE] ELSE videos[v]]
    /\ UNCHANGED <<playlists, allowed, exec, confirmed, wasAllowed>>

=============================================================================
