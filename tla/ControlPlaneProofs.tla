------------------------- MODULE ControlPlaneProofs --------------------------
(***************************************************************************)
(* Proofs about ControlPlane and the Publication inside it, for any set of *)
(* calls, videos, visible privacies and requests.                          *)
(***************************************************************************)
EXTENDS ControlPlane, TLAPS

-----------------------------------------------------------------------------
(* The inductive invariant.                                                *)

\* A publication time was confirmed for the video.
Timed(v) == \E k \in confirmed : k.video = v /\ k.privacy = "private" /\ k.at

\* The video was confirmed for this privacy: directly, or by a time that came.
Cleared(v, p) ==
    \E k \in confirmed :
      /\ k.video = v
      /\ \/ /\ k.privacy = p
            /\ wasAllowed /\ (k.via = "direct" \/ publicActions)
         \/ k.privacy = "private" /\ k.at /\ due

\* A status of the video, at YouTube or read from it, is backed by what was
\* confirmed.
Backed(v, s) ==
    /\ s.scheduled => Timed(v)
    /\ s.privacy \in Visible => Cleared(v, s.privacy)

SwitchIsRemembered == allowed => wasAllowed

VideosAreBacked == \A v \in Video : Backed(v, videos[v])

\* What an update has read and will write back stays backed.
SeenIsBacked ==
    \A c \in Call :
        At(c, "write") /\ Req(c).action = "updateVideo" => Backed(Req(c).video, exec[c].seen)

\* A request that came through the server passed its policy.
ServerRequestsAreAccepted ==
    \A c \in Call : Ongoing(c) /\ exec[c].via # "direct" =>
        exec[c].via = "rust" /\ Accepts(Req(c))

\* A publication past its checks is on record; it is for the public, as a
\* playlist is, only if the dashboard's switch has been on.
PassedChecks ==
    \A c \in Call :
        /\ At(c, "read") => Req(c).action \in {"publishVideo", "updateVideo"}
        /\ At(c, "read") \/ At(c, "write") =>
             /\ Req(c).action \in {"publishVideo", "createPlaylist"} =>
                  Req(c).privacy = "private" \/ wasAllowed
             /\ Req(c).action = "publishVideo" =>
                  [video |-> Req(c).video, privacy |-> Req(c).privacy,
                   at |-> Req(c).at, via |-> exec[c].via] \in confirmed

\* Nothing runs for a call that has not been posted, and a call has an
\* outcome only after it.
CallsAgree ==
    \A c \in Call :
        /\ calls[c].pc \in {"idle", "authorize", "prepare"} =>
             At(c, "none") /\ calls[c].outcome = "none"
        /\ calls[c].pc = "waiting" => calls[c].outcome = "none"
        /\ calls[c].event = "succeeded" => calls[c].pc = "answered" /\ calls[c].outcome = "ok"

PlaylistsAreAllowed == playlists \cap Visible # {} => wasAllowed

ControlInv ==
    /\ TypeOK /\ SwitchIsRemembered /\ VideosAreBacked /\ PlaylistsAreAllowed
    /\ SeenIsBacked /\ ServerRequestsAreAccepted /\ PassedChecks
    /\ CallsAgree /\ AnswersAreTrue

-----------------------------------------------------------------------------
(* The steps of the model, and what none of them takes back.               *)

LEMMA Statuses ==
    /\ NoVideo \in Status /\ NoVideo.scheduled = FALSE /\ NoVideo.privacy = "absent"
    /\ Hidden \in Status /\ Hidden.scheduled = FALSE /\ Hidden.privacy = "private"
  BY DEF NoVideo, Hidden, Status, Privacy

LEMMA AtTheStart == Init => ControlInv
<1> SUFFICES ASSUME Init PROVE ControlInv
  OBVIOUS
<1> USE PublicationAssumption, Statuses DEF Init, BridgeInit, Resting
<1>1. TypeOK
  <2>1. (CHOOSE q \in Request : TRUE) \in Request
    OBVIOUS
  <2>3. \A v \in Video : videos[v] \in Status /\ ~videos[v].scheduled
    OBVIOUS
  <2>4. exec \in [Call -> [pc: {"none", "check", "read", "write", "done", "failed"},
                          via: {"none", "rust", "direct"}, seen: Status]]
    OBVIOUS
  <2>5. BridgeTypeOK
    BY <2>3, <2>4 DEF BridgeTypeOK
  <2> QED
    BY <2>1, <2>5 DEF TypeOK, AtRest
<1>2. VideosAreBacked
  <2>1. \A v \in Video : ~videos[v].scheduled /\ videos[v].privacy \in {"private", "absent"}
    OBVIOUS
  <2> QED
    BY <2>1 DEF VideosAreBacked, Backed
<1> QED
  BY <1>1, <1>2 DEF ControlInv, SwitchIsRemembered, PlaylistsAreAllowed, SeenIsBacked,
     ServerRequestsAreAccepted, PassedChecks, CallsAgree, AnswersAreTrue, At, Ongoing

\* Confirmations, the history of the switch, the clock and the server's own
\* switch are kept by every step.
LEMMA NothingTakenBack ==
    ASSUME TypeOK, [Next]_vars
    PROVE  /\ confirmed \subseteq confirmed'
           /\ wasAllowed => wasAllowed'
           /\ due => due'
           /\ publicActions' = publicActions
<1> USE DEF TypeOK, BridgeTypeOK
<1>1. CASE UNCHANGED vars
  BY <1>1 DEF vars, bridgeVars
<1>2. ASSUME NEW c \in Call, NEW q \in Request, Arrives(c, q) \/ Direct(c, q)
      PROVE  UNCHANGED <<confirmed, wasAllowed, due, publicActions>>
  BY <1>2 DEF Arrives, Direct, bridgeVars
<1>3. ASSUME NEW c \in Call, ServerStep(c) \/ Disconnect(c)
      PROVE  UNCHANGED <<confirmed, wasAllowed, due, publicActions>>
  BY <1>3 DEF ServerStep, Disconnect, Refuse, Announce, Prepare, Response, ResponseFails,
     Report, bridgeVars
<1>4. CASE Bridge
  <2>1. CASE \E c \in Call : Executes(c, Req(c))
    BY <1>4, <2>1 DEF Bridge, Executes, CheckPublication, CheckOther, ReadVideo, WriteVideo, Fails
  <2>2. CASE \E on \in BOOLEAN : SaveConfig(on)
    BY <1>4, <2>2 DEF Bridge, SaveConfig
  <2>3. CASE \E p \in Visible : TimeComes(p)
    BY <1>4, <2>3 DEF Bridge, TimeComes
  <2> QED
    BY <1>4, <2>1, <2>2, <2>3 DEF Bridge
<1> QED
  BY <1>1, <1>2, <1>3, <1>4 DEF Next

\* So what backs a status backs it ever after.
LEMMA BackedStays ==
    ASSUME TypeOK, [Next]_vars, NEW v, NEW s, Backed(v, s)
    PROVE  /\ s.scheduled => Timed(v)'
           /\ s.privacy \in Visible => Cleared(v, s.privacy)'
  BY NothingTakenBack DEF Backed, Timed, Cleared

\* The record of a publication or update is well formed.
LEMMA RequestShape ==
    ASSUME TypeOK, NEW c \in Call
    PROVE  Req(c) \in Request /\ Req(c) \in RequestRecord
  BY PublicationAssumption DEF TypeOK, Req

\* What a publication or update writes back, by the action.
LEMMA WrittenStatus ==
    ASSUME TypeOK, NEW c \in Call
    PROVE  /\ NewStatus(c, Req(c)) \in Status
           /\ \/ /\ Req(c).action = "publishVideo"
                 /\ NewStatus(c, Req(c)) = [privacy |-> Req(c).privacy, scheduled |-> Req(c).at]
              \/ /\ Req(c).action = "updateVideo"
                 /\ NewStatus(c, Req(c)) = exec[c].seen
              \/ /\ Req(c).action # "publishVideo"
                 /\ NewStatus(c, Req(c)) = videos[Req(c).video]
<1>1. Req(c) \in RequestRecord
  BY RequestShape
<1>2. /\ exec[c].seen \in Status /\ videos[Req(c).video] \in Status
      /\ [privacy |-> Req(c).privacy, scheduled |-> Req(c).at] \in Status
  BY <1>1 DEF TypeOK, BridgeTypeOK, RequestRecord, Status
<1>3. CASE Req(c).action = "publishVideo"
  BY <1>2, <1>3 DEF NewStatus
<1>4. CASE Req(c).action = "updateVideo" /\ Req(c).kids
  BY <1>2, <1>4 DEF NewStatus
<1>5. CASE Req(c).action # "publishVideo" /\ ~(Req(c).action = "updateVideo" /\ Req(c).kids)
  <2>1. NewStatus(c, Req(c)) = videos[Req(c).video]
    BY <1>5 DEF NewStatus
  <2> QED
    BY <1>2, <1>5, <2>1
<1> QED
  BY <1>3, <1>4, <1>5

-----------------------------------------------------------------------------
(* Types.                                                                  *)

LEMMA ReadRecord ==
    ASSUME NEW S, NEW s \in S,
           NEW x \in [pc: {"none", "check", "read", "write", "done", "failed"},
                      via: {"none", "rust", "direct"}, seen: S]
    PROVE  [x EXCEPT !.pc = "write", !.seen = s] \in
               [pc: {"none", "check", "read", "write", "done", "failed"},
                via: {"none", "rust", "direct"}, seen: S]
  OBVIOUS

LEMMA BridgeTypeStep ==
    ASSUME TypeOK, ServerRequestsAreAccepted, [Next]_vars
    PROVE  BridgeTypeOK'
<1> USE PublicationAssumption, Statuses DEF TypeOK, BridgeTypeOK
<1>1. CASE UNCHANGED vars
  BY <1>1 DEF vars, bridgeVars
<1>2. ASSUME NEW c \in Call, NEW q \in Request, Arrives(c, q)
      PROVE  BridgeTypeOK'
  BY <1>2 DEF Arrives, bridgeVars
<1>3. ASSUME NEW c \in Call, NEW q \in Request, Direct(c, q)
      PROVE  BridgeTypeOK'
  BY <1>3 DEF Direct, Begins, Resting
<1>4. ASSUME NEW c \in Call, Prepare(c)
      PROVE  BridgeTypeOK'
  <2>1. Begins(c, "rust") \/ UNCHANGED exec
    BY <1>4 DEF Prepare
  <2>2. exec' \in [Call -> [pc: {"none", "check", "read", "write", "done", "failed"},
                           via: {"none", "rust", "direct"}, seen: Status]]
    <3>1. [Resting EXCEPT !.pc = "check", !.via = "rust"] \in
            [pc: {"none", "check", "read", "write", "done", "failed"},
             via: {"none", "rust", "direct"}, seen: Status]
      BY DEF Resting
    <3> QED
      BY <2>1, <3>1 DEF Begins
  <2> QED
    BY <1>4, <2>2 DEF Prepare
<1>5. ASSUME NEW c \in Call,
             Refuse(c) \/ Announce(c) \/ Response(c) \/ ResponseFails(c) \/ Report(c) \/ Disconnect(c)
      PROVE  BridgeTypeOK'
  BY <1>5 DEF Refuse, Announce, Response, ResponseFails, Report, Disconnect, bridgeVars
<1>6. ASSUME NEW c \in Call, CheckPublication(c, Req(c))
      PROVE  BridgeTypeOK'
  <2>1. exec[c].via \in {"rust", "direct"} /\ Req(c) \in RequestRecord
    BY <1>6, RequestShape DEF ServerRequestsAreAccepted, CheckPublication, Ongoing, At
  <2> QED
    BY <1>6, <2>1 DEF CheckPublication, GoTo, RequestRecord
<1>7. ASSUME NEW c \in Call, CheckOther(c, Req(c))
      PROVE  BridgeTypeOK'
  <2>1. \E pc \in {"read", "write"} : GoTo(c, pc)
    BY <1>7 DEF CheckOther
  <2>2. exec' \in [Call -> [pc: {"none", "check", "read", "write", "done", "failed"},
                           via: {"none", "rust", "direct"}, seen: Status]]
    BY <2>1 DEF GoTo
  <2> QED
    BY <1>7, <2>2 DEF CheckOther
<1>8. ASSUME NEW c \in Call, ReadVideo(c, Req(c))
      PROVE  BridgeTypeOK'
  <2>1. videos[Req(c).video] \in Status
    BY RequestShape DEF RequestRecord
  <2> QED
    <3> DEFINE r == [exec[c] EXCEPT !.pc = "write", !.seen = videos[Req(c).video]]
    <3>1. r \in [pc: {"none", "check", "read", "write", "done", "failed"},
                 via: {"none", "rust", "direct"}, seen: Status]
      <4>1. exec[c] \in [pc: {"none", "check", "read", "write", "done", "failed"},
                         via: {"none", "rust", "direct"}, seen: Status]
        OBVIOUS
      <4> HIDE DEF TypeOK, BridgeTypeOK
      <4> QED
        BY <2>1, <4>1, ReadRecord, Zenon
    <3>2. exec' = [exec EXCEPT ![c] = r]
      BY <1>8 DEF ReadVideo
    <3> QED
      BY <1>8, <3>1, <3>2 DEF ReadVideo
<1>9. ASSUME NEW c \in Call, WriteVideo(c, Req(c))
      PROVE  BridgeTypeOK'
  <2> DEFINE q == Req(c)
  <2>1. q \in RequestRecord
    BY RequestShape
  <2>2. exec' \in [Call -> [pc: {"none", "check", "read", "write", "done", "failed"},
                           via: {"none", "rust", "direct"}, seen: Status]]
    BY <1>9 DEF WriteVideo, Stops, Resting
  <2>3. playlists' \subseteq Privacy
    BY <1>9, <2>1 DEF WriteVideo, RequestRecord
  <2>4. CASE UNCHANGED videos
    BY <1>9, <2>2, <2>3, <2>4 DEF WriteVideo
  <2>5. CASE videos' = [videos EXCEPT ![q.video] = IF @ = NoVideo THEN Hidden ELSE @]
    BY <1>9, <2>2, <2>3, <2>5 DEF WriteVideo
  <2>6. CASE ~Refused(NewStatus(c, q)) /\ videos' = [videos EXCEPT ![q.video] = NewStatus(c, q)]
    <3>1. NewStatus(c, q) \in Status
      BY <2>1, WrittenStatus
    <3> QED
      BY <1>9, <2>2, <2>3, <2>6, <3>1 DEF WriteVideo, Refused
  <2> QED
    BY <1>9, <2>4, <2>5, <2>6 DEF WriteVideo
<1>10. ASSUME NEW c \in Call, Fails(c)
       PROVE  BridgeTypeOK'
  BY <1>10 DEF Fails, Stops, Resting
<1>11. ASSUME NEW on \in BOOLEAN, SaveConfig(on)
       PROVE  BridgeTypeOK'
  BY <1>11 DEF SaveConfig
<1>12. ASSUME NEW p \in Visible, TimeComes(p)
       PROVE  BridgeTypeOK'
  BY <1>12 DEF TimeComes, Status, Privacy
<1> QED
  BY <1>1, <1>2, <1>3, <1>4, <1>5, <1>6, <1>7, <1>8, <1>9, <1>10, <1>11, <1>12
     DEF Next, ServerStep, Bridge, Executes

\* calls is touched by the server's steps and by Direct.
LEMMA TypeStep ==
    ASSUME TypeOK, ServerRequestsAreAccepted, [Next]_vars
    PROVE  TypeOK'
<1> DEFINE CallsOK == calls \in [Call -> [pc: AtRest \cup {"authorize", "prepare", "waiting",
                                            "report", "elsewhere"},
                           req: Request,
                           event: {"none", "requested", "succeeded", "failed"},
                           outcome: {"none", "refused", "invalid", "ok", "error"}]]
<1>1. ASSUME NEW c \in Call, NEW q \in Request, Arrives(c, q) \/ Direct(c, q)
      PROVE  CallsOK'
  BY <1>1 DEF TypeOK, AtRest, Arrives, Direct
<1>2. ASSUME NEW c \in Call, ServerStep(c) \/ Disconnect(c)
      PROVE  CallsOK'
  BY <1>2 DEF TypeOK, AtRest, ServerStep, Refuse, Announce, Prepare, Response, ResponseFails,
     Report, Disconnect, Ends, Moves
<1>3. ASSUME Bridge \/ UNCHANGED vars
      PROVE  CallsOK'
  BY <1>3 DEF TypeOK, Bridge, vars, bridgeVars
<1>4. CallsOK'
  BY <1>1, <1>2, <1>3 DEF Next
<1>5. publicActions' \in BOOLEAN
  BY NothingTakenBack DEF TypeOK
<1> QED
  BY <1>4, <1>5, BridgeTypeStep DEF TypeOK

-----------------------------------------------------------------------------
(* One execution.                                                          *)

\* What a step may do to the execution of one call: leave it alone, and its
\* request with it once it has begun; begin it, from the server or around it;
\* take it past its checks; read; or end it.
Kept(c)    == exec'[c] = exec[c] /\ (At(c, "none") \/ Req(c)' = Req(c))
Begun(c)   == /\ At(c, "none") /\ exec'[c].pc = "check"
              /\ \/ exec'[c].via = "direct"
                 \/ exec'[c].via = "rust" /\ Accepts(Req(c)) /\ Req(c)' = Req(c)
Checked(c) == (CheckPublication(c, Req(c)) \/ CheckOther(c, Req(c))) /\ Req(c)' = Req(c)
Read(c)    == ReadVideo(c, Req(c)) /\ Req(c)' = Req(c)
Ended(c)   == Ongoing(c) /\ exec'[c].pc \in {"done", "failed"} /\ Req(c)' = Req(c)

\* Whatever else the server notes about a call, its request stays.
LEMMA RequestStays ==
    ASSUME TypeOK, NEW c \in Call, NEW d \in Call,
           \/ Refuse(d) \/ Announce(d) \/ Prepare(d) \/ Response(d)
           \/ ResponseFails(d) \/ Report(d) \/ Disconnect(d)
    PROVE  Req(c)' = Req(c)
<1> USE DEF TypeOK, Req
<1>1. ASSUME NEW x, NEW y, \/ calls' = [calls EXCEPT ![d].pc = x, ![d].outcome = y]
                         \/ calls' = [calls EXCEPT ![d].pc = x, ![d].event = y]
                         \/ calls' = [calls EXCEPT ![d].pc = x]
      PROVE  Req(c)' = Req(c)
  <2>1. CASE calls' = [calls EXCEPT ![d].pc = x, ![d].outcome = y]
    BY <2>1
  <2>2. CASE calls' = [calls EXCEPT ![d].pc = x, ![d].event = y]
    BY <2>2
  <2>3. CASE calls' = [calls EXCEPT ![d].pc = x]
    BY <2>3
  <2> QED
    BY <1>1, <2>1, <2>2, <2>3
<1> QED
  BY <1>1 DEF Refuse, Announce, Prepare, Response, ResponseFails, Report, Disconnect, Ends, Moves

\* The server, and who goes around it, does no more than begin executions.
ServerOrDirect(d) ==
    \/ \E q \in Request : Arrives(d, q) \/ Direct(d, q)
    \/ ServerStep(d) \/ Disconnect(d)

LEMMA ServerBegins ==
    ASSUME TypeOK, CallsAgree, NEW c \in Call, NEW d \in Call, ServerOrDirect(d)
    PROVE  Kept(c) \/ Begun(c)
<1> USE DEF TypeOK, BridgeTypeOK, Req
<1>1. ASSUME NEW q \in Request, Arrives(d, q)
      PROVE  Kept(c)
  BY <1>1 DEF Arrives, bridgeVars, Kept, CallsAgree, In, At
<1>2. ASSUME NEW q \in Request, Direct(d, q)
      PROVE  Kept(c) \/ Begun(c)
  <2>1. CASE c # d
    BY <1>2, <2>1 DEF Direct, Begins, Kept
  <2>2. CASE c = d
    BY <1>2, <2>2 DEF Direct, Begins, Resting, Begun, CallsAgree, In, At
  <2> QED
    BY <2>1, <2>2
<1>3. CASE Prepare(d)
  <2>1. Req(c)' = Req(c)
    BY <1>3, RequestStays
  <2>2. CASE UNCHANGED exec \/ c # d
    BY <1>3, <2>1, <2>2 DEF Prepare, Begins, Kept
  <2>3. CASE c = d /\ ~UNCHANGED exec
    <3>1. Accepts(Req(c)) /\ Begins(c, "rust")
      BY <1>3, <2>3 DEF Prepare
    <3>2. exec'[c].pc = "check" /\ exec'[c].via = "rust"
      BY <3>1 DEF Begins, Resting
    <3>3. At(c, "none")
      BY <1>3, <2>3 DEF Prepare, CallsAgree, In
    <3> QED
      BY <2>1, <3>1, <3>2, <3>3 DEF Begun
  <2> QED
    BY <2>2, <2>3
<1>4. ASSUME Refuse(d) \/ Announce(d) \/ Response(d) \/ ResponseFails(d) \/ Report(d) \/ Disconnect(d)
      PROVE  Kept(c)
  BY <1>4, RequestStays DEF Refuse, Announce, Response, ResponseFails, Report, Disconnect,
     bridgeVars, Kept
<1> QED
  BY <1>1, <1>2, <1>3, <1>4 DEF ServerOrDirect, ServerStep

LEMMA OneExecution ==
    ASSUME TypeOK, CallsAgree, [Next]_vars, NEW c \in Call
    PROVE  Kept(c) \/ Begun(c) \/ Checked(c) \/ Read(c) \/ Ended(c)
<1>1. CASE UNCHANGED vars
  BY <1>1 DEF vars, bridgeVars, Kept, Req
<1>2. ASSUME NEW d \in Call, ServerOrDirect(d)
      PROVE  Kept(c) \/ Begun(c)
  BY <1>2, ServerBegins
<1>3. ASSUME Bridge
      PROVE  Kept(c) \/ Checked(c) \/ Read(c) \/ Ended(c)
  <2> USE DEF TypeOK, BridgeTypeOK, Req
  <2>1. Req(c)' = Req(c)
    BY <1>3 DEF Bridge
  <2>2. ASSUME NEW d \in Call, Executes(d, Req(d)), c # d
        PROVE  Kept(c)
    BY <2>1, <2>2 DEF Executes, CheckPublication, CheckOther, ReadVideo, WriteVideo, Fails,
       GoTo, Stops, Kept
  <2>3. CASE Executes(c, Req(c))
    BY <2>1, <2>3 DEF Executes, WriteVideo, Fails, Stops, Resting, Ongoing, At, Checked, Read, Ended
  <2>4. ASSUME (\E on \in BOOLEAN : SaveConfig(on)) \/ (\E p \in Visible : TimeComes(p))
        PROVE  Kept(c)
    BY <2>1, <2>4 DEF SaveConfig, TimeComes, Kept
  <2> QED
    BY <1>3, <2>2, <2>3, <2>4 DEF Bridge
<1> QED
  BY <1>1, <1>2, <1>3, Zenon DEF Next, ServerOrDirect

\* What came through the server was accepted by it, and still is.
LEMMA AcceptedStep ==
    ASSUME ControlInv, [Next]_vars
    PROVE  ServerRequestsAreAccepted'
<1> SUFFICES ASSUME NEW c \in Call, Ongoing(c)', exec'[c].via # "direct"
             PROVE  exec'[c].via = "rust" /\ Accepts(Req(c))'
  BY DEF ServerRequestsAreAccepted
<1>1. Accepts(Req(c)) /\ Req(c)' = Req(c) => Accepts(Req(c))'
  BY NothingTakenBack DEF Accepts, ControlInv
<1>2. CASE Kept(c)
  BY <1>1, <1>2 DEF Kept, ControlInv, ServerRequestsAreAccepted, Ongoing, At
<1>3. CASE Begun(c)
  BY <1>1, <1>3 DEF Begun
<1>4. CASE Checked(c) \/ Read(c)
  <2>1. Ongoing(c) /\ exec'[c].via = exec[c].via /\ Req(c)' = Req(c)
    BY <1>4 DEF Checked, Read, CheckPublication, CheckOther, ReadVideo, GoTo, Ongoing, At,
       ControlInv, TypeOK, BridgeTypeOK
  <2> QED
    BY <1>1, <2>1 DEF ControlInv, ServerRequestsAreAccepted
<1>5. ~Ended(c)
  BY DEF Ended, Ongoing
<1> QED
  BY <1>2, <1>3, <1>4, <1>5, OneExecution DEF ControlInv

\* A publication in progress has passed the checks of the bridge.
LEMMA PassedStep ==
    ASSUME ControlInv, [Next]_vars
    PROVE  PassedChecks'
<1> DEFINE Record(q, via) == [video |-> q.video, privacy |-> q.privacy, at |-> q.at, via |-> via]
           Passed(q, x) ==
             /\ x.pc = "read" => q.action \in {"publishVideo", "updateVideo"}
             /\ x.pc \in {"read", "write"} =>
                  /\ q.action \in {"publishVideo", "createPlaylist"} =>
                       q.privacy = "private" \/ wasAllowed
                  /\ q.action = "publishVideo" => Record(q, x.via) \in confirmed
<1>1. ASSUME NEW c \in Call
      PROVE  Passed(Req(c), exec[c])
  BY DEF ControlInv, PassedChecks, At
<1>2. ASSUME NEW q, NEW x, Passed(q, x)
      PROVE  Passed(q, x)'
  BY <1>2, NothingTakenBack DEF ControlInv
<1>3. ASSUME NEW c \in Call
      PROVE  LET q == Req(c)'  x == exec'[c] IN
             /\ x.pc = "read" => q.action \in {"publishVideo", "updateVideo"}
             /\ x.pc \in {"read", "write"} =>
                  /\ q.action \in {"publishVideo", "createPlaylist"} =>
                       q.privacy = "private" \/ wasAllowed'
                  /\ q.action = "publishVideo" => Record(q, x.via) \in confirmed'
  <2>1. CASE Kept(c)
    <3>1. CASE At(c, "none")
      BY <2>1, <3>1 DEF Kept, At
    <3>2. CASE Req(c)' = Req(c)
      BY <1>1, <2>1, <3>2, NothingTakenBack DEF Kept, ControlInv
    <3> QED
      BY <2>1, <3>1, <3>2 DEF Kept
  <2>2. CASE Begun(c) \/ Ended(c)
    BY <2>2 DEF Begun, Ended
  <2>3. CASE Checked(c)
    <3> USE DEF ControlInv, TypeOK, BridgeTypeOK, At, GoTo
    <3>1. Req(c)' = Req(c) /\ Req(c) \in RequestRecord
      BY <2>3, RequestShape DEF Checked
    <3>2. CASE CheckPublication(c, Req(c))
      BY <2>3, <3>1, <3>2 DEF CheckPublication, SwitchIsRemembered
    <3>3. CASE CheckOther(c, Req(c))
      BY <3>1, <3>3 DEF CheckOther, SwitchIsRemembered
    <3> QED
      BY <2>3, <3>2, <3>3 DEF Checked
  <2>4. CASE Read(c)
    <3>1. /\ exec[c].pc = "read" /\ exec'[c].pc = "write" /\ exec'[c].via = exec[c].via
          /\ UNCHANGED <<confirmed, wasAllowed>> /\ Req(c)' = Req(c)
      BY <2>4 DEF Read, ReadVideo, At, ControlInv, TypeOK, BridgeTypeOK
    <3> QED
      BY <1>1, <3>1
  <2> QED
    BY <2>1, <2>2, <2>3, <2>4, OneExecution DEF ControlInv
<1> QED
  BY <1>3 DEF PassedChecks, At

\* What an update has read was backed when it was read.
LEMMA SeenStep ==
    ASSUME ControlInv, [Next]_vars
    PROVE  SeenIsBacked'
<1> SUFFICES ASSUME NEW c \in Call, At(c, "write")', (Req(c).action = "updateVideo")'
             PROVE  Backed(Req(c).video, exec[c].seen)'
  BY DEF SeenIsBacked
<1> USE DEF At
<1>0. ASSUME NEW v, NEW s, Backed(v, s), Req(c)'.video = v, exec'[c].seen = s
      PROVE  Backed(Req(c).video, exec[c].seen)'
  BY <1>0, BackedStays DEF Backed, Timed, Cleared, ControlInv
<1>1. CASE Kept(c)
  <2>1. At(c, "write") /\ Req(c)' = Req(c) /\ exec'[c] = exec[c]
    BY <1>1 DEF Kept, At
  <2>2. Backed(Req(c).video, exec[c].seen)
    BY <2>1 DEF ControlInv, SeenIsBacked
  <2> QED
    BY <1>0, <2>1, <2>2
<1>2. CASE Begun(c) \/ Ended(c)
  BY <1>2 DEF Begun, Ended
<1>3. ~Checked(c)
  BY DEF Checked, CheckPublication, CheckOther, At, GoTo, ControlInv, TypeOK, BridgeTypeOK
<1>4. CASE Read(c)
  <2>1. Req(c)' = Req(c) /\ exec'[c].seen = videos[Req(c).video]
    BY <1>4 DEF Read, ReadVideo, ControlInv, TypeOK, BridgeTypeOK
  <2>2. Backed(Req(c).video, videos[Req(c).video])
    BY RequestShape DEF ControlInv, VideosAreBacked, RequestRecord
  <2> QED
    BY <1>0, <2>1, <2>2
<1> QED
  BY <1>1, <1>2, <1>3, <1>4, OneExecution DEF ControlInv

-----------------------------------------------------------------------------
(* Videos and playlists.                                                   *)

\* What an execution writes to a video is backed: a publication by its own
\* record, an update by what it has read.
LEMMA WrittenIsBacked ==
    ASSUME ControlInv, NEW c \in Call, At(c, "write"),
           Req(c).action \in {"publishVideo", "updateVideo"}, ~Refused(NewStatus(c, Req(c)))
    PROVE  Backed(Req(c).video, NewStatus(c, Req(c)))
<1> DEFINE q == Req(c)  s == NewStatus(c, q)
<1>1. q \in RequestRecord
  BY RequestShape DEF ControlInv
<1>2. CASE q.action = "publishVideo"
  <2> DEFINE k == [video |-> q.video, privacy |-> q.privacy, at |-> q.at, via |-> exec[c].via]
  <2>1. s = [privacy |-> q.privacy, scheduled |-> q.at]
    BY <1>2, WrittenStatus DEF ControlInv
  <2>2. k \in confirmed /\ (q.privacy = "private" \/ wasAllowed)
    BY <1>2 DEF ControlInv, PassedChecks
  <2>3. s.scheduled => Timed(q.video)
    BY <2>1, <2>2 DEF Refused, Timed
  <2>4. ASSUME q.privacy \in Visible
        PROVE  Cleared(q.video, q.privacy)
    <3>1. q.privacy # "private"
      BY <2>4, PublicationAssumption
    <3>2. exec[c].via = "direct" \/ publicActions
      BY <1>2, <3>1 DEF ControlInv, ServerRequestsAreAccepted, Accepts, Ongoing, At
    <3> QED
      BY <2>2, <3>1, <3>2 DEF Cleared
  <2> QED
    BY <2>1, <2>3, <2>4 DEF Backed
<1>3. CASE q.action = "updateVideo"
  <2>1. s = exec[c].seen \/ s = videos[q.video]
    BY <1>3, WrittenStatus DEF ControlInv
  <2>2. Backed(q.video, exec[c].seen)
    BY <1>3 DEF ControlInv, SeenIsBacked
  <2>3. Backed(q.video, videos[q.video])
    BY <1>1 DEF ControlInv, VideosAreBacked, RequestRecord
  <2> QED
    BY <2>1, <2>2, <2>3
<1> QED
  BY <1>2, <1>3

LEMMA VideosStep ==
    ASSUME ControlInv, [Next]_vars
    PROVE  VideosAreBacked'
<1> USE DEF ControlInv
<1> SUFFICES ASSUME NEW v \in Video
             PROVE  Backed(v, videos[v])'
  BY DEF VideosAreBacked
<1>0. Backed(v, videos[v])
  BY DEF VideosAreBacked
<1>1. ASSUME NEW c \in Call, WriteVideo(c, Req(c))
      PROVE  Backed(v, videos'[v])
  <2> DEFINE q == Req(c)
  <2> USE DEF TypeOK, BridgeTypeOK
  <2>1. CASE v # q.video \/ UNCHANGED videos
    BY <1>0, <1>1, <2>1 DEF WriteVideo
  <2>2. CASE v = q.video /\ videos'[v] = NewStatus(c, q) /\ ~Refused(NewStatus(c, q))
             /\ q.action \in {"publishVideo", "updateVideo"}
    BY <1>1, <2>2, WrittenIsBacked DEF WriteVideo
  <2>3. CASE v = q.video /\ videos'[v] \in {Hidden, videos[v]}
    BY <1>0, <2>3, Statuses, PublicationAssumption DEF Backed
  <2> QED
    BY <1>1, <2>1, <2>2, <2>3 DEF WriteVideo
<1>2. ASSUME NEW p \in Visible, TimeComes(p), videos[v].scheduled
      PROVE  ~videos'[v].scheduled /\ videos'[v].privacy = p /\ Cleared(v, p)'
  BY <1>0, <1>2 DEF TimeComes, Backed, Timed, Cleared
<1>3. ASSUME NEW p \in Visible, TimeComes(p), ~videos[v].scheduled
      PROVE  Backed(v, videos'[v])
  BY <1>0, <1>3 DEF TimeComes
<1>4. ASSUME Backed(v, videos'[v])
      PROVE  Backed(v, videos[v])'
  BY <1>4, BackedStays DEF Backed, Timed, Cleared
<1>5. ASSUME NEW c \in Call,
             (\E q \in Request : Arrives(c, q) \/ Direct(c, q)) \/ ServerStep(c) \/ Disconnect(c)
      PROVE  UNCHANGED videos
  BY <1>5 DEF Arrives, Direct, ServerStep, Disconnect, Refuse, Announce, Prepare, Response,
     ResponseFails, Report, bridgeVars
<1>6. ASSUME NEW c \in Call, CheckPublication(c, Req(c)) \/ CheckOther(c, Req(c))
                             \/ ReadVideo(c, Req(c)) \/ Fails(c)
      PROVE  UNCHANGED videos
  BY <1>6 DEF CheckPublication, CheckOther, ReadVideo, Fails
<1>7. ASSUME (\E on \in BOOLEAN : SaveConfig(on)) \/ UNCHANGED vars
      PROVE  UNCHANGED videos
  BY <1>7 DEF SaveConfig, vars, bridgeVars
<1>8. CASE UNCHANGED videos
  BY <1>0, <1>4, <1>8
<1>9. ASSUME NEW p \in Visible, TimeComes(p)
      PROVE  Backed(v, videos[v])'
  <2>1. CASE videos[v].scheduled
    BY <1>2, <1>9, <2>1 DEF Backed, Cleared
  <2> QED
    BY <1>3, <1>4, <1>9, <2>1
<1>10. CASE \E c \in Call : WriteVideo(c, Req(c))
  BY <1>1, <1>4, <1>10
<1>11. CASE Bridge
  <2>1. CASE \E c \in Call : Executes(c, Req(c))
    BY <1>6, <1>8, <1>10, <2>1 DEF Executes
  <2> QED
    BY <1>7, <1>8, <1>9, <1>11, <2>1 DEF Bridge
<1> QED
  <2>1. CASE UNCHANGED vars
    BY <1>7, <1>8, <2>1
  <2> QED
    BY <1>5, <1>8, <1>11, <2>1 DEF Next

\* The switch is remembered, and a playlist for others to see needs it.
LEMMA PlaylistsStep ==
    ASSUME ControlInv, [Next]_vars
    PROVE  SwitchIsRemembered' /\ PlaylistsAreAllowed'
<1> USE DEF ControlInv, TypeOK, BridgeTypeOK, SwitchIsRemembered, PlaylistsAreAllowed
<1>1. CASE UNCHANGED <<allowed, wasAllowed, playlists>>
  BY <1>1
<1>2. ASSUME NEW c \in Call,
             (\E q \in Request : Arrives(c, q) \/ Direct(c, q)) \/ ServerStep(c) \/ Disconnect(c)
      PROVE  UNCHANGED <<allowed, wasAllowed, playlists>>
  BY <1>2 DEF Arrives, Direct, ServerStep, Disconnect, Refuse, Announce, Prepare, Response,
     ResponseFails, Report, bridgeVars
<1>3. ASSUME NEW c \in Call, CheckPublication(c, Req(c)) \/ CheckOther(c, Req(c))
                             \/ ReadVideo(c, Req(c)) \/ Fails(c)
      PROVE  UNCHANGED <<allowed, wasAllowed, playlists>>
  BY <1>3 DEF CheckPublication, CheckOther, ReadVideo, Fails
<1>4. ASSUME NEW c \in Call, WriteVideo(c, Req(c))
      PROVE  SwitchIsRemembered' /\ PlaylistsAreAllowed'
  <2>1. CASE UNCHANGED playlists
    BY <1>4, <2>1 DEF WriteVideo
  <2>2. CASE Req(c).action = "createPlaylist" /\ playlists' = playlists \cup {Req(c).privacy}
    <3>1. Req(c).privacy = "private" \/ wasAllowed
      BY <1>4, <2>2 DEF WriteVideo, PassedChecks
    <3> QED
      BY <1>4, <2>2, <3>1, PublicationAssumption DEF WriteVideo
  <2> QED
    BY <1>4, <2>1, <2>2 DEF WriteVideo
<1>5. ASSUME NEW on \in BOOLEAN, SaveConfig(on)
      PROVE  SwitchIsRemembered' /\ PlaylistsAreAllowed'
  BY <1>5 DEF SaveConfig
<1>6. ASSUME NEW p \in Visible, TimeComes(p)
      PROVE  UNCHANGED <<allowed, wasAllowed, playlists>>
  BY <1>6 DEF TimeComes
<1>7. CASE Bridge
  <2>1. CASE \E c \in Call : Executes(c, Req(c))
    BY <1>1, <1>3, <1>4, <2>1 DEF Executes
  <2> QED
    BY <1>1, <1>5, <1>6, <1>7, <2>1 DEF Bridge
<1>8. CASE UNCHANGED vars
  BY <1>1, <1>8 DEF vars, bridgeVars
<1> QED
  BY <1>1, <1>2, <1>7, <1>8 DEF Next

-----------------------------------------------------------------------------
(* The answers.                                                            *)

\* The bridge begins nothing by itself, and the end of an execution is final.
LEMMA BridgeBeginsNothing ==
    ASSUME TypeOK, Bridge, NEW c \in Call
    PROVE  /\ calls' = calls
           /\ At(c, "none") => At(c, "none")'
           /\ At(c, "done") => At(c, "done")'
<1> USE DEF TypeOK, BridgeTypeOK, At
<1>1. ASSUME NEW d \in Call, Executes(d, Req(d))
      PROVE  (At(c, "none") => At(c, "none")') /\ (At(c, "done") => At(c, "done")')
  BY <1>1 DEF Executes, CheckPublication, CheckOther, ReadVideo, WriteVideo, Fails, GoTo, Stops,
     Resting, Ongoing
<1>2. ASSUME (\E on \in BOOLEAN : SaveConfig(on)) \/ (\E p \in Visible : TimeComes(p))
      PROVE  exec' = exec
  BY <1>2 DEF SaveConfig, TimeComes
<1> QED
  BY <1>1, <1>2 DEF Bridge

LEMMA CallsStep ==
    ASSUME ControlInv, [Next]_vars
    PROVE  CallsAgree' /\ AnswersAreTrue'
<1> DEFINE Good(x, pc) ==
             /\ x.pc \in {"idle", "authorize", "prepare"} => pc = "none" /\ x.outcome = "none"
             /\ x.pc = "waiting" => x.outcome = "none"
             /\ x.event = "succeeded" => x.pc = "answered" /\ x.outcome = "ok"
             /\ x.outcome = "ok" => pc = "done"
             /\ x.outcome \in {"refused", "invalid"} => pc = "none"
<1>1. \A c \in Call : Good(calls[c], exec[c].pc)
  BY DEF ControlInv, CallsAgree, AnswersAreTrue, At
<1> SUFFICES ASSUME NEW c \in Call
             PROVE  Good(calls'[c], exec'[c].pc)
  BY DEF CallsAgree, AnswersAreTrue, At
<1> USE DEF ControlInv, TypeOK, BridgeTypeOK
<1> HIDE DEF Good
<1>2. CASE calls'[c] = calls[c] /\ exec'[c].pc = exec[c].pc
  BY <1>1, <1>2
<1>3. ASSUME NEW d \in Call, NEW q \in Request, Arrives(d, q) \/ Direct(d, q), c # d
      PROVE  calls'[c] = calls[c] /\ exec'[c].pc = exec[c].pc
  BY <1>3 DEF Arrives, Direct, Begins, bridgeVars
<1>4. ASSUME NEW d \in Call, ServerStep(d) \/ Disconnect(d), c # d
      PROVE  calls'[c] = calls[c] /\ exec'[c].pc = exec[c].pc
  BY <1>4 DEF ServerStep, Disconnect, Refuse, Announce, Prepare, Response, ResponseFails, Report,
     Ends, Moves, Begins, bridgeVars
<1>5. ASSUME NEW q \in Request, Arrives(c, q)
      PROVE  Good(calls'[c], exec'[c].pc)
  BY <1>1, <1>5 DEF Arrives, In, bridgeVars, Good
<1>6. ASSUME NEW q \in Request, Direct(c, q)
      PROVE  Good(calls'[c], exec'[c].pc)
  <2>1. /\ calls'[c].pc = "elsewhere" /\ calls'[c].outcome = calls[c].outcome
        /\ calls'[c].event = calls[c].event /\ calls[c].pc = "idle"
    BY <1>6 DEF Direct, In
  <2> QED
    BY <1>1, <2>1 DEF Good
<1>7. ASSUME Refuse(c) \/ Announce(c) \/ ResponseFails(c) \/ Report(c) \/ Disconnect(c)
      PROVE  Good(calls'[c], exec'[c].pc)
  <2>1. exec'[c] = exec[c]
    BY <1>7 DEF Refuse, Announce, ResponseFails, Report, Disconnect, bridgeVars
  <2>2. CASE Refuse(c)
    BY <1>1, <2>1, <2>2 DEF Refuse, Ends, In, Good
  <2>3. CASE Announce(c)
    BY <1>1, <2>1, <2>3 DEF Announce, In, Good
  <2>4. CASE ResponseFails(c)
    BY <1>1, <2>1, <2>4 DEF ResponseFails, In, Good
  <2>5. CASE Report(c)
    BY <1>1, <2>1, <2>5 DEF Report, In, Good
  <2>6. CASE Disconnect(c)
    BY <1>1, <2>1, <2>6 DEF Disconnect, Moves, In, Good
  <2> QED
    BY <1>7, <2>2, <2>3, <2>4, <2>5, <2>6
<1>8. ASSUME Response(c)
      PROVE  Good(calls'[c], exec'[c].pc)
  BY <1>1, <1>8 DEF Response, In, At, bridgeVars, Good
<1>9. ASSUME Prepare(c)
      PROVE  Good(calls'[c], exec'[c].pc)
  <2>1. CASE Moves(c, "waiting")
    BY <1>1, <1>9, <2>1 DEF Prepare, Moves, In, Good
  <2>2. CASE UNCHANGED exec /\ calls' = [calls EXCEPT ![c].pc = "report", ![c].outcome = "invalid"]
    BY <1>1, <1>9, <2>2 DEF Prepare, In, Good
  <2> QED
    BY <1>9, <2>1, <2>2 DEF Prepare
<1>10. CASE Bridge
  BY <1>1, <1>10, BridgeBeginsNothing DEF Good, At
<1>11. CASE UNCHANGED vars
  BY <1>2, <1>11 DEF vars, bridgeVars
<1> QED
  BY <1>2, <1>3, <1>4, <1>5, <1>6, <1>7, <1>8, <1>9, <1>10, <1>11 DEF Next, ServerStep

-----------------------------------------------------------------------------
(* ControlPlane implements VideoVisibility.                                *)

Decision(q) == [video |-> q.video, status |-> [privacy |-> q.privacy, scheduled |-> q.at]]
Finding(q, s) == [video |-> q.video, status |-> s]

Deciding(x, q)  == q.action = "publishVideo" /\ x.pc \in {"read", "write"}
Restoring(x, q) == q.action = "updateVideo" /\ q.kids /\ x.pc = "write"

LEMMA IntentCases ==
    ASSUME NEW x, NEW q
    PROVE  /\ Deciding(x, q) => IntentOf(x, q) = {Decision(q)}
           /\ Restoring(x, q) => IntentOf(x, q) = {Finding(q, x.seen)}
           /\ ~Deciding(x, q) /\ ~Restoring(x, q) => IntentOf(x, q) = {}
  BY DEF Deciding, Restoring, Decision, Finding, IntentOf

Seen == Visibility!Next \/ UNCHANGED Visibility!vars

\* The intents after a step that leaves all executions but one alone.
LEMMA OneIntent ==
    ASSUME NEW c \in Call, NEW S, IntentOf(exec'[c], Req(c)') = S,
           \A d \in Call : d # c => IntentOf(exec'[d], Req(d)') = IntentOf(exec[d], Req(d))
    PROVE  Intent' = [Intent EXCEPT ![c] = S]
  BY DEF Intent

LEMMA SameIntents ==
    ASSUME \A d \in Call : IntentOf(exec'[d], Req(d)') = IntentOf(exec[d], Req(d))
    PROVE  Intent' = Intent
  BY DEF Intent

LEMMA NothingSeen ==
    ASSUME Intent' = Intent, UNCHANGED <<videos, allowed, due>>
    PROVE  UNCHANGED Visibility!vars
  BY DEF Visibility!vars

\* What the server does is not seen.
LEMMA ServerUnseen ==
    ASSUME TypeOK, CallsAgree, NEW d \in Call, ServerOrDirect(d)
    PROVE  UNCHANGED Visibility!vars
<1>1. ASSUME NEW c \in Call
      PROVE  IntentOf(exec'[c], Req(c)') = IntentOf(exec[c], Req(c))
  <2>1. CASE exec'[c] = exec[c] /\ Req(c)' = Req(c)
    BY <2>1
  <2>2. CASE exec[c].pc = "none" /\ exec'[c].pc \in {"none", "check"}
    BY <2>2, IntentCases DEF Deciding, Restoring
  <2> QED
    BY <2>1, <2>2, ServerBegins DEF Kept, Begun, At
<1>2. Intent' = Intent
  BY <1>1, SameIntents
<1>3. UNCHANGED <<videos, allowed, due>>
  BY DEF ServerOrDirect, ServerStep, Arrives, Direct, Disconnect, Refuse, Announce, Prepare,
     Response, ResponseFails, Report, bridgeVars
<1> QED
  BY <1>2, <1>3, NothingSeen

\* A step of the execution of one call.
LEMMA ExecutionSeen ==
    ASSUME ControlInv, NEW c \in Call, Executes(c, Req(c)), UNCHANGED calls
    PROVE  Seen
<1> DEFINE q == Req(c)
           r == exec'[c]
<1>1. /\ q \in RequestRecord /\ TypeOK /\ BridgeTypeOK
      /\ \A d \in Call : Req(d)' = Req(d)
  BY RequestShape DEF ControlInv, TypeOK, Req
<1>2. \A d \in Call : d # c => exec'[d] = exec[d]
  BY <1>1 DEF BridgeTypeOK, Executes, CheckPublication, CheckOther, ReadVideo, WriteVideo,
     Fails, GoTo, Stops
<1>3. \A S : IntentOf(r, q) = S => Intent' = [Intent EXCEPT ![c] = S]
  BY <1>1, <1>2, OneIntent
<1>4. Intent[c] = IntentOf(exec[c], q) /\ Intent = [Intent EXCEPT ![c] = IntentOf(exec[c], q)]
  BY DEF Intent
<1>5. ASSUME IntentOf(r, q) = IntentOf(exec[c], q), UNCHANGED <<videos, allowed, due>>
      PROVE  Seen
  BY <1>3, <1>4, <1>5, NothingSeen DEF Seen
<1>6. CASE CheckPublication(c, q)
  <2>1. /\ exec[c].pc = "check" /\ r.pc = "read" /\ q.action = "publishVideo"
        /\ q.privacy = "private" \/ allowed
        /\ UNCHANGED <<videos, allowed, due>>
    BY <1>1, <1>6 DEF CheckPublication, At, GoTo, BridgeTypeOK
  <2>2. Intent[c] = {} /\ Intent' = [Intent EXCEPT ![c] = {Decision(q)}]
    BY <1>3, <1>4, <2>1, IntentCases DEF Deciding, Restoring
  <2>3. /\ q.video \in Video /\ q.privacy \in {"private"} \cup Visible /\ q.at \in BOOLEAN
        /\ q.privacy \in Visible => allowed
    BY <1>1, <2>1, PublicationAssumption DEF RequestRecord, Privacy
  <2> HIDE DEF q
  <2>4. Visibility!Decide(c, q.video, q.privacy, q.at)
    BY <2>1, <2>2, <2>3 DEF Visibility!Decide, Decision
  <2> QED
    BY <2>3, <2>4 DEF Seen, Visibility!Next
<1>7. CASE CheckOther(c, q)
  <2>1. /\ exec[c].pc = "check" /\ q.action # "publishVideo"
        /\ r.pc = (IF q.action = "updateVideo" THEN "read" ELSE "write")
        /\ UNCHANGED <<videos, allowed, due>>
    BY <1>1, <1>7 DEF CheckOther, At, GoTo, BridgeTypeOK
  <2>2. IntentOf(r, q) = {} /\ IntentOf(exec[c], q) = {}
    BY <2>1, IntentCases DEF Deciding, Restoring
  <2> QED
    BY <1>5, <2>1, <2>2
<1>8. CASE ReadVideo(c, q)
  <2>1. /\ exec[c].pc = "read" /\ r.pc = "write" /\ r.seen = videos[q.video]
        /\ videos[q.video].privacy # "absent" /\ q.video \in Video
        /\ UNCHANGED <<videos, allowed, due>>
    BY <1>1, <1>8 DEF ReadVideo, At, BridgeTypeOK, RequestRecord
  <2>2. CASE Restoring(r, q)
    <3>1. Intent[c] = {} /\ Intent' = [Intent EXCEPT ![c] = {Finding(q, videos[q.video])}]
      BY <1>3, <1>4, <2>1, <2>2, IntentCases DEF Deciding, Restoring
    <3> HIDE DEF q
    <3>2. Visibility!Find(c, q.video)
      BY <2>1, <3>1 DEF Visibility!Find, Finding
    <3> QED
      BY <2>1, <3>2 DEF Seen, Visibility!Next
  <2>3. CASE ~Restoring(r, q)
    <3>1. IntentOf(r, q) = IntentOf(exec[c], q)
      BY <2>1, <2>3, IntentCases DEF Deciding, Restoring
    <3> QED
      BY <1>5, <2>1, <3>1
  <2> QED
    BY <2>2, <2>3
<1>9. CASE WriteVideo(c, q)
  <2>1. /\ exec[c].pc = "write" /\ r.pc = "done" /\ UNCHANGED <<allowed, due>>
        /\ q.video \in Video /\ videos \in [Video -> Status]
    BY <1>1, <1>9 DEF WriteVideo, At, Stops, BridgeTypeOK, RequestRecord
  <2>2. IntentOf(r, q) = {} /\ Intent' = [Intent EXCEPT ![c] = {}]
    BY <1>3, <2>1, IntentCases DEF Deciding, Restoring
  <2>3. ASSUME videos' = videos, ~Deciding(exec[c], q), ~Restoring(exec[c], q)
        PROVE  Seen
    BY <1>5, <2>1, <2>2, <2>3, IntentCases
  <2>4. CASE q.action = "createPlaylist"
    <3>1. videos' = videos
      BY <1>9, <2>4 DEF WriteVideo
    <3> QED
      BY <2>3, <2>4, <3>1 DEF Deciding, Restoring
  <2>5. CASE q.action = "startUpload"
    <3>1. videos' = [videos EXCEPT ![q.video] = IF @ = NoVideo THEN Hidden ELSE @]
      BY <1>9, <2>5 DEF WriteVideo
    <3>2. CASE videos[q.video] = NoVideo
      <4>1. videos' = [videos EXCEPT ![q.video] = Hidden]
        BY <2>1, <3>1, <3>2
      <4>2. Intent' = Intent
        BY <1>4, <2>2, <2>5, IntentCases DEF Deciding, Restoring
      <4> HIDE DEF q
      <4>3. Visibility!Upload(q.video)
        BY <2>1, <3>2, <4>1, <4>2
           DEF Visibility!Upload, Visibility!Absent, Visibility!Hidden, NoVideo, Hidden
      <4> QED
        BY <2>1, <4>3 DEF Seen, Visibility!Next
    <3>3. CASE videos[q.video] # NoVideo
      <4>1. videos' = videos
        BY <2>1, <3>1, <3>3
      <4> QED
        BY <2>3, <2>5, <4>1 DEF Deciding, Restoring
    <3> QED
      BY <3>2, <3>3
  <2>6. CASE q.action \in {"publishVideo", "updateVideo"}
    <3>1. /\ ~Refused(NewStatus(c, q))
          /\ videos' = [videos EXCEPT ![q.video] = NewStatus(c, q)]
      BY <1>9, <2>6 DEF WriteVideo
    <3>2. CASE Deciding(exec[c], q) \/ Restoring(exec[c], q)
      <4> DEFINE s == NewStatus(c, q)
      <4>1. Intent[c] = {Finding(q, s)}
        BY <1>4, <3>2, IntentCases
           DEF Deciding, Restoring, NewStatus, Decision, Finding
      <4>2. ~Refused(s) /\ videos' = [videos EXCEPT ![q.video] = s]
        BY <3>1
      <4> HIDE DEF s, q
      <4>3. Visibility!Write(c)
        BY <2>1, <2>2, <4>1, <4>2 DEF Visibility!Write, Finding, Refused
      <4> QED
        BY <4>3 DEF Seen, Visibility!Next
    <3>3. CASE ~Deciding(exec[c], q) /\ ~Restoring(exec[c], q)
      <4>1. q.action = "updateVideo" /\ ~q.kids
        BY <2>1, <2>6, <3>3 DEF Deciding, Restoring
      <4>2. NewStatus(c, q) = videos[q.video]
        BY <4>1 DEF NewStatus
      <4>3. videos' = videos
        BY <2>1, <3>1, <4>2
      <4> QED
        BY <2>3, <3>3, <4>3
    <3> QED
      BY <3>2, <3>3
  <2> QED
    BY <1>1, <2>4, <2>5, <2>6 DEF RequestRecord
<1>10. CASE Fails(c)
  <2>1. r.pc = "failed" /\ UNCHANGED <<videos, allowed, due>>
    BY <1>1, <1>10 DEF Fails, Stops, BridgeTypeOK
  <2>2. IntentOf(r, q) = {} /\ Intent' = [Intent EXCEPT ![c] = {}]
    BY <1>3, <2>1, IntentCases DEF Deciding, Restoring
  <2>3. CASE IntentOf(exec[c], q) = {}
    BY <1>5, <2>1, <2>2, <2>3
  <2>4. CASE IntentOf(exec[c], q) # {}
    <3>1. Visibility!GiveUp(c)
      BY <1>4, <2>1, <2>2, <2>4 DEF Visibility!GiveUp
    <3> QED
      BY <3>1 DEF Seen, Visibility!Next
  <2> QED
    BY <2>3, <2>4
<1> QED
  BY <1>6, <1>7, <1>8, <1>9, <1>10 DEF Executes

LEMMA VisibilityStep ==
    ASSUME ControlInv, [Next]_vars
    PROVE  Seen
<1>1. TypeOK /\ CallsAgree
  BY DEF ControlInv
<1>2. ASSUME NEW d \in Call, ServerOrDirect(d)
      PROVE  Seen
  BY <1>1, <1>2, ServerUnseen DEF Seen
<1>3. ASSUME NEW c \in Call, Executes(c, Req(c)), UNCHANGED calls
      PROVE  Seen
  BY <1>3, ExecutionSeen
<1>4. UNCHANGED <<exec, calls>> => Intent' = Intent
  BY DEF Intent, Req
<1>5. ASSUME NEW on \in BOOLEAN, SaveConfig(on), UNCHANGED calls
      PROVE  Seen
  <2>1. Visibility!Switch
    BY <1>1, <1>4, <1>5 DEF SaveConfig, Visibility!Switch, TypeOK, BridgeTypeOK
  <2> QED
    BY <2>1 DEF Seen, Visibility!Next
<1>6. ASSUME NEW p \in Visible, TimeComes(p), UNCHANGED calls
      PROVE  Seen
  <2>1. Visibility!TimeComes(p)
    BY <1>4, <1>6 DEF TimeComes, Visibility!TimeComes
  <2> QED
    BY <2>1 DEF Seen, Visibility!Next
<1>7. CASE UNCHANGED vars
  BY <1>4, <1>7, NothingSeen DEF Seen, vars, bridgeVars
<1>8. CASE Bridge
  BY <1>3, <1>5, <1>6, <1>8 DEF Bridge
<1> QED
  BY <1>2, <1>7, <1>8, Zenon DEF Next, ServerOrDirect

LEMMA VisibilityStart == Init => Visibility!Init
<1> SUFFICES ASSUME Init PROVE Visibility!Init
  OBVIOUS
<1>1. \A c \in Call : exec[c].pc = "none"
  BY DEF Init, BridgeInit, Resting
<1>2. Intent = [c \in Call |-> {}]
  <2>1. \A c \in Call : IntentOf(exec[c], Req(c)) = {}
    BY <1>1, IntentCases DEF Deciding, Restoring
  <2> QED
    BY <2>1 DEF Intent
<1> QED
  BY <1>2 DEF Init, BridgeInit, Visibility!Init, Visibility!Absent, Visibility!Hidden, NoVideo, Hidden

-----------------------------------------------------------------------------
(* The theorems.                                                           *)

THEOREM ControlInvariance == Spec => []ControlInv
<1>1. ControlInv /\ [Next]_vars => ControlInv'
  BY TypeStep, VideosStep, PlaylistsStep, SeenStep, AcceptedStep, PassedStep, CallsStep
     DEF ControlInv
<1> QED
  BY AtTheStart, <1>1, PTL DEF Spec

\* Every variable keeps its type, and YouTube's rule holds: only a private
\* video waits for its publication time.
THEOREM ControlTypeCorrect == Spec => []TypeOK
  BY ControlInvariance, PTL DEF ControlInv

\* Whoever may see a video, or a playlist, was confirmed: whatever the number
\* of requests, from the server and around it, and however their executions,
\* the two switches and the clock interleave.
THEOREM OnlyConfirmedIsVisible == Spec => []VisibleWasConfirmed
<1>1. ControlInv => VisibleWasConfirmed
  BY DEF ControlInv, VideosAreBacked, PlaylistsAreAllowed, VisibleWasConfirmed, Backed, Cleared
<1> QED
  BY <1>1, ControlInvariance, PTL

\* What youtube_action answers is so: a success was executed to its end, and
\* what was refused never reached the bridge.
THEOREM CallersAreToldTheTruth == Spec => []AnswersAreTrue
  BY ControlInvariance, PTL DEF ControlInv

\* Who watches sees what VideoVisibility describes: nothing but uploads,
\* decisions, findings written back and the time that was set.
THEOREM VisibilityRefinement == Spec => ImplementsVisibility
<1>1. ControlInv /\ [Next]_vars => [Visibility!Next]_(Visibility!vars)
  BY VisibilityStep DEF Seen
<1> QED
  BY VisibilityStart, <1>1, ControlInvariance, PTL DEF Spec, ImplementsVisibility, Visibility!Spec

==============================================================================
