-------------------------- MODULE MtlsListenerProofs --------------------------
(***************************************************************************)
(* Proofs about MtlsListener, for any connections (also infinitely many),  *)
(* subjects and bearers, and any number of permits and frames.             *)
(***************************************************************************)
EXTENDS MtlsListener, FiniteSetTheorems, TLAPS

LEMMA ListenerInit == Init => IInv
  <1> SUFFICES ASSUME Init PROVE IInv
    OBVIOUS
  <1>1. TypeOK
    BY ListenerAssumption DEF Init, TypeOK, InTask, Reply, NoReply
  <1>2. PermitsInv
    <2>1. Held = {}
      BY DEF Init, Held, InTask
    <2>2. QED
      BY <2>1, FS_EmptySet, ListenerAssumption DEF Init, PermitsInv, PermitsAreAccounted
  <1>3. ASSUME NEW c \in Connection PROVE ConnectionInv(c)
    BY DEF Init, ConnectionInv, TaskAgreesOn, RevokedOn, RepliesMatchOn, ServedOn
  <1>4. QED
    BY <1>1, <1>2, <1>3 DEF IInv

-----------------------------------------------------------------------------
(* Permits.                                                                *)

\* A connection whose task ends returns exactly the permit it held.
LEMMA CloseReturns ==
    ASSUME TypeOK, PermitsInv, NEW c \in Connection, at[c] \in InTask, Close(c)
    PROVE  PermitsInv' /\ permits' \in 0..MaxConnections
  <1>1. Held' = Held \ {c} /\ c \in Held
    BY DEF Held, Close, InTask, TypeOK
  <1>2. IsFiniteSet(Held') /\ Cardinality(Held') = Cardinality(Held) - 1
    BY <1>1, FS_RemoveElement DEF PermitsInv
  <1>3. Cardinality(Held) \in Nat /\ Cardinality(Held') \in Nat
    BY <1>2, FS_CardinalityType DEF PermitsInv
  <1>4. QED
    BY <1>2, <1>3, ListenerAssumption DEF PermitsInv, PermitsAreAccounted, Close, TypeOK

\* A step that leaves every task where it is, or moves it within its task,
\* touches no permit.
LEMMA SameHeld ==
    ASSUME PermitsInv, UNCHANGED permits, Held' = Held
    PROVE  PermitsInv'
  BY DEF PermitsInv, PermitsAreAccounted

\* Moving c neither into nor out of its task leaves the set of holders alone.
LEMMA MovedWithin ==
    ASSUME TypeOK, NEW c \in Connection, NEW stage, at' = [at EXCEPT ![c] = stage],
           at[c] \in InTask <=> stage \in InTask
    PROVE  Held' = Held
  BY DEF Held, TypeOK

LEMMA PermitsStep == IInv /\ [Next]_vars => PermitsInv'
  <1> SUFFICES ASSUME IInv, [Next]_vars PROVE PermitsInv'
    OBVIOUS
  <1>0. TypeOK /\ PermitsInv
    BY DEF IInv
  <1>1. ASSUME NEW c \in Connection, Accept(c) PROVE PermitsInv'
    <2>1. Held' = Held \cup {c} /\ c \notin Held
      BY <1>0, <1>1 DEF Held, Accept, InTask, TypeOK
    <2>2. IsFiniteSet(Held') /\ Cardinality(Held') = Cardinality(Held) + 1
      BY <1>0, <2>1, FS_AddElement DEF PermitsInv
    <2>3. Cardinality(Held) \in Nat
      BY <1>0, FS_CardinalityType DEF PermitsInv
    <2>4. QED
      BY <1>0, <1>1, <2>2, <2>3, ListenerAssumption
         DEF PermitsInv, PermitsAreAccounted, Accept, TypeOK
  <1>2. ASSUME NEW c \in Connection, at[c] \in InTask, Close(c) PROVE PermitsInv'
    BY <1>0, <1>2, CloseReturns
  <1>3. ASSUME NEW c \in Connection,
               \/ Connect(c) \/ Reject(c) \/ Handshake(c) \/ ReadFrame(c) \/ ReadFails(c)
               \/ Execute(c) \/ ExecuteFails(c) \/ (SendReply(c) /\ c \notin broken)
        PROVE  PermitsInv'
    <2>1. UNCHANGED permits
      BY <1>3 DEF Connect, Reject, Handshake, ReadFrame, ReadFails, Execute, ExecuteFails,
                  SendReply, listenerVars
    <2>2. Held' = Held
      BY <1>0, <1>3, MovedWithin DEF InTask, Connect, Reject, Handshake, ReadFrame, ReadFails,
                  Execute, ExecuteFails, Answer, SendReply
    <2>3. QED
      BY <1>0, <2>1, <2>2, SameHeld
  <1>4. CASE AcceptFails
    <2>1. UNCHANGED permits /\ Held' = Held
      BY <1>0, <1>4 DEF AcceptFails, Held, InTask, TypeOK
    <2>2. QED
      BY <1>0, <2>1, SameHeld
  <1>5. CASE UNCHANGED <<permits, at>>
    BY <1>0, <1>5, SameHeld DEF Held
  <1>6. ASSUME NEW c \in Connection, NEW frame \in Frame, Send(c, frame) PROVE PermitsInv'
    BY <1>5, <1>6 DEF Send, listenerVars
  <1>7. ASSUME NEW c \in Connection,
               ReadEnd(c) \/ HandshakeFails(c) \/ SendFails(c) \/ (SendReply(c) /\ c \in broken)
        PROVE  PermitsInv'
    BY <1>2, <1>7 DEF ReadEnd, HandshakeFails, SendFails, SendReply, InTask
  <1>8. ASSUME NEW c \in Connection, HangUp(c) PROVE PermitsInv'
    BY <1>5, <1>8 DEF HangUp, listenerVars
  <1>9. ASSUME NEW b \in Bearer, Revoke(b) PROVE PermitsInv'
    BY <1>5, <1>9 DEF Revoke, listenerVars
  <1>10. CASE UNCHANGED vars
    BY <1>5, <1>10 DEF vars, listenerVars
  <1>11. QED
    BY <1>1, <1>3, <1>4, <1>6, <1>7, <1>8, <1>9, <1>10 DEF Next, Read

-----------------------------------------------------------------------------
(* Types.                                                                  *)

LEMMA TypeStep == IInv /\ [Next]_vars => TypeOK'
  <1> SUFFICES ASSUME IInv, [Next]_vars PROVE TypeOK'
    OBVIOUS
  <1>0. TypeOK /\ PermitsInv
    BY DEF IInv
  <1> USE DEF InTask, listenerVars, peerVars, taskVars
  <1>1. ASSUME NEW c \in Connection, Connect(c) \/ Accept(c) \/ Reject(c) \/ Handshake(c)
        PROVE  TypeOK'
    <2>1. permits' \in 0..MaxConnections
      BY <1>0, <1>1, ListenerAssumption DEF TypeOK, Connect, Accept, Reject, Handshake
    <2>2. PICK stage \in {"queued", "handshake", "done", "reading"} : at' = [at EXCEPT ![c] = stage]
      BY <1>1 DEF Connect, Accept, Reject, Handshake
    <2>3. UNCHANGED <<listening, peerVars, taskVars, revoked>>
      BY <1>1 DEF Connect, Accept, Reject, Handshake
    <2>4. QED
      BY <1>0, <2>1, <2>2, <2>3 DEF TypeOK
  <1>2. CASE AcceptFails
    BY <1>0, <1>2 DEF TypeOK, AcceptFails
  <1>3. ASSUME NEW c \in Connection, HandshakeFails(c) \/ ReadEnd(c) \/ SendFails(c)
        PROVE  TypeOK'
    <2>1. Close(c) /\ permits' \in 0..MaxConnections /\ UNCHANGED <<peerVars, taskVars, revoked>>
      BY <1>0, <1>3, CloseReturns DEF HandshakeFails, ReadEnd, SendFails
    <2>2. QED
      BY <1>0, <2>1 DEF TypeOK, Close
  <1>4. ASSUME NEW c \in Connection, ReadFrame(c) PROVE TypeOK'
    <2>1. taken' \in [Connection -> Nat] /\ taken'[c] \in Nat
      BY <1>0, <1>4 DEF TypeOK, ReadFrame
    <2>2. CASE NextFrame(c).form = "sound"
      BY <1>0, <1>4, <2>1, <2>2 DEF TypeOK, ReadFrame
    <2>3. CASE NextFrame(c).form = "invalid"
      <3>1. PICK answer \in [to: {0}, code: {"invalid_request"}]
                   \cup [to: {taken'[c]}, code: {"invalid_request", "unauthorized"}] :
                 reply' = [reply EXCEPT ![c] = answer]
        BY <1>4, <2>3 DEF ReadFrame
      <3>2. answer \in Reply
        BY <2>1, <3>1 DEF Reply
      <3>3. at' = [at EXCEPT ![c] = "sending"]
        BY <1>4, <2>3 DEF ReadFrame
      <3>4. QED
        BY <1>0, <1>4, <2>1, <3>1, <3>2, <3>3 DEF TypeOK, ReadFrame
    <2>4. QED
      BY <1>4, <2>2, <2>3 DEF ReadFrame
  <1>5. ASSUME NEW c \in Connection, ReadFails(c) PROVE TypeOK'
    BY <1>0, <1>5 DEF TypeOK, ReadFails, Reply, BadFrame
  <1>6. ASSUME NEW c \in Connection, Execute(c) \/ ExecuteFails(c) PROVE TypeOK'
    <2>1. PICK code \in {"ok", "unauthorized", "failed"} : Answer(c, code)
      BY <1>6 DEF Execute, ExecuteFails
    <2>2. UNCHANGED <<listenerVars, peerVars, taken, broken, replies, revoked>>
      BY <1>6 DEF Execute, ExecuteFails
    <2>3. QED
      BY <1>0, <2>1, <2>2 DEF TypeOK, Answer, Reply
  <1>7. ASSUME NEW c \in Connection, SendReply(c) PROVE TypeOK'
    <2>1. replies' \in [Connection -> Seq(Reply)]
      BY <1>0, <1>7 DEF TypeOK, SendReply
    <2>2. permits' \in 0..MaxConnections /\ listening' \in BOOLEAN
      BY <1>0, <1>7, CloseReturns DEF TypeOK, SendReply, Close
    <2>3. at' \in [Connection -> {"absent", "queued", "done"} \cup InTask]
      BY <1>0, <1>7 DEF TypeOK, SendReply, Close
    <2>4. QED
      BY <1>0, <1>7, <2>1, <2>2, <2>3 DEF TypeOK, SendReply
  <1>8. ASSUME NEW c \in Connection, NEW frame \in Frame, Send(c, frame) PROVE TypeOK'
    <2> DEFINE m == [frame |-> frame,
                     revoked |-> frame.form = "sound" /\ frame.bearer \in revoked]
    <2>1. m \in [frame: Frame, revoked: BOOLEAN]
      BY Zenon
    <2>2. sent' = [sent EXCEPT ![c] = Append(@, m)]
      BY <1>8 DEF Send
    <2> HIDE DEF m
    <2>3. sent' \in [Connection -> Seq([frame: Frame, revoked: BOOLEAN])]
      <3> DEFINE M == [frame: Frame, revoked: BOOLEAN]
      <3>1. sent \in [Connection -> Seq(M)] /\ m \in M
        BY <1>0, <2>1 DEF TypeOK
      <3> HIDE DEF M
      <3>2. sent' \in [Connection -> Seq(M)]
        BY <2>2, <3>1
      <3>3. QED
        BY <3>2 DEF M
    <2>4. QED
      BY <1>0, <1>8, <2>3 DEF TypeOK, Send
  <1>9. ASSUME NEW c \in Connection, HangUp(c) PROVE TypeOK'
    BY <1>0, <1>9 DEF TypeOK, HangUp
  <1>10. ASSUME NEW b \in Bearer, Revoke(b) PROVE TypeOK'
    BY <1>0, <1>10 DEF TypeOK, Revoke
  <1>11. CASE UNCHANGED vars
    BY <1>0, <1>11 DEF TypeOK, vars
  <1>12. QED
    BY <1>1, <1>2, <1>3, <1>4, <1>5, <1>6, <1>7, <1>8, <1>9, <1>10, <1>11 DEF Next, Read

-----------------------------------------------------------------------------
(* What holds on each connection.                                          *)

\* A connection nothing happens on, while others run and bearers are revoked.
LEMMA OthersStay ==
    ASSUME NEW c \in Connection, ConnectionInv(c), revoked \subseteq revoked',
           at'[c] = at[c], sent'[c] = sent[c], taken'[c] = taken[c],
           (c \in broken') <=> (c \in broken), reply'[c] = reply[c], replies'[c] = replies[c]
    PROVE  ConnectionInv(c)'
  <1>1. TaskAgreesOn(c)'
    BY DEF ConnectionInv, TaskAgreesOn, Answers, Authenticated
  <1>2. RevokedOn(c)'
    BY DEF ConnectionInv, RevokedOn
  <1>3. RepliesMatchOn(c)'
    BY DEF ConnectionInv, RepliesMatchOn, Answers
  <1>4. ServedOn(c)'
    BY DEF ConnectionInv, ServedOn, Authenticated
  <1>5. QED
    BY <1>1, <1>2, <1>3, <1>4 DEF ConnectionInv

\* Nothing is in the making before the first frame and between two; and when
\* the task has ended, nothing can be added.
LEMMA OnlyMoves ==
    ASSUME NEW c \in Connection, ConnectionInv(c),
           UNCHANGED <<sent, taken, broken, reply, replies, revoked>>,
           \/ at'[c] = "done"
           \/ /\ at[c] \in {"absent", "queued", "handshake", "reading"}
              /\ at'[c] \in {"absent", "queued", "handshake", "reading"}
    PROVE  ConnectionInv(c)'
  <1>1. TaskAgreesOn(c)'
    BY DEF ConnectionInv, TaskAgreesOn
  <1>2. RevokedOn(c)' /\ ServedOn(c)'
    BY DEF ConnectionInv, RevokedOn, ServedOn, Authenticated
  <1>3. RepliesMatchOn(c)'
    <2>1. at'[c] # "done" => taken[c] = Len(replies[c])
      BY DEF ConnectionInv, TaskAgreesOn
    <2>2. taken[c] = Len(replies[c]) => taken[c] # Len(replies[c]) + 1
      BY SMT
    <2>3. QED
      BY <2>1, <2>2 DEF ConnectionInv, RepliesMatchOn, Answers
  <1>4. QED
    BY <1>1, <1>2, <1>3 DEF ConnectionInv

\* A new frame changes nothing about the frames before it.
LEMMA SendKeeps ==
    ASSUME TypeOK, NEW c \in Connection, ConnectionInv(c),
           NEW frame \in Frame, Send(c, frame)
    PROVE  ConnectionInv(c)'
  <1> DEFINE m == [frame |-> frame,
                   revoked |-> frame.form = "sound" /\ frame.bearer \in revoked]
  <1>1. /\ sent'[c] = Append(sent[c], m)
        /\ UNCHANGED <<at, taken, broken, reply, replies, revoked>>
    BY DEF TypeOK, Send, taskVars
  <1>2. m.revoked => m.frame.form = "sound" /\ m.frame.bearer \in revoked
    OBVIOUS
  <1> HIDE DEF m
  <1>3. sent[c] \in Seq([frame: Frame, revoked: BOOLEAN]) /\ taken[c] \in Nat
        /\ replies[c] \in Seq(Reply)
    BY DEF TypeOK
  <1>4. /\ Len(sent'[c]) = Len(sent[c]) + 1
        /\ \A i \in 1..Len(sent[c]) : sent'[c][i] = sent[c][i]
        /\ sent'[c][Len(sent[c]) + 1] = m
    BY <1>1, <1>3
  <1>5. Len(sent[c]) \in Nat /\ Len(replies[c]) \in Nat /\ taken[c] <= Len(sent[c])
    BY <1>3 DEF ConnectionInv, TaskAgreesOn
  <1>6. TaskAgreesOn(c)'
    BY <1>1, <1>3, <1>4, <1>5 DEF ConnectionInv, TaskAgreesOn, Answers, Authenticated
  <1>7. RevokedOn(c)'
    BY <1>1, <1>2, <1>4, <1>5 DEF ConnectionInv, RevokedOn
  <1>8. ASSUME NEW i \in 1..Len(replies[c]), i <= taken[c] PROVE sent'[c][i] = sent[c][i]
    BY <1>3, <1>4, <1>5, <1>8
  <1>9. RepliesMatchOn(c)'
    BY <1>1, <1>8 DEF ConnectionInv, RepliesMatchOn, Answers
  <1>10. ServedOn(c)'
    <2>1. \A i \in 1..Len(replies[c]) : replies[c][i].code = "ok" => i <= taken[c]
      BY <1>3, <1>5 DEF ConnectionInv, RepliesMatchOn, BadFrame
    <2>2. QED
      BY <1>1, <1>8, <2>1 DEF ConnectionInv, ServedOn, Authenticated
  <1>11. QED
    BY <1>6, <1>7, <1>9, <1>10 DEF ConnectionInv

LEMMA ReadFrameKeeps ==
    ASSUME TypeOK, NEW c \in Connection, ConnectionInv(c), ReadFrame(c)
    PROVE  ConnectionInv(c)'
  <1>1. sent[c] \in Seq([frame: Frame, revoked: BOOLEAN]) /\ taken[c] \in Nat
        /\ replies[c] \in Seq(Reply)
    BY DEF TypeOK
  <1>2. /\ taken[c] = Len(replies[c]) /\ c \notin broken /\ taken'[c] = taken[c] + 1
        /\ taken[c] < Len(sent[c])
        /\ UNCHANGED <<sent, broken, replies, revoked>>
    BY <1>1 DEF TypeOK, ReadFrame, Unread, ConnectionInv, TaskAgreesOn, peerVars
  <1>3. \/ at'[c] = "executing" /\ sent[c][taken'[c]].frame.form = "sound"
        \/ /\ at'[c] = "sending" /\ sent[c][taken'[c]].frame.form = "invalid"
           /\ reply'[c].to \in {0, taken'[c]} /\ reply'[c].code # "ok"
    <2>1. CASE NextFrame(c).form = "sound"
      BY <1>2, <2>1 DEF TypeOK, ReadFrame, NextFrame
    <2>2. CASE NextFrame(c).form = "invalid"
      <3>1. PICK answer \in [to: {0}, code: {"invalid_request"}]
                   \cup [to: {taken'[c]}, code: {"invalid_request", "unauthorized"}] :
                 reply' = [reply EXCEPT ![c] = answer]
        BY <2>2 DEF ReadFrame
      <3>2. reply'[c].to \in {0, taken'[c]} /\ reply'[c].code # "ok"
        BY <3>1 DEF TypeOK
      <3>3. QED
        BY <1>2, <2>2, <3>2 DEF TypeOK, ReadFrame, NextFrame
    <2>3. QED
      BY <2>1, <2>2 DEF ReadFrame
  <1>4. TaskAgreesOn(c)'
    BY <1>1, <1>2, <1>3 DEF TaskAgreesOn, Answers
  <1>5. RevokedOn(c)' /\ ServedOn(c)'
    BY <1>2 DEF ConnectionInv, RevokedOn, ServedOn, Authenticated
  <1>6. RepliesMatchOn(c)'
    BY <1>1, <1>2, <1>3 DEF ConnectionInv, RepliesMatchOn, Answers
  <1>7. QED
    BY <1>4, <1>5, <1>6 DEF ConnectionInv

LEMMA ReadFailsKeeps ==
    ASSUME TypeOK, NEW c \in Connection, ConnectionInv(c), ReadFails(c)
    PROVE  ConnectionInv(c)'
  <1>1. taken[c] \in Nat /\ replies[c] \in Seq(Reply)
    BY DEF TypeOK
  <1>2. /\ taken[c] = Len(replies[c]) /\ c \in broken' /\ at'[c] = "sending"
        /\ reply'[c] = BadFrame /\ UNCHANGED <<sent, taken, replies, revoked>>
    BY DEF TypeOK, ReadFails, ConnectionInv, TaskAgreesOn, peerVars
  <1>3. TaskAgreesOn(c)'
    BY <1>1, <1>2 DEF ConnectionInv, TaskAgreesOn
  <1>4. RevokedOn(c)' /\ ServedOn(c)'
    BY <1>2 DEF ConnectionInv, RevokedOn, ServedOn, Authenticated
  <1>5. RepliesMatchOn(c)'
    BY <1>1, <1>2 DEF ConnectionInv, RepliesMatchOn, Answers
  <1>6. QED
    BY <1>3, <1>4, <1>5 DEF ConnectionInv

\* An answer of success is given to an operation that is permitted now; a
\* bearer revoked before the frame was sent would still be.
LEMMA ExecuteKeeps ==
    ASSUME TypeOK, NEW c \in Connection, ConnectionInv(c), Execute(c) \/ ExecuteFails(c)
    PROVE  ConnectionInv(c)'
  <1>1. sent[c] \in Seq([frame: Frame, revoked: BOOLEAN]) /\ taken[c] \in Nat
        /\ replies[c] \in Seq(Reply)
    BY DEF TypeOK
  <1>2. /\ taken[c] = Len(replies[c]) + 1 /\ c \notin broken
        /\ taken[c] <= Len(sent[c]) /\ sent[c][taken[c]].frame.form = "sound"
        /\ UNCHANGED <<sent, taken, broken, replies, revoked>>
    BY DEF Execute, ExecuteFails, ConnectionInv, TaskAgreesOn, peerVars
  <1>3. PICK code \in {"ok", "unauthorized", "failed"} :
             Answer(c, code) /\ (code = "ok" => Permitted(c))
    BY DEF Execute, ExecuteFails
  <1>4. at'[c] = "sending" /\ reply'[c].to = taken[c] /\ reply'[c].code = code
    BY <1>3 DEF TypeOK, Answer
  <1>5. Permitted(c) => Authenticated(c, taken[c])
    <2>1. taken[c] \in 1..Len(sent[c])
      BY <1>1, <1>2
    <2>2. QED
      BY <1>2, <2>1 DEF ConnectionInv, RevokedOn, Permitted, Authenticated
  <1>6. TaskAgreesOn(c)'
    <2>1. Authenticated(c, taken[c]) <=> Authenticated(c, taken[c])'
      BY <1>2 DEF Authenticated
    <2>2. QED
      BY <1>2, <1>3, <1>4, <1>5, <2>1 DEF TaskAgreesOn, Answers
  <1>7. RevokedOn(c)' /\ ServedOn(c)'
    BY <1>2 DEF ConnectionInv, RevokedOn, ServedOn, Authenticated
  <1>8. RepliesMatchOn(c)'
    BY <1>2, <1>4 DEF ConnectionInv, RepliesMatchOn, Answers
  <1>9. QED
    BY <1>6, <1>7, <1>8 DEF ConnectionInv

LEMMA SendReplyKeeps ==
    ASSUME TypeOK, NEW c \in Connection, ConnectionInv(c), SendReply(c)
    PROVE  ConnectionInv(c)'
  <1>1. sent[c] \in Seq([frame: Frame, revoked: BOOLEAN]) /\ taken[c] \in Nat
        /\ replies[c] \in Seq(Reply) /\ reply[c] \in Reply
    BY DEF TypeOK
  <1>2. /\ replies'[c] = Append(replies[c], reply[c])
        /\ UNCHANGED <<sent, taken, broken, revoked>>
        /\ at'[c] = IF c \in broken THEN "done" ELSE "reading"
    BY DEF TypeOK, SendReply, Close, peerVars
  <1>3. /\ Len(replies[c]) \in Nat /\ Len(replies'[c]) = Len(replies[c]) + 1
        /\ \A i \in 1..Len(replies[c]) : replies'[c][i] = replies[c][i]
        /\ replies'[c][Len(replies[c]) + 1] = reply[c]
    BY <1>1, <1>2
  <1>4. \/ c \in broken /\ taken[c] = Len(replies[c]) /\ reply[c] = BadFrame
        \/ /\ c \notin broken /\ taken[c] = Len(replies[c]) + 1
           /\ Answers(c, taken[c], reply[c])
           /\ reply[c].code = "ok" => Authenticated(c, taken[c])
    BY DEF SendReply, ConnectionInv, TaskAgreesOn
  <1>5. TaskAgreesOn(c)'
    BY <1>1, <1>2, <1>3, <1>4 DEF ConnectionInv, TaskAgreesOn
  <1>6. RevokedOn(c)'
    BY <1>2 DEF ConnectionInv, RevokedOn
  <1>7. ASSUME NEW i \in 1..Len(replies'[c])
        PROVE  i \in 1..Len(replies[c]) \/ i = Len(replies[c]) + 1
    BY <1>3
  <1>8. RepliesMatchOn(c)'
    <2>1. taken[c] \in {Len(replies[c]), Len(replies[c]) + 1}
      BY <1>4
    <2>2. ASSUME NEW i \in 1..Len(replies[c])
          PROVE  i <= taken[c] /\ Answers(c, i, replies[c][i])
      BY <1>3, <2>1, <2>2 DEF ConnectionInv, RepliesMatchOn
    <2>3. ASSUME NEW i \in 1..Len(replies'[c])
          PROVE  IF i <= taken[c] THEN Answers(c, i, replies'[c][i])
                 ELSE replies'[c][i] = BadFrame /\ c \in broken /\ i = Len(replies'[c])
      BY <1>3, <1>4, <1>7, <2>2, <2>3
    <2>4. QED
      BY <1>2, <1>3, <2>1, <2>3 DEF RepliesMatchOn, Answers
  <1>9. ServedOn(c)'
    <2>1. ASSUME NEW i \in 1..Len(replies'[c]), replies'[c][i].code = "ok"
          PROVE  Authenticated(c, i)
      <3>1. CASE i \in 1..Len(replies[c])
        BY <1>3, <2>1, <3>1 DEF ConnectionInv, ServedOn
      <3>2. CASE i = Len(replies[c]) + 1
        BY <1>3, <1>4, <2>1, <3>2 DEF BadFrame
      <3>3. QED
        BY <1>7, <2>1, <3>1, <3>2
    <2>2. QED
      BY <1>2, <2>1 DEF ServedOn, Authenticated
  <1>10. QED
    BY <1>5, <1>6, <1>8, <1>9 DEF ConnectionInv

LEMMA ConnectionStep ==
    ASSUME IInv, [Next]_vars, NEW c \in Connection
    PROVE  ConnectionInv(c)'
  <1>0. TypeOK /\ ConnectionInv(c)
    BY DEF IInv
  <1> USE DEF listenerVars, peerVars, taskVars
  <1>1. ASSUME NEW d \in Connection,
               Connect(d) \/ Accept(d) \/ Reject(d) \/ Handshake(d) \/ HandshakeFails(d)
                 \/ ReadEnd(d) \/ SendFails(d)
        PROVE  ConnectionInv(c)'
    <2>1. UNCHANGED <<sent, taken, broken, reply, replies, revoked>>
      BY <1>1 DEF Connect, Accept, Reject, Handshake, HandshakeFails, ReadEnd, SendFails
    <2>2. CASE d = c
      <3>1. \/ at'[c] = "done"
            \/ /\ at[c] \in {"absent", "queued", "handshake", "reading"}
               /\ at'[c] \in {"absent", "queued", "handshake", "reading"}
        BY <1>0, <1>1, <2>2
           DEF TypeOK, Connect, Accept, Reject, Handshake, HandshakeFails, ReadEnd,
               SendFails, Close
      <3>2. QED
        BY <1>0, <2>1, <3>1, OnlyMoves
    <2>3. CASE d # c
      <3>1. at'[c] = at[c]
        BY <1>0, <1>1, <2>3
           DEF TypeOK, Connect, Accept, Reject, Handshake, HandshakeFails, ReadEnd,
               SendFails, Close
      <3>2. QED
        BY <1>0, <2>1, <3>1, OthersStay
    <2>4. QED
      BY <2>2, <2>3
  <1>2. CASE AcceptFails
    <2>1. at'[c] = at[c] \/ at'[c] = "done"
      BY <1>2 DEF AcceptFails
    <2>2. UNCHANGED <<sent, taken, broken, reply, replies, revoked>>
      BY <1>2 DEF AcceptFails
    <2>3. QED
      BY <1>0, <2>1, <2>2, OnlyMoves, OthersStay
  <1>3. ASSUME NEW d \in Connection, d # c,
               ReadFrame(d) \/ ReadFails(d) \/ Execute(d) \/ ExecuteFails(d) \/ SendReply(d)
        PROVE  ConnectionInv(c)'
    <2>1. /\ at'[c] = at[c] /\ taken'[c] = taken[c] /\ reply'[c] = reply[c]
          /\ replies'[c] = replies[c] /\ (c \in broken' <=> c \in broken)
          /\ UNCHANGED <<sent, revoked>>
      BY <1>0, <1>3
         DEF TypeOK, ReadFrame, ReadFails, Execute, ExecuteFails, Answer, SendReply, Close
    <2>2. QED
      BY <1>0, <2>1, OthersStay
  <1>4. ASSUME ReadFrame(c) \/ ReadFails(c) \/ Execute(c) \/ ExecuteFails(c) \/ SendReply(c)
        PROVE  ConnectionInv(c)'
    BY <1>0, <1>4, ReadFrameKeeps, ReadFailsKeeps, ExecuteKeeps, SendReplyKeeps
  <1>5. ASSUME NEW d \in Connection, NEW frame \in Frame, Send(d, frame)
        PROVE  ConnectionInv(c)'
    <2>1. CASE d = c
      BY <1>0, <1>5, <2>1, SendKeeps
    <2>2. CASE d # c
      <3>1. sent'[c] = sent[c] /\ UNCHANGED <<at, taken, broken, reply, replies, revoked>>
        BY <1>0, <1>5, <2>2 DEF TypeOK, Send
      <3>2. QED
        BY <1>0, <3>1, OthersStay
    <2>3. QED
      BY <2>1, <2>2
  <1>6. CASE UNCHANGED <<at, sent, taken, broken, reply, replies>> /\ revoked \subseteq revoked'
    BY <1>0, <1>6, OthersStay
  <1>7. ASSUME NEW d \in Connection, HangUp(d) PROVE ConnectionInv(c)'
    BY <1>6, <1>7 DEF HangUp
  <1>8. ASSUME NEW b \in Bearer, Revoke(b) PROVE ConnectionInv(c)'
    BY <1>6, <1>8 DEF Revoke
  <1>9. CASE UNCHANGED vars
    BY <1>6, <1>9 DEF vars
  <1>10. QED
    BY <1>1, <1>2, <1>3, <1>4, <1>5, <1>7, <1>8, <1>9 DEF Next, Read

-----------------------------------------------------------------------------
(* Theorems.                                                               *)

THEOREM Invariance == Spec => []IInv
  <1>1. IInv /\ [Next]_vars => IInv'
    BY TypeStep, PermitsStep, ConnectionStep DEF IInv
  <1>2. QED
    BY ListenerInit, <1>1, PTL DEF Spec

\* Every variable keeps its type, and the semaphore never goes above or below
\* its bounds.
THEOREM ListenerTypeCorrect == Spec => []TypeOK
  <1>1. IInv => TypeOK
    BY DEF IInv
  <1>2. QED
    BY Invariance, <1>1, PTL

\* Free permits and the tasks that hold one always add up to max_connections.
THEOREM PermitsAddUp == Spec => []PermitsAreAccounted
  <1>1. IInv => PermitsAreAccounted
    BY DEF IInv, PermitsInv
  <1>2. QED
    BY Invariance, <1>1, PTL

\* Replies come one per frame and in the order of the frames.
THEOREM RepliesInOrder == Spec => []RepliesMatchFrames
  <1>1. IInv => RepliesMatchFrames
    BY DEF IInv, ConnectionInv, RepliesMatchFrames
  <1>2. QED
    BY Invariance, <1>1, PTL

\* Every operation that is served was authenticated for itself.
THEOREM ServesAuthenticated == Spec => []ServedIsAuthenticated
  <1>1. IInv => ServedIsAuthenticated
    BY DEF IInv, ConnectionInv, ServedIsAuthenticated
  <1>2. QED
    BY Invariance, <1>1, PTL

=============================================================================
