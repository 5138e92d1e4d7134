------------------------- MODULE ServerProcessProofs -------------------------
(***************************************************************************)
(* Proofs about ServerProcess and the ShutdownSupervisor inside it, for    *)
(* any set of connections (also an infinite one), any number of signals    *)
(* and every configuration.                                                *)
(***************************************************************************)
EXTENDS ServerProcess, SequenceTheorems, TLAPS

-----------------------------------------------------------------------------
(* The inductive invariant.                                                *)

\* Ctrl-D is listened for only on a terminal after Ctrl-C, and reported only
\* when the terminal has ended.
WatcherAgrees ==
    /\ watcher # "none" => state.tty /\ state.first = "sigint"
    /\ watcher = "sent" => stdin = "closed"

\* Nothing follows the end of the signal stream.
StreamEndsOnce ==
    \A i \in 1..Len(triggers) : triggers[i] = "streamClosed" => i = Len(triggers)

One(condition) == IF condition THEN 1 ELSE 0

\* Signals are merged, never multiplied: those not yet received, those in
\* the channel and the one that began the shutdown were all raised.
SignalsAreCounted ==
    One("sigint" \in signalled) + One("sigterm" \in signalled)
        + Len(triggers) + One(state.phase # "running")
      <= sent + One(~SignalTaskRuns)

\* The phase of the supervisor and the server task go together, and a server
\* that is done has no connection.
ServerAgrees ==
    /\ state.phase = "running" => server \in {"unbound", "serving", "failed"}
    /\ state.phase = "draining" => server \in {"draining", "done", "failed"}
    /\ state.phase = "forcing" => server \in {"stopping", "done", "failed", "aborted"}
    /\ state.phase = "complete" => Ended
    /\ server \in {"unbound", "done"} => open = {}
    /\ outcome # "invalid"

SupervisorInv ==
    /\ TypeOK /\ WatcherAgrees /\ StreamEndsOnce /\ SignalsAreCounted
    /\ ServerAgrees /\ ForceIsJustified /\ DrainingDropsNothing

\* The server exists from "handlers" on, the supervisor from "up" on; what was
\* read from the environment is sound as long as it is used.
StartAgrees ==
    /\ at # "up" => state.phase = "running"
    /\ server = "unbound" <=> at \notin {"handlers", "up"}
    /\ at \in {"telemetry", "broker", "clients", "listener", "journal", "http"} => FromEnv(settings)

ProcessInv == ProcessTypeOK /\ SupervisorInv /\ StartAgrees

-----------------------------------------------------------------------------
(* The channel of triggers.                                                *)

Trigger == Signal \cup {"streamClosed"}

\* Taking the first trigger moves the others up by one.
LEMMA TakenTrigger ==
    ASSUME NEW q \in Seq(Trigger), q # <<>>
    PROVE  /\ Head(q) \in Trigger /\ Head(q) = q[1] /\ Len(q) \in Nat \ {0}
           /\ Tail(q) \in Seq(Trigger) /\ Len(Tail(q)) = Len(q) - 1
           /\ \A i \in 1..(Len(q) - 1) : Tail(q)[i] = q[i + 1]
  BY HeadTailProperties, EmptySeq

\* An added trigger comes last.
LEMMA AddedTrigger ==
    ASSUME NEW q \in Seq(Trigger), NEW t \in Trigger
    PROVE  /\ Append(q, t) \in Seq(Trigger) /\ Len(q) \in Nat
           /\ Len(Append(q, t)) = Len(q) + 1
           /\ \A i \in 1..Len(q) : Append(q, t)[i] = q[i]
           /\ Append(q, t)[Len(q) + 1] = t
  BY AppendProperties, LenProperties

-----------------------------------------------------------------------------
(* State::apply.                                                           *)

\* What a trigger makes of the state: it begins a shutdown once, and only a
\* second signal, the clock, or Ctrl-D where it is offered forces it.
LEMMA Applied ==
    ASSUME TypeOK, NEW t \in Signal \cup {"complete", "timeout", "eof"}
    PROVE  LET next == Apply(state, t) IN
           /\ state.phase = "running" /\ t \in Signal =>
                /\ next.action = "BeginGraceful"
                /\ next.state.phase = "draining" /\ next.state.first = t
                /\ next.state.tty = state.tty
                /\ next.showForceHint <=> (state.tty /\ t = "sigint")
           /\ state.phase = "draining" /\ t = "complete" =>
                next.state = [state EXCEPT !.phase = "complete"]
           /\ state.phase = "draining" /\ t \in Signal \cup {"timeout"} =>
                next.action = "Force" /\ next.state = [state EXCEPT !.phase = "forcing"]
           /\ state.phase = "draining" /\ t = "eof" /\ state.tty /\ state.first = "sigint" =>
                next.action = "Force" /\ next.state = [state EXCEPT !.phase = "forcing"]
  BY DEF Apply, Begun, Moved, Ignored, TypeOK, Signal

\* The first trigger ends the process or begins the draining; no trigger is
\* refused.
LEMMA FirstTriggerDoes ==
    ASSUME SupervisorInv, FirstTrigger
    PROVE  \/ /\ Head(triggers) = "streamClosed"
              /\ Return("failed") /\ UNCHANGED <<state, server, watcher>>
           \/ /\ Head(triggers) \in Signal
              /\ state' = [state EXCEPT !.phase = "draining", !.first = Head(triggers)]
              /\ Tell("draining")
              /\ watcher' \in IF state.tty /\ Head(triggers) = "sigint"
                              THEN {"reading", "none"} ELSE {"none"}
              /\ UNCHANGED <<outcome, open, dropped>>
  <1>1. TypeOK /\ state.phase = "running" /\ triggers # <<>> /\ triggers \in Seq(Trigger)
    BY DEF SupervisorInv, FirstTrigger, TypeOK, Trigger
  <1>2. Head(triggers) \in Trigger
    BY <1>1, TakenTrigger
  <1>3. CASE Head(triggers) = "streamClosed"
    BY <1>1, <1>3 DEF FirstTrigger, Apply, Signal, Ignored
  <1>4. CASE Head(triggers) \in Signal
    <2>1. /\ Apply(state, Head(triggers)).action = "BeginGraceful"
          /\ Apply(state, Head(triggers)).state =
                [state EXCEPT !.phase = "draining", !.first = Head(triggers)]
          /\ Apply(state, Head(triggers)).showForceHint <=> (state.tty /\ Head(triggers) = "sigint")
      BY <1>1, <1>4 DEF Apply, Begun
    <2>2. Head(triggers) # "streamClosed"
      BY <1>4 DEF Signal
    <2>3. QED
      BY <1>4, <2>1, <2>2 DEF FirstTrigger
  <1>5. QED
    BY <1>2, <1>3, <1>4 DEF Trigger

\* Once forced, the server is told to stop, for one of the three reasons.
Forces ==
    /\ state' = [state EXCEPT !.phase = "forcing"]
    /\ Tell("stopping")
    /\ UNCHANGED <<outcome, open, dropped>>

LEMMA ForceTriggerDoes ==
    ASSUME SupervisorInv, ForceTrigger
    PROVE  \/ /\ triggers # <<>> /\ triggers' = Tail(triggers)
              /\ Head(triggers) = "streamClosed"
              /\ Return("failed") /\ UNCHANGED <<state, server>>
           \/ /\ triggers # <<>> /\ triggers' = Tail(triggers)
              /\ Head(triggers) \in Signal /\ Forces
           \/ graceOver /\ Forces /\ UNCHANGED triggers
           \/ watcher = "sent" /\ Forces /\ UNCHANGED triggers
  <1>1. /\ TypeOK /\ state.phase = "draining" /\ triggers \in Seq(Trigger)
        /\ watcher = "sent" => state.tty /\ state.first = "sigint"
    BY DEF SupervisorInv, WatcherAgrees, ForceTrigger, TypeOK, Trigger
  <1>2. ASSUME NEW t, ForceOn(t),
               \/ t \in Signal \cup {"timeout"}
               \/ t = "eof" /\ state.tty /\ state.first = "sigint"
        PROVE  Forces
    <2>1. /\ Apply(state, t).action = "Force"
          /\ Apply(state, t).state = [state EXCEPT !.phase = "forcing"]
      BY <1>1, <1>2, Applied
    <2>2. QED
      BY <1>2, <2>1 DEF ForceOn, Forces
  <1>3. CASE /\ triggers # <<>> /\ triggers' = Tail(triggers)
             /\ IF Head(triggers) = "streamClosed"
                THEN Return("failed") /\ UNCHANGED <<state, server>>
                ELSE ForceOn(Head(triggers))
    <2>1. Head(triggers) \in Signal \cup {"streamClosed"}
      BY <1>1, <1>3, TakenTrigger DEF Trigger
    <2>2. QED
      BY <1>2, <1>3, <2>1
  <1>4. QED
    BY <1>1, <1>2, <1>3 DEF ForceTrigger

-----------------------------------------------------------------------------
(* The supervisor, its signals and the server: one lemma for each part of  *)
(* the invariant.                                                          *)

LEMMA SupervisorTypeStep == SupervisorInv /\ Next => TypeOK'
  <1> SUFFICES ASSUME SupervisorInv, Next PROVE TypeOK'
    OBVIOUS
  <1> USE DEF supervisorVars, signalVars, serverVars
  <1>0. TypeOK /\ triggers \in Seq(Trigger)
    BY DEF SupervisorInv, TypeOK, Trigger
  <1>1. ASSUME NEW s \in Signal, RaiseSignal(s) PROVE TypeOK'
    BY <1>0, <1>1, ShutdownAssumption DEF RaiseSignal, TypeOK
  <1>2. ASSUME NEW s \in Signal, ForwardSignal(s) PROVE TypeOK'
    <2>1. triggers' \in Seq(Trigger)
      BY <1>0, <1>2, AddedTrigger DEF ForwardSignal, Trigger
    <2>2. QED
      BY <1>0, <1>2, <2>1 DEF ForwardSignal, TypeOK, Trigger
  <1>3. CASE SignalStreamCloses
    <2>1. triggers' \in Seq(Trigger)
      BY <1>0, <1>3, AddedTrigger DEF SignalStreamCloses, Trigger
    <2>2. QED
      BY <1>0, <1>3, <2>1 DEF SignalStreamCloses, TypeOK, Trigger
  <1>4. CASE CloseStdin \/ WatchStdin \/ GraceExpires
    BY <1>0, <1>4 DEF CloseStdin, WatchStdin, GraceExpires, TypeOK
  <1>5. ASSUME NEW c \in Connection, OpenConnection(c) \/ Respond(c) PROVE TypeOK'
    BY <1>0, <1>5 DEF OpenConnection, Respond, TypeOK
  <1>6. CASE ServerTaskEnds
    BY <1>0, <1>6 DEF ServerTaskEnds, TypeOK
  <1>7. CASE ServerReturned
    <2>1. state' \in {state, [state EXCEPT !.phase = "complete"]}
      <3>1. CASE server = "done"
        <4>1. state.phase = "draining"
          BY <1>7, <3>1 DEF SupervisorInv, ServerAgrees, ServerReturned
        <4>2. QED
          BY <1>0, <1>7, <3>1, <4>1, Applied DEF ServerReturned
      <3>2. QED
        BY <1>7, <3>1 DEF ServerReturned
    <2>2. QED
      BY <1>0, <1>7, <2>1 DEF ServerReturned, Return, TypeOK
  <1>8. CASE FirstTrigger
    <2>1. /\ triggers' \in Seq(Trigger)
          /\ UNCHANGED <<signalled, sent, stdin, graceOver>>
      BY <1>0, <1>8, TakenTrigger DEF FirstTrigger
    <2>2. /\ state' \in [phase: {"running", "draining", "forcing", "complete"},
                         tty: BOOLEAN, first: Signal \cup {"none"}]
          /\ outcome' \in {outcome, "failed"} /\ server' \in {server, "draining"}
          /\ watcher' \in {watcher, "reading", "none"}
          /\ open' \subseteq Connection /\ dropped' \subseteq Connection
      BY <1>0, <1>8, FirstTriggerDoes DEF Return, Tell, TypeOK
    <2>3. QED
      BY <1>0, <2>1, <2>2 DEF TypeOK, Trigger
  <1>9. CASE ForceTrigger
    <2>1. /\ triggers' \in Seq(Trigger)
          /\ UNCHANGED <<signalled, sent, stdin, watcher, graceOver>>
      BY <1>0, <1>9, TakenTrigger, ForceTriggerDoes DEF ForceTrigger
    <2>2. /\ state' \in {state, [state EXCEPT !.phase = "forcing"]}
          /\ outcome' \in {outcome, "failed"} /\ server' \in {server, "stopping"}
          /\ open' \subseteq Connection /\ dropped' \subseteq Connection
      BY <1>0, <1>9, ForceTriggerDoes DEF Forces, Return, Tell, TypeOK
    <2>3. QED
      BY <1>0, <2>1, <2>2 DEF TypeOK, Trigger
  <1>10. CASE Settle
    BY <1>0, <1>10 DEF Settle, Return, TypeOK
  <1>11. QED
    BY <1>1, <1>2, <1>3, <1>4, <1>5, <1>6, <1>7, <1>8, <1>9, <1>10
       DEF Next, ServerStep, Supervisor

\* The channel: nothing follows the end of the stream, and no signal counts
\* twice.
LEMMA ChannelStep == SupervisorInv /\ Next => StreamEndsOnce' /\ SignalsAreCounted'
  <1> SUFFICES ASSUME SupervisorInv, Next PROVE StreamEndsOnce' /\ SignalsAreCounted'
    OBVIOUS
  <1> USE DEF supervisorVars, signalVars, serverVars
  <1>0. /\ TypeOK /\ triggers \in Seq(Trigger) /\ Len(triggers) \in Nat /\ sent \in Nat
        /\ StreamEndsOnce /\ SignalsAreCounted
    BY ShutdownAssumption, LenProperties DEF SupervisorInv, TypeOK, Trigger
  <1>1. CASE UNCHANGED <<signalled, triggers, sent, state>>
    BY <1>0, <1>1 DEF StreamEndsOnce, SignalsAreCounted, SignalTaskRuns, One
  <1>2. ASSUME NEW s \in Signal, RaiseSignal(s) PROVE StreamEndsOnce' /\ SignalsAreCounted'
    BY <1>0, <1>2 DEF RaiseSignal, StreamEndsOnce, SignalsAreCounted, SignalTaskRuns, One, Signal
  <1>3. ASSUME NEW t \in Trigger, triggers' = Append(triggers, t), SignalTaskRuns,
               UNCHANGED <<sent, state>>,
               \/ t = "streamClosed" /\ UNCHANGED signalled
               \/ t \in signalled /\ signalled' = signalled \ {t} /\ t \in Signal
        PROVE  StreamEndsOnce' /\ SignalsAreCounted'
    <2>1. /\ Len(triggers') = Len(triggers) + 1
          /\ \A i \in 1..Len(triggers) : triggers'[i] = triggers[i]
          /\ triggers'[Len(triggers) + 1] = t
      BY <1>0, <1>3, AddedTrigger
    <2>2. StreamEndsOnce'
      BY <1>0, <1>3, <2>1 DEF StreamEndsOnce, SignalTaskRuns
    <2>3. SignalTaskRuns' <=> t # "streamClosed"
      BY <1>0, <1>3, <2>1 DEF SignalTaskRuns
    <2>4. SignalsAreCounted'
      BY <1>0, <1>3, <2>1, <2>3 DEF SignalsAreCounted, One, Signal
    <2>5. QED
      BY <2>2, <2>4
  <1>4. ASSUME triggers # <<>>, triggers' = Tail(triggers), UNCHANGED <<signalled, sent>>,
               \/ Head(triggers) = "streamClosed" /\ UNCHANGED state
               \/ Head(triggers) \in Signal
        PROVE  StreamEndsOnce' /\ SignalsAreCounted'
    <2>1. /\ Head(triggers) = triggers[1] /\ Len(triggers) \in Nat \ {0}
          /\ Len(triggers') = Len(triggers) - 1
          /\ \A i \in 1..(Len(triggers) - 1) : triggers'[i] = triggers[i + 1]
      BY <1>0, <1>4, TakenTrigger
    <2>2. StreamEndsOnce'
      BY <1>0, <2>1 DEF StreamEndsOnce
    <2>3. CASE Head(triggers) = "streamClosed"
      <3>1. Len(triggers) = 1 /\ Len(triggers') = 0
        BY <1>0, <2>1, <2>3 DEF StreamEndsOnce
      <3>2. ~SignalTaskRuns /\ SignalTaskRuns'
        BY <2>1, <2>3, <3>1 DEF SignalTaskRuns
      <3>3. UNCHANGED state
        BY <1>4, <2>3 DEF Signal
      <3>4. QED
        BY <1>0, <1>4, <2>2, <3>1, <3>2, <3>3 DEF SignalsAreCounted, One
    <2>4. CASE Head(triggers) \in Signal
      <3>1. SignalTaskRuns' => SignalTaskRuns
        <4>1. SUFFICES ASSUME SignalTaskRuns', NEW i \in 1..Len(triggers)
                       PROVE  triggers[i] # "streamClosed"
          BY DEF SignalTaskRuns
        <4>2. CASE i = 1
          BY <2>1, <2>4, <4>2 DEF Signal
        <4>3. CASE i # 1
          <5>1. i - 1 \in 1..(Len(triggers) - 1) /\ (i - 1) + 1 = i
            BY <1>0, <4>3
          <5>2. QED
            BY <2>1, <4>1, <5>1 DEF SignalTaskRuns
        <4>4. QED
          BY <4>2, <4>3
      <3>2. QED
        BY <1>0, <1>4, <2>1, <2>2, <3>1 DEF SignalsAreCounted, One
    <2>5. QED
      BY <1>4, <2>3, <2>4
  <1>5. ASSUME UNCHANGED <<signalled, triggers, sent>>, state.phase # "running"
        PROVE  StreamEndsOnce' /\ SignalsAreCounted'
    BY <1>0, <1>5 DEF StreamEndsOnce, SignalsAreCounted, SignalTaskRuns, One
  <1>6. ASSUME NEW s \in Signal, ForwardSignal(s) PROVE StreamEndsOnce' /\ SignalsAreCounted'
    BY <1>3, <1>6 DEF ForwardSignal, Trigger
  <1>7. CASE SignalStreamCloses
    BY <1>3, <1>7 DEF SignalStreamCloses, Trigger
  <1>8. ASSUME \/ CloseStdin \/ WatchStdin \/ GraceExpires \/ ServerTaskEnds \/ Settle
               \/ \E c \in Connection : OpenConnection(c) \/ Respond(c)
        PROVE  StreamEndsOnce' /\ SignalsAreCounted'
    BY <1>1, <1>8 DEF CloseStdin, WatchStdin, GraceExpires, ServerTaskEnds, Settle,
                      OpenConnection, Respond
  <1>9. CASE ServerReturned
    <2>1. server = "done" => state.phase # "running"
      BY DEF SupervisorInv, ServerAgrees
    <2>2. QED
      BY <1>1, <1>5, <1>9, <2>1 DEF ServerReturned
  <1>10. CASE FirstTrigger
    BY <1>4, <1>10, FirstTriggerDoes DEF FirstTrigger
  <1>11. CASE ForceTrigger
    <2>1. state.phase = "draining" /\ UNCHANGED <<signalled, sent>>
      BY <1>11 DEF ForceTrigger
    <2>2. QED
      BY <1>4, <1>5, <1>11, <2>1, ForceTriggerDoes
  <1>12. QED
    BY <1>2, <1>6, <1>7, <1>8, <1>9, <1>10, <1>11 DEF Next, ServerStep, Supervisor

\* A step of the outside world, which leaves supervisor and server alone.
Outside ==
    \/ \E s \in Signal : RaiseSignal(s) \/ ForwardSignal(s)
    \/ SignalStreamCloses \/ CloseStdin \/ WatchStdin \/ GraceExpires

LEMMA WatcherStep == SupervisorInv /\ Next => WatcherAgrees'
  <1> SUFFICES ASSUME SupervisorInv, Next PROVE WatcherAgrees'
    OBVIOUS
  <1> USE DEF supervisorVars, signalVars, serverVars
  <1>0. TypeOK /\ WatcherAgrees
    BY DEF SupervisorInv
  <1>1. CASE Outside
    BY <1>0, <1>1 DEF Outside, RaiseSignal, ForwardSignal, SignalStreamCloses, CloseStdin,
                      WatchStdin, GraceExpires, WatcherAgrees
  <1>2. CASE ServerStep \/ Settle
    BY <1>0, <1>2 DEF ServerStep, OpenConnection, Respond, ServerTaskEnds, Settle, WatcherAgrees
  <1>3. CASE ServerReturned
    <2>1. state'.tty = state.tty /\ state'.first = state.first
      <3>1. CASE server = "done"
        <4>1. state.phase = "draining"
          BY <1>3, <3>1 DEF SupervisorInv, ServerAgrees, ServerReturned
        <4>2. QED
          BY <1>0, <1>3, <3>1, <4>1, Applied DEF ServerReturned, TypeOK
      <3>2. QED
        BY <1>3, <3>1 DEF ServerReturned
    <2>2. QED
      BY <1>0, <1>3, <2>1 DEF ServerReturned, WatcherAgrees
  <1>4. CASE FirstTrigger
    BY <1>0, <1>4, FirstTriggerDoes DEF FirstTrigger, WatcherAgrees, TypeOK
  <1>5. CASE ForceTrigger
    BY <1>0, <1>5, ForceTriggerDoes DEF ForceTrigger, Forces, WatcherAgrees, TypeOK
  <1>6. QED
    BY <1>1, <1>2, <1>3, <1>4, <1>5 DEF Next, Outside, Supervisor

\* The supervisor is not there before the server.
LEMMA ServerAgreesStep == SupervisorInv /\ server # "unbound" /\ Next => ServerAgrees'
  <1> SUFFICES ASSUME SupervisorInv, server # "unbound", Next PROVE ServerAgrees'
    OBVIOUS
  <1> USE DEF supervisorVars, signalVars, serverVars
  <1>0. TypeOK /\ ServerAgrees
    BY DEF SupervisorInv
  <1>1. CASE Outside
    BY <1>0, <1>1 DEF Outside, RaiseSignal, ForwardSignal, SignalStreamCloses, CloseStdin,
                      WatchStdin, GraceExpires, ServerAgrees, Ended
  <1>2. ASSUME NEW c \in Connection, OpenConnection(c) \/ Respond(c) PROVE ServerAgrees'
    BY <1>0, <1>2 DEF OpenConnection, Respond, ServerAgrees, Ended
  <1>3. CASE ServerTaskEnds
    BY <1>0, <1>3 DEF ServerTaskEnds, ServerAgrees, Ended
  <1>4. CASE ServerReturned
    <2>1. CASE server = "done"
      <3>1. state.phase = "draining"
        BY <1>4, <2>1 DEF SupervisorInv, ServerAgrees, ServerReturned
      <3>2. state' = [state EXCEPT !.phase = "complete"]
        BY <1>0, <1>4, <2>1, <3>1, Applied DEF ServerReturned
      <3>3. QED
        BY <1>0, <1>4, <2>1, <3>2 DEF ServerReturned, Return, ServerAgrees, Ended, TypeOK
    <2>2. CASE server = "failed"
      BY <1>0, <1>4, <2>2 DEF ServerReturned, Return, ServerAgrees, Ended
    <2>3. QED
      BY <1>4, <2>1, <2>2 DEF ServerReturned
  <1>5. CASE FirstTrigger
    <2>1. state.phase = "running" /\ server \in {"serving", "failed"} /\ ~Ended
      BY <1>0, <1>5 DEF FirstTrigger, ServerAgrees
    <2>2. CASE Return("failed") /\ UNCHANGED <<state, server, watcher>>
      BY <2>1, <2>2 DEF Return, ServerAgrees, Ended
    <2>3. CASE /\ state' = [state EXCEPT !.phase = "draining", !.first = Head(triggers)]
               /\ Tell("draining") /\ UNCHANGED <<outcome, open, dropped>>
      BY <1>0, <2>1, <2>3 DEF Tell, ServerAgrees, Ended, TypeOK
    <2>4. QED
      BY <1>5, <2>2, <2>3, FirstTriggerDoes
  <1>6. CASE ForceTrigger
    BY <1>0, <1>6, ForceTriggerDoes DEF ForceTrigger, Forces, Return, Tell, ServerAgrees, Ended, TypeOK
  <1>7. CASE Settle
    BY <1>0, <1>7 DEF Settle, Return, ServerAgrees, Ended
  <1>8. QED
    BY <1>1, <1>2, <1>3, <1>4, <1>5, <1>6, <1>7 DEF Next, ServerStep, Outside, Supervisor

\* A shutdown is forced by the clock, by a second signal, or by Ctrl-D where
\* it was offered.
LEMMA ForceStep == SupervisorInv /\ Next => ForceIsJustified'
  <1> SUFFICES ASSUME SupervisorInv, Next PROVE ForceIsJustified'
    OBVIOUS
  <1> USE DEF supervisorVars, signalVars, serverVars
  <1>0. TypeOK /\ WatcherAgrees /\ SignalsAreCounted /\ ForceIsJustified /\ sent \in Nat
    BY ShutdownAssumption DEF SupervisorInv, TypeOK
  <1>1. CASE Outside
    BY <1>0, <1>1 DEF Outside, RaiseSignal, ForwardSignal, SignalStreamCloses, CloseStdin,
                      WatchStdin, GraceExpires, ForceIsJustified
  <1>2. CASE ServerStep \/ Settle
    BY <1>0, <1>2 DEF ServerStep, OpenConnection, Respond, ServerTaskEnds, Settle,
                      ForceIsJustified
  <1>3. CASE ServerReturned
    <2>1. state'.phase # "forcing"
      <3>1. CASE server = "done"
        <4>1. state.phase = "draining"
          BY <1>3, <3>1 DEF SupervisorInv, ServerAgrees, ServerReturned
        <4>2. QED
          BY <1>0, <1>3, <3>1, <4>1, Applied DEF ServerReturned, TypeOK
      <3>2. QED
        BY <1>3, <3>1 DEF ServerReturned
    <2>2. QED
      BY <2>1 DEF ForceIsJustified
  <1>4. CASE FirstTrigger
    BY <1>0, <1>4, FirstTriggerDoes DEF FirstTrigger, ForceIsJustified, TypeOK
  <1>5. CASE ForceTrigger
    <2>1. state.phase = "draining" /\ UNCHANGED <<sent, graceOver, stdin>>
      BY <1>5 DEF ForceTrigger
    <2>2. CASE triggers # <<>> /\ Head(triggers) \in Signal /\ Forces
      <3>1. triggers \in Seq(Trigger)
        BY <1>0 DEF TypeOK, Trigger
      <3>2. Len(triggers) \in Nat \ {0} /\ Head(triggers) = triggers[1]
        BY <2>2, <3>1, TakenTrigger
      <3>3. ~SignalTaskRuns => Len(triggers) >= 2
        <4>1. SUFFICES ASSUME NEW i \in 1..Len(triggers), triggers[i] = "streamClosed"
                       PROVE  Len(triggers) >= 2
          BY DEF SignalTaskRuns
        <4>2. i # 1
          BY <2>2, <3>2, <4>1 DEF Signal
        <4>3. QED
          BY <3>2, <4>2
      <3>4. sent >= 2
        BY <1>0, <2>1, <3>2, <3>3 DEF SignalsAreCounted, One
      <3>5. QED
        BY <2>1, <3>4 DEF ForceIsJustified
    <2>3. CASE graceOver
      BY <2>1, <2>3 DEF ForceIsJustified
    <2>4. CASE watcher = "sent" /\ Forces
      BY <1>0, <2>1, <2>4 DEF Forces, WatcherAgrees, ForceIsJustified, TypeOK
    <2>5. CASE UNCHANGED state
      BY <2>1, <2>5 DEF ForceIsJustified
    <2>6. QED
      BY <1>5, <2>2, <2>3, <2>4, <2>5, ForceTriggerDoes
  <1>6. QED
    BY <1>1, <1>2, <1>3, <1>4, <1>5 DEF Next, Outside, Supervisor

\* Draining closes no connection.
LEMMA DroppedStep == SupervisorInv /\ Next => DrainingDropsNothing'
  <1> SUFFICES ASSUME SupervisorInv, Next PROVE DrainingDropsNothing'
    OBVIOUS
  <1> USE DEF supervisorVars, signalVars, serverVars
  <1>0. TypeOK /\ ServerAgrees /\ DrainingDropsNothing
    BY DEF SupervisorInv
  <1>1. CASE Outside
    BY <1>0, <1>1 DEF Outside, RaiseSignal, ForwardSignal, SignalStreamCloses, CloseStdin,
                      WatchStdin, GraceExpires, DrainingDropsNothing
  <1>2. ASSUME NEW c \in Connection, OpenConnection(c) \/ Respond(c) PROVE DrainingDropsNothing'
    BY <1>0, <1>2 DEF OpenConnection, Respond, DrainingDropsNothing
  <1>3. CASE ServerTaskEnds
    BY <1>0, <1>3 DEF ServerTaskEnds, ServerAgrees, DrainingDropsNothing, TypeOK
  <1>4. CASE ServerReturned
    BY <1>0, <1>4 DEF ServerReturned, Return, ServerAgrees, DrainingDropsNothing, Ended
  <1>5. CASE FirstTrigger
    BY <1>0, <1>5, FirstTriggerDoes DEF FirstTrigger, Return, DrainingDropsNothing, Ended
  <1>6. CASE ForceTrigger
    BY <1>0, <1>6, ForceTriggerDoes DEF ForceTrigger, Forces, Return, DrainingDropsNothing, Ended, TypeOK
  <1>7. CASE Settle
    BY <1>0, <1>7 DEF Settle, Return, DrainingDropsNothing, Ended
  <1>8. QED
    BY <1>1, <1>2, <1>3, <1>4, <1>5, <1>6, <1>7 DEF Next, ServerStep, Outside, Supervisor

LEMMA SupervisorStep == SupervisorInv /\ server # "unbound" /\ Next => SupervisorInv'
  BY SupervisorTypeStep, ChannelStep, WatcherStep, ServerAgreesStep, ForceStep, DroppedStep
     DEF SupervisorInv

LEMMA SupervisorStutters ==
    ASSUME SupervisorInv, UNCHANGED vars
    PROVE  SupervisorInv'
  BY DEF SupervisorInv, vars, supervisorVars, signalVars, serverVars, TypeOK, WatcherAgrees,
         StreamEndsOnce, SignalsAreCounted, SignalTaskRuns, ServerAgrees, Ended,
         ForceIsJustified, DrainingDropsNothing

\* The server task is started once.
LEMMA ServerStays ==
    ASSUME SupervisorInv, server # "unbound", Next
    PROVE  server' # "unbound"
  <1>1. CASE Outside
    BY <1>1 DEF Outside, RaiseSignal, ForwardSignal, SignalStreamCloses, CloseStdin,
                WatchStdin, GraceExpires, serverVars
  <1>2. CASE ServerStep
    BY <1>2 DEF ServerStep, OpenConnection, Respond, ServerTaskEnds
  <1>3. CASE FirstTrigger
    BY <1>3, FirstTriggerDoes DEF Tell
  <1>4. CASE ForceTrigger
    BY <1>4, ForceTriggerDoes DEF Forces, Tell
  <1>5. CASE ServerReturned \/ Settle
    BY <1>5 DEF ServerReturned, Settle
  <1>6. QED
    BY <1>1, <1>2, <1>3, <1>4, <1>5 DEF Next, Outside, Supervisor

-----------------------------------------------------------------------------
(* The whole process.                                                      *)

LEMMA ProcessInitHolds == ProcessInit => ProcessInv
  <1> SUFFICES ASSUME ProcessInit PROVE ProcessInv
    OBVIOUS
  <1> USE DEF ProcessInit, Fresh
  <1>1. Len(triggers) = 0 /\ triggers \in Seq(Signal \cup {"streamClosed"}) /\ SignalTaskRuns
    BY DEF SignalTaskRuns
  <1>2. TypeOK
    <2>1. state \in [phase: {"running", "draining", "forcing", "complete"},
                     tty: BOOLEAN, first: Signal \cup {"none"}]
      OBVIOUS
    <2>2. sent \in 0..MaxSignals /\ signalled \subseteq Signal
      BY ShutdownAssumption
    <2>3. QED
      BY <1>1, <2>1, <2>2 DEF TypeOK
  <1>3. WatcherAgrees /\ StreamEndsOnce /\ ServerAgrees /\ ForceIsJustified /\ DrainingDropsNothing
    BY <1>1 DEF WatcherAgrees, StreamEndsOnce, ServerAgrees, ForceIsJustified, DrainingDropsNothing
  <1>4. SignalsAreCounted
    BY <1>1 DEF SignalsAreCounted, One
  <1>5. ProcessTypeOK
    BY <1>2 DEF ProcessTypeOK
  <1>6. StartAgrees
    BY DEF StartAgrees
  <1>7. QED
    BY <1>2, <1>3, <1>4, <1>5, <1>6 DEF ProcessInv, SupervisorInv

\* A start that stops lets go of every request; before the server is there it
\* has none.
LEMMA StopKeeps ==
    ASSUME ProcessInv, ~Ended, at # "up", NEW how, NEW why \in LocalCause, Stop(how, why),
           how \in {"failed", "killed"} \/ (how = "printed" /\ at = "argv")
    PROVE  ProcessInv'
  <1>0. /\ ProcessTypeOK /\ TypeOK /\ SupervisorInv /\ StartAgrees
        /\ WatcherAgrees /\ StreamEndsOnce /\ SignalsAreCounted
        /\ ServerAgrees /\ ForceIsJustified /\ DrainingDropsNothing
    BY DEF ProcessInv, SupervisorInv
  <1> USE DEF Stop, Return, signalVars
  <1>1. TypeOK'
    BY <1>0 DEF TypeOK
  <1>2. WatcherAgrees' /\ StreamEndsOnce' /\ SignalsAreCounted' /\ ForceIsJustified'
    BY <1>0 DEF WatcherAgrees, StreamEndsOnce, SignalsAreCounted, SignalTaskRuns, ForceIsJustified
  <1>3. ServerAgrees'
    BY <1>0 DEF ServerAgrees, Ended
  <1>4. DrainingDropsNothing'
    BY <1>0 DEF DrainingDropsNothing, ServerAgrees, StartAgrees, Ended
  <1>5. StartAgrees'
    BY <1>0 DEF StartAgrees, FromEnv, Whole, DurableAllowed
  <1>6. ProcessTypeOK'
    BY <1>0, <1>1 DEF ProcessTypeOK, backendVars
  <1>7. QED
    BY <1>1, <1>2, <1>3, <1>4, <1>5, <1>6 DEF ProcessInv, SupervisorInv

\* A step of the start that goes on changes nothing of server or supervisor.
LEMMA AdvanceKeeps ==
    ASSUME ProcessInv, NEW from, NEW to, Advance(from, to), UNCHANGED settings,
           <<from, to>> \in {<<"argv", "environment">>, <<"telemetry", "broker">>,
                             <<"broker", "clients">>, <<"clients", "listener">>,
                             <<"listener", "journal">>, <<"journal", "http">>}
             \/ (<<from, to>> = <<"environment", "telemetry">> /\ FromEnv(settings)),
           broker' \in BOOLEAN, journal' \in BOOLEAN, worker' \in BOOLEAN, listener' \in BOOLEAN
    PROVE  ProcessInv'
  <1>0. ProcessTypeOK /\ TypeOK /\ SupervisorInv /\ StartAgrees
    BY DEF ProcessInv, SupervisorInv
  <1>1. UNCHANGED <<vars, settings, unhandled, cause>> /\ at = from /\ at' = to
    BY DEF Advance
  <1>2. SupervisorInv' /\ TypeOK'
    BY <1>0, <1>1, SupervisorStutters DEF SupervisorInv
  <1>3. UNCHANGED <<state, server>>
    BY <1>1 DEF vars, supervisorVars, serverVars
  <1>4. ProcessTypeOK'
    BY <1>0, <1>1, <1>2 DEF ProcessTypeOK
  <1>5. FromEnv(settings)' <=> FromEnv(settings)
    BY <1>1 DEF FromEnv, Whole, DurableAllowed
  <1>6. StartAgrees'
    BY <1>0, <1>1, <1>3, <1>5 DEF StartAgrees
  <1>7. QED
    BY <1>2, <1>4, <1>6 DEF ProcessInv

LEMMA StartKeeps == ProcessInv /\ StartStep => ProcessInv'
  <1> SUFFICES ASSUME ProcessInv, StartStep PROVE ProcessInv'
    OBVIOUS
  <1>0. /\ ~Ended /\ ProcessTypeOK /\ TypeOK /\ SupervisorInv /\ StartAgrees
        /\ broker \in BOOLEAN /\ journal \in BOOLEAN /\ worker \in BOOLEAN /\ listener \in BOOLEAN
    BY DEF ProcessInv, SupervisorInv, StartStep, ProcessTypeOK
  <1> USE DEF backendVars, taskVars, LocalCause
  <1>1. CASE ResolveArguments
    BY <1>0, <1>1, StopKeeps, AdvanceKeeps DEF ResolveArguments
  <1>2. CASE ReadEnvironment
    BY <1>0, <1>2, StopKeeps, AdvanceKeeps DEF ReadEnvironment
  <1>3. CASE StartTelemetry
    BY <1>0, <1>3, StopKeeps, AdvanceKeeps DEF StartTelemetry
  <1>4. CASE ConnectBroker
    BY <1>0, <1>4, AdvanceKeeps DEF ConnectBroker
  <1>5. CASE BuildClients
    BY <1>0, <1>5, StopKeeps, AdvanceKeeps DEF BuildClients
  <1>6. CASE SpawnListener
    BY <1>0, <1>6, StopKeeps, AdvanceKeeps DEF SpawnListener, ReadCertificates
  <1>7. CASE ConnectJournal
    <2>1. journal' \in BOOLEAN
      BY <1>7 DEF ConnectJournal
    <2>2. worker' \in BOOLEAN
      BY <1>7 DEF ConnectJournal
    <2>3. QED
      BY <1>0, <1>7, <2>1, <2>2, AdvanceKeeps DEF ConnectJournal
  <1>8. CASE BindHttp
    <2>1. CASE Stop("failed", "port")
      BY <1>0, <1>8, <2>1, StopKeeps DEF BindHttp
    <2>2. CASE /\ at' = "handlers" /\ server' = "serving" /\ settings' = Unset
               /\ UNCHANGED <<supervisorVars, signalVars, stdin, watcher, graceOver, open,
                              dropped, unhandled, cause, backendVars, taskVars>>
      <3> USE DEF supervisorVars, signalVars
      <3>1. state.phase = "running" /\ UNCHANGED <<state, outcome>>
        BY <1>0, <1>8, <2>2 DEF BindHttp, StartAgrees
      <3>2. TypeOK'
        BY <1>0, <2>2 DEF TypeOK
      <3>3. WatcherAgrees' /\ StreamEndsOnce' /\ SignalsAreCounted' /\ ForceIsJustified'
              /\ DrainingDropsNothing'
        BY <1>0, <2>2 DEF SupervisorInv, WatcherAgrees, StreamEndsOnce, SignalsAreCounted,
                          SignalTaskRuns, ForceIsJustified, DrainingDropsNothing
      <3>4. ServerAgrees'
        BY <1>0, <2>2, <3>1 DEF SupervisorInv, ServerAgrees, Ended
      <3>5. ProcessTypeOK'
        BY <1>0, <2>2, <3>2 DEF ProcessTypeOK, Settings, Unset, Group
      <3>6. StartAgrees'
        BY <2>2, <3>1 DEF StartAgrees
      <3>7. QED
        BY <3>2, <3>3, <3>4, <3>5, <3>6 DEF ProcessInv, SupervisorInv
    <2>3. QED
      BY <1>8, <2>1, <2>2 DEF BindHttp
  <1>9. CASE InstallHandlers
    <2>1. CASE Stop("failed", "handlers")
      BY <1>0, <1>9, <2>1, StopKeeps DEF InstallHandlers
    <2>2. CASE /\ at' = "up" /\ unhandled' = IF unhandled = "dropped" THEN "dropped" ELSE "none"
               /\ UNCHANGED <<vars, settings, cause, backendVars, taskVars>>
      <3>1. SupervisorInv' /\ TypeOK'
        BY <1>0, <2>2, SupervisorStutters DEF SupervisorInv
      <3>2. UNCHANGED <<state, server>>
        BY <2>2 DEF vars, supervisorVars, serverVars
      <3>3. ProcessTypeOK'
        BY <1>0, <2>2, <3>1 DEF ProcessTypeOK
      <3>4. StartAgrees'
        BY <1>0, <1>9, <2>2, <3>2 DEF StartAgrees, InstallHandlers
      <3>5. QED
        BY <3>1, <3>3, <3>4 DEF ProcessInv
    <2>3. QED
      BY <1>9, <2>1, <2>2 DEF InstallHandlers
  <1>10. QED
    BY <1>1, <1>2, <1>3, <1>4, <1>5, <1>6, <1>7, <1>8, <1>9 DEF StartStep

LEMMA ServiceKeeps ==
    ASSUME ProcessInv, ServeAlone \/ Supervised
    PROVE  ProcessInv'
  <1>0. /\ ProcessTypeOK /\ TypeOK /\ SupervisorInv /\ StartAgrees
        /\ at \in {"handlers", "up"} /\ server # "unbound"
    BY DEF ProcessInv, SupervisorInv, ServeAlone, Supervised, StartAgrees
  <1>1. Next /\ UNCHANGED startVars /\ worker' \in BOOLEAN /\ listener' \in BOOLEAN
    <2>1. CASE ServeAlone
      BY <2>1 DEF ServeAlone, InService, Next
    <2>2. CASE Supervised
      BY <2>2 DEF Supervised, InService
    <2>3. QED
      BY <2>1, <2>2
  <1>2. SupervisorInv' /\ TypeOK' /\ server' # "unbound"
    BY <1>0, <1>1, SupervisorStep, ServerStays DEF SupervisorInv
  <1>3. ProcessTypeOK'
    BY <1>0, <1>1, <1>2 DEF ProcessTypeOK, startVars, backendVars
  <1>4. at # "up" => UNCHANGED state
    BY DEF ServeAlone, Supervised, InService, ServerStep, OpenConnection, Respond,
           ServerTaskEnds, supervisorVars
  <1>5. StartAgrees'
    BY <1>0, <1>1, <1>2, <1>4 DEF StartAgrees, startVars
  <1>6. QED
    BY <1>2, <1>3, <1>5 DEF ProcessInv

LEMMA ProcessStep == ProcessInv /\ [ProcessNext]_processVars => ProcessInv'
  <1> SUFFICES ASSUME ProcessInv, [ProcessNext]_processVars PROVE ProcessInv'
    OBVIOUS
  <1>0. ProcessTypeOK /\ TypeOK /\ SupervisorInv /\ StartAgrees
    BY DEF ProcessInv, SupervisorInv
  <1>1. ASSUME UNCHANGED <<vars, settings, at, cause, broker, journal>>,
               unhandled' \in {unhandled, "dropped"}, worker' \in BOOLEAN, listener' \in BOOLEAN
        PROVE  ProcessInv'
    <2>1. SupervisorInv' /\ TypeOK'
      BY <1>0, <1>1, SupervisorStutters DEF SupervisorInv
    <2>2. UNCHANGED <<state, server>>
      BY <1>1 DEF vars, supervisorVars, serverVars
    <2>3. ProcessTypeOK'
      BY <1>0, <1>1, <2>1 DEF ProcessTypeOK
    <2>4. StartAgrees'
      BY <1>0, <1>1, <2>2 DEF StartAgrees, FromEnv, Whole, DurableAllowed
    <2>5. QED
      BY <2>1, <2>3, <2>4 DEF ProcessInv
  <1>2. CASE StartStep
    BY <1>2, StartKeeps
  <1>3. CASE EarlySignal
    <2>1. CASE Stop("killed", "signal")
      BY <1>3, <2>1, StopKeeps DEF EarlySignal, LocalCause
    <2>2. CASE /\ unhandled' = "dropped"
               /\ UNCHANGED <<vars, settings, at, cause, backendVars, taskVars>>
      BY <1>0, <1>1, <2>2 DEF ProcessTypeOK, backendVars, taskVars
    <2>3. QED
      BY <1>3, <2>1, <2>2 DEF EarlySignal
  <1>4. CASE ServeAlone \/ Supervised
    BY <1>4, ServiceKeeps
  <1>5. CASE TaskStops
    BY <1>0, <1>1, <1>5 DEF TaskStops, startVars, backendVars, ProcessTypeOK
  <1>6. CASE UNCHANGED processVars
    BY <1>0, <1>1, <1>6 DEF processVars, startVars, taskVars, backendVars, ProcessTypeOK
  <1>7. QED
    BY <1>2, <1>3, <1>4, <1>5, <1>6 DEF ProcessNext

-----------------------------------------------------------------------------
(* The theorems.                                                           *)

\* The inductive invariant holds in every reachable state.
THEOREM ProcessInvariance == ProcessSpec => []ProcessInv
  BY ProcessInitHolds, ProcessStep, PTL DEF ProcessSpec

\* Every variable of the process keeps its type, from the first step of the
\* start to the end of the shutdown.
THEOREM ProcessTypeCorrect == ProcessSpec => []ProcessTypeOK
  BY ProcessInvariance, PTL DEF ProcessInv

\* Whatever order signals, the terminal and the clock come in, a shutdown is
\* forced only by a second signal, the grace period, or Ctrl-D after Ctrl-C.
THEOREM ForcesForAReason == ProcessSpec => []ForceIsJustified
  BY ProcessInvariance, PTL DEF ProcessInv, SupervisorInv

\* Draining closes no request, and an end reported graceful lost none.
THEOREM DrainsWithoutLoss == ProcessSpec => []DrainingDropsNothing
  BY ProcessInvariance, PTL DEF ProcessInv, SupervisorInv

-----------------------------------------------------------------------------
(* What runs is what was configured.                                       *)

\* Nothing is touched, nothing is spawned.
LEMMA IdleIsConfigured ==
    ASSUME \/ UNCHANGED <<server, broker, journal>>
           \/ at \in {"handlers", "up"},
           worker' => worker, listener' => listener
    PROVE  Configured
  BY DEF Configured

LEMMA ConfiguredStep == ProcessInv /\ [ProcessNext]_processVars => Configured
  <1> SUFFICES ASSUME ProcessInv, [ProcessNext]_processVars PROVE Configured
    OBVIOUS
  <1>0. ProcessTypeOK /\ StartAgrees /\ settings \in Settings
    BY DEF ProcessInv, ProcessTypeOK
  <1>1. ASSUME at \in {"telemetry", "broker", "clients", "listener", "journal", "http"}
        PROVE  /\ \A group \in {settings.auth, settings.youtube, settings.mtls} :
                    group \notin {"partial", "bad"}
               /\ settings.port = "good" /\ settings.key # "bad"
               /\ settings.mtls = "good" => settings.auth = "good"
               /\ settings.key = settings.database
               /\ settings.database = "good" =>
                    settings.natsUrl \in {"local", "tls"} /\ settings.auth = "good"
    BY <1>0, <1>1 DEF StartAgrees, FromEnv, Whole, DurableAllowed, Settings
  <1>2. ASSUME NEW how, NEW why, Stop(how, why) PROVE Configured
    BY <1>2, IdleIsConfigured DEF Stop, backendVars
  <1>3. ASSUME NEW from, NEW to, Advance(from, to), UNCHANGED <<backendVars, taskVars>>
        PROVE  Configured
    BY <1>3, IdleIsConfigured DEF Advance, vars, serverVars, backendVars, taskVars
  <1>4. CASE ConnectBroker
    BY <1>1, <1>4 DEF ConnectBroker, Advance, vars, serverVars, taskVars, Configured
  <1>5. CASE SpawnListener
    <2>1. CASE Stop("failed", "certificate") \/ Stop("failed", "port")
      BY <1>2, <2>1
    <2>2. CASE /\ Advance("listener", "journal") /\ listener' = (settings.mtls = "good")
               /\ UNCHANGED <<settings, backendVars, worker>>
      BY <1>1, <2>2 DEF Advance, vars, serverVars, backendVars, Configured
    <2>3. QED
      BY <1>5, <2>1, <2>2 DEF SpawnListener, ReadCertificates
  <1>6. CASE ConnectJournal
    <2>1. at = "journal" /\ UNCHANGED <<server, settings, broker, listener>>
      BY <1>6 DEF ConnectJournal, Advance, vars, serverVars
    <2>2. worker' = (journal' /\ broker /\ settings.auth = "good" /\ settings.key = "good")
      BY <1>6 DEF ConnectJournal
    <2>3. worker' => journal' /\ broker' /\ settings.auth = "good" /\ settings.key = "good"
      BY <2>1, <2>2
    <2>4. journal' => settings.database = "good"
      BY <1>6 DEF ConnectJournal
    <2>5. QED
      BY <1>1, <2>1, <2>3, <2>4 DEF Configured
  <1>7. CASE BindHttp
    <2>1. CASE Stop("failed", "port")
      BY <1>2, <2>1
    <2>2. CASE at = "http" /\ UNCHANGED <<backendVars, taskVars>>
      BY <1>1, <2>2 DEF backendVars, taskVars, Configured
    <2>3. QED
      BY <1>7, <2>1, <2>2 DEF BindHttp
  <1>8. CASE ResolveArguments \/ ReadEnvironment \/ StartTelemetry \/ BuildClients
    BY <1>2, <1>3, <1>8 DEF ResolveArguments, ReadEnvironment, StartTelemetry, BuildClients
  <1>9. CASE InstallHandlers
    <2>1. CASE Stop("failed", "handlers")
      BY <1>2, <2>1
    <2>2. CASE UNCHANGED <<vars, backendVars, taskVars>>
      BY <2>2, IdleIsConfigured DEF vars, serverVars, backendVars, taskVars
    <2>3. QED
      BY <1>9, <2>1, <2>2 DEF InstallHandlers
  <1>10. CASE EarlySignal
    <2>1. CASE UNCHANGED <<vars, backendVars, taskVars>>
      BY <2>1, IdleIsConfigured DEF vars, serverVars, backendVars, taskVars
    <2>2. QED
      BY <1>2, <1>10, <2>1 DEF EarlySignal
  <1>11. CASE ServeAlone \/ Supervised
    BY <1>11, IdleIsConfigured DEF ServeAlone, Supervised, InService
  <1>12. CASE TaskStops
    <2>1. UNCHANGED <<server, broker, journal>> /\ (worker' => worker) /\ (listener' => listener)
      BY <1>12 DEF TaskStops, vars, serverVars, startVars, backendVars
    <2>2. QED
      BY <2>1, IdleIsConfigured
  <1>13. CASE UNCHANGED processVars
    BY <1>13, IdleIsConfigured DEF processVars, vars, serverVars, startVars, backendVars, taskVars
  <1>14. QED
    BY <1>4, <1>5, <1>6, <1>7, <1>8, <1>9, <1>10, <1>11, <1>12, <1>13
       DEF ProcessNext, StartStep

\* The process does what it was configured to do as a whole, or nothing.
THEOREM StartsAsConfigured == ProcessSpec => RunsAsConfigured
  BY ConfiguredStep, ProcessInvariance, PTL DEF ProcessSpec, RunsAsConfigured

-----------------------------------------------------------------------------
(* Refinement of HttpService.                                              *)

\* The stage of the abstract service, case by case.
LEMMA StageIs ==
    /\ Ended => Stage = "gone"
    /\ ~Ended /\ at \notin {"handlers", "up"} => Stage = "starting"
    /\ ~Ended /\ at \in {"handlers", "up"} =>
         /\ state.phase = "running" => Stage = "serving"
         /\ state.phase = "draining" => Stage = "draining"
         /\ state.phase \notin {"running", "draining"} => Stage = "closing"
  BY DEF Stage

\* Its ending.
LEMMA EndingIs ==
    /\ outcome \in {"graceful", "printed"} => Ending = "clean"
    /\ outcome \in {"failed", "killed"} => Ending = "failed"
    /\ outcome \notin {"graceful", "printed", "failed", "killed"} => Ending = outcome
  BY DEF Ending

LEMMA HttpInit == ProcessInit => Http!Init
  <1> SUFFICES ASSUME ProcessInit PROVE Http!Init
    OBVIOUS
  <1>1. Stage = "starting" /\ Ending = "none"
    BY StageIs, EndingIs DEF ProcessInit, Fresh, Ended
  <1>2. QED
    BY <1>1 DEF Http!Init, ProcessInit, Fresh

\* A step that leaves connections and stage alone is none of the service.
LEMMA HttpStutters ==
    ASSUME UNCHANGED <<state, outcome, open, dropped>>,
           at' = at \/ {at, at'} \subseteq {"handlers", "up"}
                    \/ {at, at'} \cap {"handlers", "up"} = {}
    PROVE  UNCHANGED Http!vars
  <1>1. Ending' = Ending
    BY DEF Ending
  <1>2. Stage' = Stage
    BY DEF Stage, Ended
  <1>3. QED
    BY <1>1, <1>2 DEF Http!vars

\* The process returns: a clean end lost no request, a forced one was closing.
LEMMA HttpEnds ==
    ASSUME ProcessInv, ~Ended, NEW how, Return(how),
           \/ how \in {"failed", "killed"}
           \/ how \in {"graceful", "printed"} /\ Stage \in {"starting", "draining"}
                /\ open = {} /\ dropped = {}
           \/ how = "forced" /\ Stage = "closing"
    PROVE  Http!Next
  <1>1. how # "none" /\ Ended'
    BY DEF Return, Ended
  <1>2. Stage' = "gone"
    BY <1>1 DEF Stage
  <1>3. Stage # "gone"
    BY StageIs, Zenon DEF Ended
  <1>4. outcome' = how /\ dropped' = dropped \cup open /\ open' = {}
    BY DEF Return
  <1>5. CASE how \in {"failed", "killed"}
    <2>1. Ending' = "failed"
      BY <1>4, <1>5 DEF Ending
    <2>2. QED
      BY <1>2, <1>3, <1>4, <2>1 DEF Http!Next, Http!End
  <1>6. CASE how \in {"graceful", "printed"}
    <2>1. Ending' = "clean"
      BY <1>4, <1>6 DEF Ending
    <2>2. QED
      BY <1>2, <1>3, <1>4, <1>6, <2>1 DEF Http!Next, Http!End
  <1>7. CASE how = "forced"
    <2>1. Ending' = "forced"
      BY <1>4, <1>7 DEF Ending
    <2>2. QED
      BY <1>2, <1>3, <1>4, <1>7, <2>1 DEF Http!Next, Http!End
  <1>8. QED
    BY <1>5, <1>6, <1>7

\* The service moves on with its requests where they are.
LEMMA HttpMoves ==
    ASSUME UNCHANGED <<outcome, open, dropped>>, ~Ended,
           \/ at \notin {"handlers", "up"} /\ at' \in {"handlers", "up"} /\ state'.phase = "running"
           \/ /\ at \in {"handlers", "up"} /\ at' = at
              /\ \/ state.phase = "running" /\ state'.phase = "draining"
                 \/ state.phase = "draining" /\ state'.phase = "forcing"
    PROVE  Http!Next
  <1>1. Ending' = Ending /\ ~Ended'
    BY DEF Ending, Ended
  <1>2. CASE at \notin {"handlers", "up"} /\ at' \in {"handlers", "up"} /\ state'.phase = "running"
    <2>1. Stage = "starting" /\ Stage' = "serving"
      BY <1>1, <1>2 DEF Stage
    <2>2. QED
      BY <1>1, <2>1 DEF Http!Next, Http!Move
  <1>3. CASE at \in {"handlers", "up"} /\ at' = at /\ state.phase = "running" /\ state'.phase = "draining"
    <2>1. Stage = "serving" /\ Stage' = "draining"
      BY <1>1, <1>3 DEF Stage
    <2>2. QED
      BY <1>1, <2>1 DEF Http!Next, Http!Move
  <1>4. CASE at \in {"handlers", "up"} /\ at' = at /\ state.phase = "draining" /\ state'.phase = "forcing"
    <2>1. Stage = "draining" /\ Stage' = "closing"
      BY <1>1, <1>4 DEF Stage
    <2>2. QED
      BY <1>1, <2>1 DEF Http!Next, Http!Move
  <1>5. QED
    BY <1>2, <1>3, <1>4

\* The server takes requests only while it serves, answers them to the end,
\* and cuts them only when it was forced.
LEMMA HttpServes ==
    ASSUME ProcessInv, ServerStep, at \in {"handlers", "up"}, at' = at
    PROVE  Http!Next \/ UNCHANGED Http!vars
  <1>0. TypeOK /\ ServerAgrees /\ ~Ended /\ UNCHANGED <<state, outcome>>
    BY DEF ProcessInv, SupervisorInv, ServerStep, OpenConnection, Respond, ServerTaskEnds,
           supervisorVars
  <1>1. Stage' = Stage /\ Ending' = Ending
    BY <1>0 DEF Stage, Ending, Ended
  <1>2. ASSUME NEW c \in Connection, OpenConnection(c) PROVE Http!Next
    <2>1. state.phase = "running"
      BY <1>0, <1>2 DEF OpenConnection, ServerAgrees, TypeOK
    <2>2. Stage = "serving"
      BY <1>0, <2>1, StageIs
    <2>3. QED
      BY <1>1, <1>2, <2>2 DEF OpenConnection, Http!Next, Http!Accept
  <1>3. ASSUME NEW c \in Connection, Respond(c) PROVE Http!Next
    <2>1. Stage # "gone"
      BY <1>0, StageIs, Zenon
    <2>2. QED
      BY <1>1, <1>3, <2>1 DEF Respond, Http!Next, Http!Answer
  <1>4. CASE ServerTaskEnds
    <2>1. CASE server = "stopping" /\ dropped' = dropped \cup open /\ open' = {}
      <3>1. state.phase \notin {"running", "draining"}
        BY <1>0, <2>1 DEF ServerAgrees
      <3>2. Stage = "closing"
        BY <1>0, <3>1, StageIs
      <3>3. QED
        BY <1>1, <2>1, <3>2 DEF Http!Next, Http!CutOff
    <2>2. CASE UNCHANGED <<open, dropped>>
      BY <1>1, <2>2 DEF Http!vars
    <2>3. QED
      BY <1>4, <2>1, <2>2 DEF ServerTaskEnds
  <1>5. QED
    BY <1>2, <1>3, <1>4 DEF ServerStep

\* What the supervisor does is a move, an end, or nothing to the service.
LEMMA HttpSupervised ==
    ASSUME ProcessInv, Supervised
    PROVE  Http!Next \/ UNCHANGED Http!vars
  <1>0. /\ SupervisorInv /\ TypeOK /\ ServerAgrees /\ DrainingDropsNothing
        /\ at = "up" /\ at' = at /\ Next
    BY DEF ProcessInv, SupervisorInv, Supervised, InService, startVars
  <1>1. CASE Outside
    <2>1. UNCHANGED <<state, outcome, open, dropped>>
      BY <1>1 DEF Outside, RaiseSignal, ForwardSignal, SignalStreamCloses, CloseStdin,
                  WatchStdin, GraceExpires, supervisorVars, serverVars
    <2>2. QED
      BY <1>0, <2>1, HttpStutters
  <1>2. CASE ServerStep
    BY <1>0, <1>2, HttpServes
  <1>3. CASE ServerReturned
    <2>1. ~Ended
      BY <1>3 DEF ServerReturned
    <2>2. CASE server = "done" /\ Return("graceful")
      <3>1. state.phase = "draining" /\ open = {}
        BY <1>0, <1>3, <2>2 DEF ServerReturned, ServerAgrees
      <3>2. dropped = {}
        BY <2>1, <3>1, <1>0 DEF DrainingDropsNothing, Ended
      <3>3. Stage = "draining"
        BY <1>0, <2>1, <3>1, StageIs
      <3>4. QED
        BY <2>1, <2>2, <3>1, <3>2, <3>3, HttpEnds
    <2>3. CASE Return("failed")
      BY <2>1, <2>3, HttpEnds
    <2>4. QED
      BY <1>3, <2>2, <2>3 DEF ServerReturned
  <1>4. CASE FirstTrigger
    <2>1. ~Ended /\ state.phase = "running"
      BY <1>4 DEF FirstTrigger
    <2>2. CASE Return("failed")
      BY <2>1, <2>2, HttpEnds
    <2>3. CASE /\ state' = [state EXCEPT !.phase = "draining", !.first = Head(triggers)]
               /\ UNCHANGED <<outcome, open, dropped>>
      <3>1. state'.phase = "draining"
        BY <1>0, <2>3 DEF TypeOK
      <3>2. QED
        BY <1>0, <2>1, <2>3, <3>1, HttpMoves
    <2>4. QED
      BY <1>0, <1>4, <2>2, <2>3, FirstTriggerDoes
  <1>5. CASE ForceTrigger
    <2>1. ~Ended /\ state.phase = "draining"
      BY <1>5 DEF ForceTrigger
    <2>2. CASE Return("failed")
      BY <2>1, <2>2, HttpEnds
    <2>3. CASE Forces
      <3>1. state'.phase = "forcing"
        BY <1>0, <2>3 DEF TypeOK, Forces
      <3>2. QED
        BY <1>0, <2>1, <2>3, <3>1, HttpMoves DEF Forces
    <2>4. QED
      BY <1>0, <1>5, <2>2, <2>3, ForceTriggerDoes
  <1>6. CASE Settle
    <2>1. ~Ended /\ state.phase = "forcing" /\ (Return("forced") \/ Return("failed"))
      BY <1>6 DEF Settle
    <2>2. Stage = "closing"
      BY <1>0, <2>1, StageIs
    <2>3. QED
      BY <2>1, <2>2, HttpEnds
  <1>7. QED
    BY <1>0, <1>1, <1>2, <1>3, <1>4, <1>5, <1>6 DEF Next, Outside, Supervisor

LEMMA HttpStep == ProcessInv /\ [ProcessNext]_processVars => [Http!Next]_(Http!vars)
  <1> SUFFICES ASSUME ProcessInv, [ProcessNext]_processVars
               PROVE  Http!Next \/ UNCHANGED Http!vars
    OBVIOUS
  <1>0. /\ ProcessTypeOK /\ TypeOK /\ SupervisorInv /\ StartAgrees /\ ServerAgrees
        /\ DrainingDropsNothing
    BY DEF ProcessInv, SupervisorInv
  <1>1. ASSUME ~Ended, NEW how, NEW why, Stop(how, why),
               how \in {"failed", "killed"} \/ (how = "printed" /\ at = "argv")
        PROVE  Http!Next
    <2>1. Return(how)
      BY <1>1 DEF Stop
    <2>2. CASE how \in {"failed", "killed"}
      BY <1>1, <2>1, <2>2, HttpEnds
    <2>3. CASE how = "printed" /\ at = "argv"
      <3>1. server = "unbound" /\ state.phase = "running"
        BY <1>0, <2>3 DEF StartAgrees
      <3>2. open = {} /\ dropped = {}
        BY <1>0, <1>1, <3>1 DEF ServerAgrees, DrainingDropsNothing, Ended
      <3>3. Stage = "starting"
        BY <1>1, <2>3, StageIs
      <3>4. QED
        BY <1>1, <2>1, <2>3, <3>2, <3>3, HttpEnds
    <2>4. QED
      BY <1>1, <2>2, <2>3
  <1>2. ASSUME NEW from, NEW to, Advance(from, to), {from, to} \cap {"handlers", "up"} = {}
        PROVE  UNCHANGED Http!vars
    <2>1. UNCHANGED <<state, outcome, open, dropped>> /\ at = from /\ at' = to
      BY <1>2 DEF Advance, vars, supervisorVars, serverVars
    <2>2. QED
      BY <1>2, <2>1, HttpStutters
  <1>3. CASE StartStep
    <2>0. ~Ended
      BY <1>3 DEF StartStep
    <2>1. CASE ResolveArguments \/ ReadEnvironment \/ StartTelemetry
      BY <1>1, <1>2, <2>0, <2>1 DEF ResolveArguments, ReadEnvironment, StartTelemetry
    <2>2. CASE ConnectBroker \/ BuildClients
      BY <1>1, <1>2, <2>0, <2>2 DEF ConnectBroker, BuildClients
    <2>3. CASE SpawnListener \/ ConnectJournal
      BY <1>1, <1>2, <2>0, <2>3 DEF SpawnListener, ReadCertificates, ConnectJournal
    <2>4. CASE BindHttp
      <3>1. CASE Stop("failed", "port")
        BY <1>1, <2>0, <3>1
      <3>2. CASE at' = "handlers" /\ UNCHANGED <<supervisorVars, open, dropped>>
        <4>1. at = "http" /\ state.phase = "running"
          BY <1>0, <2>4 DEF BindHttp, StartAgrees
        <4>2. QED
          BY <2>0, <3>2, <4>1, HttpMoves DEF supervisorVars
      <3>3. QED
        BY <2>4, <3>1, <3>2 DEF BindHttp
    <2>5. CASE InstallHandlers
      <3>1. CASE Stop("failed", "handlers")
        BY <1>1, <2>0, <3>1
      <3>2. CASE at' = "up" /\ UNCHANGED vars
        BY <2>5, <3>2, HttpStutters DEF InstallHandlers, vars, supervisorVars, serverVars
      <3>3. QED
        BY <2>5, <3>1, <3>2 DEF InstallHandlers
    <2>6. QED
      BY <1>3, <2>1, <2>2, <2>3, <2>4, <2>5 DEF StartStep
  <1>4. CASE EarlySignal
    <2>1. CASE Stop("killed", "signal")
      BY <1>1, <1>4, <2>1 DEF EarlySignal
    <2>2. CASE UNCHANGED <<vars, at>>
      BY <2>2, HttpStutters DEF vars, supervisorVars, serverVars
    <2>3. QED
      BY <1>4, <2>1, <2>2 DEF EarlySignal
  <1>5. CASE ServeAlone
    BY <1>5, HttpServes DEF ServeAlone, InService, startVars
  <1>6. CASE Supervised
    BY <1>6, HttpSupervised
  <1>7. CASE UNCHANGED <<vars, at>>
    BY <1>7, HttpStutters DEF vars, supervisorVars, serverVars
  <1>8. QED
    BY <1>3, <1>4, <1>5, <1>6, <1>7 DEF ProcessNext, TaskStops, processVars, startVars

\* The process, from its first step to its last, is the HTTP service that
\* HttpService describes.
THEOREM ProcessRefinement == ProcessSpec => ImplementsHttpService
  BY HttpInit, HttpStep, ProcessInvariance, PTL DEF ProcessSpec, ImplementsHttpService, Http!Spec
=============================================================================
