------------------------- MODULE ShutdownSupervisor -------------------------
(***************************************************************************)
(* The shutdown supervisor of src/server/shutdown.rs: the process is told  *)
(* to stop by signals, drains the active HTTP requests, and is forced by a *)
(* second signal, by Ctrl-D on a terminal, or by the grace period.         *)
(*                                                                         *)
(* The tasks that meet here are the supervisor, the task that turns Unix   *)
(* signals into triggers, the thread that watches the terminal for its     *)
(* end of file, and the HTTP server (axum-server, external) with its       *)
(* connections.  Durations are not modelled: a timer that is running may   *)
(* expire at any time.  ServerProcess puts the start of the process in     *)
(* front of this.                                                          *)
(***************************************************************************)
EXTENDS Naturals, Sequences

CONSTANTS
    Connection,    \* HTTP connections
    MaxSignals     \* bound on the signals sent to the process

ASSUME ShutdownAssumption == MaxSignals \in Nat

VARIABLES
    state,      \* State: phase, stdin_is_tty, first_trigger
    outcome,    \* how the process ended, "none" while it has not
    signalled,  \* signals raised and not yet received; a repeated one merges
    triggers,   \* the unbounded channel from the signal task
    stdin,      \* "closed" once reading it gives end of file
    watcher,    \* the end-of-file watcher: "none", "reading", "sent", "failed"
    graceOver,  \* the grace deadline has passed
    server,     \* the HTTP server task
    open,       \* connections with a request in progress
    dropped,    \* connections closed before their request was answered
    sent        \* number of signals raised so far, but for those the kernel dropped

supervisorVars == <<state, outcome>>
signalVars     == <<signalled, triggers, sent>>
serverVars     == <<server, open, dropped>>
vars == <<supervisorVars, signalVars, stdin, watcher, graceOver, serverVars>>

Signal == {"sigint", "sigterm"}

TypeOK ==
    /\ state \in [phase: {"running", "draining", "forcing", "complete"},
                  tty: BOOLEAN, first: Signal \cup {"none"}]
    /\ outcome \in {"none", "graceful", "forced", "failed", "invalid", "printed", "killed"}
    /\ signalled \subseteq Signal
    /\ triggers \in Seq(Signal \cup {"streamClosed"})
    /\ stdin \in {"open", "closed"}
    /\ watcher \in {"none", "reading", "sent", "failed"}
    /\ graceOver \in BOOLEAN
    /\ server \in {"unbound", "serving", "draining", "stopping", "done", "failed", "aborted"}
    /\ open \subseteq Connection /\ dropped \subseteq Connection
    /\ sent \in 0..MaxSignals

Fresh(serverState) ==
    /\ state \in [phase: {"running"}, tty: BOOLEAN, first: {"none"}]
    /\ outcome = "none"
    /\ signalled = {} /\ triggers = <<>> /\ sent = 0
    /\ stdin \in {"open", "closed"}
    /\ watcher = "none" /\ graceOver = FALSE
    /\ server = serverState /\ open = {} /\ dropped = {}

Init == Fresh("serving")

Ended == outcome # "none"

-----------------------------------------------------------------------------
(* State::apply.                                                           *)

Ignored(s) == [state |-> s, action |-> "Ignore", showForceHint |-> FALSE]

Begun(s, t, hint) ==
    [state |-> [s EXCEPT !.phase = "draining", !.first = t],
     action |-> "BeginGraceful", showForceHint |-> hint]

Moved(s, phase, action) ==
    [state |-> [s EXCEPT !.phase = phase], action |-> action, showForceHint |-> FALSE]

\* Slips: every terminal session offers Ctrl-D, after SIGTERM too; and the
\* trigger that forces is recorded as the first.
ApplyHintingAlways(s, t) ==
    CASE s.phase = "running" /\ t \in Signal -> Begun(s, t, s.tty)
      [] s.phase = "draining" /\ t = "complete" -> Moved(s, "complete", "Complete")
      [] s.phase = "draining" /\ t \in Signal \cup {"timeout"} -> Moved(s, "forcing", "Force")
      [] s.phase = "draining" /\ t = "eof" /\ s.tty /\ s.first = "sigint" ->
           Moved(s, "forcing", "Force")
      [] OTHER -> Ignored(s)

ApplyOverwritingFirst(s, t) ==
    CASE s.phase = "running" /\ t \in Signal -> Begun(s, t, s.tty /\ t = "sigint")
      [] s.phase = "draining" /\ t = "complete" -> Moved(s, "complete", "Complete")
      [] s.phase = "draining" /\ t # "complete" -> Moved([s EXCEPT !.first = t], "forcing", "Force")
      [] OTHER -> Ignored(s)

Apply(s, t) ==
    CASE s.phase = "running" /\ t \in Signal -> Begun(s, t, s.tty /\ t = "sigint")
      [] s.phase = "draining" /\ t = "complete" -> Moved(s, "complete", "Complete")
      [] s.phase = "draining" /\ t \in Signal \cup {"timeout"} -> Moved(s, "forcing", "Force")
      [] s.phase = "draining" /\ t = "eof" /\ s.tty /\ s.first = "sigint" ->
           Moved(s, "forcing", "Force")
      [] OTHER -> Ignored(s)

-----------------------------------------------------------------------------
(* The outside world, the signal task and the watcher thread.              *)

RaiseSignal(s) ==
    /\ ~Ended /\ sent < MaxSignals
    /\ sent' = sent + 1
    /\ signalled' = signalled \cup {s}
    /\ UNCHANGED <<supervisorVars, triggers, stdin, watcher, graceOver, serverVars>>

\* Slip: the signal stays pending and is received again.
ReceiveAgain(s) ==
    /\ ~Ended /\ s \in signalled
    /\ Len(triggers) < MaxSignals
    /\ triggers' = Append(triggers, s)
    /\ UNCHANGED <<supervisorVars, signalled, sent, stdin, watcher, graceOver, serverVars>>

SignalTaskRuns == \A i \in 1..Len(triggers) : triggers[i] # "streamClosed"

\* The signal task forwards signals one by one, in either order.
ForwardSignal(s) ==
    /\ ~Ended /\ SignalTaskRuns /\ s \in signalled
    /\ signalled' = signalled \ {s}
    /\ triggers' = Append(triggers, s)
    /\ UNCHANGED <<supervisorVars, sent, stdin, watcher, graceOver, serverVars>>

\* The signal stream ends: the task forwards the error, once, and stops.
SignalStreamCloses ==
    /\ ~Ended /\ SignalTaskRuns
    /\ triggers' = Append(triggers, "streamClosed")
    /\ UNCHANGED <<supervisorVars, signalled, sent, stdin, watcher, graceOver, serverVars>>

CloseStdin ==
    /\ ~Ended /\ stdin = "open" /\ stdin' = "closed"
    /\ UNCHANGED <<supervisorVars, signalVars, watcher, graceOver, serverVars>>

\* The watcher reads until end of file, and gives up on a read error.
WatchStdin ==
    /\ ~Ended /\ watcher = "reading"
    /\ \/ stdin = "closed" /\ watcher' = "sent"
       \/ watcher' = "failed"
    /\ UNCHANGED <<supervisorVars, signalVars, stdin, graceOver, serverVars>>

GraceExpires ==
    /\ ~Ended /\ state.phase = "draining" /\ ~graceOver
    /\ graceOver' = TRUE
    /\ UNCHANGED <<supervisorVars, signalVars, stdin, watcher, serverVars>>

-----------------------------------------------------------------------------
(* The HTTP server.                                                        *)

OpenConnection(c) ==
    /\ ~Ended /\ server = "serving" /\ c \notin open \cup dropped
    /\ open' = open \cup {c}
    /\ UNCHANGED <<supervisorVars, signalVars, stdin, watcher, graceOver, server, dropped>>

Respond(c) ==
    /\ ~Ended /\ c \in open
    /\ open' = open \ {c}
    /\ UNCHANGED <<supervisorVars, signalVars, stdin, watcher, graceOver, server, dropped>>

\* A draining server is done when no connection is left; one told to stop
\* drops what is left.  A server that fails leaves its connections alone.
ServerTaskEnds ==
    /\ ~Ended
    /\ \/ server = "draining" /\ open = {} /\ server' = "done" /\ UNCHANGED <<open, dropped>>
       \/ /\ server = "stopping" /\ server' = "done"
          /\ dropped' = dropped \cup open /\ open' = {}
       \/ server = "serving" /\ server' = "failed" /\ UNCHANGED <<open, dropped>>
    /\ UNCHANGED <<supervisorVars, signalVars, stdin, watcher, graceOver>>

-----------------------------------------------------------------------------
(* The supervisor.                                                         *)

\* supervise returns, and with it the process: the runtime drops every task.
Return(how) ==
    /\ outcome' = how
    /\ dropped' = dropped \cup open /\ open' = {}

\* A call on the Handle reaches a server that is still running.
Tell(what) == server' = IF server \in {"serving", "draining"} THEN what ELSE server

ServerReturned ==
    /\ ~Ended /\ state.phase \in {"running", "draining"} /\ server \in {"done", "failed"}
    /\ \/ server = "done" /\ Return("graceful") /\ state' = Apply(state, "complete").state
       \/ server = "failed" /\ Return("failed") /\ UNCHANGED state
    /\ UNCHANGED <<signalVars, stdin, watcher, graceOver, server>>

\* Slip: the first signal already closes the connections.
StopAtOnce ==
    /\ ~Ended /\ state.phase = "running" /\ triggers # <<>> /\ Head(triggers) \in Signal
    /\ triggers' = Tail(triggers)
    /\ state' = Apply(state, Head(triggers)).state
    /\ Tell("stopping")
    /\ UNCHANGED <<outcome, watcher, open, dropped, signalled, sent, stdin, graceOver>>

FirstTrigger ==
    /\ ~Ended /\ state.phase = "running" /\ triggers # <<>>
    /\ triggers' = Tail(triggers)
    /\ LET t == Head(triggers)  next == Apply(state, t) IN
       \/ t = "streamClosed" /\ Return("failed") /\ UNCHANGED <<state, server, watcher>>
       \/ /\ t # "streamClosed" /\ next.action # "BeginGraceful"
          /\ Return("invalid") /\ UNCHANGED <<state, server, watcher>>
       \/ /\ next.action = "BeginGraceful"
          /\ state' = next.state
          /\ Tell("draining")
          \* the watcher's thread may fail to start
          /\ watcher' \in IF next.showForceHint THEN {"reading", "none"} ELSE {"none"}
          /\ UNCHANGED <<outcome, open, dropped>>
    /\ UNCHANGED <<signalled, sent, stdin, graceOver>>

ForceOn(t) ==
    LET next == Apply(state, t) IN
    \/ /\ next.action = "Force"
       /\ state' = next.state
       /\ Tell("stopping")
       /\ UNCHANGED <<outcome, open, dropped>>
    \/ next.action # "Force" /\ Return("invalid") /\ UNCHANGED <<state, server>>

\* Slip: nobody looks at the deadline.
ForceOnSignalOnly ==
    /\ ~Ended /\ state.phase = "draining"
    /\ triggers # <<>> /\ Head(triggers) \in Signal
    /\ triggers' = Tail(triggers) /\ ForceOn(Head(triggers))
    /\ UNCHANGED <<signalled, sent, stdin, watcher, graceOver>>

\* The second select takes any branch that is ready, so a drained server, a
\* signal and the deadline race.
ForceTrigger ==
    /\ ~Ended /\ state.phase = "draining"
    /\ \/ /\ triggers # <<>> /\ triggers' = Tail(triggers)
          /\ IF Head(triggers) = "streamClosed"
             THEN Return("failed") /\ UNCHANGED <<state, server>>
             ELSE ForceOn(Head(triggers))
       \/ graceOver /\ ForceOn("timeout") /\ UNCHANGED triggers
       \/ watcher = "sent" /\ ForceOn("eof") /\ UNCHANGED triggers
    /\ UNCHANGED <<signalled, sent, stdin, watcher, graceOver>>

\* Slip: the settling has no time limit.
SettleWaits ==
    /\ ~Ended /\ state.phase = "forcing"
    /\ \/ server = "done" /\ Return("forced")
       \/ server = "failed" /\ Return("failed")
    /\ UNCHANGED <<state, signalVars, stdin, watcher, graceOver, server>>

\* The server settles, or FORCE_SETTLE_TIMEOUT passes and its task is aborted.
Settle ==
    /\ ~Ended /\ state.phase = "forcing"
    /\ \/ server = "done" /\ Return("forced") /\ UNCHANGED server
       \/ server = "failed" /\ Return("failed") /\ UNCHANGED server
       \/ server = "stopping" /\ Return("failed") /\ server' = "aborted"
    /\ UNCHANGED <<state, signalVars, stdin, watcher, graceOver>>

Supervisor == ServerReturned \/ FirstTrigger \/ ForceTrigger \/ Settle

ServerStep == \/ \E c \in Connection : OpenConnection(c) \/ Respond(c)
              \/ ServerTaskEnds

Next ==
    \/ \E s \in Signal : RaiseSignal(s) \/ ForwardSignal(s)
    \/ SignalStreamCloses \/ CloseStdin \/ WatchStdin \/ GraceExpires
    \/ ServerStep \/ Supervisor

Spec == Init /\ [][Next]_vars

-----------------------------------------------------------------------------
(* Properties.                                                             *)

\* Force is the user's or the clock's decision: the grace period is over, or
\* there was a second signal, or Ctrl-D on a terminal after Ctrl-C.
ForceIsJustified ==
    state.phase = "forcing" =>
        \/ graceOver
        \/ sent >= 2
        \/ state.tty /\ state.first = "sigint" /\ stdin = "closed"

\* Draining loses no request: none is dropped before the supervisor forces,
\* or the process fails, and a shutdown reported graceful dropped none at all.
DrainingDropsNothing ==
    dropped # {} => state.phase = "forcing" \/ outcome \in {"failed", "killed"}

\* A first signal ends the process within the grace period and the settling
\* time, although requests hang, the server never settles, the watcher's
\* thread fails, and no other signal comes; a second one received while
\* draining ends it without the grace period.
SignalsEndProcess ==
    /\ WF_vars(GraceExpires) => (sent > 0 ~> Ended)
    /\ (state.phase = "draining" /\ triggers # <<>>) ~> Ended

=============================================================================
