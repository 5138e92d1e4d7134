---------------------------- MODULE ServerProcess ----------------------------
(***************************************************************************)
(* The life of the server process: main.rs and server.rs resolve the       *)
(* command line, read the configuration, start telemetry, connect to the   *)
(* broker, build the clients, spawn the mTLS listener and the JetStream    *)
(* worker, bind the HTTP port, and hand over to the shutdown supervisor.   *)
(*                                                                         *)
(* While the process starts nobody handles a signal: it kills the process, *)
(* except as PID 1 of a container (scripts/sops-entrypoint.sh execs the    *)
(* server), where the kernel drops it.  The two background tasks are only  *)
(* running or not here; JetStreamWorker and MtlsListener model what they   *)
(* do, and the end of this process is their crash.                         *)
(***************************************************************************)
EXTENDS ShutdownSupervisor

VARIABLES
    settings,   \* the environment and flags, until nothing reads them any more
    at,         \* the step of the start that comes next, "up" after the last
    unhandled,  \* what a signal does while there is no handler
    cause,      \* why the start ended the process
    broker,     \* AppState.nats is a client
    journal,    \* AppState.operation_journal is a connection
    worker,     \* the JetStream worker runs
    listener    \* the mTLS listener runs

taskVars    == <<worker, listener>>
backendVars == <<broker, journal>>
startVars   == <<settings, at, unhandled, cause, backendVars>>
processVars == <<vars, startVars, taskVars>>

\* A group of variables that belong together is absent, has some of them,
\* has all of them but a bad value, or is good.
Group == {"absent", "partial", "bad", "good"}

Settings ==
    [port: {"bad", "good"}, auth: Group, youtube: Group, mtls: Group,
     database: {"absent", "good"}, key: {"absent", "bad", "good"},
     natsUrl: {"local", "tls", "cleartext"}]

Unset == [port |-> "good", auth |-> "absent", youtube |-> "absent", mtls |-> "absent",
          database |-> "absent", key |-> "absent", natsUrl |-> "local"]

\* Why a start gives up: all of them are found on the host itself.
LocalCause == {"argv", "environment", "filter", "client", "certificate", "port",
               "handlers", "signal"}

ProcessTypeOK ==
    /\ TypeOK
    /\ settings \in Settings
    /\ at \in {"argv", "environment", "telemetry", "broker", "clients", "listener",
               "journal", "http", "handlers", "up"}
    /\ unhandled \in {"kills", "ignored", "dropped", "none"}
    /\ cause \in LocalCause \cup {"none", "outage"}
    /\ broker \in BOOLEAN /\ journal \in BOOLEAN
    /\ worker \in BOOLEAN /\ listener \in BOOLEAN

ProcessInit ==
    /\ Fresh("unbound")
    /\ settings \in Settings
    /\ at = "argv" /\ cause = "none"
    /\ unhandled \in {"kills", "ignored"}
    /\ broker = FALSE /\ journal = FALSE /\ worker = FALSE /\ listener = FALSE

-----------------------------------------------------------------------------
(* Config::from_env.                                                       *)

Whole(group) == group \in {"absent", "good"}

\* Slip: a durable configuration may name any broker.
AnyNatsUrl(s) == s.database = "good" => s.auth = "good"

\* The journal comes with a strong key, Shared Auth, and a broker that is
\* local or reached through TLS.
DurableAllowed(s) ==
    /\ s.key = s.database
    /\ s.database = "good" => s.natsUrl # "cleartext" /\ s.auth = "good"

FromEnv(s) ==
    /\ s.port = "good"
    /\ Whole(s.auth)
    /\ Whole(s.youtube) /\ (s.youtube = "good" => s.auth = "good")
    /\ DurableAllowed(s)
    /\ Whole(s.mtls) /\ (s.mtls = "good" => s.auth = "good")

-----------------------------------------------------------------------------
(* The steps of the start.                                                 *)

\* The process returns from main; its runtime drops every task.
Stop(how, why) ==
    /\ Return(how)
    /\ cause' = why
    /\ worker' = FALSE /\ listener' = FALSE
    /\ UNCHANGED <<state, signalVars, stdin, watcher, graceOver, server,
                   settings, at, unhandled, backendVars>>

Advance(from, to) ==
    /\ at = from /\ at' = to
    /\ UNCHANGED <<vars, unhandled, cause>>

\* flags::process_control: help and version are printed, an unknown option,
\* a bad value or a positional argument is refused.
ResolveArguments ==
    /\ at = "argv"
    /\ \/ Stop("printed", "argv") \/ Stop("failed", "argv")
       \/ Advance("argv", "environment") /\ UNCHANGED <<settings, backendVars, taskVars>>

ReadEnvironment ==
    /\ at = "environment"
    /\ IF FromEnv(settings)
       THEN Advance("environment", "telemetry") /\ UNCHANGED <<settings, backendVars, taskVars>>
       ELSE Stop("failed", "environment")

\* RUST_LOG must be a filter; an exporter that cannot be built is left out.
StartTelemetry ==
    /\ at = "telemetry"
    /\ \/ Stop("failed", "filter")
       \/ Advance("telemetry", "broker") /\ UNCHANGED <<settings, backendVars, taskVars>>

\* Slip: no broker, no server.
ConnectBrokerOrStop ==
    /\ at = "broker"
    /\ \/ Stop("failed", "outage")
       \/ Advance("broker", "clients") /\ broker' = TRUE /\ UNCHANGED <<settings, journal, taskVars>>

\* nats::connect: what it does not get now it never gets.
ConnectBroker ==
    /\ Advance("broker", "clients")
    /\ broker' \in BOOLEAN
    /\ UNCHANGED <<settings, journal, taskVars>>

\* The Apps Script client and the Shared Auth verifier check their URLs.
BuildClients ==
    /\ at = "clients"
    /\ \/ (settings.youtube = "good" \/ settings.auth = "good") /\ Stop("failed", "client")
       \/ Advance("clients", "listener") /\ UNCHANGED <<settings, backendVars, taskVars>>

\* mtls_acceptor finds a file missing, empty or unusable.
ReadCertificates == settings.mtls = "good" /\ Stop("failed", "certificate")

\* With the certificates read, the mTLS port is bound, if there is one.
SpawnListener ==
    /\ at = "listener"
    /\ \/ ReadCertificates
       \/ settings.mtls = "good" /\ Stop("failed", "port")
       \/ /\ Advance("listener", "journal")
          /\ listener' = (settings.mtls = "good")
          /\ UNCHANGED <<settings, backendVars, worker>>

\* Database::connect, and with a journal, a broker, a service and a key the
\* worker, which takes messages from now on.
ConnectJournal ==
    /\ Advance("journal", "http")
    /\ journal' \in IF settings.database = "good" THEN BOOLEAN ELSE {FALSE}
    /\ worker' = (journal' /\ broker /\ settings.auth = "good" /\ settings.key = "good")
    /\ UNCHANGED <<settings, broker, listener>>

\* The HTTP server is spawned on the bound port.  Nothing reads the settings
\* after this.
BindHttp ==
    /\ at = "http"
    /\ \/ Stop("failed", "port")
       \/ /\ at' = "handlers" /\ server' = "serving" /\ settings' = Unset
          /\ UNCHANGED <<supervisorVars, signalVars, stdin, watcher, graceOver, open, dropped,
                         unhandled, cause, backendVars, taskVars>>

\* supervise begins: from now on signals are received.
InstallHandlers ==
    /\ at = "handlers"
    /\ \/ Stop("failed", "handlers")
       \/ /\ at' = "up" /\ unhandled' = IF unhandled = "dropped" THEN "dropped" ELSE "none"
          /\ UNCHANGED <<vars, settings, cause, backendVars, taskVars>>

StartStep ==
    /\ ~Ended
    /\ \/ ResolveArguments \/ ReadEnvironment \/ StartTelemetry \/ ConnectBroker
       \/ BuildClients \/ SpawnListener \/ ConnectJournal \/ BindHttp \/ InstallHandlers

EarlySignal ==
    /\ ~Ended /\ at # "up" /\ sent < MaxSignals
    /\ \/ unhandled = "kills" /\ Stop("killed", "signal")
       \/ /\ unhandled = "ignored" /\ unhandled' = "dropped"
          /\ UNCHANGED <<vars, settings, at, cause, backendVars, taskVars>>

-----------------------------------------------------------------------------
(* The process in service.                                                 *)

\* A step of the server or, once it is there, of the supervisor; the end of
\* the process takes the tasks with it.
InService(step) ==
    /\ step
    /\ worker' = (worker /\ outcome' = "none") /\ listener' = (listener /\ outcome' = "none")
    /\ UNCHANGED startVars

\* The server accepts requests before the handlers are installed.
ServeAlone == at = "handlers" /\ InService(ServerStep)

Supervised == at = "up" /\ InService(Next)

\* An error of the pull subscription or of accept ends a task for good, and
\* nothing else notices.
TaskStops ==
    /\ ~Ended
    /\ \/ worker /\ worker' = FALSE /\ UNCHANGED listener
       \/ listener /\ listener' = FALSE /\ UNCHANGED worker
    /\ UNCHANGED <<vars, startVars>>

ProcessNext == StartStep \/ EarlySignal \/ ServeAlone \/ Supervised \/ TaskStops

ProcessSpec == ProcessInit /\ [][ProcessNext]_processVars

\* Every step of the start ends, the connections by their own timeouts, and
\* the runtime polls the supervisor and the signal task.
FairProcessSpec ==
    /\ ProcessSpec
    /\ WF_processVars(StartStep)
    /\ WF_processVars(at = "up" /\ InService(Supervisor))
    /\ \A s \in Signal : WF_processVars(at = "up" /\ InService(ForwardSignal(s)))

-----------------------------------------------------------------------------
(* Properties.                                                             *)

\* What a step may start, given the settings it was read from.
Configured ==
    /\ (server' # server \/ broker' # broker \/ journal' # journal)
          /\ at \notin {"handlers", "up"} =>
        /\ \A group \in {settings.auth, settings.youtube, settings.mtls} :
             group \notin {"partial", "bad"}
        /\ settings.port = "good" /\ settings.key # "bad"
    /\ listener' /\ ~listener => settings.auth = "good" /\ settings.mtls = "good"
    /\ worker' /\ ~worker =>
        /\ settings.auth = "good" /\ settings.key = "good"
        /\ settings.natsUrl \in {"local", "tls"}
        /\ broker' /\ journal'

\* The process does what it was configured to do or nothing: no broker, port
\* or task is touched unless every group of settings is whole, the listener
\* runs only behind Shared Auth, and the worker takes work only with Shared
\* Auth, its key, its journal and a broker named as local or behind TLS.
RunsAsConfigured == [][Configured]_processVars

\* README.md: "Broker or journal unavailability remains fail-soft for the
\* ordinary HTTP control plane".  Whatever is out of reach while it starts,
\* the process comes up, or ends for a reason of its own host.
OutageIsFailSoft == <>(at = "up" \/ cause \in LocalCause)

-----------------------------------------------------------------------------
(* Refinement.                                                             *)

Stage ==
    CASE Ended -> "gone"
      [] ~Ended /\ at \notin {"handlers", "up"} -> "starting"
      [] OTHER -> CASE state.phase = "running" -> "serving"
                    [] state.phase = "draining" -> "draining"
                    [] OTHER -> "closing"

Ending ==
    CASE outcome \in {"graceful", "printed"} -> "clean"
      [] outcome \in {"failed", "killed"} -> "failed"
      [] OTHER -> outcome

Http == INSTANCE HttpService WITH
    stage <- Stage, ending <- Ending, open <- open, cut <- dropped

\* The process, from its first step to its last, is the service HttpService
\* describes.
ImplementsHttpService == Http!Spec

=============================================================================
