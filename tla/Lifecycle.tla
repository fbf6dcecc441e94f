------------------------------ MODULE Lifecycle ------------------------------
(***************************************************************************)
(* The life of a service process: assembly by wireApp from the             *)
(* configuration, recovery, the five servers that Kratos starts and stops, *)
(* and cleanup.                                                            *)
(*                                                                         *)
(* Kratos is external: App.Run calls every Start at once, each in a        *)
(* goroutine of its own, with a context that nothing cancels; on a signal, *)
(* or when a Start fails, it calls every Stop, also of a server that is    *)
(* still starting; it returns, and main closes the connections, when every *)
(* Start and every Stop has returned. The Start of the timeout worker      *)
(* returns only when its context is cancelled, so Run never returns, and   *)
(* what main does after it has no action here.  MySQL, and RocketMQ when a *)
(* server connects to it, may answer or not.                               *)
(***************************************************************************)
CONSTANTS
  Configs      \* the configurations the process may be started with

\* What a configuration may lack: conf.Server and conf.Data have sections of their own,
\* conf.RocketMQ fields it is refused without.
ServerSections == {"grpc", "metrics"}
DataSections   == {"mysql", "redis", "rocketmq"}
RocketMQFields == {"endpoint", "topics", "group"}
Sections == ServerSections \cup DataSections \cup RocketMQFields \cup {"match", "trace", "sentry"}

Servers == {"grpc", "metrics", "consumers", "producer", "worker"}

\* What the constants must be; the modules that use this one assume it.
LifecycleAssumption ==
  /\ Configs \subseteq SUBSET Sections
  /\ \A c \in Configs : c \cap RocketMQFields # {} => "rocketmq" \in c

VARIABLES
  config,      \* conf.Bootstrap: the sections and fields it has
  phase,       \* how far main has come; "stopping" until somebody kills the process
  open,        \* connections that are open: MySQL and Redis
  recovered,   \* RecoverActiveBaskets has returned
  server,      \* per server, its Start: "idle", "starting", "running" (for the gRPC server
               \* also "draining"), "returned" or "failed"
  stopped,     \* the servers whose Stop has returned
  busy,        \* the goroutines in a use case: "grpc", "consumers", "worker"
  polling      \* the receive loop runs

assembly == <<config, open, recovered>>
vars == <<assembly, phase, server, stopped, busy, polling>>

Init ==
  /\ config \in Configs
  /\ phase = "config"
  /\ open = {} /\ recovered = FALSE
  /\ server = [s \in Servers |-> "idle"]
  /\ stopped = {} /\ busy = {} /\ polling = FALSE

Has(section) == section \in config

(***************************************************************************)
(* wireApp                                                                 *)
(***************************************************************************)
Rest == UNCHANGED <<config, stopped, busy, polling>>

\* An error closes what is open; a missing section is a nil pointer, and a panic.
Fail  == phase' = "exited" /\ open' = {} /\ UNCHANGED recovered
Panic == phase' = "exited" /\ UNCHANGED <<open, recovered>>

\* Each does nothing when it is not configured, and may fail when it is.
SetTracerProvider ==
  /\ phase = "config"
  /\ (phase' = "sentry" /\ UNCHANGED <<open, recovered>>) \/ (Has("trace") /\ Panic)
  /\ Rest /\ UNCHANGED server

InitSentry ==
  /\ phase = "sentry"
  /\ (phase' = "data" /\ UNCHANGED <<open, recovered>>) \/ (Has("sentry") /\ Panic)
  /\ Rest /\ UNCHANGED server

\* NewData pings MySQL; NewShardLockProvider does not connect.
OpenData ==
  /\ phase = "data"
  /\ IF ~Has("mysql") THEN Panic
     ELSE Fail \/ (phase' = "lock" /\ open' = {"mysql"} /\ UNCHANGED recovered)
  /\ Rest /\ UNCHANGED server

OpenLock ==
  /\ phase = "lock"
  /\ IF ~Has("redis") THEN Panic
     ELSE phase' = "usecase" /\ open' = open \cup {"redis"} /\ UNCHANGED recovered
  /\ Rest /\ UNCHANGED server

\* NewMatchingUsecase returns when the baskets are in the pool.
RecoverLater == recovered   \* mutant: the recovery runs in a goroutine
RecoverNow   == TRUE

NewUsecase ==
  /\ phase = "usecase"
  /\ IF ~Has("match") THEN Panic
     ELSE Fail \/ (phase' = "servers" /\ recovered' = RecoverNow /\ UNCHANGED open)
  /\ Rest /\ UNCHANGED server

\* NewConsumerManager and NewMQProducer refuse a configuration that cannot work.
ConsumersConfigured(c) == {"rocketmq"} \cup RocketMQFields \subseteq c
ProducerConfigured(c)  == {"rocketmq", "endpoint"} \subseteq c

\* With the servers made, App.Run calls every Start.
NewServers ==
  /\ phase = "servers"
  /\ IF ~Has("grpc") \/ ~Has("metrics") THEN Panic /\ UNCHANGED server
     ELSE IF ~ConsumersConfigured(config) \/ ~ProducerConfigured(config)
       THEN Fail /\ UNCHANGED server
     ELSE /\ phase' = "running" /\ server' = [s \in Servers |-> "starting"]
          /\ UNCHANGED <<open, recovered>>
  /\ Rest

(***************************************************************************)
(* App.Run                                                                 *)
(***************************************************************************)
Same == UNCHANGED assembly

\* Start of the consumers and of the producer returns once they are connected; the
\* other Starts serve, unless their Stop was called before.
Connects(s) == s \in {"consumers", "producer"}
Starting(s) == phase \in {"running", "stopping"} /\ server[s] = "starting"

Start(s) ==
  /\ Starting(s)
  /\ server' = [server EXCEPT ![s] =
       IF Connects(s) \/ (s \in stopped /\ s # "worker") THEN "returned" ELSE "running"]
  /\ polling' = (polling \/ s = "consumers")
  /\ Same /\ UNCHANGED <<phase, stopped, busy>>

\* The broker does not answer, or Stop has closed the client meanwhile; or a port is in
\* use.  Consumers that fail end the process (logx.Fatalf), the others the application.
StartFails(s) ==
  /\ Starting(s) /\ s # "worker"
  /\ server' = [server EXCEPT ![s] = "failed"]
  /\ IF s = "consumers" THEN phase' = "exited" /\ polling' = FALSE /\ busy' = {}
     ELSE phase' = "stopping" /\ UNCHANGED <<polling, busy>>
  /\ Same /\ UNCHANGED stopped

\* Run listens for signals when every Start has been called.
Signal ==
  /\ phase = "running"
  /\ phase' = "stopping"
  /\ Same /\ UNCHANGED <<server, stopped, busy, polling>>

\* A request, a message or the ticker: work in the use case begins and ends.
Serves(s) ==
  \/ s = "grpc" /\ server[s] = "running"
  \/ s = "consumers" /\ polling
  \/ s = "worker" /\ server[s] = "running"

Begin(s) ==
  /\ phase \in {"running", "stopping"} /\ Serves(s) /\ s \notin busy
  /\ s = "consumers" => s \notin stopped   \* Receive fails after GracefulStop
  /\ busy' = busy \cup {s}
  /\ Same /\ UNCHANGED <<phase, server, stopped, polling>>

End(s) ==
  /\ phase # "exited" /\ s \in busy
  /\ busy' = busy \ {s}
  /\ Same /\ UNCHANGED <<phase, server, stopped, polling>>

\* GracefulStop of the gRPC server takes no new call and waits for those in progress.
Drain ==
  /\ phase = "stopping" /\ server["grpc"] = "running"
  /\ server' = [server EXCEPT !["grpc"] = "draining"]
  /\ Same /\ UNCHANGED <<phase, stopped, busy, polling>>

StartHasReturned(s) ==   \* mutant: Stop waits until Start has returned
  s = "metrics" \/ server[s] \notin {"starting", "running"}
NothingToWaitFor(s) == s = "grpc" => server[s] # "running" /\ s \notin busy

\* Stop of the gRPC and metrics servers ends their Start. That of the consumers closes
\* the client: the receive loop goes on with a Receive that fails. That of the timeout
\* worker does nothing.
Stop(s) ==
  /\ phase = "stopping" /\ s \notin stopped /\ NothingToWaitFor(s)
  /\ stopped' = stopped \cup {s}
  /\ server' = [server EXCEPT ![s] =
       IF s \in {"grpc", "metrics"} /\ @ \in {"running", "draining"} THEN "returned" ELSE @]
  /\ Same /\ UNCHANGED <<phase, busy, polling>>

Assemble ==
  SetTracerProvider \/ InitSentry \/ OpenData \/ OpenLock \/ NewUsecase \/ NewServers

Next ==
  \/ Assemble \/ Signal \/ Drain
  \/ \E s \in Servers : Start(s) \/ StartFails(s) \/ Begin(s) \/ End(s) \/ Stop(s)

Spec == Init /\ [][Next]_vars

\* Kratos calls every Stop, each once, and a gRPC call in progress ends.
Fairness ==
  WF_vars(\E s \in Servers : Stop(s)) /\ WF_vars(Drain) /\ WF_vars(End("grpc"))

FairSpec == Spec /\ Fairness

(***************************************************************************)
(* Properties                                                              *)
(***************************************************************************)
\* No request, message or scan is served before the recovery has put the baskets of
\* the database into the pool, whatever starts first: it would match without them
\* (NewMatchingUsecase, App.Run).
RecoveredFirst == busy # {} => recovered

\* A process told to stop gets every Stop back, in whatever state each server is: none
\* waits for a Start, a loop or a scan that goes on.  Only consumers whose Start fails
\* then end the process before (App.Run, ConsumerManager.Start, ExpireWorker.Stop).
StopsReturn == phase = "stopping" ~> stopped = Servers \/ server["consumers"] = "failed"
==============================================================================
