------------------------------ MODULE Lifecycle -----------------------------
(***************************************************************************)
(* How the three processes start, fail and stop: main and runConcurrently  *)
(* of the indexer, the gateway and notify.  Each is an errgroup of         *)
(* goroutines, one of which waits for the cancelled context and then stops *)
(* the servers.  The processes depend on one another through the event     *)
(* streams: a browser's stream is a handler in the gateway and a call that *)
(* is open at the indexer, whose GracefulStop waits for it.                *)
(***************************************************************************)
EXTENDS FiniteSets

CONSTANTS
    Followed,   \* sets of processes, one of which is followed
    Browsers    \* clients of the gateway's event stream

Services == {"indexer", "gateway", "notify"}

ASSUME LifecycleAssumption == Followed \subseteq SUBSET Services

VARIABLES
    proc,     \* per process, its phase
    signal,   \* per process, who heard of a SIGINT or SIGTERM
    gor,      \* per process, the states of its goroutines
    err,      \* per process, the first error a goroutine returned
    sse,      \* browsers whose stream handler runs in the gateway
    rpc       \* browsers whose streaming call is open at the indexer

vars == <<proc, signal, gor, err, sse, rpc>>

\* What each runConcurrently starts.
IndexerGoroutines == {"worker", "grpc", "asynq", "scheduler", "closer"}
GatewayGoroutines == {"http", "closer"}
NotifyGoroutines == {"asynq", "http", "closer"}

Goroutines(s) ==
    CASE s = "indexer" -> IndexerGoroutines
      [] s = "gateway" -> GatewayGoroutines
      [] s = "notify" -> NotifyGoroutines

\* Goroutines whose library call listens for signals itself.
Listeners(s) == Goroutines(s) \cap {"asynq", "scheduler"}

AllNew(s) == [g \in Goroutines(s) |-> "new"]

\* The variables without which each Load fails; CHAIN_ID also has to parse.
IndexerEnv == {"DATABASE_URL", "ETH_RPC_URL", "CONTRACT_ADDRESS", "CHAIN_ID",
               "REDIS_ADDR"}
GatewayEnv == {"INDEXER_GRPC_ADDR"}
NotifyEnv == {"REDIS_ADDR", "WEBHOOK_URL", "WEBHOOK_SECRET"}

Required(s) ==
    CASE s = "indexer" -> IndexerEnv
      [] s = "gateway" -> GatewayEnv
      [] s = "notify" -> NotifyEnv

Load(s, env) == Required(s) \subseteq env

Init ==
    /\ \E S \in Followed :
        proc = [s \in Services |-> IF s \in S THEN "down" ELSE "absent"]
    /\ signal = [s \in Services |-> "none"]
    /\ gor = [s \in Services |-> AllNew(s)]
    /\ err = [s \in Services |-> "none"]
    /\ sse = {} /\ rpc = {}

Running(s) == proc[s] = "running"

Alive(s) == proc[s] \in {"starting", "migrated", "running"}

Exited(s) == proc[s] \in {"down", "exit0", "exit1"}

\* gCtx: cancelled by a signal or by the first error.
Cancelled(s) == signal[s] # "none" \/ err[s] # "none"

-----------------------------------------------------------------------------
\* Start.

\* main: the configuration, or the end of the process.
Start(s) ==
    /\ Exited(s)
    /\ \E env \in {Required(s)} \cup {Required(s) \ {v} : v \in Required(s)} :
        proc' = [proc EXCEPT ![s] = IF Load(s, env) THEN "starting" ELSE "exit1"]
    /\ signal' = [signal EXCEPT ![s] = "none"]
    /\ gor' = [gor EXCEPT ![s] = AllNew(s)]
    /\ err' = [err EXCEPT ![s] = "none"]
    /\ UNCHANGED <<sse, rpc>>

\* The indexer brings the schema up to date, or fails to: no connection, an
\* error in a migration, or a signal that cancels its context.
Migrate ==
    /\ proc["indexer"] = "starting"
    /\ \E phase \in {"migrated", "exit1"} :
        proc' = [proc EXCEPT !["indexer"] = phase]
    /\ UNCHANGED <<signal, gor, err, sse, rpc>>

\* The phase in which a process makes its clients.
Ready(s) == proc[s] = IF s = "indexer" THEN "migrated" ELSE "starting"

\* The client of the chain or of the indexer cannot be made.
SetupFails(s) ==
    /\ s # "notify" /\ Ready(s)
    /\ proc' = [proc EXCEPT ![s] = "exit1"]
    /\ UNCHANGED <<signal, gor, err, sse, rpc>>

\* runConcurrently launches the goroutines.
Launch(s) ==
    /\ Ready(s)
    /\ proc' = [proc EXCEPT ![s] = "running"]
    /\ UNCHANGED <<signal, gor, err, sse, rpc>>

-----------------------------------------------------------------------------
\* The goroutines.

Becomes(s, g, state) == gor' = [gor EXCEPT ![s][g] = state]

\* A goroutine returns; errgroup keeps the first error.
Return(s, g, e) ==
    /\ Becomes(s, g, "done")
    /\ err' = [err EXCEPT ![s] = IF @ = "none" THEN e ELSE @]
    /\ UNCHANGED <<proc, signal, sse, rpc>>

Stopping(s) == gor[s]["closer"] # "new"

\* Mutant: http.ErrServerClosed is not filtered out.
RefusedUnfiltered(g) == IF g = "grpc" THEN "stopped" ELSE "closed"

\* A server that was stopped before it began refuses to serve.
Refused(g) == IF g = "grpc" THEN "stopped" ELSE "none"

\* Listen and Serve, ListenAndServe, Run, or the worker's initNext.
Begin(s, g) ==
    /\ Running(s) /\ g # "closer" /\ gor[s][g] = "new"
    /\ IF g \in {"grpc", "http"} /\ Stopping(s)
         THEN Return(s, g, Refused(g))
         ELSE Becomes(s, g, "up") /\ UNCHANGED <<proc, signal, err, sse, rpc>>

\* ... fails: the address is in use, the database or Redis is away, or the
\* context of the worker's query was cancelled.
BeginFails(s, g) ==
    /\ Running(s) /\ g # "closer" /\ gor[s][g] = "new"
    /\ \/ Return(s, g, "failed")
       \/ g = "worker" /\ Cancelled(s) /\ Return(s, g, "canceled")

\* Mutant: the poll loop does not look at the context.
WorkerReturnsNever(s) == s \notin Services /\ UNCHANGED vars

\* Worker.Run returns ctx.Err().
WorkerReturns(s) ==
    /\ Running(s) /\ "worker" \in Goroutines(s) /\ gor[s]["worker"] = "up"
    /\ Cancelled(s)
    /\ Return(s, "worker", "canceled")

\* Serve and ListenAndServe return when the server is stopped.
ServeReturns(s, g) ==
    /\ Running(s) /\ g \in {"grpc", "http"} /\ gor[s][g] = "up"
    /\ Stopping(s)
    /\ Return(s, g, "none")

\* asynq's Run returns on its own signal handler.
RunReturns(s, g) ==
    /\ Running(s) /\ g \in Listeners(s) /\ gor[s][g] = "up"
    /\ signal[s] = "all"
    /\ Return(s, g, "none")

\* It may return after a Shutdown by the closer, which is not relied on.
RunShutDown(s, g) ==
    /\ Running(s) /\ g \in Listeners(s) /\ gor[s][g] = "up"
    /\ gor[s]["closer"] = "done"
    /\ Return(s, g, "none")

\* The closer sees the cancelled context and calls the first stop function.
CloserStart(s) ==
    /\ Running(s) /\ gor[s]["closer"] = "new" /\ Cancelled(s)
    /\ Becomes(s, "closer", "up")
    /\ UNCHANGED <<proc, signal, err, sse, rpc>>

\* What the stop function waits for: GracefulStop for the open calls, the
\* HTTP server's Shutdown for its handlers; asynq's Shutdown puts unfinished
\* tasks back.
Drained(s) ==
    CASE s = "indexer" -> rpc = {}
      [] s = "gateway" -> sse = {}
      [] s = "notify" -> TRUE

\* Mutant: Stop and Close in place of GracefulStop and Shutdown.
CloserDoneAtOnce(s) ==
    /\ Running(s) /\ gor[s]["closer"] = "up"
    /\ Return(s, "closer", "none")

CloserDone(s) ==
    /\ Running(s) /\ gor[s]["closer"] = "up"
    /\ Drained(s)
    /\ Return(s, "closer", "none")

\* Mutant: Shutdown without a timeout.
ShutdownTimeoutNever == FALSE /\ UNCHANGED vars

\* The gateway gives its handlers ten seconds.
ShutdownTimeout ==
    /\ Running("gateway") /\ gor["gateway"]["closer"] = "up"
    /\ sse # {}
    /\ Return("gateway", "closer", "failed")

\* Mutant: no error of the group is reported.
BenignAll(s) == {"none", "canceled", "stopped", "failed"}

\* The errors of the group after which main returns normally.
Benign(s) == {"none", "canceled"} \cup (IF s = "indexer" THEN {"stopped"} ELSE {})

\* g.Wait.
Waited(s) == \A g \in Goroutines(s) : gor[s][g] = "done"

\* The handlers and calls that end with a process.
EndsWith(s) ==
    /\ sse' = IF s = "gateway" THEN {} ELSE sse
    /\ rpc' = IF s = "indexer" THEN {} ELSE rpc

\* runConcurrently returns, and main with it.
Exit(s) ==
    /\ Running(s) /\ Waited(s)
    /\ proc' = [proc EXCEPT ![s] = IF err[s] \in Benign(s) THEN "exit0" ELSE "exit1"]
    /\ EndsWith(s)
    /\ UNCHANGED <<signal, gor, err>>

-----------------------------------------------------------------------------
\* The streams.

Accepts(s, g) == Running(s) /\ gor[s][g] = "up" /\ ~Stopping(s)

\* A browser opens the stream; without an indexer it gets an error at once.
OpenStream(b) ==
    /\ b \notin sse \cup rpc
    /\ Accepts("gateway", "http") /\ Accepts("indexer", "grpc")
    /\ sse' = sse \cup {b} /\ rpc' = rpc \cup {b}
    /\ UNCHANGED <<proc, signal, gor, err>>

\* The browser goes, or the handler finds its call broken.
LeaveStream(b) ==
    /\ b \in sse
    /\ sse' = sse \ {b}
    /\ UNCHANGED <<proc, signal, gor, err, rpc>>

HandlerReturns(b) == b \notin rpc /\ LeaveStream(b)

\* The indexer's call ends when its client has gone.
CallReturns(b) ==
    /\ b \in rpc \ sse
    /\ rpc' = rpc \ {b}
    /\ UNCHANGED <<proc, signal, gor, err, sse>>

-----------------------------------------------------------------------------
\* The environment.

\* SIGINT or SIGTERM.  A Run that has not begun does not hear it.
Signal(s) ==
    /\ Alive(s)
    /\ signal' = [signal EXCEPT ![s] =
         IF \A g \in Listeners(s) : gor[s][g] # "new" THEN "all"
         ELSE IF @ = "none" THEN "heard" ELSE @]
    /\ UNCHANGED <<proc, gor, err, sse, rpc>>

\* The process is killed.
Kill(s) ==
    /\ Alive(s)
    /\ proc' = [proc EXCEPT ![s] = "exit1"]
    /\ EndsWith(s)
    /\ UNCHANGED <<signal, gor, err>>

-----------------------------------------------------------------------------
Next ==
    \/ \E s \in Services :
        \/ Start(s) \/ SetupFails(s) \/ Launch(s) \/ WorkerReturns(s)
        \/ CloserStart(s) \/ CloserDone(s) \/ Exit(s) \/ Signal(s) \/ Kill(s)
        \/ \E g \in Goroutines(s) :
            Begin(s, g) \/ BeginFails(s, g) \/ ServeReturns(s, g)
                \/ RunReturns(s, g) \/ RunShutDown(s, g)
    \/ Migrate \/ ShutdownTimeout
    \/ \E b \in Browsers : OpenStream(b) \/ LeaveStream(b) \/ CallReturns(b)

\* What a process and the runtime do by themselves goes on.  Starts, signals,
\* failures and browsers are free.
Spec ==
    /\ Init /\ [][Next]_vars
    /\ \A s \in Services :
        /\ WF_vars(Launch(s)) /\ WF_vars(WorkerReturns(s))
        /\ WF_vars(CloserStart(s)) /\ WF_vars(CloserDone(s)) /\ WF_vars(Exit(s))
        /\ \A g \in Goroutines(s) :
            /\ WF_vars(Begin(s, g)) /\ WF_vars(ServeReturns(s, g))
            /\ WF_vars(RunReturns(s, g))
    /\ WF_vars(Migrate) /\ WF_vars(ShutdownTimeout)
    /\ \A b \in Browsers : WF_vars(HandlerReturns(b)) /\ WF_vars(CallReturns(b))

-----------------------------------------------------------------------------
\* Properties.

\* Types of the variables, in every reachable state.
TypeOK ==
    /\ proc \in [Services -> {"absent", "down", "starting", "migrated",
                             "running", "exit0", "exit1"}]
    /\ signal \in [Services -> {"none", "heard", "all"}]
    /\ DOMAIN gor = Services
    /\ \A s \in Services : gor[s] \in [Goroutines(s) -> {"new", "up", "done"}]
    /\ err \in [Services -> {"none", "canceled", "stopped", "failed"}]
    /\ sse \subseteq Browsers /\ rpc \subseteq Browsers

\* Exit code 0 means a stop that was asked for: no failure of a goroutine is
\* hidden behind the context.Canceled or ErrServerStopped that the others
\* return because of it.
ZeroMeansSignalled ==
    \A s \in Services : proc[s] = "exit0" => signal[s] # "none"

\* A process that ends with code 0 has served its clients to the end: when
\* main returns, and closes the pool and the connections on its way, no call
\* or handler is open, whatever arrived between the signal and the exit.
DrainedAtExit ==
    [][\A s \in Services :
        (proc[s] = "running" /\ proc'[s] = "exit0") => Drained(s)]_vars

\* The gateway and notify end after a signal whatever the browsers do, and
\* an indexer in GracefulStop when the gateway is signalled too: the timeout
\* of the one releases the streams the other waits for.
AllHeard(S) == \A s \in S : signal[s] = "all" /\ ~Exited(s)

StopsTogether ==
    /\ \A s \in Services \ {"indexer"} : AllHeard({s}) ~> Exited(s)
    /\ (AllHeard({"indexer", "gateway"}) /\ Stopping("indexer")) ~> Exited("indexer")

\* A signalled indexer ends if the streams that are open end at some time.
StopsWhenIdle ==
    []<>(rpc = {}) => (AllHeard({"indexer"}) ~> Exited("indexer"))

\* main.go: the indexer "shuts down gracefully on SIGINT/SIGTERM".
Shutdown == AllHeard({"indexer"}) ~> Exited("indexer")
=============================================================================
