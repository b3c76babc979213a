-------------------------- MODULE LifecycleProofs ---------------------------
(***************************************************************************)
(* What an exit code of the three processes means, for any choice of       *)
(* processes and any number of browsers: an exit with code 0 was asked for *)
(* by a signal, and the process had served its clients when it ended.      *)
(***************************************************************************)
EXTENDS Lifecycle, TLAPS

\* The errors a group can report.  Only the indexer has a goroutine that
\* returns the context's error or ErrServerStopped, and the first error of a
\* group is one of these only when a signal came before it: everything that
\* returns them waits for a cancelled context, which without a signal means
\* that an error is there already.
Accounted ==
    \A s \in Services :
        /\ s # "indexer" => err[s] \in {"none", "failed"}
        /\ err[s] \in {"canceled", "stopped"} => signal[s] # "none"
        /\ Stopping(s) => Cancelled(s)
        /\ proc[s] = "exit0" => signal[s] # "none"

\* A closer that has returned without a timeout leaves no call or handler
\* open, and a server that stops accepts no other one.
Closed ==
    /\ gor["indexer"]["closer"] = "done" => rpc = {}
    /\ (gor["gateway"]["closer"] = "done" /\ err["gateway"] # "failed") => sse = {}

\* The inductive invariant.
LifecycleInv == TypeOK /\ Accounted /\ Closed

-----------------------------------------------------------------------------
\* Each process has a closer.
LEMMA CloserExists ==
    /\ \A s \in Services : "closer" \in Goroutines(s)
    /\ "indexer" \in Services /\ "gateway" \in Services
  BY DEF Services, Goroutines, IndexerGoroutines, GatewayGoroutines, NotifyGoroutines

\* Initially nothing runs.
LEMMA LifecycleInit == Init => LifecycleInv
<1> SUFFICES ASSUME Init
             PROVE  LifecycleInv
  OBVIOUS
<1>1. TypeOK
  BY DEF Init, TypeOK, AllNew
<1>2. Accounted
  BY CloserExists DEF Init, Accounted, AllNew, Stopping
<1>3. Closed
  BY CloserExists DEF Init, Closed
<1> QED
  BY <1>1, <1>2, <1>3 DEF LifecycleInv

\* A goroutine returns.  One that reports a cancellation belongs to an
\* indexer whose context is cancelled; the closer returns only when it has
\* begun, and with no error only when its server is drained.
LEMMA ReturnInv ==
    ASSUME LifecycleInv, NEW s \in Services, NEW g \in Goroutines(s),
           NEW e \in {"none", "canceled", "stopped", "failed"},
           Return(s, g, e),
           e \in {"canceled", "stopped"} => s = "indexer" /\ Cancelled(s),
           g = "closer" => /\ Stopping(s)
                           /\ s = "indexer" => rpc = {}
                           /\ s = "gateway" => sse = {} \/ e = "failed"
    PROVE  LifecycleInv'
<1>1. TypeOK'
  BY DEF LifecycleInv, TypeOK, Return, Becomes
<1>2. Accounted'
  BY CloserExists DEF LifecycleInv, TypeOK, Accounted, Return, Becomes,
                      Stopping, Cancelled
<1>3. Closed'
  BY CloserExists DEF LifecycleInv, TypeOK, Accounted, Closed, Return, Becomes, Cancelled
<1> QED
  BY <1>1, <1>2, <1>3 DEF LifecycleInv

\* A goroutine begins, or the closer does when the context is cancelled.
LEMMA BecomesUpInv ==
    ASSUME LifecycleInv, NEW s \in Services, NEW g \in Goroutines(s),
           Becomes(s, g, "up"), UNCHANGED <<proc, signal, err, sse, rpc>>,
           g = "closer" => Cancelled(s)
    PROVE  LifecycleInv'
<1>1. TypeOK'
  BY DEF LifecycleInv, TypeOK, Becomes
<1>2. Accounted'
  BY CloserExists DEF LifecycleInv, TypeOK, Accounted, Becomes, Stopping, Cancelled
<1>3. Closed'
  BY CloserExists DEF LifecycleInv, TypeOK, Closed, Becomes
<1> QED
  BY <1>1, <1>2, <1>3 DEF LifecycleInv

\* A process changes its phase and nothing else: it exits with code 0 in no
\* such step.
LEMMA PhaseInv ==
    ASSUME LifecycleInv, NEW s \in Services,
           NEW p \in {"starting", "migrated", "running", "exit1"},
           proc' = [proc EXCEPT ![s] = p],
           UNCHANGED <<signal, gor, err, sse, rpc>>
    PROVE  LifecycleInv'
<1>1. TypeOK'
  BY DEF LifecycleInv, TypeOK
<1>2. Accounted' /\ Closed'
  BY DEF LifecycleInv, TypeOK, Accounted, Closed, Stopping, Cancelled
<1> QED
  BY <1>1, <1>2 DEF LifecycleInv

-----------------------------------------------------------------------------
\* The steps in which a process starts.
LEMMA StartInv ==
    ASSUME LifecycleInv, NEW s \in Services,
           Start(s) \/ SetupFails(s) \/ Launch(s)
    PROVE  LifecycleInv'
<1>1. CASE Start(s)
  <2>1. TypeOK'
    BY <1>1 DEF LifecycleInv, TypeOK, Start, AllNew
  <2>2. Accounted'
    BY <1>1, CloserExists DEF LifecycleInv, TypeOK, Accounted, Start, AllNew,
                              Stopping, Cancelled
  <2>3. Closed'
    BY <1>1, CloserExists DEF LifecycleInv, TypeOK, Closed, Start, AllNew
  <2> QED
    BY <2>1, <2>2, <2>3 DEF LifecycleInv
<1>2. CASE SetupFails(s)
  BY <1>2, PhaseInv DEF SetupFails
<1>3. CASE Launch(s)
  BY <1>3, PhaseInv DEF Launch
<1> QED
  BY <1>1, <1>2, <1>3

\* The migration of the indexer.
LEMMA MigrateInv == ASSUME LifecycleInv, Migrate PROVE LifecycleInv'
  BY CloserExists, PhaseInv DEF Migrate

\* The steps of a goroutine other than the closer.
LEMMA GoroutineInv ==
    ASSUME LifecycleInv, NEW s \in Services, NEW g \in Goroutines(s),
           \/ Begin(s, g) \/ BeginFails(s, g) \/ ServeReturns(s, g)
           \/ RunReturns(s, g) \/ RunShutDown(s, g)
    PROVE  LifecycleInv'
<1>1. CASE Begin(s, g)
  <2>1. g = "grpc" => s = "indexer"
    BY DEF Services, Goroutines, GatewayGoroutines, NotifyGoroutines
  <2>2. Stopping(s) => Cancelled(s)
    BY DEF LifecycleInv, Accounted
  <2>3. CASE g \in {"grpc", "http"} /\ Stopping(s)
    BY <1>1, <2>1, <2>2, <2>3, ReturnInv DEF Begin, Refused
  <2>4. CASE ~ (g \in {"grpc", "http"} /\ Stopping(s))
    BY <1>1, <2>4, BecomesUpInv DEF Begin
  <2> QED
    BY <2>3, <2>4
<1>2. CASE BeginFails(s, g)
  <2>1. g = "worker" => s = "indexer"
    BY DEF Services, Goroutines, GatewayGoroutines, NotifyGoroutines
  <2> QED
    BY <1>2, <2>1, ReturnInv DEF BeginFails
<1>3. CASE ServeReturns(s, g) \/ RunReturns(s, g) \/ RunShutDown(s, g)
  <2>1. g # "closer" /\ Return(s, g, "none")
    BY <1>3 DEF ServeReturns, RunReturns, RunShutDown, Listeners
  <2> QED
    BY <2>1, ReturnInv
<1> QED
  BY <1>1, <1>2, <1>3

\* The worker returns the error of the cancelled context.
LEMMA WorkerReturnsInv ==
    ASSUME LifecycleInv, NEW s \in Services, WorkerReturns(s)
    PROVE  LifecycleInv'
<1>1. s = "indexer"
  BY DEF WorkerReturns, Services, Goroutines, GatewayGoroutines, NotifyGoroutines
<1> QED
  BY <1>1, ReturnInv DEF WorkerReturns

\* The closer begins, and ends: drained, or with the gateway's timeout.
LEMMA CloserInv ==
    ASSUME LifecycleInv, NEW s \in Services,
           \/ CloserStart(s) \/ CloserDone(s) \/ ShutdownTimeout
    PROVE  LifecycleInv'
<1>1. CASE CloserStart(s)
  BY <1>1, CloserExists, BecomesUpInv DEF CloserStart
<1>2. CASE CloserDone(s)
  <2>1. /\ s = "indexer" => rpc = {}
        /\ s = "gateway" => sse = {}
    BY <1>2 DEF CloserDone, Drained
  <2> QED
    BY <1>2, <2>1, CloserExists, ReturnInv DEF CloserDone, Stopping
<1>3. CASE ShutdownTimeout
  BY <1>3, CloserExists, ReturnInv DEF ShutdownTimeout, Stopping
<1> QED
  BY <1>1, <1>2, <1>3

\* A process ends: with code 0 only when the first error of its group is
\* benign, and then a signal has come.
LEMMA ExitInv ==
    ASSUME LifecycleInv, NEW s \in Services, Exit(s) \/ Kill(s)
    PROVE  LifecycleInv'
<1>1. \/ proc' = [proc EXCEPT ![s] = "exit1"]
      \/ proc' = [proc EXCEPT ![s] = "exit0"] /\ signal[s] # "none"
  <2>1. CASE Exit(s)
    <3>1. Stopping(s)
      BY <2>1, CloserExists DEF Exit, Waited, Stopping
    <3>2. err[s] \in Benign(s) => err[s] \in {"none", "canceled", "stopped"}
      BY DEF Benign
    <3>3. err[s] \in Benign(s) => signal[s] # "none"
      BY <3>1, <3>2 DEF LifecycleInv, Accounted, Cancelled
    <3> QED
      BY <2>1, <3>3 DEF Exit
  <2>2. CASE Kill(s)
    BY <2>2 DEF Kill
  <2> QED
    BY <2>1, <2>2
<1>2. UNCHANGED <<signal, gor, err>> /\ sse' \in {sse, {}} /\ rpc' \in {rpc, {}}
  BY DEF Exit, Kill, EndsWith
<1>3. TypeOK'
  BY <1>1, <1>2 DEF LifecycleInv, TypeOK
<1>4. Accounted' /\ Closed'
  BY <1>1, <1>2 DEF LifecycleInv, TypeOK, Accounted, Closed, Stopping, Cancelled
<1> QED
  BY <1>3, <1>4 DEF LifecycleInv

\* A browser comes only while neither server is stopping.
LEMMA BrowserInv ==
    ASSUME LifecycleInv, NEW b \in Browsers,
           OpenStream(b) \/ LeaveStream(b) \/ CallReturns(b)
    PROVE  LifecycleInv'
<1>1. UNCHANGED <<proc, signal, gor, err>>
  BY DEF OpenStream, LeaveStream, CallReturns
<1>2. TypeOK' /\ Accounted'
  BY <1>1 DEF LifecycleInv, TypeOK, Accounted, Stopping, Cancelled,
              OpenStream, LeaveStream, CallReturns
<1>3. Closed'
  BY <1>1 DEF LifecycleInv, Closed, Stopping, Accepts,
              OpenStream, LeaveStream, CallReturns
<1> QED
  BY <1>2, <1>3 DEF LifecycleInv

\* A signal reaches a process that is alive.
LEMMA SignalInv ==
    ASSUME LifecycleInv, NEW s \in Services, Signal(s)
    PROVE  LifecycleInv'
<1>1. TypeOK'
  BY DEF LifecycleInv, TypeOK, Signal
<1>2. Accounted' /\ Closed'
  BY DEF LifecycleInv, TypeOK, Accounted, Closed, Stopping, Cancelled, Signal
<1> QED
  BY <1>1, <1>2 DEF LifecycleInv

\* Every step preserves the invariant.
LEMMA LifecycleStep == LifecycleInv /\ [Next]_vars => LifecycleInv'
<1> SUFFICES ASSUME LifecycleInv, [Next]_vars
             PROVE  LifecycleInv'
  OBVIOUS
<1>1. ASSUME NEW s \in Services, Start(s) \/ SetupFails(s) \/ Launch(s)
      PROVE  LifecycleInv'
  BY <1>1, StartInv
<1>2. ASSUME NEW s \in Services, CloserStart(s) \/ CloserDone(s) \/ ShutdownTimeout
      PROVE  LifecycleInv'
  BY <1>2, CloserInv
<1>3. ASSUME NEW s \in Services, WorkerReturns(s)
      PROVE  LifecycleInv'
  BY <1>3, WorkerReturnsInv
<1>4. ASSUME NEW s \in Services, Exit(s) \/ Kill(s)
      PROVE  LifecycleInv'
  BY <1>4, ExitInv
<1>5. ASSUME NEW s \in Services, Signal(s)
      PROVE  LifecycleInv'
  BY <1>5, SignalInv
<1>6. ASSUME NEW s \in Services, NEW g \in Goroutines(s),
             \/ Begin(s, g) \/ BeginFails(s, g) \/ ServeReturns(s, g)
             \/ RunReturns(s, g) \/ RunShutDown(s, g)
      PROVE  LifecycleInv'
  BY <1>6, GoroutineInv
<1>7. ASSUME NEW b \in Browsers, OpenStream(b) \/ LeaveStream(b) \/ CallReturns(b)
      PROVE  LifecycleInv'
  BY <1>7, BrowserInv
<1>8. CASE Migrate
  BY <1>8, MigrateInv
<1>9. CASE UNCHANGED vars
  BY <1>9 DEF vars, LifecycleInv, TypeOK, Accounted, Closed, Stopping, Cancelled
<1> QED
  BY <1>1, <1>2, <1>3, <1>4, <1>5, <1>6, <1>7, <1>8, <1>9, CloserExists DEF Next

\* The invariant holds in every reachable state.
LEMMA LifecycleInvariant == Spec => []LifecycleInv
  BY LifecycleInit, LifecycleStep, PTL DEF Spec

-----------------------------------------------------------------------------
\* The variables have their types, whichever processes run and however many
\* browsers come.
THEOREM LifecycleTypeCorrect == Spec => []TypeOK
<1>1. LifecycleInv => TypeOK
  BY DEF LifecycleInv
<1> QED
  BY LifecycleInvariant, <1>1, PTL

\* A process that exits with code 0 was signalled: a failure of a goroutine is
\* never hidden behind the context.Canceled or ErrServerStopped that the
\* other goroutines of its group return because of it.
THEOREM NoFailureHidden == Spec => []ZeroMeansSignalled
<1>1. LifecycleInv => ZeroMeansSignalled
  BY DEF LifecycleInv, Accounted, ZeroMeansSignalled
<1> QED
  BY LifecycleInvariant, <1>1, PTL

\* A process that exits with code 0 has no call or handler left open, however
\* many browsers it served and in whatever order they came and went.
THEOREM ExitsDrained == Spec => DrainedAtExit
<1> DEFINE OK == \A s \in Services :
                    (proc[s] = "running" /\ proc'[s] = "exit0") => Drained(s)
<1>1. LifecycleInv /\ [Next]_vars => [OK]_vars
  <2> SUFFICES ASSUME LifecycleInv, Next, NEW s \in Services,
                      proc[s] = "running", proc'[s] = "exit0"
               PROVE  Drained(s)
    OBVIOUS
  <2>1. Exit(s)
    BY DEF Next, LifecycleInv, TypeOK, Start, Migrate, SetupFails, Launch, Exit, Kill,
           Signal, Begin, BeginFails, ServeReturns, RunReturns, RunShutDown,
           WorkerReturns, CloserStart, CloserDone, ShutdownTimeout, Return,
           OpenStream, LeaveStream, CallReturns
  <2>2. gor[s]["closer"] = "done" /\ err[s] \in Benign(s)
    BY <2>1, CloserExists DEF Exit, Waited, LifecycleInv, TypeOK
  <2> QED
    BY <2>2 DEF LifecycleInv, Closed, Drained, Benign, Services
<1> QED
  BY LifecycleInvariant, <1>1, PTL DEF Spec, DrainedAtExit
=============================================================================
