------------------------------- MODULE Agent -------------------------------
(***************************************************************************)
(* cmd/agent/main.go: two collectors, a reporter that takes snapshots, and *)
(* the shutdown with its two contexts; with Collector (internal/agent).    *)
(* In HTTP mode the reporter queues a snapshot as jobs, which workers send *)
(* with the retries of Sender; in gRPC mode it sends it itself, as one     *)
(* batch.  Requests may be lost, handled late, or handled without the      *)
(* answer coming back, and a server with a database may answer 200 for a   *)
(* metric the database did not take (Handlers, UpdateFails).               *)
(*                                                                         *)
(* Time is left out but for its order: both timeouts are 30 s, drainCtx    *)
(* counts from the start of the process and the forced exit from the       *)
(* signal, so the second never comes before the first.                     *)
(***************************************************************************)
EXTENDS Integers, Sequences, FiniteSets

CONSTANTS PollCount,   \* the counter
          Runtime,     \* gauges of UpdateMetrics
          Memory, Cpu, \* gauges of UpdateGopsutilMetrics, of either lock
          Workers,     \* the worker pool, cfg.RateLimit of them
          Retries,     \* Len(retryDelays)
          NoJob,       \* what an idle worker holds
          Transports,  \* "http", "grpc" or both: whether cfg.GRPCAddress is given
          Database,    \* whether the server keeps its metrics in PostgreSQL
          MaxPolls,    \* bound on the polls of a collector
          MaxReports,  \* bound on the ticks of the reporter
          MaxLate      \* bound on the requests nobody waits for any more

Names == {PollCount} \cup Runtime \cup Memory \cup Cpu

(* A job is a metric of a snapshot: the number of the snapshot, the name.  *)
Jobs == (1..MaxReports + 1) \X Names

ASSUME AgentAssumption ==
    /\ Retries \in Nat /\ MaxPolls \in Nat /\ MaxReports \in Nat /\ MaxLate \in Nat
    /\ IsFiniteSet(Workers) /\ Workers # {}
    /\ NoJob \notin Jobs

ASSUME TransportsAssumption == Transports \subseteq {"http", "grpc"} /\ Database \in BOOLEAN

VARIABLES held,       \* the collector's maps: how often name n was set, 0 for absent
          runtime,    \* goroutine 1: "run" or "gone"
          gopsutil,   \* goroutine 2: "run", "between" its two locks, or "gone"
          snap,       \* history: what GetAllMetrics returned to the reporter
          reporter,   \* "waiting", "dispatching" or "flushing"; in gRPC mode
                      \* "ticking", "calling" or "lastCall"; "gone"
          batch,      \* jobs of the loop over the last snapshot still to be queued,
                      \* in gRPC mode those of the RPC under way
          jobs,       \* the channel
          at,         \* at[w]: where worker w is
          job,        \* job[w]: its metric m
          sendCtx,    \* sendCtx[w]: the context it chose for m
          attempt,    \* attempt[w]: number of the call of fn in retryOnConnErr
          wire,       \* requests <<job, attempt>> the server may still handle
          served,     \* requests whose metric the server has added to its storage
          lost,       \* history: jobs answered 200 of which its database has nothing
          fate,       \* history: fate[j], how job j ended
          ctxDone,    \* the signal has come
          drainDone,  \* drainCtx has expired
          overdue,    \* shutdownTimeout has passed since the signal
          main        \* run(): "running", "stopping", or how the process ended

collectorVars == <<held, runtime, gopsutil>>
reporterVars  == <<snap, reporter, batch>>
workerVars    == <<at, job, sendCtx, attempt>>
serverVars    == <<wire, served, lost>>
clockVars     == <<ctxDone, drainDone, overdue, main>>
agentVars     == <<collectorVars, reporterVars, jobs, workerVars, serverVars, fate, clockVars>>

Cap == 2 * Cardinality(Workers)

Ends  == {"graceful", "forced"}
Alive == main \notin Ends

(* How a job ends: answered 200; a status that is not 200; connection      *)
(* errors to the last attempt; a body that could not be made; a wait       *)
(* between attempts cut short by ctx or by drainCtx; never queued.         *)
Fates == {"sent", "refused", "exhausted", "unmade", "cancelled", "expired", "dropped"}

Init ==
    /\ held = [n \in Names |-> 0]
    /\ runtime = "run" /\ gopsutil = "run"
    /\ snap = <<>> /\ batch = {}
    /\ jobs = <<>>
    /\ \/ /\ "http" \in Transports
          /\ reporter = "waiting" /\ at = [w \in Workers |-> "idle"]
       \/ /\ "grpc" \in Transports      \* there are no workers
          /\ reporter = "ticking" /\ at = [w \in Workers |-> "gone"]
    /\ job = [w \in Workers |-> NoJob]
    /\ sendCtx = [w \in Workers |-> "ctx"]
    /\ attempt = [w \in Workers |-> 0]
    /\ wire = {} /\ served = {} /\ lost = {}
    /\ fate = [j \in Jobs |-> "none"]
    /\ ctxDone = FALSE /\ drainDone = FALSE /\ overdue = FALSE
    /\ main = "running"

-----------------------------------------------------------------------------
(* Collectors.  Each lock section sets its metrics in one step; a ticker   *)
(* may be served once more when ctx is done already.                       *)

Set(S) ==
    /\ \A n \in S : held[n] < MaxPolls
    /\ held' = [n \in Names |-> IF n \in S THEN held[n] + 1 ELSE held[n]]

UpdateMetrics ==
    /\ Alive /\ runtime = "run"
    /\ Set(Runtime \cup {PollCount})
    /\ UNCHANGED <<runtime, gopsutil, reporterVars, jobs, workerVars, serverVars, fate, clockVars>>

(* mem.VirtualMemory and cpu.Percent may fail and leave their gauges. *)
UpdateMemory ==
    /\ Alive /\ gopsutil = "run"
    /\ Set(Memory) \/ UNCHANGED held
    /\ gopsutil' = "between"
    /\ UNCHANGED <<runtime, reporterVars, jobs, workerVars, serverVars, fate, clockVars>>

UpdateCpu ==
    /\ Alive /\ gopsutil = "between"
    /\ Set(Cpu) \/ UNCHANGED held
    /\ gopsutil' = "run"
    /\ UNCHANGED <<runtime, reporterVars, jobs, workerVars, serverVars, fate, clockVars>>

RuntimeStops ==
    /\ Alive /\ ctxDone /\ runtime = "run"
    /\ runtime' = "gone"
    /\ UNCHANGED <<held, gopsutil, reporterVars, jobs, workerVars, serverVars, fate, clockVars>>

GopsutilStops ==
    /\ Alive /\ ctxDone /\ gopsutil = "run"
    /\ gopsutil' = "gone"
    /\ UNCHANGED <<held, runtime, reporterVars, jobs, workerVars, serverVars, fate, clockVars>>

-----------------------------------------------------------------------------
(* Reporter. *)

GetAllMetrics ==
    /\ snap' = Append(snap, held)
    /\ batch' = {Len(snap) + 1} \X {n \in Names : held[n] > 0}

(* The loop over what GetAllMetrics returned begins. *)
Collect ==
    /\ GetAllMetrics
    /\ UNCHANGED <<collectorVars, jobs, workerVars, serverVars, fate, clockVars>>

ReportTick ==
    /\ Alive /\ reporter = "waiting"
    /\ Len(snap) < MaxReports
    /\ \E n \in Names : held[n] > 0
    /\ reporter' = "dispatching"
    /\ Collect

ReportStop ==
    /\ Alive /\ reporter = "waiting"
    /\ ctxDone
    /\ reporter' = "flushing"
    /\ Collect

(* The maps are ranged over in any order. *)
Enqueue(j) ==
    /\ Alive /\ reporter \in {"dispatching", "flushing"} /\ j \in batch
    /\ Len(jobs) < Cap
    /\ jobs' = Append(jobs, j)
    /\ batch' = batch \ {j}
    /\ UNCHANGED <<collectorVars, snap, reporter, workerVars, serverVars, fate, clockVars>>

LoopEnds ==
    /\ Alive /\ batch = {}
    /\ \/ reporter = "dispatching" /\ reporter' = "waiting"
       \/ reporter = "flushing" /\ reporter' = "gone"
    /\ UNCHANGED <<collectorVars, snap, batch, jobs, workerVars, serverVars, fate, clockVars>>

DispatchUntilDrain ==           \* mutant: the dispatch watches drainCtx, as the flush does
    reporter \in {"dispatching", "flushing"} /\ drainDone

Interrupted ==
    \/ reporter = "dispatching" /\ ctxDone
    \/ reporter = "flushing" /\ drainDone

(* The select takes its Done branch, at random if the queue has room too:  *)
(* the rest of the snapshot is dropped and the queue closed.               *)
ReporterReturns ==
    /\ Alive /\ batch # {}
    /\ Interrupted
    /\ reporter' = "gone"
    /\ fate' = [j \in Jobs |-> IF j \in batch THEN "dropped" ELSE fate[j]]
    /\ batch' = {}
    /\ UNCHANGED <<collectorVars, snap, jobs, workerVars, serverVars, clockVars>>

-----------------------------------------------------------------------------
(* The reporter in gRPC mode.  Requests of an RPC have attempt number 0:   *)
(* there is no retry.                                                      *)

RPC(S) == S \X {0}
Calling == reporter \in {"calling", "lastCall"}

(* SendBatch of GetAllMetrics, which with a context that is done already   *)
(* sends nothing.                                                          *)
Call(cancelled) ==
    /\ GetAllMetrics
    /\ wire' = wire \cup IF cancelled THEN {} ELSE RPC(batch')
    /\ UNCHANGED <<collectorVars, jobs, workerVars, served, lost, fate, clockVars>>

BatchTick ==
    /\ Alive /\ reporter = "ticking"
    /\ Len(snap) < MaxReports
    /\ \E n \in Names : held[n] > 0
    /\ reporter' = "calling"
    /\ Call(ctxDone)

BatchStop ==
    /\ Alive /\ reporter = "ticking"
    /\ ctxDone
    /\ reporter' = "lastCall"
    /\ Call(FALSE)

CallEnds(f) ==
    /\ reporter' = IF reporter = "calling" THEN "ticking" ELSE "gone"
    /\ fate' = [j \in Jobs |-> IF j \in batch THEN f ELSE fate[j]]
    /\ batch' = {}
    /\ UNCHANGED <<collectorVars, snap, jobs, workerVars, served, lost, clockVars>>

BatchSent ==
    /\ Alive /\ Calling
    /\ RPC(batch) \subseteq served
    /\ CallEnds("sent") /\ UNCHANGED wire

BatchRefused ==
    /\ Alive /\ Calling
    /\ batch # {} /\ RPC(batch) \subseteq wire
    /\ CallEnds("refused") /\ wire' = wire \ RPC(batch)

(* The request is lost, or handled late; or only the answer is. *)
LostOrLate == wire' \in {wire, wire \ RPC(batch)}

(* A connection error, which nothing retries. *)
BatchFails ==
    /\ Alive /\ Calling /\ batch # {}
    /\ CallEnds("exhausted") /\ LostOrLate

(* ctx is done, or flushCtx, whose 30 s begin with the last call and are   *)
(* over with those of shutdownTimeout.                                     *)
BatchCancelled ==
    /\ Alive /\ batch # {}
    /\ \/ reporter = "calling" /\ ctxDone /\ CallEnds("cancelled")
       \/ reporter = "lastCall" /\ overdue /\ CallEnds("expired")
    /\ LostOrLate

-----------------------------------------------------------------------------
(* Workers. *)

(* for m := range jobs, the choice of a context for the whole send, and    *)
(* the first post.  No context reaches post: only the waits between        *)
(* attempts can be cut short.                                              *)
Take(w) ==
    /\ Alive /\ at[w] = "idle" /\ jobs # <<>>
    /\ at' = [at EXCEPT ![w] = "posted"]
    /\ job' = [job EXCEPT ![w] = Head(jobs)]
    /\ sendCtx' = [sendCtx EXCEPT ![w] = IF ctxDone THEN "drain" ELSE "ctx"]
    /\ attempt' = [attempt EXCEPT ![w] = 1]
    /\ jobs' = Tail(jobs)
    /\ wire' = wire \cup {<<Head(jobs), 1>>}
    /\ UNCHANGED <<collectorVars, reporterVars, served, lost, fate, clockVars>>

(* json.Marshal or, for the first post, Encrypt fails: SendMetric returns  *)
(* without a request, and its error is no connection error.  An address    *)
(* that makes no request is one (a *url.Error is a net.Error): Take and a  *)
(* request that is lost.                                                   *)
Unmade(w) ==
    /\ Alive /\ at[w] = "idle" /\ jobs # <<>>
    /\ jobs' = Tail(jobs)
    /\ fate' = [fate EXCEPT ![Head(jobs)] = "unmade"]
    /\ UNCHANGED <<collectorVars, reporterVars, workerVars, serverVars, clockVars>>

(* Requests no worker waits for any more. *)
Late == wire \ {<<job[w], attempt[w]>> : w \in {v \in Workers : at[v] = "posted"}}

(* SendMetric returns, its error is logged, and the loop goes on. *)
Return(w, f) ==
    /\ at' = [at EXCEPT ![w] = "idle"]
    /\ job' = [job EXCEPT ![w] = NoJob]
    /\ sendCtx' = [sendCtx EXCEPT ![w] = "ctx"]
    /\ attempt' = [attempt EXCEPT ![w] = 0]
    /\ fate' = [fate EXCEPT ![job[w]] = f]
    /\ UNCHANGED <<collectorVars, reporterVars, served, clockVars>>

Answered(w) ==
    /\ Alive /\ at[w] = "answered"
    /\ Return(w, "sent")
    /\ lost' = IF <<job[w], attempt[w]>> \in served THEN lost ELSE lost \cup {job[w]}
    /\ UNCHANGED <<jobs, wire>>

(* A status other than 200 is no connection error and is not retried. *)
Refused(w) ==
    /\ Alive /\ at[w] = "posted"
    /\ <<job[w], attempt[w]>> \in wire
    /\ wire' = wire \ {<<job[w], attempt[w]>>}
    /\ Return(w, "refused")
    /\ UNCHANGED <<jobs, lost>>

(* client.Do fails: no connection, the 10 s are over, or the answer is     *)
(* lost.  The request may be lost, or handled later; or it was handled.    *)
NoAnswer(w) ==
    /\ Alive /\ at[w] \in {"posted", "answered"}
    /\ \/ wire' = wire \ {<<job[w], attempt[w]>>}
       \/ wire' = wire /\ Cardinality(Late) < MaxLate

HasDelay(w) == attempt[w] <= Retries

RequeuedLast(w) ==             \* mutant: what failed goes to the end of the queue
    /\ NoAnswer(w)
    /\ HasDelay(w)
    /\ at' = [at EXCEPT ![w] = "idle"]
    /\ job' = [job EXCEPT ![w] = NoJob]
    /\ attempt' = [attempt EXCEPT ![w] = 0]
    /\ jobs' = Append(jobs, job[w])
    /\ UNCHANGED <<collectorVars, reporterVars, sendCtx, served, lost, fate, clockVars>>

ConnError(w) ==
    /\ NoAnswer(w)
    /\ HasDelay(w)
    /\ at' = [at EXCEPT ![w] = "between"]
    /\ UNCHANGED <<collectorVars, reporterVars, jobs, job, sendCtx, attempt, served, lost, fate, clockVars>>

WorkerQuits(w) ==               \* mutant: return, not log, on an error of SendMetric
    /\ NoAnswer(w)
    /\ ~HasDelay(w)
    /\ at' = [at EXCEPT ![w] = "gone"]
    /\ job' = [job EXCEPT ![w] = NoJob]
    /\ fate' = [fate EXCEPT ![job[w]] = "exhausted"]
    /\ UNCHANGED <<collectorVars, reporterVars, jobs, sendCtx, attempt, served, lost, clockVars>>

ErrorShadowed(w) ==             \* mutant: err := fn() in the loop of retryOnConnErr
    /\ NoAnswer(w)
    /\ ~HasDelay(w)
    /\ Return(w, "sent")
    /\ UNCHANGED <<jobs, lost>>

Exhausted(w) ==
    /\ NoAnswer(w)
    /\ ~HasDelay(w)
    /\ Return(w, "exhausted")
    /\ UNCHANGED <<jobs, lost>>

(* time.After(delay), which may win against a context that is done as     *)
(* well, and the next post.                                                *)
Retry(w) ==
    /\ Alive /\ at[w] = "between"
    /\ at' = [at EXCEPT ![w] = "posted"]
    /\ attempt' = [attempt EXCEPT ![w] = @ + 1]
    /\ wire' = wire \cup {<<job[w], attempt[w] + 1>>}
    /\ UNCHANGED <<collectorVars, reporterVars, jobs, job, sendCtx, served, lost, fate, clockVars>>

(* Encrypt fails for a further post. *)
EncryptFails(w) ==
    /\ Alive /\ at[w] = "between"
    /\ Return(w, "unmade")
    /\ UNCHANGED <<jobs, wire, lost>>

GiveUp(w) ==
    \/ sendCtx[w] = "ctx" /\ ctxDone /\ Return(w, "cancelled")
    \/ sendCtx[w] = "drain" /\ drainDone /\ Return(w, "expired")

PutBack(w) ==                   \* mutant: a metric given up goes back to the queue
    /\ Alive /\ at[w] = "between"
    /\ GiveUp(w)
    /\ jobs' = Append(jobs, job[w])
    /\ UNCHANGED <<wire, lost>>

Abandon(w) ==
    /\ Alive /\ at[w] = "between"
    /\ GiveUp(w)
    /\ UNCHANGED <<jobs, wire, lost>>

NeverClosed == FALSE            \* mutant: the reporter returns without close(jobs)
Closed == reporter = "gone"

RangeEnds(w) ==
    /\ Alive /\ at[w] = "idle" /\ jobs = <<>>
    /\ Closed
    /\ at' = [at EXCEPT ![w] = "gone"]
    /\ UNCHANGED <<collectorVars, reporterVars, jobs, job, sendCtx, attempt, serverVars, fate, clockVars>>

-----------------------------------------------------------------------------
(* The server handles a request, be it late or sent by an agent that is    *)
(* gone; if its worker still waits, the answer is on its way.  UpdateGauge *)
(* and UpdateCounter of a database only log its errors, and the handler    *)
(* answers 200 all the same.                                               *)
Serve(r) ==
    /\ r \in wire \ RPC(Jobs)
    /\ wire' = wire \ {r}
    /\ \/ served' = served \cup {r}
       \/ Database /\ UNCHANGED served
    /\ at' = [w \in Workers |->
                IF at[w] = "posted" /\ <<job[w], attempt[w]>> = r THEN "answered" ELSE at[w]]
    /\ UNCHANGED <<collectorVars, reporterVars, jobs, job, sendCtx, attempt, lost, fate, clockVars>>

(* UpdateMetrics takes the whole batch, or answers with the error that     *)
(* BatchUpdate returns (BatchRefused).                                     *)
ServeBatch(s) ==
    /\ wire \cap RPC({s} \X Names) # {}
    /\ wire' = wire \ RPC({s} \X Names)
    /\ served' = served \cup (wire \cap RPC({s} \X Names))
    /\ UNCHANGED <<collectorVars, reporterVars, jobs, workerVars, lost, fate, clockVars>>

-----------------------------------------------------------------------------
(* run() and the clock. *)

OthersSame == UNCHANGED <<collectorVars, reporterVars, jobs, workerVars, serverVars, fate>>

Signal ==
    /\ main = "running"
    /\ ctxDone' = TRUE
    /\ main' = "stopping"
    /\ UNCHANGED <<drainDone, overdue>> /\ OthersSame

DrainExpires ==
    /\ Alive /\ ~drainDone
    /\ drainDone' = TRUE
    /\ UNCHANGED <<ctxDone, overdue, main>> /\ OthersSame

ShutdownTimeout ==
    /\ main = "stopping" /\ drainDone /\ ~overdue
    /\ overdue' = TRUE
    /\ UNCHANGED <<ctxDone, drainDone, main>> /\ OthersSame

WorkersNotAwaited ==            \* mutant: workers without wg.Add
    runtime = "gone" /\ gopsutil = "gone" /\ reporter = "gone"
AllGone ==
    /\ runtime = "gone" /\ gopsutil = "gone" /\ reporter = "gone"
    /\ \A w \in Workers : at[w] = "gone"

StopGracefully ==
    /\ main = "stopping" /\ AllGone
    /\ main' = "graceful"
    /\ UNCHANGED <<ctxDone, drainDone, overdue>> /\ OthersSame

ForceExit ==
    /\ main = "stopping" /\ overdue
    /\ main' = "forced"
    /\ UNCHANGED <<ctxDone, drainDone, overdue>> /\ OthersSame

-----------------------------------------------------------------------------
Collectors == UpdateMetrics \/ UpdateMemory \/ UpdateCpu \/ RuntimeStops \/ GopsutilStops

Reporter == ReportTick \/ ReportStop \/ (\E j \in batch : Enqueue(j)) \/ LoopEnds \/ ReporterReturns

BatchReporter ==
    BatchTick \/ BatchStop \/ BatchSent \/ BatchRefused \/ BatchFails \/ BatchCancelled

Worker(w) ==
    \/ Take(w) \/ Unmade(w) \/ Answered(w) \/ Refused(w) \/ ConnError(w)
    \/ Exhausted(w) \/ Retry(w) \/ EncryptFails(w) \/ Abandon(w) \/ RangeEnds(w)

Clock == Signal \/ DrainExpires \/ ShutdownTimeout \/ StopGracefully \/ ForceExit

Next ==
    \/ Collectors \/ Reporter \/ BatchReporter \/ Clock
    \/ \E w \in Workers : Worker(w)
    \/ \E r \in wire : Serve(r) \/ ServeBatch(r[1][1])

(* Goroutines that can run do: client.Do returns after 10 s at the latest, *)
(* a delay comes to its end, and a select that meets its Done branch again *)
(* and again takes it one day, for it chooses at random.  An RPC ends when *)
(* its context does: flushCtx after 30 s, ctx with the signal.  Nothing    *)
(* makes signals, answers or the forced exit happen.                       *)
FlushTimes == reporter = "lastCall" /\ (DrainExpires \/ ShutdownTimeout)

Fairness ==
    /\ WF_agentVars(RuntimeStops)
    /\ WF_agentVars(UpdateCpu) /\ SF_agentVars(GopsutilStops)
    /\ WF_agentVars(Reporter)
    /\ WF_agentVars(BatchStop \/ BatchSent \/ BatchCancelled) /\ WF_agentVars(FlushTimes)
    /\ \A w \in Workers : WF_agentVars(Worker(w))
    /\ WF_agentVars(StopGracefully)

Spec == Init /\ [][Next]_agentVars /\ Fairness

-----------------------------------------------------------------------------
Requests == Jobs \X (0..Retries + 1)

TypeOK ==
    /\ held \in [Names -> 0..MaxPolls]
    /\ runtime \in {"run", "gone"} /\ gopsutil \in {"run", "between", "gone"}
    /\ snap \in Seq([Names -> 0..MaxPolls]) /\ Len(snap) <= MaxReports + 1
    /\ reporter \in {"waiting", "dispatching", "flushing", "ticking", "calling", "lastCall", "gone"}
    /\ batch \in SUBSET Jobs
    /\ jobs \in Seq(Jobs) /\ Len(jobs) <= Cap
    /\ at \in [Workers -> {"idle", "posted", "answered", "between", "gone"}]
    /\ job \in [Workers -> Jobs \cup {NoJob}]
    /\ sendCtx \in [Workers -> {"ctx", "drain"}]
    /\ attempt \in [Workers -> 0..Retries + 1]
    /\ wire \in SUBSET Requests /\ served \in SUBSET Requests /\ lost \in SUBSET Jobs
    /\ fate \in [Jobs -> Fates \cup {"none"}]
    /\ ctxDone \in BOOLEAN /\ drainDone \in BOOLEAN /\ overdue \in BOOLEAN
    /\ main \in {"running", "stopping"} \cup Ends

Taken    == {j \in Jobs : j[1] \in 1..Len(snap) /\ snap[j[1]][j[2]] > 0}
Queued   == {jobs[i] : i \in 1..Len(jobs)}
InHand   == {job[w] : w \in Workers} \ {NoJob}
Settled  == {j \in Jobs : fate[j] # "none"}

(* A metric the reporter took from the collector is in one place only, the *)
(* loop, the queue, a worker, or settled, and none is lost or made up on   *)
(* the way, whatever the signal interrupts (main.go:167-227).              *)
JobsConserved ==
    /\ Taken = batch \cup Queued \cup InHand \cup Settled
    /\ batch \cap (Queued \cup InHand \cup Settled) = {}
    /\ Queued \cap (InHand \cup Settled) = {}
    /\ InHand \cap Settled = {}
    /\ \A i, k \in 1..Len(jobs) : jobs[i] = jobs[k] => i = k
    /\ \A v, w \in Workers : job[v] = job[w] /\ job[v] # NoJob => v = w

(* A nil error of SendMetric, or of the batch's RPC, means that the server *)
(* has the metric, however many attempts it took (util.go:21-35,           *)
(* sender.go:126-159); or that the server answered 200 to a post of which  *)
(* its database has nothing (postgresql.go:80-104).                        *)
SentIsServed ==
    \A j \in Jobs : fate[j] = "sent" =>
      (\E r \in served : r[1] = j) \/ (Database /\ j \in lost)

(* A metric is added again only for a further attempt to send it: nothing  *)
(* the server has added is on the way once more, or still in the loop or   *)
(* the queue, and while a worker sends there are at most as many requests  *)
(* of its metric as it has made attempts (main.go:167-227, util.go:21-35). *)
CountedByAttempt ==
    /\ \A r \in served : r \notin wire /\ r[1] \in Taken \ Queued
    /\ reporter \in {"dispatching", "flushing"} => \A r \in served : r[1] \notin batch
    /\ \A w \in Workers, r \in served : job[w] = r[1] => r[2] \in 0..attempt[w]

(* What an older report has left is sent first: while a metric is still in *)
(* the loop or the queue, nothing of a later snapshot has been taken by a  *)
(* worker or posted.  So a gauge is overtaken by a later value of itself   *)
(* only among the metrics that several workers have in hand together, or   *)
(* when its request is handled late (main.go:202-203, 213-217).            *)
OldestFirst ==
    LET Posted == {r[1] : r \in wire \cup served} IN
    /\ \A j \in batch \cup Queued : \A k \in InHand \cup Posted : k[1] <= j[1]
    /\ Cardinality(Workers) = 1 => \A j \in InHand : \A k \in Posted : k[1] <= j[1]

(* Until the signal nothing is given up but what cannot be made, what the  *)
(* server refuses and what it cannot be reached for; in particular the end *)
(* of drainCtx, 30 s after every start, costs nothing (main.go:87,         *)
(* 184-204, 217-220).                                                      *)
NoLossBeforeSignal ==
    ~ctxDone => \A j \in Jobs : fate[j] \in {"none", "sent", "refused", "exhausted", "unmade"}

(* "Agent stopped gracefully" is logged only when every metric ever taken  *)
(* from the collector has been sent or given up (main.go:236-246).         *)
GracefulIsComplete == main = "graceful" => Taken = Settled

(* A signal ends the process without the forced exit: the queue is closed, *)
(* the workers empty it and nobody waits for ever on it (main.go:183-190,  *)
(* "prevents goroutine leak").                                             *)
SignalStops == ctxDone ~> ~Alive

(* Every metric the reporter takes is settled unless the exit is forced:   *)
(* neither the bounded queue nor failing sends stop the pool, nor does it  *)
(* leave metrics behind in the queue (main.go:184-227).  What is sent by   *)
(* RPC is settled by the signal at the latest (main.go:144-162).           *)
JobsSettle ==
    \A j \in Jobs :
      j \in Taken /\ (reporter = "calling" => ctxDone) ~> fate[j] # "none" \/ main = "forced"

(* "drainTimeout is how long workers keep delivering queued metrics after  *)
(* the shutdown signal is received" (main.go:30-31), "in-flight and queued *)
(* metrics" (85-86): no send is given up for a context before that time    *)
(* has passed since the signal.                                            *)
DrainDelivers == \A j \in Jobs : fate[j] \in {"cancelled", "expired"} => overdue
=============================================================================
