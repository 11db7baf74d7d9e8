---------------------------- MODULE AgentProofs ----------------------------
(***************************************************************************)
(* For any metrics, number of workers and number of retries: the agent     *)
(* keeps its types, loses no job between the collector and its end, posts  *)
(* none twice but in a further attempt, and takes a metric for delivered   *)
(* only when the server has answered 200 to a post of it.                  *)
(***************************************************************************)
EXTENDS Agent, FiniteSetTheorems, TLAPS

(* The loop over a snapshot, or its RPC, is over when the reporter waits or *)
(* is gone, and only a flush goes past the bound on reports.                *)
ReporterInv ==
    /\ reporter \in {"waiting", "ticking", "gone"} => batch = {}
    /\ reporter \in {"waiting", "dispatching", "ticking", "calling"} => Len(snap) <= MaxReports

(* A worker has a job exactly while it sends, and waits only if there is an *)
(* attempt left.                                                            *)
WorkerInv ==
    \A w \in Workers :
      /\ at[w] \in {"idle", "gone"} <=> job[w] = NoJob
      /\ at[w] \in {"posted", "answered", "between"} => attempt[w] >= 1
      /\ at[w] = "between" => attempt[w] <= Retries

IInv == TypeOK /\ ReporterInv /\ WorkerInv

LEMMA CapType == Cap \in Nat
  BY AgentAssumption, FS_CardinalityType DEF Cap

LEMMA JobPair ==
  ASSUME NEW k \in 1..MaxReports + 1, NEW n \in Names
  PROVE  /\ <<k, n>> \in Jobs
         /\ <<k, n>>[1] = k /\ <<k, n>>[2] = n
  BY DEF Jobs

LEMMA JobParts ==
  ASSUME NEW j \in Jobs
  PROVE  j[1] \in 1..MaxReports + 1 /\ j[2] \in Names /\ j = <<j[1], j[2]>>
  BY DEF Jobs

LEMMA InitInv == Init => IInv
  <1> SUFFICES ASSUME Init PROVE IInv
    OBVIOUS
  <1>1. /\ held \in [Names -> 0..MaxPolls]
        /\ snap \in Seq([Names -> 0..MaxPolls]) /\ Len(snap) = 0
        /\ jobs \in Seq(Jobs) /\ Len(jobs) = 0
    BY AgentAssumption DEF Init
  <1>2. /\ attempt \in [Workers -> 0..Retries + 1]
        /\ fate \in [Jobs -> Fates \cup {"none"}]
        /\ Len(snap) <= MaxReports + 1 /\ Len(jobs) <= Cap
    BY <1>1, CapType, AgentAssumption DEF Init
  <1>5. TypeOK
    BY <1>1, <1>2 DEF Init, TypeOK
  <1>3. ReporterInv
    BY <1>1, AgentAssumption DEF Init, ReporterInv
  <1>4. WorkerInv
    BY DEF Init, WorkerInv
  <1> QED
    BY <1>3, <1>4, <1>5 DEF IInv

-----------------------------------------------------------------------------
(* One step of each goroutine. *)

LEMMA CollectorStep ==
  ASSUME IInv, Collectors
  PROVE  IInv'
  <1> USE DEF IInv, TypeOK, ReporterInv, WorkerInv
  <1>1. ASSUME NEW S, Set(S) PROVE held' \in [Names -> 0..MaxPolls]
    BY <1>1, AgentAssumption DEF Set
  <1>2. held' \in [Names -> 0..MaxPolls]
    BY <1>1 DEF Collectors, UpdateMetrics, UpdateMemory, UpdateCpu, RuntimeStops, GopsutilStops
  <1>3. /\ runtime' \in {"run", "gone"} /\ gopsutil' \in {"run", "between", "gone"}
        /\ UNCHANGED <<reporterVars, jobs, workerVars, serverVars, fate, clockVars>>
    BY DEF Collectors, UpdateMetrics, UpdateMemory, UpdateCpu, RuntimeStops, GopsutilStops
  <1> QED
    BY <1>2, <1>3 DEF reporterVars, workerVars, serverVars, clockVars

LEMMA CollectType ==
  ASSUME IInv, GetAllMetrics, Len(snap) <= MaxReports
  PROVE  /\ snap' \in Seq([Names -> 0..MaxPolls]) /\ Len(snap') = Len(snap) + 1
         /\ batch' \in SUBSET Jobs
  <1>1. held \in [Names -> 0..MaxPolls] /\ snap \in Seq([Names -> 0..MaxPolls])
    BY DEF IInv, TypeOK
  <1>2. Len(snap) + 1 \in 1..MaxReports + 1
    BY <1>1, AgentAssumption
  <1> QED
    BY <1>1, <1>2 DEF GetAllMetrics, Jobs

LEMMA ReporterStep ==
  ASSUME IInv, Reporter
  PROVE  IInv'
  <1> USE DEF IInv, TypeOK, ReporterInv, WorkerInv
  <1>1. CASE ReportTick \/ ReportStop
    <2>1. Collect /\ Len(snap) <= MaxReports
      BY <1>1, AgentAssumption DEF ReportTick, ReportStop
    <2>2. /\ snap' \in Seq([Names -> 0..MaxPolls]) /\ Len(snap') = Len(snap) + 1
          /\ batch' \in SUBSET Jobs
      BY <2>1, CollectType DEF Collect
    <2>3. UNCHANGED <<collectorVars, jobs, workerVars, serverVars, fate, clockVars>>
      BY <2>1 DEF Collect
    <2>4. \/ reporter' = "dispatching" /\ Len(snap) < MaxReports
          \/ reporter' = "flushing"
      BY <1>1 DEF ReportTick, ReportStop
    <2>5. ReporterInv' /\ reporter' \in {"waiting", "dispatching", "flushing", "gone"}
          /\ Len(snap') <= MaxReports + 1
      BY <2>1, <2>2, <2>4, AgentAssumption
    <2> QED
      BY <2>2, <2>3, <2>5 DEF collectorVars, workerVars, serverVars, clockVars
  <1>2. ASSUME NEW j \in batch, Enqueue(j) PROVE IInv'
    <2>1. Append(jobs, j) \in Seq(Jobs) /\ Len(Append(jobs, j)) <= Cap
      BY <1>2, CapType DEF Enqueue
    <2> QED
      BY <1>2, <2>1 DEF Enqueue, collectorVars, workerVars, serverVars, clockVars
  <1>3. CASE LoopEnds
    BY <1>3 DEF LoopEnds, collectorVars, workerVars, serverVars, clockVars
  <1>4. CASE ReporterReturns
    <2>1. fate' \in [Jobs -> Fates \cup {"none"}]
      BY <1>4 DEF ReporterReturns, Fates
    <2> QED
      BY <1>4, <2>1 DEF ReporterReturns, collectorVars, workerVars, serverVars, clockVars
  <1> QED
    BY <1>1, <1>2, <1>3, <1>4 DEF Reporter

LEMMA RPCType ==
  ASSUME NEW S, S \subseteq Jobs
  PROVE  RPC(S) \subseteq Requests
  BY AgentAssumption DEF RPC, Requests

LEMMA FateType ==
  ASSUME NEW f \in Fates, IInv, CallEnds(f)
  PROVE  fate' \in [Jobs -> Fates \cup {"none"}]
  BY DEF IInv, TypeOK, CallEnds

LEMMA CallEndsType ==
  ASSUME IInv, Calling, NEW f \in Fates, CallEnds(f), wire' \subseteq wire
  PROVE  IInv'
  <1>1. fate' \in [Jobs -> Fates \cup {"none"}]
    BY FateType
  <1>2. /\ batch' = {}
        /\ \/ reporter = "calling" /\ reporter' = "ticking"
           \/ reporter' = "gone"
        /\ UNCHANGED <<collectorVars, snap, jobs, workerVars, served, lost, clockVars>>
    BY DEF Calling, CallEnds
  <1>3. ReporterInv'
    BY <1>2 DEF IInv, ReporterInv
  <1>4. WorkerInv'
    BY <1>2 DEF IInv, WorkerInv, workerVars
  <1> QED
    BY <1>1, <1>2, <1>3, <1>4
       DEF IInv, TypeOK, collectorVars, workerVars, clockVars

(* How each RPC ends. *)
LEMMA CallEndings ==
  ASSUME BatchSent \/ BatchRefused \/ BatchFails \/ BatchCancelled
  PROVE  Calling /\ wire' \subseteq wire /\ (\E f \in Fates : CallEnds(f))
  <1>1. CASE BatchSent
    BY <1>1 DEF BatchSent, Fates
  <1>2. CASE BatchRefused
    BY <1>2 DEF BatchRefused, Fates
  <1>3. CASE BatchFails
    BY <1>3 DEF BatchFails, LostOrLate, Fates
  <1>4. CASE BatchCancelled
    BY <1>4 DEF BatchCancelled, LostOrLate, Calling, Fates
  <1> QED
    BY <1>1, <1>2, <1>3, <1>4

LEMMA BatchStep ==
  ASSUME IInv, BatchReporter
  PROVE  IInv'
  <1>1. CASE BatchTick \/ BatchStop
    <2>1. /\ GetAllMetrics /\ Len(snap) <= MaxReports
          /\ \/ reporter' = "calling" /\ Len(snap) < MaxReports
             \/ reporter' = "lastCall"
      BY <1>1, AgentAssumption DEF BatchTick, BatchStop, Call, IInv, ReporterInv
    <2>2. /\ snap' \in Seq([Names -> 0..MaxPolls]) /\ Len(snap') = Len(snap) + 1
          /\ batch' \in SUBSET Jobs
      BY <2>1, CollectType
    <2>3. UNCHANGED <<collectorVars, jobs, workerVars, served, lost, fate, clockVars>>
      BY <1>1 DEF BatchTick, BatchStop, Call
    <2>4. wire' \subseteq wire \cup RPC(batch')
      BY <1>1 DEF BatchTick, BatchStop, Call
    <2>5. wire' \in SUBSET Requests
      BY <2>2, <2>4, RPCType DEF IInv, TypeOK
    <2>6. Len(snap) \in Nat
      BY DEF IInv, TypeOK
    <2>7. ReporterInv' /\ Len(snap') <= MaxReports + 1
          /\ reporter' \in {"calling", "lastCall"}
      BY <2>1, <2>2, <2>6, AgentAssumption DEF ReporterInv
    <2>8. WorkerInv'
      BY <2>3 DEF IInv, WorkerInv, workerVars
    <2> QED
      BY <2>2, <2>3, <2>5, <2>7, <2>8 DEF IInv, TypeOK, collectorVars, workerVars, clockVars
  <1>2. CASE BatchSent \/ BatchRefused \/ BatchFails \/ BatchCancelled
    BY <1>2, CallEndings, CallEndsType
  <1> QED
    BY <1>1, <1>2 DEF BatchReporter

LEMMA ServeBatchStep ==
  ASSUME IInv, NEW s, ServeBatch(s)
  PROVE  IInv'
  BY DEF ServeBatch, IInv, TypeOK, ReporterInv, WorkerInv,
         collectorVars, reporterVars, workerVars, clockVars

LEMMA ReturnType ==
  ASSUME IInv, NEW w \in Workers, NEW f \in Fates, Return(w, f),
         job[w] \in Jobs, jobs' = jobs, wire' \in SUBSET wire, lost' \in SUBSET Jobs
  PROVE  IInv'
  <1>1. /\ fate' \in [Jobs -> Fates \cup {"none"}]
        /\ at' \in [Workers -> {"idle", "posted", "answered", "between", "gone"}]
        /\ job' \in [Workers -> Jobs \cup {NoJob}]
        /\ sendCtx' \in [Workers -> {"ctx", "drain"}]
        /\ attempt' \in [Workers -> 0..Retries + 1]
    BY AgentAssumption DEF IInv, TypeOK, Return
  <1>2. WorkerInv'
    BY AgentAssumption DEF IInv, TypeOK, WorkerInv, Return
  <1> QED
    BY <1>1, <1>2 DEF IInv, TypeOK, ReporterInv, Return, collectorVars, reporterVars, clockVars

LEMMA Sending ==
  ASSUME IInv, NEW w \in Workers, at[w] \in {"posted", "answered", "between"}
  PROVE  job[w] \in Jobs /\ attempt[w] \in 1..Retries + 1
  <1>1. job[w] \in Jobs \cup {NoJob} /\ attempt[w] \in 0..Retries + 1
    BY DEF IInv, TypeOK
  <1>2. job[w] # NoJob /\ attempt[w] >= 1
    BY DEF IInv, WorkerInv
  <1> QED
    BY <1>1, <1>2, AgentAssumption

(* What the ways a send can end have in common. *)
LEMMA Returns ==
  ASSUME NEW w \in Workers,
         \/ Answered(w) \/ Refused(w) \/ Exhausted(w)
         \/ EncryptFails(w) \/ Abandon(w)
  PROVE  /\ jobs' = jobs /\ wire' \subseteq wire /\ lost' \subseteq lost \cup {job[w]}
         /\ \E f \in Fates : Return(w, f) /\ (f = "sent" => Answered(w))
  <1>1. CASE Answered(w)
    BY <1>1 DEF Answered, Fates
  <1>2. CASE Refused(w)
    BY <1>2 DEF Refused, Fates
  <1>3. CASE Exhausted(w)
    BY <1>3 DEF Exhausted, NoAnswer, Fates
  <1>4. CASE EncryptFails(w)
    BY <1>4 DEF EncryptFails, Fates
  <1>5. CASE Abandon(w)
    BY <1>5 DEF Abandon, GiveUp, Fates
  <1> QED
    BY <1>1, <1>2, <1>3, <1>4, <1>5

LEMMA WorkerStep ==
  ASSUME IInv, NEW w \in Workers, Worker(w)
  PROVE  IInv'
  <1>1. CASE Take(w)
    <2>1. Head(jobs) \in Jobs /\ Tail(jobs) \in Seq(Jobs) /\ Len(Tail(jobs)) <= Cap
      BY <1>1, CapType DEF IInv, TypeOK, Take
    <2>2. <<Head(jobs), 1>> \in Requests
      BY <2>1, AgentAssumption DEF Requests
    <2>5. /\ attempt' \in [Workers -> 0..Retries + 1]
          /\ job' \in [Workers -> Jobs \cup {NoJob}]
          /\ at' \in [Workers -> {"idle", "posted", "answered", "between", "gone"}]
          /\ sendCtx' \in [Workers -> {"ctx", "drain"}]
      BY <1>1, <2>1, AgentAssumption DEF IInv, TypeOK, Take
    <2>6. wire' \in SUBSET Requests
      BY <1>1, <2>2 DEF IInv, TypeOK, Take
    <2>3. TypeOK'
      BY <1>1, <2>1, <2>5, <2>6 DEF IInv, TypeOK, Take, collectorVars, reporterVars, clockVars
    <2>4. WorkerInv'
      BY <1>1, <2>1, AgentAssumption DEF IInv, TypeOK, WorkerInv, Take
    <2> QED
      BY <1>1, <2>3, <2>4 DEF IInv, ReporterInv, Take, reporterVars
  <1>2. CASE \/ Answered(w) \/ Refused(w) \/ Exhausted(w)
             \/ EncryptFails(w) \/ Abandon(w)
    <2>1. job[w] \in Jobs
      BY <1>2, Sending DEF Answered, Refused, Exhausted, NoAnswer, EncryptFails, Abandon
    <2>2. /\ jobs' = jobs /\ wire' \in SUBSET wire /\ lost' \in SUBSET Jobs
          /\ \E f \in Fates : Return(w, f)
      BY <1>2, <2>1, Returns DEF IInv, TypeOK
    <2> QED
      BY <2>1, <2>2, ReturnType
  <1>3. CASE Unmade(w)
    <2>1. Head(jobs) \in Jobs /\ Tail(jobs) \in Seq(Jobs) /\ Len(Tail(jobs)) <= Cap
      BY <1>3, CapType DEF IInv, TypeOK, Unmade
    <2>2. fate' \in [Jobs -> Fates \cup {"none"}]
      BY <1>3, <2>1 DEF IInv, TypeOK, Unmade, Fates
    <2> QED
      BY <1>3, <2>1, <2>2
         DEF Unmade, IInv, TypeOK, ReporterInv, WorkerInv,
             collectorVars, reporterVars, workerVars, serverVars, clockVars
  <1>4. CASE ConnError(w)
    <2>1. at' \in [Workers -> {"idle", "posted", "answered", "between", "gone"}]
          /\ wire' \in SUBSET wire
      BY <1>4 DEF ConnError, NoAnswer, IInv, TypeOK
    <2>2. WorkerInv'
      BY <1>4 DEF ConnError, NoAnswer, HasDelay, IInv, TypeOK, WorkerInv
    <2> QED
      BY <1>4, <2>1, <2>2
         DEF ConnError, IInv, TypeOK, ReporterInv, collectorVars, reporterVars, clockVars
  <1>5. CASE Retry(w)
    <2>1. job[w] \in Jobs /\ attempt[w] + 1 \in 1..Retries + 1
      BY <1>5, Sending, AgentAssumption DEF Retry, IInv, WorkerInv
    <2>2. <<job[w], attempt[w] + 1>> \in Requests
      BY <2>1 DEF Requests
    <2>5. /\ attempt' \in [Workers -> 0..Retries + 1]
          /\ at' \in [Workers -> {"idle", "posted", "answered", "between", "gone"}]
      BY <1>5, <2>1, AgentAssumption DEF IInv, TypeOK, Retry
    <2>6. wire' \in SUBSET Requests
      BY <1>5, <2>2 DEF IInv, TypeOK, Retry
    <2>3. TypeOK'
      BY <1>5, <2>5, <2>6 DEF IInv, TypeOK, Retry, collectorVars, reporterVars, clockVars
    <2>4. WorkerInv'
      BY <1>5, <2>1, AgentAssumption DEF IInv, TypeOK, WorkerInv, Retry
    <2> QED
      BY <1>5, <2>3, <2>4 DEF IInv, ReporterInv, Retry, reporterVars
  <1>6. CASE RangeEnds(w)
    <2>1. TypeOK'
      BY <1>6 DEF IInv, TypeOK, RangeEnds, collectorVars, reporterVars, serverVars, clockVars
    <2>2. WorkerInv'
      BY <1>6 DEF IInv, TypeOK, WorkerInv, RangeEnds
    <2> QED
      BY <1>6, <2>1, <2>2 DEF IInv, ReporterInv, RangeEnds, reporterVars
  <1> QED
    BY <1>1, <1>2, <1>3, <1>4, <1>5, <1>6 DEF Worker

LEMMA ServeStep ==
  ASSUME IInv, NEW r \in wire, Serve(r)
  PROVE  IInv'
  <1>1. at' \in [Workers -> {"idle", "posted", "answered", "between", "gone"}]
    BY DEF Serve, IInv, TypeOK
  <1>2. WorkerInv'
    BY DEF Serve, IInv, TypeOK, WorkerInv
  <1> QED
    BY <1>1, <1>2
       DEF Serve, IInv, TypeOK, ReporterInv, collectorVars, reporterVars, clockVars

LEMMA ClockStep ==
  ASSUME IInv, Clock
  PROVE  IInv' /\ OthersSame
  <1>1. OthersSame
    BY DEF Clock, Signal, DrainExpires, ShutdownTimeout, StopGracefully, ForceExit
  <1>2. /\ ctxDone \in BOOLEAN /\ drainDone \in BOOLEAN /\ overdue \in BOOLEAN
        /\ main \in {"running", "stopping"} \cup Ends
    BY DEF IInv, TypeOK
  <1>3. /\ ctxDone' \in BOOLEAN /\ drainDone' \in BOOLEAN /\ overdue' \in BOOLEAN
        /\ main' \in {"running", "stopping"} \cup Ends
    <2>1. CASE Signal
      BY <1>2, <2>1 DEF Signal
    <2>2. CASE DrainExpires
      BY <1>2, <2>2 DEF DrainExpires
    <2>3. CASE ShutdownTimeout
      BY <1>2, <2>3 DEF ShutdownTimeout
    <2>4. CASE StopGracefully
      BY <1>2, <2>4 DEF StopGracefully, Ends
    <2>5. CASE ForceExit
      BY <1>2, <2>5 DEF ForceExit, Ends
    <2> QED
      BY <2>1, <2>2, <2>3, <2>4, <2>5 DEF Clock
  <1>4. /\ UNCHANGED <<held, runtime, gopsutil, snap, reporter, batch>>
        /\ UNCHANGED <<jobs, at, job, sendCtx, attempt, wire, served, lost, fate>>
    BY <1>1 DEF OthersSame, collectorVars, reporterVars, workerVars, serverVars
  <1>5. TypeOK'
    <2>1. TypeOK
      BY DEF IInv
    <2> QED
      BY <1>3, <1>4, <2>1 DEF TypeOK
  <1>6. ReporterInv' /\ WorkerInv'
    BY <1>4 DEF IInv, ReporterInv, WorkerInv
  <1> QED
    BY <1>1, <1>5, <1>6 DEF IInv

LEMMA InvStep == IInv /\ [Next]_agentVars => IInv'
  <1> SUFFICES ASSUME IInv, [Next]_agentVars PROVE IInv'
    OBVIOUS
  <1>1. CASE UNCHANGED agentVars
    BY <1>1 DEF agentVars, IInv, TypeOK, ReporterInv, WorkerInv,
                collectorVars, reporterVars, workerVars, serverVars, clockVars
  <1> QED
    BY <1>1, CollectorStep, ReporterStep, BatchStep, WorkerStep, ServeStep, ServeBatchStep,
       ClockStep DEF Next

(* Type correctness: the bound of the queue, of the attempts of a send     *)
(* (util.go:21-35) and of the requests among it.                           *)
THEOREM AgentTypeCorrect == Spec => []TypeOK
  <1>1. IInv => TypeOK
    BY DEF IInv
  <1> QED
    BY <1>1, InitInv, InvStep, PTL DEF Spec

-----------------------------------------------------------------------------
(* Where a job can be. *)

Elems(s) == {s[i] : i \in 1..Len(s)}
Distinct(s) == \A i, k \in 1..Len(s) : s[i] = s[k] => i = k

LEMMA ElemsAppend ==
  ASSUME NEW S, NEW s \in Seq(S), NEW x \in S, Distinct(s), x \notin Elems(s)
  PROVE  Elems(Append(s, x)) = Elems(s) \cup {x} /\ Distinct(Append(s, x))
  <1>1. /\ Len(Append(s, x)) = Len(s) + 1 /\ Len(s) \in Nat
        /\ Append(s, x)[Len(s) + 1] = x
        /\ \A i \in 1..Len(s) : Append(s, x)[i] = s[i]
    OBVIOUS
  <1>2. Elems(Append(s, x)) = Elems(s) \cup {x}
    <2>1. \A i \in 1..Len(s) + 1 : i \in 1..Len(s) \/ i = Len(s) + 1
      BY <1>1
    <2>2. Len(s) + 1 \in 1..Len(s) + 1 /\ 1..Len(s) \subseteq 1..Len(s) + 1
      BY <1>1
    <2> QED
      BY <1>1, <2>1, <2>2 DEF Elems
  <1>3. Distinct(Append(s, x))
    BY <1>1 DEF Elems, Distinct
  <1> QED
    BY <1>2, <1>3

LEMMA ElemsTail ==
  ASSUME NEW S, NEW s \in Seq(S), s # <<>>, Distinct(s)
  PROVE  /\ Elems(s) = {Head(s)} \cup Elems(Tail(s))
         /\ Head(s) \notin Elems(Tail(s))
         /\ Distinct(Tail(s))
  <1>1. /\ Len(s) \in Nat /\ Len(s) >= 1 /\ Len(Tail(s)) = Len(s) - 1
        /\ Head(s) = s[1]
        /\ \A i \in 1..Len(s) - 1 : Tail(s)[i] = s[i + 1]
    OBVIOUS
  <1>2. \A i \in 1..Len(s) : i = 1 \/ (i - 1 \in 1..Len(s) - 1 /\ s[i] = Tail(s)[i - 1])
    BY <1>1
  <1>3. \A i \in 1..Len(s) - 1 : i + 1 \in 1..Len(s) /\ i + 1 # 1
    BY <1>1
  <1>4. 1 \in 1..Len(s)
    BY <1>1
  <1>5. Elems(s) = {Head(s)} \cup Elems(Tail(s))
    <2>1. ASSUME NEW x \in Elems(s) PROVE x = Head(s) \/ x \in Elems(Tail(s))
      <3>1. PICK i \in 1..Len(s) : x = s[i]
        BY <2>1 DEF Elems
      <3> QED
        BY <1>1, <1>2, <3>1 DEF Elems
    <2>2. Head(s) \in Elems(s)
      BY <1>1, <1>4 DEF Elems
    <2>3. ASSUME NEW x \in Elems(Tail(s)) PROVE x \in Elems(s)
      <3>1. PICK i \in 1..Len(s) - 1 : x = Tail(s)[i]
        BY <1>1, <2>3 DEF Elems
      <3>2. i + 1 \in 1..Len(s) /\ x = s[i + 1]
        BY <1>1, <1>3, <3>1
      <3> QED
        BY <3>2 DEF Elems
    <2> QED
      BY <2>1, <2>2, <2>3
  <1>6. Head(s) \notin Elems(Tail(s))
    BY <1>1, <1>3, <1>4 DEF Elems, Distinct
  <1>7. Distinct(Tail(s))
    BY <1>1, <1>3 DEF Distinct
  <1> QED
    BY <1>5, <1>6, <1>7

LEMMA QueuedElems == Queued = Elems(jobs) /\ Queued' = Elems(jobs')
  BY DEF Queued, Elems

(* A new snapshot adds exactly the jobs of the loop that begins. *)
LEMMA CollectTaken ==
  ASSUME IInv, GetAllMetrics, Len(snap) <= MaxReports
  PROVE  Taken' = Taken \cup batch' /\ batch' \cap Taken = {}
  <1>1. /\ snap \in Seq([Names -> 0..MaxPolls]) /\ held \in [Names -> 0..MaxPolls]
        /\ snap' = Append(snap, held)
        /\ batch' = {Len(snap) + 1} \X {n \in Names : held[n] > 0}
    BY DEF IInv, TypeOK, GetAllMetrics
  <1>2. /\ Len(snap) \in Nat /\ Len(snap') = Len(snap) + 1
        /\ snap'[Len(snap) + 1] = held
        /\ \A i \in 1..Len(snap) : snap'[i] = snap[i]
    BY <1>1
  <1>3. ASSUME NEW j \in Jobs PROVE j \in Taken' <=> j \in Taken \/ j \in batch'
    <2>1. j[1] \in 1..MaxReports + 1 /\ j[2] \in Names /\ j = <<j[1], j[2]>>
      BY JobParts
    <2>2. CASE j[1] = Len(snap) + 1
      <3>1. j \in batch' <=> held[j[2]] > 0
        BY <1>1, <2>1, <2>2
      <3>2. j \notin Taken
        BY <1>2, <2>2 DEF Taken
      <3>3. j \in Taken' <=> held[j[2]] > 0
        BY <1>2, <2>1, <2>2 DEF Taken
      <3> QED
        BY <3>1, <3>2, <3>3
    <2>3. CASE j[1] # Len(snap) + 1
      <3>1. j \notin batch'
        BY <1>1, <2>1, <2>3
      <3>2. j \in Taken' <=> j \in Taken
        BY <1>2, <2>1, <2>3, AgentAssumption DEF Taken
      <3> QED
        BY <3>1, <3>2
    <2> QED
      BY <2>2, <2>3
  <1>4. batch' \subseteq Jobs
    BY CollectType
  <1>5. ASSUME NEW j \in batch' PROVE j \notin Taken
    <2>1. j[1] = Len(snap) + 1
      BY <1>1, <1>5
    <2> QED
      BY <1>2, <2>1 DEF Taken
  <1>6. Taken \subseteq Jobs /\ Taken' \subseteq Jobs
    BY DEF Taken
  <1> QED
    BY <1>3, <1>4, <1>5, <1>6

-----------------------------------------------------------------------------
LEMMA JobsInit == Init => JobsConserved
  <1> SUFFICES ASSUME Init PROVE JobsConserved
    OBVIOUS
  <1>1. Len(snap) = 0 /\ Len(jobs) = 0
    BY DEF Init
  <1>2. Taken = {} /\ Queued = {} /\ Settled = {}
    BY <1>1 DEF Init, Taken, Queued, Settled
  <1>3. InHand = {}
    BY DEF Init, InHand
  <1> QED
    BY <1>1, <1>2, <1>3 DEF Init, JobsConserved

LEMMA JobsSame ==
  ASSUME JobsConserved, UNCHANGED <<snap, batch, jobs, job, fate>>
  PROVE  JobsConserved'
  BY DEF JobsConserved, Taken, Queued, InHand, Settled

LEMMA JobsReporter ==
  ASSUME IInv, JobsConserved, Reporter
  PROVE  JobsConserved'
  <1>1. CASE ReportTick \/ ReportStop
    <2>1. Collect /\ Len(snap) <= MaxReports /\ batch = {}
      BY <1>1, AgentAssumption DEF ReportTick, ReportStop, IInv, ReporterInv
    <2>2. Taken' = Taken \cup batch' /\ batch' \cap Taken = {}
      BY <2>1, CollectTaken DEF Collect
    <2>3. /\ UNCHANGED <<jobs, job, fate>>
          /\ Queued' = Queued /\ InHand' = InHand /\ Settled' = Settled
      BY <2>1 DEF Collect, workerVars, Queued, InHand, Settled
    <2> QED
      BY <2>1, <2>2, <2>3 DEF JobsConserved
  <1>2. ASSUME NEW j \in batch, Enqueue(j) PROVE JobsConserved'
    <2>1. jobs \in Seq(Jobs) /\ j \in Jobs /\ Distinct(jobs) /\ j \notin Elems(jobs)
      BY <1>2, QueuedElems DEF IInv, TypeOK, JobsConserved, Distinct
    <2>2. Queued' = Queued \cup {j} /\ Distinct(jobs')
      BY <1>2, <2>1, ElemsAppend, QueuedElems DEF Enqueue
    <2>3. /\ batch' = batch \ {j} /\ job' = job
          /\ Taken' = Taken /\ InHand' = InHand /\ Settled' = Settled
      BY <1>2 DEF Enqueue, workerVars, Taken, InHand, Settled
    <2> QED
      BY <2>2, <2>3 DEF JobsConserved, Distinct
  <1>3. CASE LoopEnds
    BY <1>3, JobsSame DEF LoopEnds, workerVars
  <1>4. CASE ReporterReturns
    <2>1. /\ batch' = {} /\ UNCHANGED <<snap, jobs, job>>
          /\ Taken' = Taken /\ Queued' = Queued /\ InHand' = InHand
      BY <1>4 DEF ReporterReturns, workerVars, Taken, Queued, InHand
    <2>2. Settled' = Settled \cup batch
      BY <1>4 DEF ReporterReturns, Settled, IInv, TypeOK
    <2> QED
      BY <2>1, <2>2 DEF JobsConserved
  <1> QED
    BY <1>1, <1>2, <1>3, <1>4 DEF Reporter

LEMMA JobsBatch ==
  ASSUME IInv, JobsConserved, BatchReporter
  PROVE  JobsConserved'
  <1>1. CASE BatchTick \/ BatchStop
    <2>1. GetAllMetrics /\ Len(snap) <= MaxReports /\ batch = {}
      BY <1>1, AgentAssumption DEF BatchTick, BatchStop, Call, IInv, ReporterInv
    <2>2. Taken' = Taken \cup batch' /\ batch' \cap Taken = {}
      BY <2>1, CollectTaken
    <2>3. /\ UNCHANGED <<jobs, job, fate>>
          /\ Queued' = Queued /\ InHand' = InHand /\ Settled' = Settled
      BY <1>1 DEF BatchTick, BatchStop, Call, workerVars, Queued, InHand, Settled
    <2> QED
      BY <2>1, <2>2, <2>3 DEF JobsConserved
  <1>2. CASE BatchSent \/ BatchRefused \/ BatchFails \/ BatchCancelled
    <2>1. PICK f \in Fates : CallEnds(f)
      BY <1>2, CallEndings
    <2>2. /\ batch' = {} /\ UNCHANGED <<snap, jobs, job>>
          /\ Taken' = Taken /\ Queued' = Queued /\ InHand' = InHand
      BY <2>1 DEF CallEnds, workerVars, Taken, Queued, InHand
    <2>3. Settled' = Settled \cup batch
      BY <2>1 DEF CallEnds, Settled, Fates, IInv, TypeOK
    <2> QED
      BY <2>2, <2>3 DEF JobsConserved
  <1> QED
    BY <1>1, <1>2 DEF BatchReporter

LEMMA JobsReturn ==
  ASSUME IInv, JobsConserved, NEW w \in Workers, NEW f \in Fates, Return(w, f),
         job[w] \in Jobs, jobs' = jobs
  PROVE  JobsConserved'
  <1>1. job' = [job EXCEPT ![w] = NoJob] /\ fate' = [fate EXCEPT ![job[w]] = f]
        /\ UNCHANGED <<snap, batch, jobs>>
    BY DEF Return, reporterVars
  <1>2. job[w] # NoJob /\ f # "none" /\ job \in [Workers -> Jobs \cup {NoJob}]
        /\ fate \in [Jobs -> Fates \cup {"none"}]
    BY AgentAssumption DEF Fates, IInv, TypeOK
  <1>3. Taken' = Taken /\ Queued' = Queued
    BY <1>1 DEF Taken, Queued
  <1>4. Settled' = Settled \cup {job[w]}
    BY <1>1, <1>2 DEF Settled
  <1>5. \A v \in Workers : v # w /\ job[v] # NoJob => job[v] # job[w]
    BY <1>2 DEF JobsConserved
  <1>6. InHand' = InHand \ {job[w]} /\ job[w] \in InHand
    BY <1>1, <1>2, <1>5 DEF InHand
  <1>7. \A u, v \in Workers : job'[u] = job'[v] /\ job'[u] # NoJob => u = v
    BY <1>1, <1>2 DEF JobsConserved
  <1> QED
    BY <1>1, <1>3, <1>4, <1>6, <1>7 DEF JobsConserved

LEMMA JobsWorker ==
  ASSUME IInv, JobsConserved, NEW w \in Workers, Worker(w)
  PROVE  JobsConserved'
  <1>1. CASE Take(w)
    <2>1. /\ job[w] = NoJob /\ job \in [Workers -> Jobs \cup {NoJob}]
          /\ jobs \in Seq(Jobs) /\ jobs # <<>> /\ Head(jobs) \in Jobs
      BY <1>1 DEF Take, IInv, TypeOK, WorkerInv
    <2>2. Distinct(jobs)
      BY DEF JobsConserved, Distinct
    <2>3. /\ Queued = {Head(jobs)} \cup Queued' /\ Head(jobs) \notin Queued'
          /\ Distinct(jobs')
      BY <1>1, <2>1, <2>2, ElemsTail, QueuedElems DEF Take
    <2>4. /\ job' = [job EXCEPT ![w] = Head(jobs)]
          /\ UNCHANGED <<batch, fate>> /\ Taken' = Taken /\ Settled' = Settled
      BY <1>1 DEF Take, reporterVars, Taken, Settled
    <2>5. Head(jobs) # NoJob
      BY <2>1, AgentAssumption
    <2>6. InHand' = InHand \cup {Head(jobs)}
      BY <2>1, <2>4, <2>5 DEF InHand
    <2>7. \A v \in Workers : job[v] # Head(jobs)
      BY <2>3, <2>5 DEF JobsConserved, InHand
    <2>8. \A u, v \in Workers : job'[u] = job'[v] /\ job'[u] # NoJob => u = v
      BY <2>1, <2>4, <2>7 DEF JobsConserved
    <2> QED
      BY <2>3, <2>4, <2>6, <2>8 DEF JobsConserved, Distinct
  <1>2. CASE \/ Answered(w) \/ Refused(w) \/ Exhausted(w)
             \/ EncryptFails(w) \/ Abandon(w)
    <2>1. job[w] \in Jobs
      BY <1>2, Sending DEF Answered, Refused, Exhausted, NoAnswer, EncryptFails, Abandon
    <2> QED
      BY <1>2, <2>1, Returns, JobsReturn
  <1>4. CASE Unmade(w)
    <2>1. /\ jobs \in Seq(Jobs) /\ jobs # <<>> /\ Head(jobs) \in Jobs /\ Distinct(jobs)
          /\ fate \in [Jobs -> Fates \cup {"none"}]
      BY <1>4 DEF Unmade, IInv, TypeOK, JobsConserved, Distinct
    <2>2. /\ Queued = {Head(jobs)} \cup Queued' /\ Head(jobs) \notin Queued'
          /\ Distinct(jobs')
      BY <1>4, <2>1, ElemsTail, QueuedElems DEF Unmade
    <2>3. Settled' = Settled \cup {Head(jobs)}
      BY <1>4, <2>1 DEF Unmade, Settled
    <2>4. UNCHANGED <<batch, job>> /\ Taken' = Taken /\ InHand' = InHand
      BY <1>4 DEF Unmade, reporterVars, workerVars, Taken, InHand
    <2> QED
      BY <2>2, <2>3, <2>4 DEF JobsConserved, Distinct
  <1>3. CASE ConnError(w) \/ Retry(w) \/ RangeEnds(w)
    BY <1>3, JobsSame DEF ConnError, Retry, RangeEnds, reporterVars
  <1> QED
    BY <1>1, <1>2, <1>3, <1>4 DEF Worker

LEMMA JobsStep == IInv /\ JobsConserved /\ [Next]_agentVars => JobsConserved'
  <1> SUFFICES ASSUME IInv, JobsConserved, [Next]_agentVars PROVE JobsConserved'
    OBVIOUS
  <1>1. CASE Collectors
    BY <1>1, JobsSame DEF Collectors, UpdateMetrics, UpdateMemory, UpdateCpu,
                          RuntimeStops, GopsutilStops, reporterVars, workerVars
  <1>2. CASE Clock
    BY <1>2, ClockStep, JobsSame DEF OthersSame, reporterVars, workerVars
  <1>3. ASSUME NEW r \in wire, Serve(r) \/ ServeBatch(r[1][1]) PROVE JobsConserved'
    BY <1>3, JobsSame DEF Serve, ServeBatch, reporterVars, workerVars
  <1>4. CASE UNCHANGED agentVars
    BY <1>4, JobsSame DEF agentVars, reporterVars, workerVars
  <1> QED
    BY <1>1, <1>2, <1>3, <1>4, JobsReporter, JobsBatch, JobsWorker DEF Next

(* A metric the reporter took is in exactly one place, whatever the signal *)
(* interrupts, for any number of workers and metrics (main.go:167-227).    *)
THEOREM JobsAreConserved == Spec => []JobsConserved
  BY InitInv, InvStep, JobsInit, JobsStep, PTL DEF Spec

-----------------------------------------------------------------------------
(* No request is made twice: what is taken from the queue has not been     *)
(* posted, and an attempt is a new one. *)

Posts == wire \cup served
Unposted(S) == \A r \in Posts : r[1] \notin S

FreshInv ==
    /\ wire \cap served = {}
    /\ \A r \in Posts : r[1] \in Taken
    /\ reporter \in {"dispatching", "flushing"} => Unposted(batch)
    /\ Unposted(Queued)
    /\ \A w \in Workers, r \in Posts :
         at[w] \in {"posted", "answered", "between"} /\ r[1] = job[w] => r[2] <= attempt[w]

LEMMA FreshInit == Init => FreshInv
  BY DEF Init, FreshInv, Posts, Unposted

(* Nothing is posted, and what is to be posted does not grow. *)
LEMMA FreshSame ==
  ASSUME FreshInv, UNCHANGED <<snap, attempt, job, served>>, wire' \subseteq wire,
         reporter' \in {"dispatching", "flushing"} =>
           reporter \in {"dispatching", "flushing"} /\ batch' \subseteq batch,
         Queued' \subseteq Queued,
         \A w \in Workers : at'[w] \in {"posted", "answered", "between"} =>
           at[w] \in {"posted", "answered", "between"}
  PROVE  FreshInv'
  <1>1. Taken' = Taken /\ Posts' \subseteq Posts
    BY DEF Taken, Posts
  <1> QED
    BY <1>1 DEF FreshInv, Unposted

LEMMA FreshCollect ==
  ASSUME IInv, JobsConserved, FreshInv, GetAllMetrics, Len(snap) <= MaxReports,
         UNCHANGED <<jobs, workerVars, served>>, wire' \subseteq wire \cup RPC(batch'),
         reporter' \in {"dispatching", "flushing"} => wire' = wire
  PROVE  FreshInv'
  <1>1. Taken' = Taken \cup batch' /\ batch' \cap Taken = {}
    BY CollectTaken
  <1>2. Queued' = Queued /\ Queued \subseteq Taken /\ InHand \subseteq Taken
    BY DEF Queued, JobsConserved
  <1>3. \A r \in RPC(batch') : r[1] \in batch'
    BY DEF RPC
  <1>4. \A r \in Posts' : r \in Posts \/ r \in RPC(batch')
    BY DEF Posts
  <1>5. wire' \cap served' = {}
    BY <1>1, <1>3 DEF FreshInv, Posts
  <1>6. \A r \in Posts' : r[1] \in Taken'
    BY <1>1, <1>3, <1>4 DEF FreshInv
  <1>7. reporter' \in {"dispatching", "flushing"} => Unposted(batch)'
    BY <1>1 DEF FreshInv, Unposted, Posts
  <1>8. Unposted(Queued)'
    BY <1>1, <1>2, <1>3, <1>4 DEF FreshInv, Unposted
  <1>9. ASSUME NEW w \in Workers, NEW r \in Posts',
               at'[w] \in {"posted", "answered", "between"}, r[1] = job'[w]
        PROVE  r[2] <= attempt'[w]
    <2>1. UNCHANGED <<at, job, attempt>>
      BY DEF workerVars
    <2>2. job[w] \in InHand
      BY <1>9, <2>1, Sending, AgentAssumption DEF InHand
    <2>3. r \in Posts
      BY <1>1, <1>2, <1>3, <1>4, <1>9, <2>1, <2>2
    <2> QED
      BY <1>9, <2>1, <2>3 DEF FreshInv
  <1> QED
    BY <1>5, <1>6, <1>7, <1>8, <1>9 DEF FreshInv

LEMMA FreshReporter ==
  ASSUME IInv, JobsConserved, FreshInv, Reporter
  PROVE  FreshInv'
  <1>1. CASE ReportTick \/ ReportStop
    <2>1. Collect /\ Len(snap) <= MaxReports
      BY <1>1, AgentAssumption DEF ReportTick, ReportStop, IInv, ReporterInv
    <2> QED
      BY <2>1, FreshCollect DEF Collect, serverVars
  <1>2. ASSUME NEW j \in batch, Enqueue(j) PROVE FreshInv'
    <2>1. jobs \in Seq(Jobs) /\ j \in Jobs /\ Distinct(jobs) /\ j \notin Elems(jobs)
      BY <1>2, QueuedElems DEF IInv, TypeOK, JobsConserved, Distinct
    <2>2. Queued' = Queued \cup {j}
      BY <1>2, <2>1, ElemsAppend, QueuedElems DEF Enqueue
    <2>3. /\ UNCHANGED <<snap, reporter, at, job, attempt, wire, served>>
          /\ batch' = batch \ {j} /\ reporter \in {"dispatching", "flushing"}
      BY <1>2 DEF Enqueue, workerVars, serverVars
    <2>4. Taken' = Taken /\ Posts' = Posts
      BY <2>3 DEF Taken, Posts
    <2> QED
      BY <2>2, <2>3, <2>4 DEF FreshInv, Unposted
  <1>3. CASE LoopEnds \/ ReporterReturns
    <2>1. /\ UNCHANGED <<snap, jobs, at, job, attempt, wire, served>>
          /\ reporter' \in {"waiting", "gone"} /\ Queued' = Queued
      BY <1>3 DEF LoopEnds, ReporterReturns, workerVars, serverVars, Queued
    <2> QED
      BY <2>1, FreshSame
  <1> QED
    BY <1>1, <1>2, <1>3 DEF Reporter

LEMMA FreshBatch ==
  ASSUME IInv, JobsConserved, FreshInv, BatchReporter
  PROVE  FreshInv'
  <1>1. CASE BatchTick \/ BatchStop
    <2>1. /\ GetAllMetrics /\ Len(snap) <= MaxReports
          /\ wire' \subseteq wire \cup RPC(batch')
          /\ UNCHANGED <<jobs, workerVars, served>> /\ reporter' \in {"calling", "lastCall"}
      BY <1>1, AgentAssumption DEF BatchTick, BatchStop, Call, IInv, ReporterInv
    <2> QED
      BY <2>1, FreshCollect
  <1>2. CASE BatchSent \/ BatchRefused \/ BatchFails \/ BatchCancelled
    <2>1. PICK f \in Fates : CallEnds(f) /\ wire' \subseteq wire
      BY <1>2, CallEndings
    <2>2. /\ UNCHANGED <<snap, jobs, at, job, attempt, served>>
          /\ reporter' \in {"ticking", "gone"} /\ Queued' = Queued
      BY <2>1 DEF CallEnds, workerVars, Queued
    <2> QED
      BY <2>1, <2>2, FreshSame
  <1> QED
    BY <1>1, <1>2 DEF BatchReporter

LEMMA FreshTake ==
  ASSUME IInv, JobsConserved, FreshInv, NEW w \in Workers, Take(w)
  PROVE  FreshInv'
  <1> DEFINE j == Head(jobs)
  <1>1. /\ jobs \in Seq(Jobs) /\ jobs # <<>> /\ Distinct(jobs) /\ j \in Jobs
        /\ job \in [Workers -> Jobs \cup {NoJob}] /\ attempt \in [Workers -> 0..Retries + 1]
        /\ at \in [Workers -> {"idle", "posted", "answered", "between", "gone"}]
    BY DEF Take, IInv, TypeOK, JobsConserved, Distinct
  <1>2. Queued = {j} \cup Queued' /\ j \notin Queued'
    BY <1>1, ElemsTail, QueuedElems DEF Take
  <1>3. /\ UNCHANGED <<snap, reporter, batch, served>> /\ wire' = wire \cup {<<j, 1>>}
        /\ at' = [at EXCEPT ![w] = "posted"] /\ job' = [job EXCEPT ![w] = j]
        /\ attempt' = [attempt EXCEPT ![w] = 1]
    BY DEF Take, reporterVars
  <1>4. Taken' = Taken /\ Posts' = Posts \cup {<<j, 1>>}
    BY <1>3 DEF Taken, Posts
  <1>5. j \in Taken /\ j \notin batch /\ j \notin InHand
    BY <1>2 DEF JobsConserved
  <1>6. \A r \in Posts : r[1] # j
    BY <1>2 DEF FreshInv, Unposted
  <1> HIDE DEF j
  <1>7. wire' \cap served' = {}
    BY <1>3, <1>6 DEF FreshInv, Posts
  <1>8. \A r \in Posts' : r[1] \in Taken'
    BY <1>4, <1>5 DEF FreshInv
  <1>9. /\ reporter' \in {"dispatching", "flushing"} => Unposted(batch)'
        /\ Unposted(Queued)'
    BY <1>2, <1>3, <1>4, <1>5 DEF FreshInv, Unposted
  <1>10. ASSUME NEW v \in Workers, NEW r \in Posts',
                at'[v] \in {"posted", "answered", "between"}, r[1] = job'[v]
         PROVE  r[2] <= attempt'[v]
    <2>1. CASE v = w
      BY <1>1, <1>3, <1>4, <1>6, <1>10, <2>1
    <2>2. CASE v # w
      <3>1. at'[v] = at[v] /\ job'[v] = job[v] /\ attempt'[v] = attempt[v]
        BY <1>1, <1>3, <2>2
      <3>2. job[v] # j
        BY <1>1, <1>5, AgentAssumption DEF InHand
      <3> QED
        BY <1>4, <1>10, <3>1, <3>2 DEF FreshInv
    <2> QED
      BY <2>1, <2>2
  <1> QED
    BY <1>7, <1>8, <1>9, <1>10 DEF FreshInv

LEMMA FreshRetry ==
  ASSUME IInv, JobsConserved, FreshInv, NEW w \in Workers, Retry(w)
  PROVE  FreshInv'
  <1> DEFINE p == <<job[w], attempt[w] + 1>>
  <1>1. job[w] \in Jobs /\ attempt[w] \in 1..Retries + 1 /\ job[w] \in InHand
    <2>1. job[w] \in Jobs /\ attempt[w] \in 1..Retries + 1
      BY Sending DEF Retry
    <2> QED
      BY <2>1, AgentAssumption DEF InHand
  <1>2. /\ UNCHANGED <<snap, reporter, batch, jobs, job, served>> /\ wire' = wire \cup {p}
        /\ at' = [at EXCEPT ![w] = "posted"]
        /\ attempt' = [attempt EXCEPT ![w] = attempt[w] + 1]
        /\ at[w] = "between"
    BY DEF Retry, reporterVars
  <1>3. /\ at \in [Workers -> {"idle", "posted", "answered", "between", "gone"}]
        /\ attempt \in [Workers -> 0..Retries + 1]
    BY DEF IInv, TypeOK
  <1>4. Taken' = Taken /\ Queued' = Queued /\ Posts' = Posts \cup {p}
    BY <1>2 DEF Taken, Queued, Posts
  <1>5. job[w] \in Taken /\ job[w] \notin batch /\ job[w] \notin Queued
    BY <1>1 DEF JobsConserved
  <1>6. p \notin served
    BY <1>1, <1>2 DEF FreshInv, Posts
  <1>7. p[1] = job[w] /\ p[2] = attempt[w] + 1
    OBVIOUS
  <1> HIDE DEF p
  <1>8. wire' \cap served' = {}
    BY <1>2, <1>6 DEF FreshInv
  <1>9. \A r \in Posts' : r[1] \in Taken'
    BY <1>4, <1>5, <1>7 DEF FreshInv
  <1>10. /\ reporter' \in {"dispatching", "flushing"} => Unposted(batch)'
         /\ Unposted(Queued)'
    BY <1>2, <1>4, <1>5, <1>7 DEF FreshInv, Unposted
  <1>11. ASSUME NEW v \in Workers, NEW r \in Posts',
                at'[v] \in {"posted", "answered", "between"}, r[1] = job'[v]
         PROVE  r[2] <= attempt'[v]
    <2>1. CASE v = w
      <3>1. attempt'[v] = attempt[w] + 1
        BY <1>2, <1>3, <2>1
      <3>2. CASE r = p
        BY <1>1, <1>7, <3>1, <3>2
      <3>3. CASE r \in Posts
        <4>1. r \in Requests
          BY <3>3 DEF Posts, IInv, TypeOK
        <4>2. r[2] \in Int /\ r[2] <= attempt[w]
          BY <1>2, <1>11, <2>1, <3>3, <4>1, AgentAssumption DEF FreshInv, Requests
        <4> QED
          BY <1>1, <3>1, <4>2
      <3> QED
        BY <1>4, <3>2, <3>3
    <2>2. CASE v # w
      <3>1. at'[v] = at[v] /\ job'[v] = job[v] /\ attempt'[v] = attempt[v]
        BY <1>2, <1>3, <2>2
      <3>2. job[v] # job[w]
        BY <1>1, <2>2, AgentAssumption DEF JobsConserved
      <3> QED
        BY <1>4, <1>7, <1>11, <3>1, <3>2 DEF FreshInv
    <2> QED
      BY <2>1, <2>2
  <1> QED
    BY <1>8, <1>9, <1>10, <1>11 DEF FreshInv

LEMMA FreshReturn ==
  ASSUME IInv, FreshInv, NEW w \in Workers, NEW f \in Fates, Return(w, f), jobs' = jobs,
         wire' \subseteq wire
  PROVE  FreshInv'
  <1>1. /\ UNCHANGED <<snap, reporter, batch, served>>
        /\ at' = [at EXCEPT ![w] = "idle"] /\ job' = [job EXCEPT ![w] = NoJob]
        /\ attempt' = [attempt EXCEPT ![w] = 0]
    BY DEF Return, reporterVars
  <1>2. Taken' = Taken /\ Queued' = Queued /\ Posts' \subseteq Posts
    BY <1>1 DEF Taken, Queued, Posts
  <1>3. \A v \in Workers : at'[v] \in {"posted", "answered", "between"} =>
          at[v] = at'[v] /\ job[v] = job'[v] /\ attempt[v] = attempt'[v]
    BY <1>1 DEF IInv, TypeOK
  <1> QED
    BY <1>1, <1>2, <1>3 DEF FreshInv, Unposted

LEMMA FreshWorker ==
  ASSUME IInv, JobsConserved, FreshInv, NEW w \in Workers, Worker(w)
  PROVE  FreshInv'
  <1>1. CASE \/ Answered(w) \/ Refused(w) \/ Exhausted(w)
             \/ EncryptFails(w) \/ Abandon(w)
    BY <1>1, Returns, FreshReturn
  <1>2. CASE ConnError(w) \/ RangeEnds(w)
    <2>1. /\ UNCHANGED <<snap, reporter, batch, jobs, job, attempt, served>>
          /\ wire' \subseteq wire /\ Queued' = Queued
      BY <1>2 DEF ConnError, RangeEnds, NoAnswer, reporterVars, serverVars, Queued
    <2>2. \A v \in Workers : at'[v] \in {"posted", "answered", "between"} =>
            at[v] \in {"posted", "answered", "between"}
      BY <1>2 DEF ConnError, RangeEnds, NoAnswer, IInv, TypeOK
    <2> QED
      BY <2>1, <2>2, FreshSame
  <1>3. CASE Unmade(w)
    <2>1. jobs \in Seq(Jobs) /\ jobs # <<>> /\ Distinct(jobs)
      BY <1>3 DEF Unmade, IInv, TypeOK, JobsConserved, Distinct
    <2>2. Queued' \subseteq Queued
      BY <1>3, <2>1, ElemsTail, QueuedElems DEF Unmade
    <2>3. UNCHANGED <<snap, reporter, batch, at, job, attempt, wire, served>>
      BY <1>3 DEF Unmade, reporterVars, workerVars, serverVars
    <2> QED
      BY <2>2, <2>3, FreshSame
  <1> QED
    BY <1>1, <1>2, <1>3, FreshTake, FreshRetry DEF Worker

(* Handling a request moves it, or leaves nothing of it in the database.   *)
LEMMA FreshServed ==
  ASSUME IInv, FreshInv, NEW r \in wire, Serve(r) \/ ServeBatch(r[1][1])
  PROVE  FreshInv'
  <1>1. UNCHANGED <<snap, reporter, batch, jobs, job, attempt>>
    BY DEF Serve, ServeBatch, reporterVars, workerVars
  <1>2. Taken' = Taken /\ Queued' = Queued
    BY <1>1 DEF Taken, Queued
  <1>3. Posts' \subseteq Posts /\ wire' \cap served' = {}
    BY DEF Serve, ServeBatch, Posts, FreshInv
  <1>4. \A v \in Workers : at'[v] \in {"posted", "answered", "between"} =>
          at[v] \in {"posted", "answered", "between"}
    BY DEF Serve, ServeBatch, workerVars, IInv, TypeOK
  <1> QED
    BY <1>1, <1>2, <1>3, <1>4 DEF FreshInv, Unposted

LEMMA FreshStep == IInv /\ JobsConserved /\ FreshInv /\ [Next]_agentVars => FreshInv'
  <1> SUFFICES ASSUME IInv, JobsConserved, FreshInv, [Next]_agentVars PROVE FreshInv'
    OBVIOUS
  <1>1. CASE Collectors \/ Clock \/ UNCHANGED agentVars
    <2>1. UNCHANGED <<snap, reporter, batch, jobs, at, job, attempt, wire, served>>
      BY <1>1, ClockStep
         DEF Collectors, UpdateMetrics, UpdateMemory, UpdateCpu, RuntimeStops, GopsutilStops,
             OthersSame, agentVars, reporterVars, workerVars, serverVars
    <2>2. Queued' = Queued
      BY <2>1 DEF Queued
    <2> QED
      BY <2>1, <2>2, FreshSame
  <1> QED
    BY <1>1, FreshReporter, FreshBatch, FreshWorker, FreshServed DEF Next

LEMMA FreshCounts == IInv /\ FreshInv => CountedByAttempt
  <1> SUFFICES ASSUME IInv, FreshInv PROVE CountedByAttempt
    OBVIOUS
  <1>1. /\ \A r \in served : r \notin wire /\ r[1] \in Taken \ Queued
        /\ reporter \in {"dispatching", "flushing"} => \A r \in served : r[1] \notin batch
    BY DEF FreshInv, Posts, Unposted
  <1>2. ASSUME NEW w \in Workers, NEW r \in served, job[w] = r[1]
        PROVE  r[2] \in 0..attempt[w]
    <2>1. r \in Requests /\ attempt[w] \in 0..Retries + 1
      BY DEF IInv, TypeOK
    <2>2. r[1] # NoJob /\ r[2] \in 0..Retries + 1
      BY <2>1, AgentAssumption DEF Requests
    <2>3. at[w] \in {"posted", "answered", "between"}
      BY <1>2, <2>2 DEF IInv, TypeOK, WorkerInv
    <2>4. r[2] <= attempt[w]
      BY <1>2, <2>3 DEF FreshInv, Posts
    <2> QED
      BY <2>1, <2>2, <2>4, AgentAssumption
  <1> QED
    BY <1>1, <1>2 DEF CountedByAttempt

(* A metric is not counted more often than it was posted, and not before   *)
(* it left the queue: repeating a send is the only way to count it twice   *)
(* (main.go:167-227, util.go:21-35).                                       *)
THEOREM CountsFollowAttempts == Spec => []CountedByAttempt
  BY InitInv, InvStep, JobsInit, JobsStep, FreshInit, FreshStep, FreshCounts, PTL DEF Spec

-----------------------------------------------------------------------------
(* An answer on its way to a worker is that of the request it waits for:   *)
(* its metric has been added, but for what a database may have lost.       *)
AnswerInv ==
    \A w \in Workers : at[w] = "answered" => Database \/ <<job[w], attempt[w]>> \in served

DeliveryInv == AnswerInv /\ SentIsServed

LEMMA DeliveryReturn ==
  ASSUME IInv, DeliveryInv, NEW w \in Workers, NEW f \in Fates, Return(w, f),
         f = "sent" => Answered(w), lost \subseteq lost'
  PROVE  DeliveryInv'
  <1>1. /\ at' = [at EXCEPT ![w] = "idle"] /\ job' = [job EXCEPT ![w] = NoJob]
        /\ attempt' = [attempt EXCEPT ![w] = 0]
        /\ fate' = [fate EXCEPT ![job[w]] = f] /\ served' = served
    BY DEF Return
  <1>2. AnswerInv'
    BY <1>1 DEF DeliveryInv, AnswerInv, IInv, TypeOK
  <1>3. ASSUME NEW j \in Jobs, fate'[j] = "sent"
        PROVE  (\E r \in served' : r[1] = j) \/ (Database /\ j \in lost')
    <2>1. CASE j = job[w]
      <3>1. Answered(w)
        BY <1>1, <1>3, <2>1 DEF IInv, TypeOK
      <3>2. CASE <<job[w], attempt[w]>> \in served
        BY <1>1, <2>1, <3>2
      <3>3. CASE <<job[w], attempt[w]>> \notin served
        BY <2>1, <3>1, <3>3 DEF Answered, DeliveryInv, AnswerInv
      <3> QED
        BY <3>2, <3>3
    <2>2. CASE j # job[w]
      BY <1>1, <1>3, <2>2 DEF DeliveryInv, SentIsServed, IInv, TypeOK
    <2> QED
      BY <2>1, <2>2
  <1> QED
    BY <1>2, <1>3 DEF DeliveryInv, SentIsServed

LEMMA DeliveryBatch ==
  ASSUME IInv, DeliveryInv, BatchReporter
  PROVE  DeliveryInv'
  <1>1. UNCHANGED <<at, job, attempt, served, lost>>
    BY DEF BatchReporter, BatchTick, BatchStop, Call, BatchSent, BatchRefused, BatchFails,
           BatchCancelled, CallEnds, workerVars
  <1>2. ASSUME NEW j \in Jobs, fate'[j] = "sent"
        PROVE  (\E r \in served : r[1] = j) \/ (Database /\ j \in lost)
    <2>1. CASE fate[j] = "sent"
      BY <2>1 DEF DeliveryInv, SentIsServed
    <2>2. CASE fate[j] # "sent"
      <3>1. BatchSent /\ j \in batch
        BY <1>2, <2>2 DEF BatchReporter, BatchTick, BatchStop, Call, BatchSent, BatchRefused,
                          BatchFails, BatchCancelled, CallEnds
      <3>2. <<j, 0>> \in served
        BY <3>1 DEF BatchSent, RPC
      <3> QED
        BY <3>2
    <2> QED
      BY <2>1, <2>2
  <1> QED
    BY <1>1, <1>2 DEF DeliveryInv, AnswerInv, SentIsServed

LEMMA DeliveryStep == IInv /\ DeliveryInv /\ [Next]_agentVars => DeliveryInv'
  <1> SUFFICES ASSUME IInv, DeliveryInv, [Next]_agentVars PROVE DeliveryInv'
    OBVIOUS
  <1>1. CASE UNCHANGED <<at, job, attempt, served, lost, fate>>
    BY <1>1 DEF DeliveryInv, AnswerInv, SentIsServed
  <1>2. CASE Collectors
    BY <1>1, <1>2 DEF Collectors, UpdateMetrics, UpdateMemory, UpdateCpu, RuntimeStops,
                      GopsutilStops, workerVars, serverVars
  <1>3. CASE Reporter
    <2>1. CASE ReporterReturns
      <3>1. UNCHANGED <<at, job, attempt, served, lost>>
            /\ \A j \in Jobs : fate'[j] = "sent" => fate[j] = "sent"
        BY <2>1 DEF ReporterReturns, workerVars, serverVars
      <3> QED
        BY <3>1 DEF DeliveryInv, AnswerInv, SentIsServed
    <2> QED
      BY <1>1, <1>3, <2>1 DEF Reporter, ReportTick, ReportStop, Collect, Enqueue, LoopEnds,
                              workerVars, serverVars
  <1>4. CASE Clock
    BY <1>1, <1>4, ClockStep DEF OthersSame, workerVars, serverVars
  <1>5. ASSUME NEW w \in Workers, Worker(w) PROVE DeliveryInv'
    <2>1. CASE \/ Answered(w) \/ Refused(w) \/ Exhausted(w)
               \/ EncryptFails(w) \/ Abandon(w)
      <3>1. lost \subseteq lost'
        BY <2>1 DEF Answered, Refused, Exhausted, EncryptFails, Abandon
      <3> QED
        BY <2>1, <3>1, Returns, DeliveryReturn
    <2>2. CASE Take(w)
      BY <2>2 DEF Take, DeliveryInv, AnswerInv, SentIsServed, IInv, TypeOK
    <2>3. CASE ConnError(w) \/ Retry(w) \/ RangeEnds(w)
      <3>1. /\ UNCHANGED <<job, served, lost, fate>>
            /\ \A v \in Workers : at'[v] = "answered" =>
                 at[v] = "answered" /\ attempt'[v] = attempt[v]
        BY <2>3 DEF ConnError, Retry, RangeEnds, serverVars, IInv, TypeOK
      <3> QED
        BY <3>1 DEF DeliveryInv, AnswerInv, SentIsServed
    <2>4. CASE Unmade(w)
      <3>1. /\ UNCHANGED <<at, job, attempt, served, lost>>
            /\ \A j \in Jobs : fate'[j] = "sent" => fate[j] = "sent"
        BY <2>4 DEF Unmade, workerVars, serverVars, IInv, TypeOK
      <3> QED
        BY <3>1 DEF DeliveryInv, AnswerInv, SentIsServed
    <2> QED
      BY <1>5, <2>1, <2>2, <2>3, <2>4 DEF Worker
  <1>6. ASSUME NEW r \in wire, Serve(r) PROVE DeliveryInv'
    <2>1. ASSUME NEW w \in Workers, at'[w] = "answered"
          PROVE  Database \/ <<job'[w], attempt'[w]>> \in served'
      <3>1. /\ UNCHANGED <<job, attempt>> /\ served \subseteq served'
            /\ Database \/ r \in served'
        BY <1>6 DEF Serve
      <3>2. at[w] = "answered" \/ <<job[w], attempt[w]>> = r
        BY <1>6, <2>1 DEF Serve
      <3> QED
        BY <3>1, <3>2 DEF DeliveryInv, AnswerInv
    <2>2. SentIsServed'
      BY <1>6 DEF Serve, DeliveryInv, SentIsServed
    <2> QED
      BY <2>1, <2>2 DEF DeliveryInv, AnswerInv
  <1>7. CASE UNCHANGED agentVars
    BY <1>1, <1>7 DEF agentVars, workerVars, serverVars
  <1>8. ASSUME NEW s, ServeBatch(s) PROVE DeliveryInv'
    BY <1>8 DEF ServeBatch, workerVars, DeliveryInv, AnswerInv, SentIsServed
  <1> QED
    BY <1>2, <1>3, <1>4, <1>5, <1>6, <1>7, <1>8, DeliveryBatch DEF Next

LEMMA DeliveryInit == Init => DeliveryInv
  BY DEF Init, DeliveryInv, AnswerInv, SentIsServed

(* When SendMetric returns nil the server has answered 200 and has the     *)
(* metric (util.go:21-35, sender.go:96-159), for any number of retries and *)
(* late requests; one that keeps its metrics in PostgreSQL may have        *)
(* answered so for a metric it lost, and one in memory never does.         *)
THEOREM SentMeansServed == Spec => []SentIsServed
  <1>1. DeliveryInv => SentIsServed
    BY DEF DeliveryInv
  <1> QED
    BY <1>1, InitInv, InvStep, DeliveryInit, DeliveryStep, PTL DEF Spec

-----------------------------------------------------------------------------
(* A worker leaves its loop only when the channel is closed and empty; in  *)
(* gRPC mode there is nothing in it.                                       *)
StopInv ==
    /\ (\E w \in Workers : at[w] = "gone")
         => reporter \in {"gone", "ticking", "calling", "lastCall"} /\ jobs = <<>>
    /\ main = "graceful" => reporter = "gone" /\ \A w \in Workers : at[w] = "gone"

LEMMA StopStep == IInv /\ StopInv /\ [Next]_agentVars => StopInv'
  <1> SUFFICES ASSUME IInv, StopInv, [Next]_agentVars PROVE StopInv'
    OBVIOUS
  <1>0. main = "graceful" => ~Alive
    BY DEF Alive, Ends
  <1>1. CASE UNCHANGED <<at, reporter, jobs, main>>
    BY <1>1 DEF StopInv
  <1>2. CASE Collectors
    BY <1>1, <1>2 DEF Collectors, UpdateMetrics, UpdateMemory, UpdateCpu, RuntimeStops,
                      GopsutilStops, workerVars, reporterVars, clockVars
  <1>3. CASE Reporter
    <2>1. Alive /\ UNCHANGED <<at, main>>
      BY <1>3 DEF Reporter, ReportTick, ReportStop, Collect, Enqueue, LoopEnds,
                  ReporterReturns, workerVars, clockVars
    <2>2. reporter \in {"waiting", "dispatching", "flushing"}
      BY <1>3 DEF Reporter, ReportTick, ReportStop, Enqueue, LoopEnds, ReporterReturns,
                  Interrupted
    <2> QED
      BY <1>0, <2>1, <2>2 DEF StopInv
  <1>4. CASE Clock
    <2>1. UNCHANGED <<at, reporter, jobs>>
      BY <1>4, ClockStep DEF OthersSame, workerVars, reporterVars
    <2>2. main' = "graceful" => main = "graceful" \/ AllGone
      BY <1>4 DEF Clock, Signal, DrainExpires, ShutdownTimeout, StopGracefully, ForceExit
    <2> QED
      BY <2>1, <2>2 DEF StopInv, AllGone
  <1>5. ASSUME NEW w \in Workers, Worker(w) PROVE StopInv'
    <2>1. Alive /\ main' = main /\ reporter' = reporter
      BY <1>5 DEF Worker, Take, Unmade, Answered, Refused, ConnError, Exhausted, NoAnswer,
                  Retry, EncryptFails, Abandon, GiveUp, Return, RangeEnds, reporterVars, clockVars
    <2>2. CASE Take(w) \/ Unmade(w)
      BY <1>0, <2>1, <2>2 DEF Take, Unmade, workerVars, StopInv, IInv, TypeOK
    <2>3. CASE RangeEnds(w)
      BY <1>0, <2>1, <2>3 DEF RangeEnds, Closed, StopInv, IInv, TypeOK
    <2>4. CASE \/ Answered(w) \/ Refused(w) \/ Exhausted(w) \/ EncryptFails(w)
               \/ Abandon(w) \/ ConnError(w) \/ Retry(w)
      <3>1. jobs' = jobs /\ \A v \in Workers : at'[v] = "gone" => at[v] = "gone"
        BY <2>4 DEF Answered, Refused, ConnError, Exhausted, NoAnswer, Retry,
                    EncryptFails, Abandon, GiveUp, Return, IInv, TypeOK
      <3> QED
        BY <1>0, <2>1, <3>1 DEF StopInv
    <2> QED
      BY <1>5, <2>2, <2>3, <2>4 DEF Worker
  <1>6. ASSUME NEW r \in wire, Serve(r) PROVE StopInv'
    BY <1>6 DEF Serve, StopInv, reporterVars, clockVars, IInv, TypeOK
  <1>7. CASE UNCHANGED agentVars
    BY <1>1, <1>7 DEF agentVars, workerVars, reporterVars, clockVars
  <1>8. CASE BatchReporter
    <2>1. Alive /\ UNCHANGED <<at, jobs, main>>
      BY <1>8 DEF BatchReporter, BatchTick, BatchStop, Call, BatchSent, BatchRefused,
                  BatchFails, BatchCancelled, CallEnds, workerVars, clockVars
    <2>2. reporter' \in {"gone", "ticking", "calling", "lastCall"}
      BY <1>8 DEF BatchReporter, BatchTick, BatchStop, BatchSent, BatchRefused,
                  BatchFails, BatchCancelled, CallEnds
    <2> QED
      BY <1>0, <2>1, <2>2 DEF StopInv
  <1>9. ASSUME NEW s, ServeBatch(s) PROVE StopInv'
    BY <1>1, <1>9 DEF ServeBatch, workerVars, reporterVars, clockVars
  <1> QED
    BY <1>2, <1>3, <1>4, <1>5, <1>6, <1>7, <1>8, <1>9 DEF Next

LEMMA StopInit == Init => StopInv
  BY DEF Init, StopInv

LEMMA StopComplete == IInv /\ JobsConserved /\ StopInv => GracefulIsComplete
  <1> SUFFICES ASSUME IInv, JobsConserved, StopInv, main = "graceful"
               PROVE  Taken = Settled
    BY DEF GracefulIsComplete
  <1>1. \A w \in Workers : at[w] = "gone"
    BY DEF StopInv
  <1>2. reporter = "gone" /\ jobs = <<>>
    BY <1>1, AgentAssumption DEF StopInv
  <1>3. batch = {} /\ Queued = {}
    BY <1>2 DEF IInv, ReporterInv, Queued
  <1>4. InHand = {}
    BY <1>1 DEF IInv, WorkerInv, InHand
  <1> QED
    BY <1>3, <1>4 DEF JobsConserved

(* "Agent stopped gracefully" is said only when every metric taken from    *)
(* the collector has been sent or given up (main.go:236-246).              *)
THEOREM GracefulStop == Spec => []GracefulIsComplete
  BY InitInv, InvStep, JobsInit, JobsStep, StopInit, StopStep, StopComplete, PTL DEF Spec

-----------------------------------------------------------------------------
(* Before the signal. *)

Kept == {"none", "sent", "refused", "exhausted", "unmade"}

(* The reporter flushes, and a send uses drainCtx, only after the signal.  *)
Undisturbed ==
    ~ctxDone => /\ reporter \in {"waiting", "dispatching", "ticking", "calling"}
                /\ \A w \in Workers : sendCtx[w] = "ctx"
                /\ \A j \in Jobs : fate[j] \in Kept

LEMMA ReturnKept ==
  ASSUME IInv, Undisturbed, NEW w \in Workers, NEW f \in Kept, Return(w, f), ~ctxDone
  PROVE  Undisturbed'
  <1>1. fate \in [Jobs -> Fates \cup {"none"}] /\ sendCtx \in [Workers -> {"ctx", "drain"}]
    BY DEF IInv, TypeOK
  <1>2. \A j \in Jobs : fate'[j] \in Kept
    BY <1>1 DEF Undisturbed, Return
  <1>3. \A v \in Workers : sendCtx'[v] = "ctx"
    BY <1>1 DEF Undisturbed, Return
  <1>4. UNCHANGED <<reporter, ctxDone>>
    BY DEF Return, reporterVars, clockVars
  <1> QED
    BY <1>2, <1>3, <1>4 DEF Undisturbed

LEMMA UndisturbedStep == IInv /\ Undisturbed /\ [Next]_agentVars => Undisturbed'
  <1> SUFFICES ASSUME IInv, Undisturbed, [Next]_agentVars PROVE Undisturbed'
    OBVIOUS
  <1>1. CASE ctxDone
    <2>1. ctxDone \in BOOLEAN
      BY DEF IInv, TypeOK
    <2>2. ctxDone'
      BY <1>1 DEF Next, Collectors, UpdateMetrics, UpdateMemory, UpdateCpu, RuntimeStops,
           GopsutilStops, Reporter, ReportTick, ReportStop, Collect, Enqueue, LoopEnds,
           ReporterReturns, Clock, Signal, DrainExpires, ShutdownTimeout, StopGracefully,
           ForceExit, Worker, Take, Unmade, Answered, Refused, ConnError, Exhausted, Retry,
           EncryptFails, Abandon, GiveUp, RangeEnds, Return, Serve, ServeBatch, BatchReporter, BatchTick, BatchStop,
           Call, BatchSent, BatchRefused, BatchFails, BatchCancelled, CallEnds,
           agentVars, clockVars
    <2> QED
      BY <2>2 DEF Undisturbed
  <1>2. CASE ~ctxDone
    <2>1. CASE \/ Collectors \/ Clock \/ UNCHANGED agentVars
               \/ \E r \in wire : Serve(r) \/ ServeBatch(r[1][1])
      <3>1. UNCHANGED <<reporter, sendCtx, fate>>
        BY <2>1 DEF Collectors, UpdateMetrics, UpdateMemory, UpdateCpu, RuntimeStops,
             GopsutilStops, Clock, Signal, DrainExpires, ShutdownTimeout, StopGracefully,
             ForceExit, OthersSame, Serve, ServeBatch, agentVars, reporterVars, workerVars
      <3> QED
        BY <1>2, <3>1 DEF Undisturbed
    <2>2. CASE Reporter
      <3>1. UNCHANGED <<sendCtx, fate, ctxDone>>
            /\ reporter' \in {"waiting", "dispatching", "ticking", "calling"}
        BY <1>2, <2>2 DEF Undisturbed, Reporter, ReportTick, ReportStop, Collect, Enqueue,
             LoopEnds, ReporterReturns, Interrupted, workerVars, clockVars
      <3> QED
        BY <1>2, <3>1 DEF Undisturbed
    <2>4. CASE BatchReporter
      <3>1. UNCHANGED <<sendCtx, ctxDone>>
        BY <2>4 DEF BatchReporter, BatchTick, BatchStop, Call, BatchSent, BatchRefused,
             BatchFails, BatchCancelled, CallEnds, workerVars, clockVars
      <3>2. CASE BatchTick \/ BatchStop
        <4>1. fate' = fate /\ reporter' = "calling"
          BY <1>2, <3>2 DEF BatchTick, BatchStop, Call
        <4> QED
          BY <1>2, <3>1, <4>1 DEF Undisturbed
      <3>3. CASE BatchSent \/ BatchRefused \/ BatchFails \/ BatchCancelled
        <4>1. \E f \in Kept : CallEnds(f) /\ reporter = "calling"
          BY <1>2, <3>3 DEF BatchSent, BatchRefused, BatchFails, BatchCancelled, Calling,
                            Undisturbed, Kept
        <4>2. reporter' = "ticking" /\ \A j \in Jobs : fate'[j] \in Kept
          BY <1>2, <4>1 DEF CallEnds, Undisturbed
        <4> QED
          BY <1>2, <3>1, <4>2 DEF Undisturbed
      <3> QED
        BY <2>4, <3>2, <3>3 DEF BatchReporter
    <2>3. ASSUME NEW w \in Workers, Worker(w) PROVE Undisturbed'
      <3>1. CASE Take(w) \/ ConnError(w) \/ Retry(w) \/ RangeEnds(w)
        <4>1. UNCHANGED <<reporter, fate, ctxDone>>
          BY <3>1 DEF Take, ConnError, Retry, RangeEnds, reporterVars, clockVars
        <4>2. \A v \in Workers : sendCtx'[v] = "ctx"
          BY <1>2, <3>1 DEF Undisturbed, Take, ConnError, Retry, RangeEnds, IInv, TypeOK
        <4> QED
          BY <1>2, <4>1, <4>2 DEF Undisturbed
      <3>2. CASE Answered(w) \/ Refused(w) \/ Exhausted(w) \/ EncryptFails(w)
        BY <1>2, <3>2, ReturnKept DEF Answered, Refused, Exhausted, EncryptFails, Kept
      <3>4. CASE Unmade(w)
        <4>1. /\ UNCHANGED <<reporter, sendCtx, ctxDone>>
              /\ \A j \in Jobs : fate'[j] \in Kept
          BY <1>2, <3>4
             DEF Unmade, reporterVars, workerVars, clockVars, Undisturbed, Kept, IInv, TypeOK
        <4> QED
          BY <1>2, <4>1 DEF Undisturbed
      <3>3. ~Abandon(w)
        BY <1>2 DEF Abandon, GiveUp, Undisturbed
      <3> QED
        BY <2>3, <3>1, <3>2, <3>3, <3>4 DEF Worker
    <2> QED
      BY <2>1, <2>2, <2>3, <2>4 DEF Next
  <1> QED
    BY <1>1, <1>2

(* Nothing is given up before the signal but what cannot be made, what the *)
(* server refuses and what it cannot be reached for, for any number of     *)
(* workers, jobs and retries: that drainCtx ends 30 s after the start      *)
(* costs nothing (main.go:87).                                             *)
THEOREM NothingGivenUpEarly == Spec => []NoLossBeforeSignal
  <1>1. Init => Undisturbed
    BY DEF Init, Undisturbed, Kept
  <1>2. Undisturbed => NoLossBeforeSignal
    BY DEF Undisturbed, NoLossBeforeSignal, Kept
  <1> QED
    BY <1>1, <1>2, InitInv, InvStep, UndisturbedStep, PTL DEF Spec

-----------------------------------------------------------------------------
(***************************************************************************)
(* The order of the snapshots.  The queue is sorted by snapshot because    *)
(* the loop queues one of them to its end before the next is taken, and    *)
(* because nothing goes back to it; in gRPC mode it stays empty.           *)
(***************************************************************************)
PostedJobs == {r[1] : r \in wire \cup served}
ByRPC == reporter \in {"ticking", "calling", "lastCall"}
Ordered(s) == \A i, k \in 1..Len(s) : i < k => s[i][1] <= s[k][1]

OrderInv ==
    /\ Ordered(jobs)
    /\ \A j \in batch : j[1] = Len(snap)
    /\ ByRPC => jobs = <<>> /\ InHand = {}
    /\ OldestFirst

LEMMA OldestFirstIs ==
  OldestFirst <=>
    /\ \A j \in batch \cup Queued : \A k \in InHand \cup PostedJobs : k[1] <= j[1]
    /\ Cardinality(Workers) = 1 => \A j \in InHand : \A k \in PostedJobs : k[1] <= j[1]
  BY DEF OldestFirst, PostedJobs

LEMMA OneWorker ==
  ASSUME Cardinality(Workers) = 1
  PROVE  \A v, w \in Workers : v = w
  BY AgentAssumption, FS_Singleton

(* Fewer or the same metrics wait, and fewer or the same ones are out. *)
LEMMA OldestFirstKept ==
  ASSUME OldestFirst, batch' \cup Queued' \subseteq batch \cup Queued,
         InHand' \subseteq InHand, PostedJobs' \subseteq PostedJobs
  PROVE  OldestFirst'
  <1>1. /\ \A j \in batch' \cup Queued' : \A k \in InHand' \cup PostedJobs' : k[1] <= j[1]
        /\ Cardinality(Workers) = 1 => \A j \in InHand' : \A k \in PostedJobs' : k[1] <= j[1]
    BY OldestFirstIs
  <1> QED
    BY <1>1 DEF OldestFirst, PostedJobs

LEMMA PostedMore ==
  ASSUME NEW j, NEW a, wire' = wire \cup {<<j, a>>}, UNCHANGED served
  PROVE  PostedJobs' = PostedJobs \cup {j}
  <1>1. PICK p : p = <<j, a>>
    OBVIOUS
  <1>2. p[1] = j
    BY <1>1
  <1>3. wire' = wire \cup {p}
    BY <1>1
  <1> QED
    BY <1>2, <1>3 DEF PostedJobs

LEMMA OrderInit == Init => OrderInv
  <1> SUFFICES ASSUME Init PROVE OrderInv
    OBVIOUS
  <1>1. jobs = <<>> /\ Len(jobs) = 0 /\ batch = {} /\ wire = {} /\ served = {}
    BY DEF Init
  <1>2. Queued = {} /\ InHand = {} /\ PostedJobs = {}
    BY <1>1 DEF Init, Queued, InHand, PostedJobs
  <1> QED
    BY <1>1, <1>2, OldestFirstIs DEF OrderInv, Ordered

(* Whatever is anywhere is of a snapshot that was taken. *)
LEMMA SnapshotOf ==
  ASSUME IInv, JobsConserved, FreshInv
  PROVE  /\ Len(snap) \in Nat
         /\ \A j \in batch \cup Queued \cup InHand \cup PostedJobs : j \in Jobs /\ j[1] \in 1..Len(snap)
  <1>1. Len(snap) \in Nat
    BY DEF IInv, TypeOK
  <1>2. batch \cup Queued \cup InHand \cup PostedJobs \subseteq Taken
    BY DEF JobsConserved, FreshInv, Posts, PostedJobs
  <1> QED
    BY <1>1, <1>2 DEF Taken

(* Nothing is queued, taken or posted. *)
LEMMA OrderKept ==
  ASSUME OrderInv, UNCHANGED <<jobs, snap>>, batch' \subseteq batch,
         InHand' \subseteq InHand, PostedJobs' \subseteq PostedJobs, ByRPC' => ByRPC
  PROVE  OrderInv'
  <1>1. Queued' = Queued
    BY DEF Queued
  <1>2. OldestFirst'
    BY <1>1, OldestFirstIs, OldestFirstKept DEF OrderInv
  <1> QED
    BY <1>2 DEF OrderInv, Ordered

(* A snapshot is taken: it is later than everything there is. *)
LEMMA OrderCollect ==
  ASSUME IInv, JobsConserved, FreshInv, OrderInv, GetAllMetrics, Len(snap) <= MaxReports,
         UNCHANGED <<jobs, job, served>>, wire' \subseteq wire \cup RPC(batch'),
         ByRPC <=> ByRPC', ~ByRPC => wire' = wire
  PROVE  OrderInv'
  <1>1. /\ Len(snap') = Len(snap) + 1
        /\ \A j \in batch' : j[1] = Len(snap) + 1
    BY CollectType DEF GetAllMetrics
  <1>2. Queued' = Queued /\ InHand' = InHand
    BY DEF Queued, InHand
  <1>3. PostedJobs' \subseteq PostedJobs \cup batch' /\ (~ByRPC => PostedJobs' = PostedJobs)
    BY DEF PostedJobs, RPC
  <1>4. ByRPC => Queued = {} /\ InHand = {}
    BY DEF OrderInv, Queued
  <1>5. \A j \in batch' \cup Queued' : \A k \in InHand' \cup PostedJobs' : k[1] <= j[1]
    <2> SUFFICES ASSUME NEW j \in batch' \cup Queued', NEW k \in InHand' \cup PostedJobs'
                 PROVE  k[1] <= j[1]
      OBVIOUS
    <2>1. CASE j \in batch'
      <3>1. Len(snap) \in Nat /\ (k \in batch' \/ k[1] \in 1..Len(snap))
        BY <1>2, <1>3, SnapshotOf
      <3> QED
        BY <1>1, <2>1, <3>1
    <2>2. CASE j \notin batch'
      <3>1. ~ByRPC /\ j \in Queued
        BY <1>2, <1>4, <2>2
      <3> QED
        BY <1>2, <1>3, <3>1, OldestFirstIs DEF OrderInv
    <2> QED
      BY <2>1, <2>2
  <1>6. Cardinality(Workers) = 1 => \A j \in InHand' : \A k \in PostedJobs' : k[1] <= j[1]
    BY <1>2, <1>3, <1>4, OldestFirstIs DEF OrderInv
  <1>7. OldestFirst'
    BY <1>5, <1>6 DEF OldestFirst, PostedJobs
  <1> QED
    BY <1>1, <1>2, <1>7 DEF OrderInv, Ordered

LEMMA OrderEnqueue ==
  ASSUME IInv, JobsConserved, FreshInv, OrderInv, NEW j \in batch, Enqueue(j)
  PROVE  OrderInv'
  <1>1. jobs \in Seq(Jobs) /\ j \in Jobs /\ Distinct(jobs) /\ j \notin Elems(jobs)
    BY QueuedElems DEF IInv, TypeOK, JobsConserved, Distinct
  <1>2. /\ jobs' = Append(jobs, j) /\ batch' = batch \ {j}
        /\ UNCHANGED <<snap, reporter, job, wire, served>>
    BY DEF Enqueue, workerVars, serverVars
  <1>3. Queued' = Queued \cup {j}
    BY <1>1, <1>2, ElemsAppend, QueuedElems
  <1>4. InHand' = InHand /\ PostedJobs' = PostedJobs
    BY <1>2 DEF InHand, PostedJobs
  <1>5. \A i \in 1..Len(jobs) : jobs[i][1] <= j[1]
    <2> SUFFICES ASSUME NEW i \in 1..Len(jobs) PROVE jobs[i][1] <= j[1]
      OBVIOUS
    <2>1. Len(snap) \in Nat /\ jobs[i][1] \in 1..Len(snap)
      BY SnapshotOf DEF Queued
    <2> QED
      BY <2>1 DEF OrderInv
  <1>6. Ordered(jobs')
    <2>1. /\ Len(jobs') = Len(jobs) + 1 /\ Len(jobs) \in Nat /\ jobs'[Len(jobs) + 1] = j
          /\ \A i \in 1..Len(jobs) : jobs'[i] = jobs[i]
      BY <1>1, <1>2
    <2> QED
      BY <1>5, <2>1 DEF OrderInv, Ordered
  <1>7. OldestFirst'
    <2>1. batch' \cup Queued' = batch \cup Queued
      BY <1>2, <1>3
    <2> QED
      BY <1>4, <2>1, OldestFirstIs, OldestFirstKept DEF OrderInv
  <1> QED
    BY <1>2, <1>4, <1>6, <1>7 DEF OrderInv, ByRPC, Enqueue

(* A worker takes the oldest job there is. *)
LEMMA OrderTake ==
  ASSUME IInv, JobsConserved, FreshInv, OrderInv, NEW w \in Workers, Take(w)
  PROVE  OrderInv'
  <1> DEFINE h == Head(jobs)
  <1>1. /\ jobs \in Seq(Jobs) /\ jobs # <<>> /\ Distinct(jobs) /\ h \in Jobs
        /\ job \in [Workers -> Jobs \cup {NoJob}] /\ job[w] = NoJob
    BY DEF Take, IInv, TypeOK, WorkerInv, JobsConserved, Distinct
  <1>2. Queued = {h} \cup Queued' /\ h \notin Queued'
    BY <1>1, ElemsTail, QueuedElems DEF Take
  <1>3. /\ jobs' = Tail(jobs) /\ job' = [job EXCEPT ![w] = h] /\ wire' = wire \cup {<<h, 1>>}
        /\ UNCHANGED <<snap, reporter, batch, served>>
    BY DEF Take, reporterVars
  <1>4. InHand' = InHand \cup {h} /\ PostedJobs' = PostedJobs \cup {h}
    <2>1. PostedJobs' = PostedJobs \cup {h}
      BY <1>3, PostedMore
    <2>2. h # NoJob
      BY <1>1, AgentAssumption
    <2> HIDE DEF h
    <2>3. InHand' = InHand \cup {h}
      BY <1>1, <1>3, <2>2 DEF InHand
    <2> QED
      BY <2>1, <2>3
  <1>5. Ordered(jobs') /\ \A j \in Queued' : h[1] <= j[1]
    <2>1. /\ Len(jobs) \in Nat /\ Len(jobs) >= 1 /\ Len(jobs') = Len(jobs) - 1 /\ h = jobs[1]
          /\ \A i \in 1..Len(jobs) - 1 : jobs'[i] = jobs[i + 1]
      BY <1>1, <1>3
    <2>2. Ordered(jobs')
      BY <2>1 DEF OrderInv, Ordered
    <2>3. ASSUME NEW j \in Queued' PROVE h[1] <= j[1]
      <3>1. PICK i \in 1..Len(jobs) - 1 : j = jobs[i + 1]
        BY <2>1 DEF Queued
      <3> QED
        BY <2>1, <3>1 DEF OrderInv, Ordered
    <2> QED
      BY <2>2, <2>3
  <1>6. h \in Queued /\ h[1] \in Nat
    BY <1>1, <1>2, JobParts
  <1>7. \A j \in batch : h[1] <= j[1]
    <2>1. Len(snap) \in Nat /\ h[1] \in 1..Len(snap)
      BY <1>6, SnapshotOf
    <2> QED
      BY <2>1 DEF OrderInv
  <1>8. \A k \in PostedJobs' : k[1] <= h[1]
    BY <1>4, <1>6, OldestFirstIs DEF OrderInv
  <1> HIDE DEF h
  <1>9. \A j \in batch' \cup Queued' : \A k \in InHand' \cup PostedJobs' : k[1] <= j[1]
    BY <1>2, <1>3, <1>4, <1>5, <1>7, OldestFirstIs DEF OrderInv
  <1>10. Cardinality(Workers) = 1 => \A j \in InHand' : \A k \in PostedJobs' : k[1] <= j[1]
    <2> SUFFICES ASSUME Cardinality(Workers) = 1 PROVE InHand' = {h}
      BY <1>8
    <2>1. InHand = {}
      BY <1>1, OneWorker DEF InHand
    <2> QED
      BY <1>4, <2>1
  <1>11. OldestFirst'
    BY <1>9, <1>10 DEF OldestFirst, PostedJobs
  <1> QED
    BY <1>1, <1>3, <1>5, <1>11 DEF OrderInv, ByRPC

LEMMA OrderRetry ==
  ASSUME IInv, JobsConserved, FreshInv, OrderInv, NEW w \in Workers, Retry(w)
  PROVE  OrderInv'
  <1>1. job[w] \in Jobs /\ job[w] \in InHand
    BY Sending, AgentAssumption DEF Retry, InHand
  <1>2. /\ UNCHANGED <<snap, reporter, batch, jobs, job, served>>
        /\ wire' = wire \cup {<<job[w], attempt[w] + 1>>}
    BY DEF Retry, reporterVars
  <1>3. Queued' = Queued /\ InHand' = InHand /\ PostedJobs' = PostedJobs \cup {job[w]}
    BY <1>2, PostedMore DEF Queued, InHand
  <1>4. Cardinality(Workers) = 1 => \A j \in InHand' : \A k \in PostedJobs' : k[1] <= j[1]
    <2> SUFFICES ASSUME Cardinality(Workers) = 1, NEW j \in InHand', NEW k \in PostedJobs'
                 PROVE  k[1] <= j[1]
      OBVIOUS
    <2>1. j = job[w]
      BY <1>3, OneWorker DEF InHand
    <2>2. CASE k = job[w]
      BY <1>1, <2>1, <2>2, JobParts
    <2>3. CASE k \in PostedJobs
      BY <1>1, <2>1, <2>3, OldestFirstIs DEF OrderInv
    <2> QED
      BY <1>3, <2>2, <2>3
  <1>5. \A j \in batch' \cup Queued' : \A k \in InHand' \cup PostedJobs' : k[1] <= j[1]
    BY <1>1, <1>2, <1>3, OldestFirstIs DEF OrderInv
  <1>6. OldestFirst'
    BY <1>4, <1>5 DEF OldestFirst, PostedJobs
  <1> QED
    BY <1>2, <1>3, <1>6 DEF OrderInv, ByRPC

(* The oldest job there is leaves the queue unsent. *)
LEMMA OrderUnmade ==
  ASSUME IInv, JobsConserved, OrderInv, NEW w \in Workers, Unmade(w)
  PROVE  OrderInv'
  <1>1. jobs \in Seq(Jobs) /\ jobs # <<>> /\ Distinct(jobs)
    BY DEF Unmade, IInv, TypeOK, JobsConserved, Distinct
  <1>2. /\ jobs' = Tail(jobs) /\ UNCHANGED <<snap, reporter, batch, job, wire, served>>
    BY DEF Unmade, reporterVars, workerVars, serverVars
  <1>3. Queued' \subseteq Queued /\ InHand' = InHand /\ PostedJobs' = PostedJobs
    BY <1>1, <1>2, ElemsTail, QueuedElems DEF InHand, PostedJobs
  <1>4. OldestFirst'
    BY <1>2, <1>3, OldestFirstKept DEF OrderInv
  <1>5. Ordered(jobs')
    <2>1. /\ Len(jobs) \in Nat /\ Len(jobs') = Len(jobs) - 1
          /\ \A i \in 1..Len(jobs) - 1 : jobs'[i] = jobs[i + 1]
      BY <1>1, <1>2
    <2> QED
      BY <2>1 DEF OrderInv, Ordered
  <1> QED
    BY <1>1, <1>2, <1>3, <1>4, <1>5 DEF OrderInv, ByRPC

LEMMA OrderStep ==
  IInv /\ JobsConserved /\ FreshInv /\ OrderInv /\ [Next]_agentVars => OrderInv'
  <1> SUFFICES ASSUME IInv, JobsConserved, FreshInv, OrderInv, [Next]_agentVars
               PROVE  OrderInv'
    OBVIOUS
  <1>1. CASE Collectors \/ Clock \/ UNCHANGED agentVars
    <2>1. UNCHANGED <<snap, reporter, batch, jobs, job, wire, served>>
      BY <1>1, ClockStep
         DEF Collectors, UpdateMetrics, UpdateMemory, UpdateCpu, RuntimeStops, GopsutilStops,
             OthersSame, agentVars, reporterVars, workerVars, serverVars
    <2> QED
      BY <2>1, OrderKept DEF InHand, PostedJobs, ByRPC
  <1>2. CASE ReportTick \/ ReportStop
    <2>1. Collect /\ Len(snap) <= MaxReports /\ ~ByRPC /\ ~ByRPC'
      BY <1>2, AgentAssumption DEF ReportTick, ReportStop, IInv, ReporterInv, ByRPC
    <2> QED
      BY <2>1, OrderCollect DEF Collect, workerVars, serverVars
  <1>3. CASE BatchTick \/ BatchStop
    <2>1. /\ GetAllMetrics /\ Len(snap) <= MaxReports /\ ByRPC /\ ByRPC'
          /\ wire' \subseteq wire \cup RPC(batch') /\ UNCHANGED <<jobs, job, served>>
      BY <1>3, AgentAssumption DEF BatchTick, BatchStop, Call, workerVars, IInv, ReporterInv, ByRPC
    <2> QED
      BY <2>1, OrderCollect
  <1>4. CASE LoopEnds \/ ReporterReturns
    <2>1. UNCHANGED <<snap, jobs, job, wire, served>> /\ batch' \subseteq batch /\ ~ByRPC'
      BY <1>4 DEF LoopEnds, ReporterReturns, workerVars, serverVars, ByRPC
    <2> QED
      BY <2>1, OrderKept DEF InHand, PostedJobs
  <1>5. CASE BatchSent \/ BatchRefused \/ BatchFails \/ BatchCancelled
    <2>1. PICK f \in Fates : Calling /\ CallEnds(f) /\ wire' \subseteq wire
      BY <1>5, CallEndings
    <2>2. UNCHANGED <<snap, jobs, job, served>> /\ batch' = {} /\ ByRPC
      BY <2>1 DEF CallEnds, Calling, workerVars, ByRPC
    <2> QED
      BY <2>1, <2>2, OrderKept DEF InHand, PostedJobs
  <1>6. ASSUME NEW w \in Workers, Worker(w) PROVE OrderInv'
    <2>1. CASE \/ Answered(w) \/ Refused(w) \/ Exhausted(w)
               \/ EncryptFails(w) \/ Abandon(w)
      <3>1. /\ UNCHANGED <<snap, jobs, batch, reporter, served>> /\ wire' \subseteq wire
            /\ job' = [job EXCEPT ![w] = NoJob]
        BY <2>1, Returns DEF Return, reporterVars
      <3>2. InHand' \subseteq InHand
        BY <3>1 DEF InHand, IInv, TypeOK
      <3> QED
        BY <3>1, <3>2, OrderKept DEF PostedJobs, ByRPC
    <2>2. CASE ConnError(w) \/ RangeEnds(w)
      <3>1. UNCHANGED <<snap, jobs, job, batch, reporter, served>> /\ wire' \subseteq wire
        BY <2>2 DEF ConnError, RangeEnds, NoAnswer, reporterVars, serverVars
      <3> QED
        BY <3>1, OrderKept DEF InHand, PostedJobs, ByRPC
    <2>3. CASE Unmade(w)
      BY <2>3, OrderUnmade
    <2> QED
      BY <1>6, <2>1, <2>2, <2>3, OrderTake, OrderRetry DEF Worker
  <1>7. ASSUME NEW r \in wire, Serve(r) \/ ServeBatch(r[1][1]) PROVE OrderInv'
    <2>1. /\ UNCHANGED <<snap, jobs, job, batch, reporter>>
          /\ wire' \cup served' \subseteq wire \cup served
      BY <1>7 DEF Serve, ServeBatch, reporterVars, workerVars
    <2> QED
      BY <2>1, OrderKept DEF InHand, PostedJobs, ByRPC
  <1> QED
    BY <1>1, <1>2, <1>3, <1>4, <1>5, <1>6, <1>7, OrderEnqueue DEF Next, Reporter, BatchReporter

(* A later snapshot overtakes an earlier one only where requests are on    *)
(* their way together: with one worker the server gets the metrics of the  *)
(* snapshots in order, but for requests nobody waits for any more, and     *)
(* with more of them nothing in the loop or the queue is overtaken         *)
(* (main.go:167-227).                                                      *)
THEOREM SnapshotsInOrder == Spec => []OldestFirst
  <1>1. OrderInv => OldestFirst
    BY DEF OrderInv
  <1> QED
    BY <1>1, InitInv, InvStep, JobsInit, JobsStep, FreshInit, FreshStep, OrderInit, OrderStep,
       PTL DEF Spec

-----------------------------------------------------------------------------
(***************************************************************************)
(* Nobody waits for ever: what JobsSettle and SignalStops rest on besides  *)
(* fairness.  The only waits are for a bounded queue, of the reporter      *)
(* while it is full and of the workers while it is empty and open, and     *)
(* they are never all in one.                                              *)
(***************************************************************************)

(* A post comes to its end, if not with an answer, and so does a delay.    *)
WorkerCanGo(w) ==
    \/ at[w] \in {"posted", "answered", "between"}
    \/ at[w] = "idle" /\ (jobs # <<>> \/ Closed)

ReporterCanGo ==
    \/ reporter \in {"dispatching", "flushing"} /\ (batch = {} \/ Len(jobs) < Cap)
    \/ Calling
    \/ reporter \in {"waiting", "ticking"} /\ ctxDone

PoolCanGo == ReporterCanGo \/ \E w \in Workers : WorkerCanGo(w)

(* Some metric is not settled, or the signal has come and a goroutine is   *)
(* still there: then the reporter, a worker or that goroutine can go on.   *)
NeverStuck ==
    Alive =>
      /\ Taken # Settled => PoolCanGo
      /\ ctxDone => AllGone \/ runtime = "run" \/ gopsutil \in {"run", "between"} \/ PoolCanGo

LEMMA QueueIsServed ==
  ASSUME IInv, StopInv, jobs # <<>>
  PROVE  \E w \in Workers : WorkerCanGo(w)
  <1>1. PICK w \in Workers : TRUE
    BY AgentAssumption
  <1>2. at[w] \in {"idle", "posted", "answered", "between"}
    BY DEF StopInv, IInv, TypeOK
  <1> QED
    BY <1>2 DEF WorkerCanGo

LEMMA LoopIsServed ==
  ASSUME IInv, StopInv, reporter \in {"dispatching", "flushing", "calling", "lastCall"}
  PROVE  PoolCanGo
  <1>1. CASE reporter \in {"calling", "lastCall"} \/ Len(jobs) < Cap
    BY <1>1 DEF PoolCanGo, ReporterCanGo, Calling
  <1>2. CASE ~(Len(jobs) < Cap)
    <2>1. Cap \in Nat \ {0}
      BY AgentAssumption, FS_EmptySet, FS_CardinalityType DEF Cap
    <2>2. jobs # <<>>
      BY <1>2, <2>1
    <2> QED
      BY <2>2, QueueIsServed DEF PoolCanGo
  <1> QED
    BY <1>1, <1>2

LEMMA SomethingMoves == IInv /\ JobsConserved /\ StopInv => NeverStuck
  <1> SUFFICES ASSUME IInv, JobsConserved, StopInv
               PROVE  NeverStuck
    OBVIOUS
  <1>1. ASSUME Taken # Settled PROVE PoolCanGo
    <2>1. CASE batch # {}
      BY <2>1, LoopIsServed DEF IInv, TypeOK, ReporterInv
    <2>2. CASE Queued # {}
      <3>1. jobs # <<>>
        BY <2>2 DEF Queued
      <3> QED
        BY <3>1, QueueIsServed DEF PoolCanGo
    <2>3. CASE InHand # {}
      <3>1. PICK w \in Workers : job[w] # NoJob
        BY <2>3 DEF InHand
      <3> QED
        BY <3>1 DEF PoolCanGo, WorkerCanGo, IInv, TypeOK, WorkerInv
    <2> QED
      BY <1>1, <2>1, <2>2, <2>3 DEF JobsConserved
  <1>2. ASSUME ctxDone, ~AllGone, runtime # "run", gopsutil \notin {"run", "between"}
        PROVE  PoolCanGo
    <2>1. CASE reporter # "gone"
      <3>1. CASE reporter \in {"waiting", "ticking"}
        BY <1>2, <3>1 DEF PoolCanGo, ReporterCanGo
      <3> QED
        BY <2>1, <3>1, LoopIsServed DEF IInv, TypeOK
    <2>2. CASE reporter = "gone"
      <3>1. PICK w \in Workers : at[w] # "gone"
        BY <1>2, <2>2 DEF AllGone, IInv, TypeOK
      <3> QED
        BY <2>2, <3>1 DEF PoolCanGo, WorkerCanGo, Closed, IInv, TypeOK
    <2> QED
      BY <2>1, <2>2
  <1> QED
    BY <1>1, <1>2 DEF NeverStuck

(* For any number of workers the bounded queue never stops the pool, and   *)
(* the shutdown never waits for a goroutine that cannot go on              *)
(* (main.go:167-246).                                                      *)
THEOREM PoolNeverStuck == Spec => []NeverStuck
  BY InitInv, InvStep, JobsInit, JobsStep, StopInit, StopStep, SomethingMoves, PTL DEF Spec
=============================================================================
