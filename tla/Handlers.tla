------------------------------ MODULE Handlers ------------------------------
(***************************************************************************)
(* The server from its start to its end as its clients see it: run() of    *)
(* cmd/server/main.go with the handlers of internal/handler/handlers.go    *)
(* and internal/grpcserver, over the middleware of Transport and a         *)
(* configuration of Config.                                                *)
(*                                                                         *)
(* The storage is the sequence of the updates it has taken in, which is    *)
(* what MemStorage (Linearizable) and Postgres (Serializable) show of the  *)
(* two: an entry stands for the metrics of its request up to the first of  *)
(* unknown type.  What the audit queue does with an event it is offered is *)
(* Audit's.  A process that ends answers nobody.                           *)
(***************************************************************************)
EXTENDS Metrics, Config, Transport

CONSTANTS Call,        \* Call[r]: the route of request r, the metric it asks for, its sender
          Starts,      \* the sources of configuration the server is started with
          MaxReceived  \* bound: requests received

JSONUpdate == "POST /update"
Batch      == "POST /updates"
PathUpdate == "POST /update/type/name/value"
JSONValue  == "POST /value"
PathValue  == "GET /value/type/name"
Page       == "GET /"
RPC        == "UpdateMetrics"

HTTPUpdates == {JSONUpdate, Batch, PathUpdate}
Updates     == HTTPUpdates \cup {RPC}
Routes      == Updates \cup {JSONValue, PathValue, Page}

route(r) == Call[r].route

(* A sender with a configuration is an agent; other messages are as given. *)
FromAgent(r) == Call[r].agent # Nil
AgentConfig(r) == ParseAgentFlags(Call[r].agent)
Sent == [r \in Requests |-> IF ~FromAgent(r) THEN Call[r].message
                            ELSE IF route(r) = RPC THEN SendBatch(Call[r].ip)
                            ELSE Post(AgentConfig(r), Call[r].ip)]

WellFormed(m) == m.mtype # "unknown" /\ m.val # Nil

(* The agent posts one metric at a time, or a batch of them by RPC. *)
ASSUME CallAssumption ==
    \A r \in Requests :
      /\ route(r) \in Routes
      /\ route(r) \in {JSONUpdate, PathUpdate} => Len(Payload[r]) <= 1
      /\ FromAgent(r) => /\ route(r) \in {JSONUpdate, RPC}
                         /\ Len(Payload[r]) = 1 /\ WellFormed(Payload[r][1])
                         /\ AgentConfig(r) # NoConfig
      /\ ~FromAgent(r) => Fresh(Call[r].message)
      /\ Call[r].asks \in [mtype : MetricTypes, id : Names]

VARIABLES phase,   \* where run() is, see TypeOK
          cfg,     \* what ParseFlags returned
          asked,   \* history: what the sources asked for as config.go documents it,
                   \* but for the options a file sets to zero over a default
          log,     \* the updates the storage has taken in, in order
          at,      \* at[r]: where the handler of r is
          status,  \* status[r]: the status answered, "none" before
          since,   \* history: length of log when r passed the middleware, Nil before
          seen,    \* seen[r]: how much of log the gauges and counters answered are from
          event,   \* event[r]: what became of the audit event of r
          unseen   \* history: requests of which a storage error reached nobody but the log

requestVars == <<at, status, since, seen, event, unseen>>
handlersVars == <<phase, cfg, asked, log, requestVars>>

NotRead == [gauges |-> 0, counters |-> 0]

Init ==
    /\ phase = "starting"
    /\ cfg = NoConfig /\ asked = NoConfig
    /\ log = <<>>
    /\ at = [r \in Requests |-> "new"]
    /\ status = [r \in Requests |-> "none"]
    /\ since = [r \in Requests |-> Nil]
    /\ seen = [r \in Requests |-> NotRead]
    /\ event = [r \in Requests |-> "none"]
    /\ unseen = {}

-----------------------------------------------------------------------------
(* run(). *)

(* ParseFlags. *)
Configure(s) ==
    /\ phase = "starting"
    /\ ParseFlags(s) # NoConfig
    /\ phase' = "configured"
    /\ cfg' = ParseFlags(s)
    /\ asked' = [o \in DOMAIN ServerZero \ ZeroInFile(s) |-> Documented(s)[o]]
    /\ UNCHANGED <<log, requestVars>>

(* The options the handlers, the middleware and the RPCs depend on.  The   *)
(* others have done their part, and are dropped, once the server serves.   *)
Used == {"key", "crypto", "subnet", "dsn", "grpc", "auditFile", "auditURL"}
Only(c) == [o \in Used |-> c[o]]

Serve ==
    /\ phase = "configured"
    /\ cfg.subnet \in {""} \cup DOMAIN Inside
    /\ phase' = "serving"
    /\ cfg' = Only(cfg) /\ asked' = Only(asked)
    /\ UNCHANGED <<log, requestVars>>

(* An error of ParseFlags or ParseCIDR, or of the database, the audit file, *)
(* the private key or a listener, whichever the configuration names.       *)
Fail ==
    /\ phase \in {"starting", "configured"}
    /\ phase' = "failed"
    /\ UNCHANGED <<cfg, asked, log, requestVars>>

Database  == cfg.dsn # ""
Auditing  == cfg.auditFile # "" \/ cfg.auditURL # ""
Running   == phase \in {"serving", "stopping", "closing"}

(* A signal: Shutdown closes the listener and ListenAndServe returns, which *)
(* lets run() go on without the handlers that are still at work.           *)
Shutdown ==
    /\ phase = "serving"
    /\ phase' = "stopping"
    /\ UNCHANGED <<cfg, asked, log, requestVars>>

(* The deferred Close of the audit subject. *)
CloseAudit ==
    /\ phase = "stopping"
    /\ phase' = "closing"
    /\ UNCHANGED <<cfg, asked, log, requestVars>>

Exit ==
    /\ phase = "closing"
    /\ phase' = "ended"
    /\ at' = [r \in Requests |-> IF at[r] = "new" THEN "new" ELSE "replied"]
    /\ status' = [r \in Requests |->
                    IF at[r] \in {"new", "replied"} THEN status[r] ELSE "lost"]
    /\ UNCHANGED <<cfg, asked, log, since, seen, event, unseen>>

-----------------------------------------------------------------------------
(* What the storage holds after its first p updates. *)

Writes(q, mtype, n) ==
    \E i \in 1..ValidPrefix(q) :
        (mtype = "gauge" /\ Gauges(q, i, n)) \/ (mtype = "counter" /\ Counts(q, i, n))

Has(p, m) == \E i \in 1..p : Writes(log[i], m.mtype, m.id)

(* The gauge n is what its last writer made it. *)
IsNaN(p, n) ==
    \E i \in 1..p :
      /\ \A k \in i + 1..p : ~Writes(log[k], "gauge", n)
      /\ \E j \in 1..ValidPrefix(log[i]) :
           /\ Gauges(log[i], j, n) /\ Payload[log[i]][j].val = NaN
           /\ \A k \in j + 1..ValidPrefix(log[i]) : ~Gauges(log[i], k, n)

(* json.Marshal refuses the value of a gauge that is NaN. *)
Marshals(p, m) == ~(m.mtype = "gauge" /\ IsNaN(p, m.id))

Answered(r, code) ==
    /\ at' = [at EXCEPT ![r] = "replied"]
    /\ status' = [status EXCEPT ![r] = code]

-----------------------------------------------------------------------------
(* A request comes in. *)

(* What the handler answers before it turns to the storage, "" when it     *)
(* goes on.  A body that does not decode and a path without a name or a    *)
(* value have an empty payload; an RPC is converted as a whole, and its    *)
(* metrics of unknown type or without a name are "unknown".                *)
Verify(r) ==
    CASE route(r) = JSONUpdate ->
           IF Payload[r] # <<>> /\ WellFormed(Payload[r][1]) THEN "" ELSE "400"
      [] route(r) = PathUpdate ->
           IF Payload[r] = <<>> THEN "404"
           ELSE IF WellFormed(Payload[r][1]) THEN "" ELSE "400"
      [] route(r) = Batch -> IF Payload[r] # <<>> THEN "" ELSE "400"
      [] route(r) = RPC -> IF ValidPrefix(r) = Len(Payload[r]) THEN "" ELSE "400"
      [] route(r) = JSONValue -> IF Call[r].asks.mtype # "unknown" THEN "" ELSE "400"
      [] route(r) = PathValue -> IF Call[r].asks.mtype # "unknown" THEN "" ELSE "404"
      [] OTHER -> ""

(* A JSON body must have been unwrapped to the last layer to decode. *)
Decodes(r, m) == route(r) \in {JSONUpdate, Batch, JSONValue} => m.body = Plain

Passed(r) == IF route(r) = RPC THEN TrustedSubnetInterceptor(cfg, Sent[r])
             ELSE Middleware(cfg, Sent[r])

(* The gRPC server takes calls until GracefulStop, which run() does not    *)
(* wait for.                                                               *)
Listening(r) == IF route(r) = RPC THEN Running /\ cfg.grpc # "" ELSE phase = "serving"

Receive(r) ==
    /\ at[r] = "new"
    /\ Listening(r)
    /\ Cardinality({q \in Requests : at[q] # "new"}) < MaxReceived
    /\ LET m == Passed(r) IN
         IF m.refused # ""
         THEN Answered(r, m.refused) /\ UNCHANGED since
         ELSE /\ since' = [since EXCEPT ![r] = Len(log)]
              /\ IF Decodes(r, m) /\ Verify(r) = ""
                 THEN at' = [at EXCEPT ![r] = "admitted"] /\ UNCHANGED status
                 ELSE Answered(r, IF Decodes(r, m) THEN Verify(r) ELSE "400")
    /\ UNCHANGED <<phase, cfg, asked, log, seen, event, unseen>>

-----------------------------------------------------------------------------
(* Updates. *)

Admitted(r, S) == Running /\ at[r] = "admitted" /\ route(r) \in S

TakenIn(r) == log' = Append(log, r)

(* The update is through: JSON reads the metric back, the other HTTP       *)
(* routes notify the observers, and an RPC is answered.                    *)
Proceed(r) ==
    CASE route(r) = JSONUpdate -> at' = [at EXCEPT ![r] = "updated"] /\ UNCHANGED status
      [] route(r) = RPC -> Answered(r, "200")
      [] OTHER -> at' = [at EXCEPT ![r] = "told"] /\ UNCHANGED status

(* The storage takes the update in; how often a database that retries may  *)
(* add a delta is a question Postgres answers (CountedOnce).               *)
Update(r) ==
    /\ Admitted(r, Updates)
    /\ Verdict(r) = "ok"
    /\ TakenIn(r)
    /\ Proceed(r)
    /\ UNCHANGED <<phase, cfg, asked, since, seen, event, unseen>>

(* Mutant of the next action: the observers are notified before the error  *)
(* is looked at.                                                           *)
BatchFailsTold(r) ==
    /\ Admitted(r, {Batch, RPC})
    /\ ~Database /\ Verdict(r) = "err" /\ TakenIn(r)
    /\ Answered(r, "500")
    /\ event' = [event EXCEPT ![r] = IF Auditing THEN "offered" ELSE "none"]
    /\ UNCHANGED <<phase, cfg, asked, since, seen, unseen>>

(* Mutant of the next action: the error is dropped, as UpdateGauge does.   *)
BatchErrorDropped(r) ==
    /\ Admitted(r, {Batch, RPC})
    /\ \/ ~Database /\ Verdict(r) = "err" /\ TakenIn(r)
       \/ Database /\ UNCHANGED log
    /\ Answered(r, "200")
    /\ UNCHANGED <<phase, cfg, asked, since, seen, event, unseen>>

(* BatchUpdate returns an error: for a metric of unknown type, which in    *)
(* memory comes after those before it were applied, or from the database,  *)
(* which may have committed all the same.                                  *)
BatchFails(r) ==
    /\ Admitted(r, {Batch, RPC})
    /\ \/ ~Database /\ Verdict(r) = "err" /\ TakenIn(r)
       \/ Database /\ UNCHANGED log
       \/ Database /\ Verdict(r) = "ok" /\ TakenIn(r)
    /\ Answered(r, "500")
    /\ UNCHANGED <<phase, cfg, asked, since, seen, event, unseen>>

(* UpdateGauge and UpdateCounter log the error of the database and return  *)
(* nothing: the handler goes on, whether it was committed or not.          *)
UpdateFails(r) ==
    /\ Admitted(r, {JSONUpdate, PathUpdate})
    /\ Database
    /\ TakenIn(r) \/ UNCHANGED log
    /\ Proceed(r)
    /\ unseen' = unseen \cup {r}
    /\ UNCHANGED <<phase, cfg, asked, since, seen, event>>

ReadsNow == [gauges |-> Len(log), counters |-> Len(log)]

(* Mutant of the next action: what is answered was read on the way in. *)
ReadFirst(r) ==
    /\ Running /\ at[r] = "updated"
    /\ seen' = [seen EXCEPT ![r] = [gauges |-> since[r], counters |-> since[r]]]
    /\ at' = [at EXCEPT ![r] = "told"]
    /\ UNCHANGED <<phase, cfg, asked, log, status, since, event, unseen>>

(* updateMetricJSONHandler reads what it answers with, and marshals it.    *)
ReadBack(r) ==
    /\ Running /\ at[r] = "updated"
    /\ seen' = [seen EXCEPT ![r] = ReadsNow]
    /\ IF Marshals(Len(log), Payload[r][1])
       THEN at' = [at EXCEPT ![r] = "told"] /\ UNCHANGED status
       ELSE Answered(r, "500")
    /\ UNCHANGED <<phase, cfg, asked, log, since, event, unseen>>

(* Its error is dropped, and 0 answered. *)
ReadBackFails(r) ==
    /\ Running /\ at[r] = "updated" /\ Database
    /\ at' = [at EXCEPT ![r] = "told"]
    /\ unseen' = unseen \cup {r}
    /\ UNCHANGED <<phase, cfg, asked, log, status, since, seen, event>>

(* A panic of Notify unwinds through the deferred close of the gzip writer, *)
(* which sends the status it has, 200, before Recoverer sends its 500; the *)
(* value a JSON update would have answered is not written any more.        *)
PanicStatus == "200"

(* Mutant of the next action: the event is waited for until the queue is   *)
(* drained by its closing.                                                 *)
NotifyWaits(r) ==
    /\ Running /\ at[r] = "told"
    /\ ~Auditing \/ phase = "closing"
    /\ Answered(r, "200")
    /\ event' = [event EXCEPT ![r] = IF Auditing THEN "panicked" ELSE "none"]
    /\ seen' = [seen EXCEPT ![r] = IF Auditing THEN NotRead ELSE seen[r]]
    /\ UNCHANGED <<phase, cfg, asked, log, since, unseen>>

Notify(r) ==
    /\ Running /\ at[r] = "told"
    /\ IF ~Auditing THEN Answered(r, "200") /\ UNCHANGED <<event, seen>>
       ELSE IF phase = "closing"
       THEN /\ Answered(r, PanicStatus)
            /\ event' = [event EXCEPT ![r] = "panicked"]
            /\ seen' = [seen EXCEPT ![r] = NotRead]
       ELSE /\ Answered(r, "200")
            /\ event' = [event EXCEPT ![r] = "offered"]
            /\ UNCHANGED seen
    /\ UNCHANGED <<phase, cfg, asked, log, since, unseen>>

-----------------------------------------------------------------------------
(* Reads. *)

Value(r) ==
    /\ Admitted(r, {JSONValue, PathValue})
    /\ seen' = [seen EXCEPT ![r] = ReadsNow]
    /\ Answered(r, IF ~Has(Len(log), Call[r].asks) THEN "404"
                   ELSE IF route(r) = JSONValue /\ ~Marshals(Len(log), Call[r].asks)
                   THEN "500" ELSE "200")
    /\ UNCHANGED <<phase, cfg, asked, log, since, event, unseen>>

(* Every error of GetGauge and GetCounter is ErrMetricNotFound. *)
ValueFails(r) ==
    /\ Admitted(r, {JSONValue, PathValue}) /\ Database
    /\ Answered(r, "404")
    /\ unseen' = unseen \cup {r}
    /\ UNCHANGED <<phase, cfg, asked, log, since, seen, event>>

(* GetAllMetrics of the memory copies both maps under one lock; that of    *)
(* the database queries one table and then the other.                      *)
RootPage(r) ==
    /\ Admitted(r, {Page}) /\ ~Database
    /\ seen' = [seen EXCEPT ![r] = ReadsNow]
    /\ Answered(r, "200")
    /\ UNCHANGED <<phase, cfg, asked, log, since, event, unseen>>

(* A query that fails leaves its map empty or short. *)
QueryGauges(r) ==
    /\ Admitted(r, {Page}) /\ Database
    /\ at' = [at EXCEPT ![r] = "half"]
    /\ \/ seen' = [seen EXCEPT ![r] = [gauges |-> Len(log), counters |-> 0]]
          /\ UNCHANGED unseen
       \/ unseen' = unseen \cup {r} /\ UNCHANGED seen
    /\ UNCHANGED <<phase, cfg, asked, log, status, since, event>>

QueryCounters(r) ==
    /\ Running /\ at[r] = "half"
    /\ Answered(r, "200")
    /\ \/ seen' = [seen EXCEPT ![r] = [gauges |-> seen[r].gauges, counters |-> Len(log)]]
          /\ UNCHANGED unseen
       \/ unseen' = unseen \cup {r} /\ UNCHANGED seen
    /\ UNCHANGED <<phase, cfg, asked, log, since, event>>

-----------------------------------------------------------------------------
Handle(r) ==
    \/ Update(r) \/ BatchFails(r) \/ UpdateFails(r)
    \/ ReadBack(r) \/ ReadBackFails(r) \/ Notify(r)
    \/ Value(r) \/ ValueFails(r) \/ RootPage(r) \/ QueryGauges(r) \/ QueryCounters(r)

Next ==
    \/ (\E s \in Starts : Configure(s)) \/ Serve \/ Fail \/ Shutdown \/ CloseAudit \/ Exit
    \/ \E r \in Requests : Receive(r) \/ Handle(r)

(* A goroutine per request that net/http and grpc keep running: none of    *)
(* the calls it makes waits for another request.                           *)
Spec == Init /\ [][Next]_handlersVars /\ \A r \in Requests : WF_handlersVars(Handle(r))

-----------------------------------------------------------------------------
Statuses == {"none", "200", "400", "403", "404", "500", "lost"}

TypeOK ==
    /\ phase \in {"starting", "configured", "failed", "serving", "stopping", "closing", "ended"}
    /\ log \in Seq(Requests)
    /\ at \in [Requests -> {"new", "admitted", "updated", "half", "told", "replied"}]
    /\ status \in [Requests -> Statuses]
    /\ since \in [Requests -> Nat \cup {Nil}]
    /\ seen \in [Requests -> [gauges : Nat, counters : Nat]]
    /\ event \in [Requests -> {"none", "offered", "panicked"}]
    /\ unseen \subseteq Requests

(* Request r is among the first p updates the storage took in. *)
Among(r, p) == \E i \in 1..p : log[i] = r
Stored(r) == Among(r, Len(log))

(***************************************************************************)
(* What the status of an update tells its sender (handlers.go:165-306,     *)
(* server.go:28-41).  After 200 the storage has taken in all of a batch;   *)
(* also a single update if its errors have a way out, that is in memory:   *)
(* over a database they have none (SuccessIsStored).  After 4xx it has     *)
(* taken in nothing.                                                       *)
(***************************************************************************)
AnswerTells(r) == route(r) \in Updates =>
    /\ status[r] = "200" /\ (route(r) \in {Batch, RPC} \/ ~Database)
         => Stored(r) /\ Verdict(r) = "ok"
    /\ status[r] \in {"400", "403", "404"} => ~Stored(r)

AnswersTell == \A r \in Requests : AnswerTells(r)

(***************************************************************************)
(* "updateMetric applies the update and returns true on success" (handlers.*)
(* go:247), which is answered 200, and an audit event is "emitted after a  *)
(* successful metric update" (audit.go:15-16): what is told as done to the *)
(* sender or to the observers is in the storage.                           *)
(***************************************************************************)
SuccessIsStored ==
    \A r \in Requests :
      route(r) \in Updates /\ (status[r] = "200" \/ event[r] = "offered") => Stored(r)

(***************************************************************************)
(* What a reply shows is never older than its request: it includes all the *)
(* storage had taken in when the request came, so whatever its sender, or  *)
(* anyone it heard from, was told is stored; a JSON update sees itself.    *)
(* Nor is a metric "not found" that was there then.  Database errors, which*)
(* show as "not found", 0 and an empty table, are the exception.           *)
(***************************************************************************)
Shows(r) == /\ status[r] = "200"
            /\ \/ route(r) \in {JSONValue, PathValue, Page}
               \/ route(r) = JSONUpdate /\ event[r] # "panicked"

ReplyIsFresh(r) == since[r] # Nil /\ r \notin unseen =>
    /\ Shows(r) => seen[r].gauges >= since[r] /\ seen[r].counters >= since[r]
    /\ Shows(r) /\ route(r) = JSONUpdate => Among(r, seen[r].gauges)
    /\ route(r) \in {JSONValue, PathValue} /\ status[r] = "404"
         => ~Has(since[r], Call[r].asks)

RepliesAreFresh == \A r \in Requests : ReplyIsFresh(r)

(***************************************************************************)
(* "On success it responds 200 OK and emits an audit event" (handlers.go:  *)
(* 164), an event "emitted after a successful metric update" (audit.go:15).*)
(* An event is only offered for an HTTP update whose sender is told 200    *)
(* and, like the status, is true of a batch and in memory; and until the   *)
(* audit subject is closed every such update has its event offered.  Only  *)
(* one that comes to Notify later panics (Audit, InFlightDelivered).       *)
(***************************************************************************)
AuditAsked == asked.auditFile # "" \/ asked.auditURL # ""

EventTells(r) ==
    /\ event[r] = "offered" =>
         /\ status[r] = "200" /\ route(r) \in HTTPUpdates /\ AuditAsked
         /\ route(r) = Batch \/ ~Database => Stored(r) /\ Verdict(r) = "ok"
    /\ status[r] = "200" /\ route(r) \in HTTPUpdates /\ phase \in {"serving", "stopping"}
         => (AuditAsked <=> event[r] = "offered")
    /\ event[r] = "panicked" => phase \in {"closing", "ended"} /\ AuditAsked

AuditTells == \A r \in Requests : EventTells(r)

(***************************************************************************)
(* Nobody gets past the middleware whom the configuration, as the sources  *)
(* of it ask for by the order config.go:3 documents, keeps out: by address *)
(* on both transports, by key over HTTP, pages included.                   *)
(***************************************************************************)
Welcome(r) ==
    /\ asked.subnet # "" => Sent[r].ip \in Inside[asked.subnet]
    /\ asked.key # "" /\ route(r) # RPC =>
         \E b \in {Plain, Sent[r].body} : Sent[r].hash = ComputeHMAC(b, asked.key)

AdmittedAsAsked == \A r \in Requests : since[r] # Nil => Welcome(r)

(* An agent set up like the server is understood: what it posts passes,    *)
(* decodes and is answered neither 400 nor 403 (sender.go:123-159), and by *)
(* RPC its address is all that counts (grpcsender.go:43-60).               *)
AgentUnderstood(r) ==
    FromAgent(r) /\ status[r] \in {"400", "403"} =>
      IF route(r) = RPC THEN ~Trusted(asked, Call[r].ip)
      ELSE ~Compatible(AgentConfig(r), asked, Call[r].ip)

AgentsUnderstood == \A r \in Requests : AgentUnderstood(r)

(* The options in force are those of the first source that gives them, in  *)
(* the documented order (config.go:3, 137-157), for any mixture of sources *)
(* and all options but those that the file sets to zero over their default *)
(* (ZeroInFile).                                                           *)
ConfigAsDocumented ==
    cfg # NoConfig => \A o \in DOMAIN asked : cfg[o] = asked[o]

(* Every request that was admitted is answered, or the process ends: a     *)
(* request is made once, so the server comes to rest again and again.      *)
EveryAnswered == []<>(\A r \in Requests : at[r] \in {"new", "replied"})
=============================================================================
