----------------------------- MODULE Collector -----------------------------
(***************************************************************************)
(* The buffer of internal/agent/collector.go: AddMetric, the flusher, and  *)
(* sendBatch, whose goroutines take turns on the mutex that everything     *)
(* else of the collector needs, and keep it while they talk to the server. *)
(***************************************************************************)
EXTENDS Integers, FiniteSets

CONSTANTS Metrics,      \* what callers add, each once; their order is left out
          NaNs,         \* those encoding/json refuses
          BatchSize,
          Retries,      \* the 3 of WithMaxRetries
          MaxWaiting,   \* bound on the goroutines the flusher starts
          MaxFailures   \* bound on posts that fail

ASSUME CollectorAssumption ==
    /\ IsFiniteSet(Metrics) /\ NaNs \subseteq Metrics
    /\ BatchSize \in Nat /\ Retries \in Nat /\ MaxWaiting \in Nat /\ MaxFailures \in Nat

VARIABLES added,     \* metrics whose AddMetric has returned
          buffer,
          waiting,   \* goroutines of sendBatch that wait for mu
          sender,    \* "none", or where the one that has mu is: "first", "retry"
          sending,   \* the batch it sends; sendBuffer in "retry"
          attempt,   \* number of the call of operation
          failures,  \* posts that failed
          accepted,  \* history: metrics the server has answered 200 for
          answered   \* history: metrics the server has answered for below 500

vars == <<added, buffer, waiting, sender, sending, attempt, failures, accepted, answered>>

Init ==
    /\ added = {} /\ buffer = {}
    /\ waiting = 0
    /\ sender = "none" /\ sending = {} /\ attempt = 0
    /\ failures = 0
    /\ accepted = {} /\ answered = {}

MuFree == sender = "none"

AddMetric(m) ==
    /\ MuFree /\ m \notin added
    /\ added' = added \cup {m}
    /\ buffer' = buffer \cup {m}
    /\ waiting' = IF Cardinality(buffer') >= BatchSize THEN waiting + 1 ELSE waiting
    /\ UNCHANGED <<sender, sending, attempt, failures, accepted, answered>>

FlushFull ==                    \* mutant: the flusher waits for a full batch too
    /\ MuFree /\ Cardinality(buffer) >= BatchSize /\ waiting < MaxWaiting
    /\ waiting' = waiting + 1
    /\ UNCHANGED <<added, buffer, sender, sending, attempt, failures, accepted, answered>>

(* A tick that finds the buffer empty does nothing. *)
Flush ==
    /\ MuFree /\ buffer # {} /\ waiting < MaxWaiting
    /\ waiting' = waiting + 1
    /\ UNCHANGED <<added, buffer, sender, sending, attempt, failures, accepted, answered>>

-----------------------------------------------------------------------------
(* sendBatch. *)

Encodable(batch) == batch \cap NaNs = {}

NothingToSend ==
    /\ MuFree /\ waiting > 0
    /\ buffer = {} \/ ~Encodable(buffer)
    /\ waiting' = waiting - 1
    /\ UNCHANGED <<added, buffer, sender, sending, attempt, failures, accepted, answered>>

Lock ==
    /\ MuFree /\ waiting > 0
    /\ buffer # {} /\ Encodable(buffer)
    /\ waiting' = waiting - 1
    /\ sender' = "first"
    /\ sending' = buffer
    /\ UNCHANGED <<added, buffer, attempt, failures, accepted, answered>>

NeverUnlocks ==                 \* mutant: the deferred Unlock forgotten
    /\ UNCHANGED sender
    /\ sending' = {}
    /\ attempt' = 0

Unlock ==
    /\ sender' = "none"
    /\ sending' = {}
    /\ attempt' = 0

Fails ==
    /\ failures < MaxFailures
    /\ failures' = failures + 1

(* client.Do returns an error; what it sent stays in the buffer. *)
FirstFails ==
    /\ sender = "first"
    /\ Fails
    /\ Unlock
    /\ UNCHANGED <<added, buffer, waiting, accepted, answered>>

Statuses == {"200", "4xx", "5xx"}

(* What an answer to the batch says of its metrics. *)
Recorded(status) ==
    /\ accepted' = IF status = "200" THEN accepted \cup sending ELSE accepted
    /\ answered' = IF status # "5xx" THEN answered \cup sending ELSE answered
    /\ IF status = "5xx" THEN Fails ELSE UNCHANGED failures

CopyFirst(status) ==            \* mutant: sendBuffer copied before the buffer is emptied
    /\ sender = "first"
    /\ Recorded(status)
    /\ buffer' = IF status = "200" THEN {} ELSE buffer
    /\ sender' = "retry" /\ sending' = buffer /\ attempt' = 1
    /\ UNCHANGED <<added, waiting>>

(* The first post is answered; sendBuffer is what the buffer holds then.   *)
FirstAnswered(status) ==
    /\ sender = "first"
    /\ Recorded(status)
    /\ buffer' = IF status = "200" THEN {} ELSE buffer
    /\ sender' = "retry" /\ sending' = buffer' /\ attempt' = 1
    /\ UNCHANGED <<added, waiting>>

(* trySendBatch returns nil: every status below 500 empties the buffer.    *)
RetryAnswered(status) ==
    /\ sender = "retry" /\ status # "5xx"
    /\ Recorded(status)
    /\ buffer' = {}
    /\ Unlock
    /\ UNCHANGED <<added, waiting>>

AttemptsLeft == attempt <= Retries

ClearedAnyway ==                \* mutant: the buffer is emptied whatever Retry returns
    /\ sender = "retry"
    /\ Fails
    /\ \/ AttemptsLeft /\ attempt' = attempt + 1 /\ UNCHANGED <<sender, sending, buffer>>
       \/ Unlock /\ buffer' = {}
    /\ UNCHANGED <<added, waiting, accepted, answered>>

(* A timeout, a status of 500 and more, tried again while attempts are     *)
(* left, or an error that is permanent.                                    *)
RetryFails ==
    /\ sender = "retry"
    /\ Fails
    /\ \/ AttemptsLeft /\ attempt' = attempt + 1 /\ UNCHANGED <<sender, sending>>
       \/ Unlock
    /\ UNCHANGED <<added, buffer, waiting, accepted, answered>>

-----------------------------------------------------------------------------
SendBatch ==
    \/ NothingToSend \/ Lock \/ FirstFails \/ RetryFails
    \/ \E status \in Statuses : FirstAnswered(status) \/ RetryAnswered(status)

Next == SendBatch \/ Flush \/ \E m \in Metrics : AddMetric(m)

(* The client has a timeout, so a post comes to its end.  The mutex is     *)
(* fair to whoever waits long: sync.Mutex hands it over after 1 ms.        *)
(* Whether a metric that cannot be encoded ever comes is left open.        *)
Fairness ==
    /\ WF_vars(SendBatch)
    /\ SF_vars(Flush)
    /\ \A m \in Metrics \ NaNs : SF_vars(AddMetric(m))

Spec == Init /\ [][Next]_vars /\ Fairness

-----------------------------------------------------------------------------
TypeOK ==
    /\ added \in SUBSET Metrics /\ buffer \in SUBSET added
    /\ waiting \in Nat
    /\ sender \in {"none", "first", "retry"}
    /\ sending \in SUBSET added
    /\ attempt \in 0..Retries + 1
    /\ failures \in 0..MaxFailures
    /\ accepted \in SUBSET answered /\ answered \in SUBSET added

(* A metric leaves the buffer only with an answer to a batch it was in:    *)
(* failing posts, retries given up and metrics added meanwhile lose        *)
(* nothing (collector.go:146-212, "Очищаем только при успехе").            *)
KeptUntilAnswered == added \ buffer \subseteq answered

(* What the server has accepted is not in any later batch, so a delta is   *)
(* not added twice for want of order between emptying the buffer and       *)
(* copying it (collector.go:188-193, 209-211).                             *)
AcceptedIsNotResent ==
    /\ accepted \cap buffer = {}
    /\ accepted \cap sending = {}

(* AddMetric returns although sendBatch keeps mu for as long as its        *)
(* retries take, and so may the next one (collector.go:146-158).           *)
AddReturns == \A m \in Metrics \ NaNs : <>(m \in added)

(* With the flusher and a server that answers in the end, every metric is  *)
(* answered for, the last incomplete batch included, unless the buffer has *)
(* a value that cannot be encoded, and is stuck (collector.go:162-168,     *)
(* 214-225).                                                               *)
AllAnswered ==
    \A m \in Metrics : m \in added ~> (m \in answered \/ ~Encodable(buffer))
=============================================================================
