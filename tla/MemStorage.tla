----------------------------- MODULE MemStorage -----------------------------
(***************************************************************************)
(* internal/storage/storage.go: two maps behind one RWMutex, updated by    *)
(* concurrent handlers and copied by whoever saves or lists them.          *)
(*                                                                         *)
(* A call takes the lock, works one map access at a time, and releases it: *)
(* what the lock makes atomic is a result of the checks, not built in.     *)
(* UpdateGauge and UpdateCounter are BatchUpdate with one metric of a      *)
(* known type and are modelled by it.                                      *)
(***************************************************************************)
EXTENDS Metrics

CONSTANTS Readers,  \* callers of GetAllMetrics
          None      \* nobody

ASSUME NoneAssumption == None \notin Requests

VARIABLES mem,      \* the two maps
          writer,   \* who holds mu exclusively
          readers,  \* who holds mu shared
          call,     \* call[r]: how far request r has come
          half,     \* half[p]: gaugesCopy, while p is between the two loops
          copy      \* copy[p]: what GetAllMetrics last returned to p

memVars == <<mem, writer, readers, call, half, copy>>

(* Steps of the storage call itself; modules that use the storage add more. *)
CallStates == {"new", "open", "waiting", "writing", "ok", "err",
               "saving", "saved", "replied", "killed"}

MemInit ==
    /\ mem = Empty
    /\ writer = None
    /\ readers = {}
    /\ half = [p \in Readers |-> Empty]
    /\ copy = [p \in Readers |-> Empty]

(***************************************************************************)
(* sync.RWMutex.  A writer first makes itself known, which holds new       *)
(* readers back, then waits for the readers that are in.                   *)
(***************************************************************************)
NoRLock == TRUE                 \* mutant: GetAllMetrics without RLock
RLockMu == writer = None

ReadersIgnored == TRUE          \* mutant: mu a Mutex the readers do not take
ReadersGone == readers = {}

(* mu.Lock() of BatchUpdate, UpdateGauge, UpdateCounter. *)
AnnounceWriter(r) ==
    /\ call[r] = "open"
    /\ writer = None
    /\ writer' = r
    /\ call' = [call EXCEPT ![r] = "waiting"]
    /\ UNCHANGED <<mem, readers, half, copy>>

BeginUpdate(r) ==
    /\ call[r] = "waiting"
    /\ ReadersGone
    /\ call' = [call EXCEPT ![r] = "writing"]
    /\ UNCHANGED <<mem, writer, readers, half, copy>>

ApplyNext(r) ==
    /\ call[r] = "writing"
    /\ CanApply(mem, r)
    /\ mem' = ApplyMetric(mem, r, Payload[r][NextIndex(mem, r)])
    /\ UNCHANGED <<writer, readers, call, half, copy>>

(* The loop is over, at the end of the slice or at an unknown type, whose  *)
(* error leaves what was applied before it; the deferred Unlock runs.      *)
EndUpdate(r) ==
    /\ call[r] = "writing"
    /\ ~CanApply(mem, r)
    /\ call' = [call EXCEPT ![r] = IF Complete(mem, r) THEN "ok" ELSE "err"]
    /\ writer' = None
    /\ UNCHANGED <<mem, readers, half, copy>>

(* GetAllMetrics: the loop over gauges, then the loop over counters. *)
CopyGauges(p) ==
    /\ p \notin readers
    /\ RLockMu
    /\ readers' = readers \cup {p}
    /\ half' = [half EXCEPT ![p] = [mem EXCEPT !.c = Empty.c]]
    /\ UNCHANGED <<mem, writer, call, copy>>

CopyCounters(p) ==
    /\ p \in readers
    /\ copy' = [copy EXCEPT ![p] = [half[p] EXCEPT !.c = mem.c]]
    /\ readers' = readers \ {p}
    /\ UNCHANGED <<mem, writer, call, half>>

-----------------------------------------------------------------------------
(* The storage on its own: every request is in its handler, callers of     *)
(* GetAllMetrics come back for ever.                                       *)
StorageInit == MemInit /\ call = [r \in Requests |-> "open"]

Update(r) == AnnounceWriter(r) \/ BeginUpdate(r) \/ ApplyNext(r) \/ EndUpdate(r)

StorageNext ==
    \/ \E r \in Requests : Update(r)
    \/ \E p \in Readers : CopyGauges(p) \/ CopyCounters(p)

(* A goroutine that can take a step takes one: whoever has the mutex, or   *)
(* waits for it, is running code that does not block elsewhere.            *)
StorageFairness ==
    /\ \A r \in Requests : WF_memVars(Update(r))
    /\ \A p \in Readers : WF_memVars(CopyCounters(p))

StorageSpec == StorageInit /\ [][StorageNext]_memVars /\ StorageFairness

-----------------------------------------------------------------------------
MemTypeOK ==
    /\ mem \in Contents
    /\ writer \in Requests \cup {None}
    /\ readers \in SUBSET Readers
    /\ call \in [Requests -> CallStates]
    /\ half \in [Readers -> Contents]
    /\ copy \in [Readers -> Contents]

(* A reader never sees a request in the middle of its loop: all of it, or  *)
(* none, where "all" ends at a metric of unknown type (storage.go:52-68    *)
(* against 118-132).                                                       *)
NoHalfBatch == \A p \in Readers : \A r \in Requests : Whole(copy[p], r)

(* "BatchUpdate atomically applies a slice of metric updates" (storage.go: *)
(* 28), "applies them atomically" (handlers.go:163): a batch that returns  *)
(* an error has applied none of them.  The Postgres backend keeps this     *)
(* (RefusedIsRolledBack), the loop of storage.go:55-67 does not.           *)
BatchIsAtomic == \A r \in Requests : call[r] = "err" => mem.done[r] = 0

-----------------------------------------------------------------------------
(***************************************************************************)
(* The storage implements one that serves each call in a single step.  An  *)
(* update takes effect when it gets the lock, GetAllMetrics when it gives  *)
(* the lock back.                                                          *)
(***************************************************************************)
Abstract == INSTANCE StoreSpec WITH
    store  <- IF writer # None /\ call[writer] = "writing"
              THEN ApplyRest(mem, writer) ELSE mem,
    answer <- [r \in Requests |-> CASE call[r] \in {"open", "waiting"} -> "none"
                                     [] call[r] = "writing" -> Verdict(r)
                                     [] OTHER -> call[r]],
    view   <- copy

(* Every run of the storage is a run of the one-step storage: to callers   *)
(* that race, BatchUpdate and GetAllMetrics are single steps (storage.go:  *)
(* 51-70, 117-133).                                                        *)
Linearizable == Abstract!OneStepSpec
=============================================================================
