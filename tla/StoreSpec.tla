----------------------------- MODULE StoreSpec -----------------------------
(***************************************************************************)
(* MetricsStorage as its callers see it: each call is one step, and        *)
(* GetAllMetrics returns the whole storage.  That is isolation, not all or *)
(* nothing: a batch that is refused leaves what it applied before the      *)
(* metric of unknown type, against the word of the Storage interface that  *)
(* it "atomically applies" (storage.go:28; MemStorage, BatchIsAtomic).     *)
(***************************************************************************)
EXTENDS Metrics

CONSTANT Readers

VARIABLES store,   \* the contents
          answer,  \* answer[r]: "none", "ok" or "err"
          view     \* view[p]: what GetAllMetrics last returned to p

storeVars == <<store, answer, view>>

StoreInit ==
    /\ store = Empty
    /\ answer = [r \in Requests |-> "none"]
    /\ view = [p \in Readers |-> Empty]

OneStepUpdate(r) ==
    /\ answer[r] = "none"
    /\ store' = ApplyRest(store, r)
    /\ answer' = [answer EXCEPT ![r] = Verdict(r)]
    /\ UNCHANGED view

OneStepView(p) ==
    /\ view' = [view EXCEPT ![p] = store]
    /\ UNCHANGED <<store, answer>>

StoreNext == \/ \E r \in Requests : OneStepUpdate(r)
             \/ \E p \in Readers : OneStepView(p)

OneStepSpec == StoreInit /\ [][StoreNext]_storeVars
=============================================================================
