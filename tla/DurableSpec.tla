---------------------------- MODULE DurableSpec ----------------------------
(***************************************************************************)
(* What cmd/server/main.go promises with file storage: a storage that      *)
(* serves each call in one step, and a file that is only ever replaced by  *)
(* all of the storage as it was at one moment.  A server that dies loses   *)
(* the storage and the calls it has not answered, never the file, and the  *)
(* next one starts from what the file holds.                               *)
(***************************************************************************)
EXTENDS Metrics

CONSTANTS Sync,        \* each update is saved before it is answered
          Background,  \* who saves besides the update handlers
          Restore,     \* a server that starts reads the file
          LoadFails,   \* and may fail to
          Nothing      \* no file, no save under way

VARIABLES up,      \* the server runs
          store,   \* the contents of its storage
          answer,  \* answer[r]: "none", "ok", "err" or "lost"
          told,    \* the requests whose clients have the answer
          saved,   \* those that were in a copy of their own before
          taken,   \* taken[p]: the copy that p has yet to put in the file
          disk     \* the file

durableVars == <<up, store, answer, told, saved, taken, disk>>

NothingTaken == [p \in Requests \cup Background |-> Nothing]

DurableInit ==
    /\ up = FALSE /\ store = Empty
    /\ answer = [r \in Requests |-> "none"]
    /\ told = {} /\ saved = {}
    /\ taken = NothingTaken
    /\ disk = Nothing

Boot ==
    /\ ~up
    /\ up' = TRUE
    /\ IF Restore /\ disk # Nothing
       THEN store' = disk \/ (LoadFails /\ store' = Empty)
       ELSE store' = Empty
    /\ UNCHANGED <<answer, told, saved, taken, disk>>

(* One step for every other call, be the batch taken or refused: a refused *)
(* one keeps what came before the metric of unknown type, as in StoreSpec. *)
Apply(r) ==
    /\ up
    /\ answer[r] = "none"
    /\ store' = ApplyRest(store, r)
    /\ answer' = [answer EXCEPT ![r] = Verdict(r)]
    /\ UNCHANGED <<up, told, saved, taken, disk>>

(* Handlers save one at a time. *)
MaySave(p) ==
    p \in Requests => /\ Sync /\ answer[p] = "ok"
                      /\ \A r \in Requests : taken[r] = Nothing

TakeCopy(p) ==
    /\ up
    /\ taken[p] = Nothing
    /\ MaySave(p)
    /\ taken' = [taken EXCEPT ![p] = store]
    /\ saved' = saved \cup ({p} \cap Requests)
    /\ UNCHANGED <<up, store, answer, told, disk>>

Publish(p) ==
    /\ taken[p] # Nothing
    /\ disk' = taken[p]
    /\ taken' = [taken EXCEPT ![p] = Nothing]
    /\ UNCHANGED <<up, store, answer, told, saved>>

GiveUp(p) ==
    /\ taken[p] # Nothing
    /\ taken' = [taken EXCEPT ![p] = Nothing]
    /\ UNCHANGED <<up, store, answer, told, saved, disk>>

Tell(r) ==
    /\ r \notin told
    /\ \/ answer[r] = "err"
       \/ answer[r] = "ok" /\ (Sync => r \in saved /\ taken[r] = Nothing)
    /\ told' = told \cup {r}
    /\ UNCHANGED <<up, store, answer, saved, taken, disk>>

GoDown ==
    /\ up
    /\ up' = FALSE
    /\ store' = Empty
    /\ \E lost \in SUBSET (Requests \ told) :
         /\ answer' = [r \in Requests |-> IF r \in lost THEN "lost" ELSE answer[r]]
         /\ \A r \in Requests \ told : answer[r] \in {"ok", "err"} => r \in lost
    /\ saved' = saved \cap told
    /\ taken' = NothingTaken
    /\ UNCHANGED <<told, disk>>

DurableNext ==
    \/ Boot \/ GoDown
    \/ \E r \in Requests : Apply(r) \/ Tell(r)
    \/ \E p \in Requests \cup Background : TakeCopy(p) \/ Publish(p) \/ GiveUp(p)

DurableServer == DurableInit /\ [][DurableNext]_durableVars
=============================================================================
