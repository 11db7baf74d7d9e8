------------------------- MODULE PersistenceProofs -------------------------
(***************************************************************************)
(* What Persistence promises for any set of requests, payloads, names and  *)
(* any number of restarts: SyncDurability, FileNeverRegresses and, at the  *)
(* end of the module, FileIsSnapshot.                                      *)
(*                                                                         *)
(* SyncDurability alone is not inductive.  It holds because the mutex      *)
(* leaves one handler at a time between GetAllMetrics and Rename           *)
(* (ProcessInv), because a handler saves only after its update is in the   *)
(* storage (UpdateInv), and because whatever is about to be renamed        *)
(* already contains all that was renamed before (KeepInv).                 *)
(***************************************************************************)
EXTENDS Persistence, MemStorageProofs

Active(p) == save[p] \in {"read", "encode", "write", "rename", "done"}

(* Who can be in saveMetrics, and when. *)
ProcessInv ==
    /\ \A r \in Requests : Active(r) => smu = r /\ call[r] = "saving"
    /\ Active(Main) => phase = "closed"
    /\ Mode = "sync" => save[Saver] = "off"
    /\ \A p \in readers : save[p] = "read"
    /\ Stopped => /\ \A p \in Savers : save[p] = "off"
                  /\ \A r \in Requests : call[r] \in {"new", "replied", "killed"}

(* An update that returned nil is in the storage to its last metric. *)
UpdateInv ==
    \A r \in Requests : call[r] \in {"ok", "saving", "saved"} => Complete(mem, r)

(* Contents k, on their way from the storage to the file, have all that    *)
(* was saved before and, in a handler's save, the handler's own update.    *)
Includes(k, p) == /\ \A r \in synced : Complete(k, r)
                  /\ p \in Requests => Complete(k, p)

KeepInv ==
    /\ \A r \in synced : Holds(file, r)
    /\ ~Stopped => \A r \in synced : Complete(mem, r)
    /\ \A p \in Savers :
         /\ save[p] = "read" /\ p \in readers => Includes(half[p], p)
         /\ save[p] \in {"encode", "write", "rename"} => Includes(copy[p], p)
         /\ save[p] = "rename" => temp[p] = copy[p]

IInv == TypeOK /\ ProcessInv /\ UpdateInv /\ KeepInv

-----------------------------------------------------------------------------
(* Types. *)

LEMMA NoneIsNobody == None \notin Requests
  BY NoneAssumption

LEMMA SaversApart == /\ Readers = Savers
                     /\ Saver \notin Requests /\ Main \notin Requests /\ Saver # Main
  BY PersistenceAssumption

(* Restoring well formed contents gives well formed contents with the same *)
(* history (loadMetrics, main.go:253-271).                                 *)
LEMMA LoadIntoType ==
  ASSUME NEW f \in Contents
  PROVE  LoadInto(Empty, f) \in Contents /\ LoadInto(Empty, f).done = f.done
  <1> DEFINE k == LoadInto(Empty, f)
  <1>1. /\ f.g \in [Names -> GaugeVals \cup {Nil}]
        /\ f.c \in [Names -> Int64 \cup {Nil}]
        /\ f.done \in [Requests -> Nat]
    BY DEF Contents
  <1>2. k.g \in [Names -> GaugeVals \cup {Nil}]
    BY <1>1 DEF LoadInto, Empty
  <1>3. \A n \in Names : f.c[n] # Nil => Wrap(Total(Empty.c, n) + f.c[n]) \in Int64
    <2> SUFFICES ASSUME NEW n \in Names, f.c[n] # Nil
                 PROVE  Wrap(Total(Empty.c, n) + f.c[n]) \in Int64
      OBVIOUS
    <2>1. Total(Empty.c, n) + f.c[n] \in Int
      BY <1>1, Int64IsInt, EmptyIsContents, TotalType
    <2> QED
      BY <2>1, WrapRange
  <1>4. k.c \in [Names -> Int64 \cup {Nil}]
    BY <1>1, <1>3 DEF LoadInto, Empty
  <1>5. k.done = f.done
    BY <1>1 DEF LoadInto, Empty
  <1>6. k = [g |-> k.g, c |-> k.c, done |-> k.done]
    BY DEF LoadInto
  <1> QED
    BY <1>1, <1>2, <1>4, <1>5, <1>6 DEF Contents

LEMMA RestoredType == ASSUME file \in Files PROVE Restored \subseteq Contents
  BY EmptyIsContents, LoadIntoType DEF Restored, Files

LEMMA ProcessGoneType == ASSUME TypeOK, ProcessGone, phase' \in Phases PROVE TypeOK'
  <1>1. MemTypeOK'
    BY EmptyIsContents, SaversApart DEF ProcessGone, TypeOK, MemTypeOK, CallStates
  <1> QED
    BY <1>1 DEF ProcessGone, TypeOK, SaveStates, Files

LEMMA TypeStep == TypeOK /\ [Next]_vars => TypeOK'
  <1> SUFFICES ASSUME TypeOK, [Next]_vars PROVE TypeOK'
    OBVIOUS
  <1> USE DEF TypeOK, SaveStates, Phases
  <1>1. CASE Start
    <2>1. MemTypeOK'
      BY <1>1, RestoredType DEF Start, MemTypeOK
    <2> QED
      BY <1>1, <2>1, PersistenceAssumption DEF Start
  <1>2. ASSUME NEW r \in Requests, Accept(r) PROVE TypeOK'
    BY <1>2 DEF Accept, pVars, MemTypeOK, CallStates
  <1>3. ASSUME NEW r \in Requests, UpdateStore(r) PROVE TypeOK'
    BY <1>3, StorageStepType DEF UpdateStore, pVars
  <1>4. ASSUME NEW r \in Requests, LockSync(r) PROVE TypeOK'
    BY <1>4 DEF LockSync, MemTypeOK, CallStates
  <1>5. ASSUME NEW p \in Savers, ReadStore(p) PROVE TypeOK'
    <2>1. MemTypeOK'
      BY <1>5, StorageStepType, SaversApart DEF ReadStore
    <2> QED
      BY <1>5, <2>1 DEF ReadStore
  <1>6. ASSUME NEW p \in Savers, CreateTemp(p) PROVE TypeOK'
    BY <1>6 DEF CreateTemp, memVars, MemTypeOK, Files
  <1>7. ASSUME NEW p \in Savers, WriteTemp(p) PROVE TypeOK'
    BY <1>7, SaversApart DEF WriteTemp, memVars, MemTypeOK, Files
  <1>8. ASSUME NEW p \in Savers, Rename(p) PROVE TypeOK'
    BY <1>8 DEF Rename, memVars, MemTypeOK, Files
  <1>9. ASSUME NEW p \in Savers, SaveFails(p) PROVE TypeOK'
    BY <1>9 DEF SaveFails, memVars, MemTypeOK, Files
  <1>10. ASSUME NEW r \in Requests, ReturnSync(r) PROVE TypeOK'
    BY <1>10, EmptyIsContents DEF ReturnSync, Forget, MemTypeOK, CallStates
  <1>11. ASSUME NEW r \in Requests, Reply(r) PROVE TypeOK'
    BY <1>11 DEF Reply, MemTypeOK, CallStates
  <1>12. CASE SaverTick \/ SaverStop \/ Signal \/ Shutdown \/ FinalSave
    BY <1>12 DEF SaverTick, SaverStop, Signal, Shutdown, FinalSave, memVars, MemTypeOK
  <1>13. CASE SaverReturn
    BY <1>13, EmptyIsContents DEF SaverReturn, Forget, MemTypeOK
  <1>14. CASE Exit \/ Crash
    BY <1>14, ProcessGoneType DEF Exit, Crash
  <1>15. CASE UNCHANGED vars
    BY <1>15 DEF vars, memVars, pVars, MemTypeOK
  <1>16. Saver \in Savers /\ Main \in Savers /\ Requests \subseteq Savers
    BY DEF Savers
  <1> QED
    BY <1>1, <1>2, <1>3, <1>4, <1>5, <1>6, <1>7, <1>8, <1>9, <1>10, <1>11, <1>12,
       <1>13, <1>14, <1>15, <1>16
       DEF Next, Handler, SaverLoop, MainLoop, SaveStep, Finished

LEMMA InitType == Init => TypeOK
  BY EmptyIsContents, PersistenceAssumption
     DEF Init, TypeOK, MemInit, MemTypeOK, CallStates, Phases, SaveStates, Files

(* Type correctness of the server process of cmd/server/main.go.           *)
THEOREM TypeCorrect == Spec => []TypeOK
  BY InitType, TypeStep, PTL DEF Spec

-----------------------------------------------------------------------------
(* Locks and phases. *)

LEMMA ProcessStep ==
  ASSUME TypeOK, ProcessInv, [Next]_vars
  PROVE  ProcessInv'
  <1> USE DEF TypeOK, ProcessInv, Active, Stopped
  <1>0. Saver \in Savers /\ Main \in Savers /\ Requests \subseteq Savers
    BY DEF Savers
  <1> USE <1>0, SaversApart, NoneIsNobody
  <1>1. CASE Start
    <2>1. readers = {}
      BY <1>1 DEF Start, MemTypeOK
    <2> QED
      BY <1>1, <2>1 DEF Start
  <1>2. ASSUME NEW r \in Requests, Accept(r) PROVE ProcessInv'
    BY <1>2 DEF Accept, pVars, MemTypeOK
  <1>3. ASSUME NEW r \in Requests, UpdateStore(r) PROVE ProcessInv'
    <2>1. /\ UNCHANGED pVars
          /\ call[r] \in {"open", "waiting", "writing"}
          /\ \A q \in Requests : q # r => call'[q] = call[q]
          /\ UNCHANGED readers
      BY <1>3 DEF UpdateStore, Update, AnnounceWriter, BeginUpdate, ApplyNext,
                  EndUpdate, MemTypeOK
    <2> QED
      BY <2>1 DEF pVars
  <1>4. ASSUME NEW r \in Requests, LockSync(r) PROVE ProcessInv'
    <2>1. \A q \in Requests : ~Active(q)
      BY <1>4 DEF LockSync, MuFree
    <2> QED
      BY <1>4, <2>1 DEF LockSync, MemTypeOK
  <1>5. ASSUME NEW p \in Savers, SaveStep(p) PROVE ProcessInv'
    <2>1. /\ UNCHANGED <<phase, smu, call>>
          /\ Active(p)
          /\ \A q \in Savers : q # p => save'[q] = save[q]
      BY <1>5 DEF SaveStep, ReadStore, CreateTemp, WriteTemp, Rename, SaveFails,
                  CopyGauges, CopyCounters, memVars
    <2>2. \A q \in readers' : save'[q] = "read"
      <3>1. CASE ReadStore(p)
        BY <1>5, <3>1 DEF ReadStore, CopyGauges, CopyCounters, MemTypeOK
      <3>2. CASE ~ReadStore(p)
        <4>1. UNCHANGED readers /\ save[p] # "read"
          BY <1>5, <3>2 DEF SaveStep, CreateTemp, WriteTemp, Rename, SaveFails, memVars
        <4> QED
          BY <2>1, <4>1 DEF MemTypeOK
      <3> QED
        BY <3>1, <3>2
    <2> QED
      BY <2>1, <2>2
  <1>6. ASSUME NEW r \in Requests, ReturnSync(r) PROVE ProcessInv'
    <2>1. \A q \in Requests : q # r => ~Active(q)
      BY <1>6 DEF ReturnSync
    <2> QED
      BY <1>6, <2>1 DEF ReturnSync, MemTypeOK
  <1>7. ASSUME NEW r \in Requests, Reply(r) PROVE ProcessInv'
    BY <1>7 DEF Reply, MemTypeOK
  <1>8. CASE SaverTick \/ SaverReturn \/ SaverStop
    BY <1>8 DEF SaverTick, SaverReturn, SaverStop, memVars, MemTypeOK
  <1>9. CASE Signal \/ Shutdown \/ FinalSave
    BY <1>9 DEF Signal, Shutdown, FinalSave, memVars, MemTypeOK
  <1>10. CASE Exit \/ Crash
    BY <1>10 DEF Exit, Crash, ProcessGone, MemTypeOK, CallStates
  <1>11. CASE UNCHANGED vars
    BY <1>11 DEF vars, memVars, pVars
  <1> QED
    BY <1>1, <1>2, <1>3, <1>4, <1>5, <1>6, <1>7, <1>8, <1>9, <1>10, <1>11
       DEF Next, Handler, SaverLoop, MainLoop, Finished

-----------------------------------------------------------------------------
(* Updates and the storage. *)

(* A step of the storage leaves a request alone that is complete.          *)
LEMMA CompleteStays ==
  ASSUME MemTypeOK, NEW r \in Requests, Update(r),
         NEW q \in Requests, Complete(mem, q)
  PROVE  Complete(mem', q)
  <1>1. CASE ApplyNext(r)
    <2>1. mem'.done = [mem.done EXCEPT ![r] = mem.done[r] + 1]
      BY <1>1, ApplyMetricType DEF ApplyNext, MemTypeOK
    <2>2. mem.done \in [Requests -> Nat] /\ Len(Payload[r]) \in Nat
      BY PayloadType DEF MemTypeOK, Contents
    <2>3. q # r
      BY <1>1, <2>2 DEF ApplyNext, CanApply, NextIndex, Complete
    <2> QED
      BY <2>1, <2>2, <2>3 DEF Complete
  <1>2. CASE UNCHANGED mem
    BY <1>2
  <1> QED
    BY <1>1, <1>2 DEF Update, AnnounceWriter, BeginUpdate, EndUpdate

LEMMA UpdateStep ==
  ASSUME TypeOK, ProcessInv, UpdateInv, [Next]_vars
  PROVE  UpdateInv'
  <1> USE DEF TypeOK, UpdateInv
  <1>1. CASE Start
    BY <1>1 DEF Start, ProcessInv
  <1>2. ASSUME NEW r \in Requests, UpdateStore(r) PROVE UpdateInv'
    <2> SUFFICES ASSUME NEW q \in Requests, call'[q] \in {"ok", "saving", "saved"}
                 PROVE  Complete(mem', q)
      OBVIOUS
    <2>1. CASE q # r
      <3>1. call'[q] = call[q]
        BY <1>2, <2>1 DEF UpdateStore, Update, AnnounceWriter, BeginUpdate, ApplyNext,
                          EndUpdate, MemTypeOK
      <3> QED
        BY <1>2, <3>1, CompleteStays DEF UpdateStore
    <2>2. CASE q = r
      BY <1>2, <2>2 DEF UpdateStore, Update, AnnounceWriter, BeginUpdate, ApplyNext,
                        EndUpdate, MemTypeOK
    <2> QED
      BY <2>1, <2>2
  <1>3. ASSUME NEW r \in Requests, Accept(r) \/ LockSync(r) \/ ReturnSync(r) \/ Reply(r)
        PROVE  UpdateInv'
    BY <1>3 DEF Accept, LockSync, ReturnSync, Reply, MemTypeOK
  <1>4. ASSUME NEW p \in Savers, SaveStep(p) PROVE UpdateInv'
    BY <1>4 DEF SaveStep, ReadStore, CreateTemp, WriteTemp, Rename, SaveFails,
                CopyGauges, CopyCounters, memVars
  <1>5. CASE SaverTick \/ SaverReturn \/ SaverStop \/ Signal \/ Shutdown \/ FinalSave
    BY <1>5 DEF SaverTick, SaverReturn, SaverStop, Signal, Shutdown, FinalSave, memVars
  <1>6. CASE Exit \/ Crash
    BY <1>6 DEF Exit, Crash, ProcessGone
  <1>7. CASE UNCHANGED vars
    BY <1>7 DEF vars, memVars
  <1>8. Saver \in Savers /\ Main \in Savers /\ Requests \subseteq Savers
    BY DEF Savers
  <1> QED
    BY <1>1, <1>2, <1>3, <1>4, <1>5, <1>6, <1>7, <1>8
       DEF Next, Handler, SaverLoop, MainLoop, Finished

-----------------------------------------------------------------------------
(* What is on its way to the file. *)

(* Complete depends on the history component only. *)
LEMMA CompleteOfDone ==
  ASSUME NEW k, NEW l, k.done = l.done, NEW r \in Requests, Complete(k, r)
  PROVE  Complete(l, r)
  BY DEF Complete

LEMMA KeepStep ==
  ASSUME Mode = "sync", Restore, "load" \notin IOFails,
         IInv, TypeOK', [Next]_vars
  PROVE  KeepInv'
  <1> USE DEF IInv, TypeOK
  <1>0. Saver \in Savers /\ Main \in Savers /\ Requests \subseteq Savers /\ Readers = Savers
    BY SaversApart DEF Savers
  <1>1. CASE Start
    <2>1. \A r \in synced : Complete(mem', r)
      <3>1. CASE synced = {}
        BY <3>1
      <3>2. CASE synced # {}
        <4>1. file \notin {NoFile, Torn} /\ file \in Contents
          BY <3>2 DEF KeepInv, Holds, Files
        <4>2. mem' = LoadInto(Empty, file)
          BY <1>1, <4>1 DEF Start, Restored
        <4>3. mem'.done = file.done
          BY <4>1, <4>2, LoadIntoType
        <4> QED
          BY <4>3, CompleteOfDone DEF KeepInv, Holds
      <3> QED
        BY <3>1, <3>2
    <2>2. \A p \in Savers : save'[p] \in {"off", "idle"}
      BY <1>1 DEF Start
    <2> QED
      BY <1>1, <2>1, <2>2 DEF Start, KeepInv
  <1>2. ASSUME NEW r \in Requests, UpdateStore(r) PROVE KeepInv'
    <2>1. ~Stopped => \A q \in synced : Complete(mem', q)
      BY <1>2, CompleteStays DEF UpdateStore, KeepInv
    <2>2. UNCHANGED <<pVars, half, copy, readers>>
      BY <1>2 DEF UpdateStore, Update, AnnounceWriter, BeginUpdate, ApplyNext, EndUpdate
    <2> QED
      BY <2>1, <2>2 DEF pVars, KeepInv, Includes, Stopped
  <1>3. ASSUME NEW r \in Requests, Accept(r) \/ Reply(r) PROVE KeepInv'
    BY <1>3 DEF Accept, Reply, pVars, KeepInv, Includes, Stopped
  <1>4. ASSUME NEW r \in Requests, LockSync(r) PROVE KeepInv'
    <2>1. r \notin readers
      BY <1>4, NoneIsNobody DEF LockSync, ProcessInv, MuFree, Active
    <2> QED
      BY <1>4, <2>1 DEF LockSync, KeepInv, Includes, Stopped
  <1>5. ASSUME NEW p \in Savers, ReadStore(p) PROVE KeepInv'
    <2>1. Includes(mem, p)
      BY <1>5, <1>0 DEF ReadStore, ProcessInv, Active, UpdateInv, KeepInv, Includes,
                        Savers, Stopped
    <2>2. CASE CopyGauges(p)
      <3>1. [mem EXCEPT !.c = Empty.c].done = mem.done
        BY EmptyIsContents, ReplaceCounters DEF MemTypeOK
      <3>2. Includes(half'[p], p)
        BY <1>0, <2>1, <2>2, <3>1, CompleteOfDone DEF CopyGauges, Includes, MemTypeOK
      <3>3. save' = save
        BY <1>5, <2>2 DEF ReadStore, CopyGauges, CopyCounters
      <3> QED
        BY <1>0, <1>5, <2>2, <3>2, <3>3
           DEF ReadStore, CopyGauges, KeepInv, Includes, Stopped, MemTypeOK
    <2>3. CASE CopyCounters(p)
      <3>1. copy'[p].done = half[p].done
        BY <1>0, <2>3, ReplaceCounters DEF CopyCounters, MemTypeOK
      <3>2. Includes(copy'[p], p)
        BY <1>0, <1>5, <2>3, <3>1, CompleteOfDone
           DEF ReadStore, CopyCounters, Includes, KeepInv
      <3>3. save' = [save EXCEPT ![p] = "encode"]
        BY <1>5, <2>3 DEF ReadStore, CopyGauges, CopyCounters
      <3> QED
        BY <1>0, <1>5, <2>3, <3>2, <3>3
           DEF ReadStore, CopyCounters, KeepInv, Includes, Stopped, MemTypeOK
    <2> QED
      BY <1>5, <2>2, <2>3 DEF ReadStore
  <1>6. ASSUME NEW p \in Savers, CreateTemp(p) \/ WriteTemp(p) \/ SaveFails(p)
        PROVE  KeepInv'
    BY <1>6 DEF CreateTemp, WriteTemp, SaveFails, memVars, KeepInv, Includes, Stopped
  <1>7. ASSUME NEW p \in Savers, Rename(p) PROVE KeepInv'
    <2>1. file' = copy[p] /\ copy[p] \in Contents /\ Includes(copy[p], p)
      BY <1>0, <1>7 DEF Rename, KeepInv, MemTypeOK
    <2>2. CASE p \in Requests /\ phase = "running"
      <3>1. \A q \in Savers : q # p => ~Active(q)
        BY <1>0, <1>7, <2>2 DEF Rename, ProcessInv, Active, Savers
      <3>2. Complete(mem, p)
        BY <1>7, <2>2 DEF Rename, ProcessInv, Active, UpdateInv
      <3>3. synced' = synced \cup {p}
        BY <1>7, <2>2 DEF Rename
      <3>4. \A r \in synced' : Holds(file', r)
        BY <2>1, <2>2, <3>3, PersistenceAssumption DEF Includes, Holds
      <3>5. \A q \in Savers : save'[q] \notin {"read", "encode", "write", "rename"}
        BY <1>7, <3>1 DEF Rename, Active
      <3> QED
        BY <1>7, <3>2, <3>3, <3>4, <3>5 DEF Rename, memVars, KeepInv, Stopped
    <2>3. CASE ~(p \in Requests /\ phase = "running")
      <3>1. synced' = synced
        BY <1>7, <2>3 DEF Rename
      <3>2. \A r \in synced' : Holds(file', r)
        BY <2>1, <3>1, PersistenceAssumption DEF Includes, Holds
      <3> QED
        BY <1>7, <3>1, <3>2 DEF Rename, memVars, KeepInv, Includes, Stopped
    <2> QED
      BY <2>2, <2>3
  <1>8. ASSUME NEW r \in Requests, ReturnSync(r) PROVE KeepInv'
    BY <1>8 DEF ReturnSync, Forget, KeepInv, Includes, Stopped
  <1>9. CASE SaverTick \/ SaverReturn \/ SaverStop
    BY <1>9, <1>0 DEF SaverTick, SaverReturn, SaverStop, Forget, memVars,
                 KeepInv, ProcessInv, Includes, Stopped
  <1>10. CASE Signal \/ Shutdown
    BY <1>10 DEF Signal, Shutdown, memVars, KeepInv, Includes, Stopped
  <1>11. CASE FinalSave
    <2>1. Main \notin readers
      BY <1>11 DEF FinalSave, ProcessInv
    <2> QED
      BY <1>11, <2>1 DEF FinalSave, memVars, KeepInv, Includes, Stopped
  <1>12. CASE Exit \/ Crash
    BY <1>12 DEF Exit, Crash, ProcessGone, KeepInv, Stopped
  <1>13. CASE UNCHANGED vars
    BY <1>13 DEF vars, memVars, pVars, KeepInv, Includes, Stopped
  <1> QED
    BY <1>0, <1>1, <1>2, <1>3, <1>4, <1>5, <1>6, <1>7, <1>8, <1>9, <1>10, <1>11, <1>12, <1>13
       DEF Next, Handler, SaverLoop, MainLoop, SaveStep, Finished
-----------------------------------------------------------------------------
LEMMA InvariantInit == Init => IInv
  <1> SUFFICES ASSUME Init PROVE IInv
    OBVIOUS
  <1>1. TypeOK
    BY InitType
  <1>2. ProcessInv /\ UpdateInv /\ KeepInv
    BY SaversApart
       DEF Init, MemInit, ProcessInv, UpdateInv, KeepInv, Active, Stopped, Savers
  <1> QED
    BY <1>1, <1>2 DEF IInv

(* In sync mode with restore, an update whose save reached the file of a   *)
(* running server is in the file ever after (main.go:40-69, 110-116,       *)
(* 220-239, 275-315).                                                      *)
THEOREM Durability == Spec => []SyncDurability
  <1>1. CASE Mode = "sync" /\ Restore /\ "load" \notin IOFails
    <2>1. IInv /\ [Next]_vars => IInv'
      BY <1>1, TypeStep, ProcessStep, UpdateStep, KeepStep DEF IInv
    <2>2. IInv => SyncDurability
      BY DEF IInv, KeepInv, SyncDurability
    <2> QED
      BY InvariantInit, <2>1, <2>2, PTL DEF Spec
  <1>2. CASE ~(Mode = "sync" /\ Restore /\ "load" \notin IOFails)
    <2>1. SyncDurability
      BY <1>2 DEF SyncDurability
    <2> QED
      BY <2>1, PTL
  <1> QED
    BY <1>1, <1>2
-----------------------------------------------------------------------------
(***************************************************************************)
(* What makes the file grow only: whatever is on its way to the file has   *)
(* nothing the storage lacks, and, until a signal, all that is in the      *)
(* file.  The latter survives a rename because only one goroutine is in    *)
(* saveMetrics then: in sync mode the holder of the mutex, otherwise the   *)
(* ticker.                                                                 *)
(***************************************************************************)
Below(k, l) == \A r \in Requests : k.done[r] <= l.done[r]

Between(k) == /\ Below(k, mem)
              /\ phase = "running" /\ file # NoFile => Below(file, k)

OrderInv ==
    /\ file \in Contents \cup {NoFile}
    /\ ~Stopped /\ file # NoFile => Below(file, mem)
    /\ Mode # "sync" => \A r \in Requests : ~Active(r)
    /\ \A p \in Savers :
         /\ save[p] = "read" /\ p \in readers => Between(half[p])
         /\ save[p] \in {"encode", "write", "rename"} => Between(copy[p])
         /\ save[p] = "rename" => temp[p] = copy[p]

LEMMA BelowOrder ==
  /\ \A k \in Contents : Below(k, k)
  /\ \A k \in Contents, l \in Contents, m \in Contents :
       Below(k, l) /\ Below(l, m) => Below(k, m)
  BY DEF Below, Contents

LEMMA BelowOfDone ==
  ASSUME NEW k, NEW l, k.done = l.done
  PROVE  /\ \A m : Below(k, m) => Below(l, m)
         /\ \A m : Below(m, k) => Below(m, l)
  BY DEF Below

(* No update takes a metric back. *)
LEMMA UpdatesAdd ==
  ASSUME MemTypeOK, NEW r \in Requests, Update(r)
  PROVE  Below(mem, mem')
  <1>1. CASE ApplyNext(r)
    <2>1. mem'.done = [mem.done EXCEPT ![r] = mem.done[r] + 1]
      BY <1>1, ApplyMetricType DEF ApplyNext, MemTypeOK
    <2>2. mem.done \in [Requests -> Nat]
      BY DEF MemTypeOK, Contents
    <2> QED
      BY <2>1, <2>2 DEF Below
  <1>2. CASE UNCHANGED mem
    BY <1>2, BelowOrder DEF MemTypeOK
  <1> QED
    BY <1>1, <1>2 DEF Update, AnnounceWriter, BeginUpdate, EndUpdate

(* A rename by a server that runs meets no other save. *)
LEMMA OneSaveAtATime ==
  ASSUME TypeOK, ProcessInv, OrderInv, phase = "running",
         NEW p \in Savers, Active(p), NEW q \in Savers, q # p
  PROVE  ~Active(q)
  <1>1. ~Active(Main)
    BY DEF ProcessInv
  <1>2. Mode = "sync" => ~Active(Saver)
    BY DEF ProcessInv, Active
  <1>3. Mode # "sync" => \A r \in Requests : ~Active(r)
    BY DEF OrderInv
  <1>4. p \in Requests /\ q \in Requests => ~Active(q)
    BY DEF ProcessInv
  <1> QED
    BY <1>1, <1>2, <1>3, <1>4 DEF Savers

LEMMA OrderStep ==
  ASSUME Restore, "load" \notin IOFails,
         TypeOK, TypeOK', ProcessInv, OrderInv, [Next]_vars
  PROVE  OrderInv'
  <1> USE DEF TypeOK
  <1>0. Saver \in Savers /\ Main \in Savers /\ Requests \subseteq Savers /\ Readers = Savers
    BY SaversApart DEF Savers
  <1>a. file # NoFile => file \in Contents
    BY DEF OrderInv
  <1>b. mem \in Contents /\ mem' \in Contents
    BY DEF MemTypeOK
  <1>c. \A p \in Savers : half[p] \in Contents /\ copy[p] \in Contents
    BY <1>0 DEF MemTypeOK
  <1>1. CASE Start
    <2>1. file # NoFile => Below(file, mem')
      <3>1. CASE file = NoFile
        BY <3>1
      <3>2. CASE file # NoFile
        <4>1. mem' = LoadInto(Empty, file)
          BY <1>1, <1>a, <3>2, PersistenceAssumption DEF Start, Restored
        <4>2. mem'.done = file.done
          BY <1>a, <3>2, <4>1, LoadIntoType
        <4> QED
          BY <1>a, <1>b, <3>2, <4>2, BelowOrder, BelowOfDone
      <3> QED
        BY <3>1, <3>2
    <2>2. \A p \in Savers : save'[p] \in {"off", "idle"}
      BY <1>1 DEF Start
    <2> QED
      BY <1>0, <1>1, <2>1, <2>2 DEF Start, OrderInv, Active
  <1>2. ASSUME NEW r \in Requests, UpdateStore(r) PROVE OrderInv'
    <2>1. UNCHANGED <<pVars, half, copy, readers>>
      BY <1>2 DEF UpdateStore, Update, AnnounceWriter, BeginUpdate, ApplyNext, EndUpdate
    <2>2. \A k \in Contents : Below(k, mem) => Below(k, mem')
      BY <1>2, <1>b, UpdatesAdd, BelowOrder DEF UpdateStore
    <2>3. \A k \in Contents : Between(k) => Between(k)'
      BY <2>1, <2>2 DEF Between, pVars, Below
    <2>4. \A p \in Savers : /\ Between(half[p]) => (Between(half[p]))'
                            /\ Between(copy[p]) => (Between(copy[p]))'
      BY <1>c, <2>1, <2>2 DEF Between, pVars, Below
    <2>5. ~Stopped /\ file # NoFile => Below(file, mem')
      BY <1>a, <2>2 DEF OrderInv
    <2> QED
      BY <2>1, <2>4, <2>5 DEF pVars, OrderInv, Stopped, Active, Below
  <1>3. ASSUME NEW r \in Requests, Accept(r) \/ Reply(r) PROVE OrderInv'
    BY <1>3 DEF Accept, Reply, pVars, OrderInv, Between, Below, Active, Stopped
  <1>4. ASSUME NEW r \in Requests, LockSync(r) PROVE OrderInv'
    <2>1. r \notin readers
      BY <1>4, NoneIsNobody DEF LockSync, ProcessInv, MuFree, Active
    <2> QED
      BY <1>4, <2>1 DEF LockSync, OrderInv, Between, Below, Active, Stopped
  <1>5. ASSUME NEW p \in Savers, ReadStore(p) PROVE OrderInv'
    <2>0. UNCHANGED <<mem, phase, file, temp>> /\ ~Stopped
      BY <1>5, <1>0 DEF ReadStore, CopyGauges, CopyCounters, ProcessInv
    <2>1. Between(mem)
      BY <1>b, <2>0, BelowOrder DEF OrderInv, Between
    <2>2. CASE CopyGauges(p)
      <3>1. [mem EXCEPT !.c = Empty.c].done = mem.done
        BY EmptyIsContents, ReplaceCounters DEF MemTypeOK
      <3>2. half'[p].done = mem.done
        BY <1>0, <2>2, <3>1 DEF CopyGauges, MemTypeOK
      <3>3. (Between(half[p]))'
        BY <2>0, <2>1, <3>2 DEF Between, Below
      <3>4. save' = save /\ copy' = copy
        BY <1>5, <2>2 DEF ReadStore, CopyGauges, CopyCounters
      <3>5. \A q \in Savers : q # p => half'[q] = half[q] /\ (q \in readers' <=> q \in readers)
        BY <1>0, <2>2 DEF CopyGauges, MemTypeOK
      <3> QED
        BY <2>0, <3>3, <3>4, <3>5 DEF OrderInv, Between, Below, Active, Stopped
    <2>3. CASE CopyCounters(p)
      <3>1. copy'[p].done = half[p].done
        BY <1>0, <2>3, ReplaceCounters DEF CopyCounters, MemTypeOK
      <3>2. Between(half[p])
        BY <1>5, <2>3 DEF ReadStore, CopyCounters, OrderInv
      <3>3. (Between(copy[p]))'
        BY <2>0, <3>1, <3>2 DEF Between, Below
      <3>4. save' = [save EXCEPT ![p] = "encode"] /\ half' = half
        BY <1>5, <2>3 DEF ReadStore, CopyGauges, CopyCounters
      <3>5. \A q \in Savers : q # p => copy'[q] = copy[q] /\ (q \in readers' <=> q \in readers)
        BY <1>0, <2>3 DEF CopyCounters, MemTypeOK
      <3>6. Active(p) /\ \A q \in Savers : q # p => save'[q] = save[q]
        BY <1>5, <3>4 DEF ReadStore, Active
      <3>7. save'[p] = "encode"
        BY <3>4
      <3> QED
        BY <1>0, <2>0, <3>3, <3>4, <3>5, <3>6, <3>7
           DEF OrderInv, Between, Below, Active, Stopped
    <2> QED
      BY <1>5, <2>2, <2>3 DEF ReadStore
  <1>6. ASSUME NEW p \in Savers, CreateTemp(p) \/ WriteTemp(p) \/ SaveFails(p)
        PROVE  OrderInv'
    <2>1. UNCHANGED <<memVars, phase, file>>
      BY <1>6 DEF CreateTemp, WriteTemp, SaveFails
    <2>2. \A k : Between(k) => /\ Below(k, mem')
                               /\ phase' = "running" /\ file' # NoFile => Below(file', k)
      BY <2>1 DEF memVars, Between, Below
    <2>3. \A q \in Savers : q # p => save'[q] = save[q] /\ temp'[q] = temp[q]
      BY <1>6 DEF CreateTemp, WriteTemp, SaveFails
    <2>4. /\ save[p] \in {"encode", "write", "rename"}
          /\ save'[p] \in {"write", "rename", "done"}
          /\ save'[p] = "rename" => temp'[p] = copy[p]
      BY <1>6 DEF CreateTemp, WriteTemp, SaveFails
    <2>5. Mode # "sync" => \A r \in Requests : ~Active(r)'
      BY <1>0, <2>3, <2>4 DEF OrderInv, Active
    <2>6. ASSUME NEW q \in Savers
          PROVE  /\ save'[q] = "read" /\ q \in readers' => (Between(half[q]))'
                 /\ save'[q] \in {"encode", "write", "rename"} => (Between(copy[q]))'
                 /\ save'[q] = "rename" => temp'[q] = copy'[q]
      BY <2>1, <2>2, <2>3, <2>4 DEF memVars, OrderInv, Between
    <2> QED
      BY <2>1, <2>5, <2>6 DEF memVars, OrderInv, Stopped, Below
  <1>7. ASSUME NEW p \in Savers, Rename(p) PROVE OrderInv'
    <2>1. file' = copy[p] /\ copy[p] \in Contents /\ Below(copy[p], mem)
      BY <1>7, <1>c DEF Rename, OrderInv, Between
    <2>2. UNCHANGED <<memVars, phase>> /\ save' = [save EXCEPT ![p] = "done"]
      BY <1>7 DEF Rename
    <2>3. \A q \in Savers : q # p => save'[q] = save[q] /\ temp'[q] = temp[q]
      BY <1>7 DEF Rename
    <2>4. save'[p] = "done" /\ Active(p)
      BY <1>7 DEF Rename, Active
    <2>5. phase = "running" => \A q \in Savers : q # p => ~Active(q)
      BY <2>4, OneSaveAtATime
    <2>6. file' \in Contents /\ Below(file', mem')
      BY <2>1, <2>2 DEF memVars, Below
    <2>7. Mode # "sync" => \A r \in Requests : ~Active(r)'
      BY <1>0, <2>3, <2>4 DEF OrderInv, Active
    <2>8. ASSUME NEW q \in Savers
          PROVE  /\ save'[q] = "read" /\ q \in readers' => (Between(half[q]))'
                 /\ save'[q] \in {"encode", "write", "rename"} => (Between(copy[q]))'
                 /\ save'[q] = "rename" => temp'[q] = copy'[q]
      <3>1. CASE q = p
        BY <2>4, <3>1
      <3>2. CASE q # p
        BY <2>2, <2>3, <2>5, <3>2 DEF memVars, OrderInv, Between, Below, Active
      <3> QED
        BY <3>1, <3>2
    <2> QED
      BY <2>6, <2>7, <2>8 DEF OrderInv
  <1>8. ASSUME NEW r \in Requests, ReturnSync(r) PROVE OrderInv'
    BY <1>8, <1>0 DEF ReturnSync, Forget, OrderInv, Between, Below, Active, Stopped
  <1>9. CASE SaverTick \/ SaverReturn \/ SaverStop
    <2>1. UNCHANGED <<mem, readers, phase, file, temp>>
      BY <1>9 DEF SaverTick, SaverReturn, SaverStop, memVars
    <2>2. /\ Saver \notin readers
          /\ save'[Saver] \in {"read", "idle", "off"}
      BY <1>9, <1>0 DEF SaverTick, SaverReturn, SaverStop, ProcessInv
    <2>3. \A q \in Savers : q # Saver => /\ save'[q] = save[q] /\ half'[q] = half[q]
                                         /\ copy'[q] = copy[q]
      BY <1>9, <1>0 DEF SaverTick, SaverReturn, SaverStop, Forget, memVars, MemTypeOK
    <2>4. Mode # "sync" => \A r \in Requests : ~Active(r)'
      BY <1>0, <2>3, SaversApart DEF OrderInv, Active
    <2>5. ASSUME NEW q \in Savers
          PROVE  /\ save'[q] = "read" /\ q \in readers' => (Between(half[q]))'
                 /\ save'[q] \in {"encode", "write", "rename"} => (Between(copy[q]))'
                 /\ save'[q] = "rename" => temp'[q] = copy'[q]
      BY <2>1, <2>2, <2>3 DEF OrderInv, Between, Below
    <2> QED
      BY <2>1, <2>4, <2>5 DEF OrderInv, Stopped, Below
  <1>10. CASE Signal \/ Shutdown
    BY <1>10 DEF Signal, Shutdown, memVars, OrderInv, Between, Below, Active, Stopped
  <1>11. CASE FinalSave
    <2>1. Main \notin readers
      BY <1>11 DEF FinalSave, ProcessInv
    <2> QED
      BY <1>11, <1>0, <2>1, SaversApart
         DEF FinalSave, memVars, OrderInv, Between, Below, Active, Stopped
  <1>12. CASE Exit \/ Crash
    BY <1>12, <1>0 DEF Exit, Crash, ProcessGone, OrderInv, Stopped, Active
  <1>13. CASE UNCHANGED vars
    BY <1>13 DEF vars, memVars, pVars, OrderInv, Between, Below, Active, Stopped
  <1> QED
    BY <1>0, <1>1, <1>2, <1>3, <1>4, <1>5, <1>6, <1>7, <1>8, <1>9, <1>10, <1>11, <1>12, <1>13
       DEF Next, Handler, SaverLoop, MainLoop, SaveStep, Finished

(* Only Rename touches the file. *)
LEMMA FileStep ==
  ASSUME TypeOK, OrderInv, [Next]_vars
  PROVE  \/ UNCHANGED file
         \/ \E p \in Savers : Rename(p)
  <1>1. Saver \in Savers /\ Main \in Savers /\ Requests \subseteq Savers
    BY DEF Savers
  <1> QED
    BY <1>1
       DEF Next, Handler, SaverLoop, MainLoop, SaveStep, Finished, vars, pVars,
           Start, Accept, UpdateStore, LockSync, ReadStore, CreateTemp, WriteTemp,
           SaveFails, ReturnSync, Reply, SaverTick, SaverReturn, SaverStop,
           Signal, Shutdown, FinalSave, Exit, Crash, ProcessGone

(* With restore a save of a running server takes no update out of the      *)
(* file, in either mode, whatever copies are on their way (main.go:49-51,  *)
(* 125-142, 275-315).                                                      *)
THEOREM FileOnlyGrows ==
  Restore /\ "load" \notin IOFails => (Spec => FileNeverRegresses)
  <1> SUFFICES ASSUME Restore, "load" \notin IOFails
               PROVE  Spec => FileNeverRegresses
    OBVIOUS
  <1> DEFINE Inv == TypeOK /\ ProcessInv /\ OrderInv
             Grows == phase = "running" /\ phase' = "running" /\ file # NoFile =>
                        /\ file' \notin {NoFile, Torn}
                        /\ \A r \in Requests : file.done[r] <= file'.done[r]
  <1>1. Init => Inv
    BY InitType, PersistenceAssumption, SaversApart
       DEF Init, MemInit, ProcessInv, OrderInv, Active, Stopped, Savers
  <1>2. Inv /\ [Next]_vars => Inv'
    BY TypeStep, ProcessStep, OrderStep
  <1>3. Inv /\ [Next]_vars => Grows
    <2> SUFFICES ASSUME Inv, [Next]_vars, phase = "running", file # NoFile
                 PROVE  /\ file' \notin {NoFile, Torn}
                        /\ \A r \in Requests : file.done[r] <= file'.done[r]
      OBVIOUS
    <2>1. file \in Contents
      BY DEF OrderInv
    <2>2. CASE UNCHANGED file
      BY <2>1, <2>2, BelowOrder, PersistenceAssumption DEF Below
    <2>3. ASSUME NEW p \in Savers, Rename(p)
          PROVE  /\ file' \notin {NoFile, Torn}
                 /\ \A r \in Requests : file.done[r] <= file'.done[r]
      <3>1. file' = copy[p] /\ Between(copy[p])
        BY <2>3 DEF Rename, OrderInv
      <3>2. copy[p] \in Contents
        BY SaversApart DEF TypeOK, MemTypeOK
      <3> QED
        BY <3>1, <3>2, PersistenceAssumption DEF Between, Below
    <2> QED
      BY <2>2, <2>3, FileStep
  <1> HIDE DEF Inv
  <1>4. Spec => []Inv
    BY <1>1, <1>2, PTL DEF Spec
  <1> QED
    BY <1>3, <1>4, PTL DEF Spec, FileNeverRegresses
-----------------------------------------------------------------------------
(***************************************************************************)
(* FileIsSnapshot, in every mode.  A file is a copy of the storage, a copy *)
(* is the storage of a moment at which no update was in its loop           *)
(* (IsolationInv), the storage accounts for its history (SoundInv), and a  *)
(* restore reads back exactly what the file holds.                         *)
(***************************************************************************)
Snapshot(k) == k \in Contents /\ Sound(k) /\ \A r \in Requests : Whole(k, r)

SnapshotInv ==
    /\ IsolationInv /\ SoundInv
    /\ file = NoFile \/ Snapshot(file)
    /\ \A p \in Savers : save[p] = "rename" => temp[p] = copy[p]

(* loadMetrics restores the contents that were saved, into an empty        *)
(* storage (main.go:253-271).                                              *)
LEMMA LoadIntoEmpty ==
  ASSUME NEW f \in Contents
  PROVE  LoadInto(Empty, f) = f
  <1> DEFINE k == LoadInto(Empty, f)
  <1>1. k \in Contents /\ k.done = f.done
    BY LoadIntoType
  <1>2. /\ f.g \in [Names -> GaugeVals \cup {Nil}] /\ f.c \in [Names -> Int64 \cup {Nil}]
        /\ k.g \in [Names -> GaugeVals \cup {Nil}] /\ k.c \in [Names -> Int64 \cup {Nil}]
    BY <1>1 DEF Contents
  <1>3. \A n \in Names : k.g[n] = f.g[n]
    BY DEF LoadInto, Empty
  <1>4. \A n \in Names : k.c[n] = f.c[n]
    <2> SUFFICES ASSUME NEW n \in Names PROVE k.c[n] = f.c[n]
      OBVIOUS
    <2>1. k.c[n] = IF f.c[n] = Nil THEN Nil ELSE Wrap(0 + f.c[n])
      BY DEF LoadInto, Empty, Total
    <2>2. CASE f.c[n] = Nil
      BY <2>1, <2>2
    <2>3. CASE f.c[n] # Nil
      <3>1. f.c[n] \in Int64 /\ f.c[n] \in Int
        BY <1>2, <2>3, Int64IsInt
      <3>2. \A i \in Int : 0 + i = i
        OBVIOUS
      <3> QED
        BY <2>1, <2>3, <3>1, <3>2, WrapOfInt64
    <2> QED
      BY <2>2, <2>3
  <1> HIDE DEF k
  <1>5. k.g = f.g /\ k.c = f.c
    BY <1>2, <1>3, <1>4
  <1>6. k = f
    BY <1>1, <1>5, SameContents
  <1> QED
    BY <1>6 DEF k

LEMMA EmptyIsSnapshot == Snapshot(Empty)
  BY EmptyIsContents, EmptyIsSound DEF Snapshot, Whole, Empty

LEMMA RestoredIsSnapshot ==
  ASSUME SnapshotInv, NEW k \in Restored
  PROVE  Snapshot(k)
  <1>1. CASE k = Empty
    BY <1>1, EmptyIsSnapshot
  <1>2. CASE k # Empty
    <2>1. file \notin {NoFile, Torn} /\ k = LoadInto(Empty, file)
      BY <1>2 DEF Restored
    <2>2. Snapshot(file)
      BY <2>1 DEF SnapshotInv
    <2> QED
      BY <2>1, <2>2, LoadIntoEmpty DEF Snapshot
  <1> QED
    BY <1>1, <1>2

(* Steps that leave the two maps, the lock and every copy alone.           *)
LEMMA StorageUntouched ==
  ASSUME IsolationInv, SoundInv, MemTypeOK',
         UNCHANGED <<mem, writer, readers, half, copy>>,
         \A r \in Requests : call'[r] \in {"waiting", "writing"} => call'[r] = call[r],
         \A r \in Requests : call[r] = "writing" => call'[r] = "writing"
  PROVE  IsolationInv' /\ SoundInv'
  BY DEF IsolationInv, SoundInv, LockInv, HalfInv, NoHalfBatch

LEMMA StorageForgotten ==
  ASSUME IsolationInv, SoundInv, MemTypeOK', NEW p \in Readers \ readers,
         UNCHANGED <<mem, writer, readers>>, Forget(p),
         \A r \in Requests : call'[r] \in {"waiting", "writing"} => call'[r] = call[r],
         \A r \in Requests : call[r] = "writing" => call'[r] = "writing"
  PROVE  IsolationInv' /\ SoundInv'
  <1>1. \A q \in readers : half'[q] = half[q]
    BY DEF Forget, IsolationInv, MemTypeOK
  <1>2. \A q \in Readers : copy'[q] \in {copy[q], Empty}
    BY DEF Forget, IsolationInv, MemTypeOK
  <1>3. LockInv' /\ HalfInv'
    BY <1>1 DEF IsolationInv, LockInv, HalfInv
  <1>4. NoHalfBatch'
    BY <1>2, EmptyIsSnapshot DEF Snapshot, IsolationInv, NoHalfBatch
  <1>5. SoundInv'
    BY <1>2, EmptyIsSound DEF SoundInv
  <1> QED
    BY <1>3, <1>4, <1>5 DEF IsolationInv

LEMMA StorageGone ==
  ASSUME ProcessGone, MemTypeOK'
  PROVE  IsolationInv' /\ SoundInv'
  <1>1. \A p \in Readers : copy'[p] = Empty
    BY SaversApart DEF ProcessGone
  <1>2. mem' = Empty /\ readers' = {} /\ \A r \in Requests : call'[r] \notin {"waiting", "writing"}
    BY DEF ProcessGone
  <1>3. LockInv' /\ HalfInv'
    BY <1>2, EmptyIsSnapshot DEF LockInv, HalfInv, Snapshot
  <1>4. NoHalfBatch' /\ SoundInv'
    BY <1>1, <1>2, EmptyIsSnapshot DEF NoHalfBatch, SoundInv, Snapshot
  <1> QED
    BY <1>3, <1>4 DEF IsolationInv

LEMMA SnapshotStep ==
  ASSUME TypeOK, TypeOK', ProcessInv, SnapshotInv, [Next]_vars
  PROVE  SnapshotInv'
  <1>0. /\ Saver \in Savers /\ Main \in Savers /\ Requests \subseteq Savers /\ Readers = Savers
        /\ MemTypeOK /\ MemTypeOK' /\ IsolationInv /\ SoundInv
    BY SaversApart DEF Savers, TypeOK, SnapshotInv
  <1> USE <1>0
  <1>1. CASE Start
    <2>1. Snapshot(mem')
      BY <1>1, RestoredIsSnapshot DEF Start
    <2>2. readers = {} /\ \A r \in Requests : call[r] \notin {"waiting", "writing"}
      BY <1>1 DEF Start, ProcessInv, Stopped, MemTypeOK
    <2>3. LockInv' /\ HalfInv' /\ NoHalfBatch' /\ SoundInv'
      BY <1>1, <2>1, <2>2
         DEF Start, Snapshot, IsolationInv, LockInv, HalfInv, NoHalfBatch, SoundInv
    <2>4. \A p \in Savers : save'[p] # "rename"
      BY <1>1 DEF Start
    <2> QED
      BY <1>1, <2>3, <2>4 DEF Start, SnapshotInv, IsolationInv
  <1>2. ASSUME NEW r \in Requests, UpdateStore(r) PROVE SnapshotInv'
    <2>1. IsolationInv' /\ SoundInv'
      BY <1>2, IsolationStep, SoundStep DEF UpdateStore, StorageNext
    <2>2. UNCHANGED <<file, save, temp, copy>>
      BY <1>2 DEF UpdateStore, pVars, Update, AnnounceWriter, BeginUpdate, ApplyNext, EndUpdate
    <2> QED
      BY <2>1, <2>2 DEF SnapshotInv
  <1>3. ASSUME NEW r \in Requests, Accept(r) \/ LockSync(r) \/ Reply(r)
        PROVE  SnapshotInv'
    <2>1. /\ UNCHANGED <<mem, writer, readers, half, copy, file, temp>>
          /\ \E c \in {"open", "saving", "replied"} : call' = [call EXCEPT ![r] = c]
          /\ call[r] # "writing"
      BY <1>3 DEF Accept, LockSync, Reply, pVars
    <2>2. IsolationInv' /\ SoundInv'
      BY <2>1, StorageUntouched DEF MemTypeOK
    <2>3. \A p \in Savers : save'[p] = "rename" => save[p] = "rename"
      BY <1>3 DEF Accept, LockSync, Reply, pVars, TypeOK
    <2> QED
      BY <2>1, <2>2, <2>3 DEF SnapshotInv
  <1>4. ASSUME NEW p \in Savers, ReadStore(p) PROVE SnapshotInv'
    <2>1. StorageNext
      BY <1>4 DEF ReadStore, StorageNext
    <2>2. IsolationInv' /\ SoundInv'
      BY <2>1, IsolationStep, SoundStep
    <2>3. /\ UNCHANGED <<file, temp>>
          /\ \A q \in Savers : save'[q] = "rename" => save[q] = "rename" /\ copy'[q] = copy[q]
      BY <1>4 DEF ReadStore, CopyGauges, CopyCounters, TypeOK, MemTypeOK
    <2> QED
      BY <2>2, <2>3 DEF SnapshotInv
  <1>5. ASSUME NEW p \in Savers, CreateTemp(p) \/ WriteTemp(p) \/ SaveFails(p)
        PROVE  SnapshotInv'
    <2>1. UNCHANGED memVars /\ UNCHANGED file
      BY <1>5 DEF CreateTemp, WriteTemp, SaveFails
    <2>2. IsolationInv' /\ SoundInv'
      BY <2>1, StorageUntouched DEF memVars
    <2>3. \A q \in Savers : save'[q] = "rename" => temp'[q] = copy'[q]
      BY <1>5, <2>1 DEF CreateTemp, WriteTemp, SaveFails, memVars, TypeOK, SnapshotInv
    <2> QED
      BY <2>1, <2>2, <2>3 DEF SnapshotInv
  <1>6. ASSUME NEW p \in Savers, Rename(p) PROVE SnapshotInv'
    <2>1. UNCHANGED memVars
      BY <1>6 DEF Rename
    <2>2. IsolationInv' /\ SoundInv'
      BY <2>1, StorageUntouched DEF memVars
    <2>3. file' = copy[p] /\ copy[p] \in Contents
      BY <1>6 DEF Rename, SnapshotInv, MemTypeOK
    <2>4. Snapshot(file')
      BY <2>3 DEF Snapshot, SoundInv, IsolationInv, NoHalfBatch
    <2>5. \A q \in Savers : save'[q] = "rename" => temp'[q] = copy'[q]
      BY <1>6, <2>1 DEF Rename, memVars, TypeOK, SnapshotInv
    <2> QED
      BY <2>2, <2>4, <2>5 DEF SnapshotInv
  <1>7. ASSUME NEW r \in Requests, ReturnSync(r) PROVE SnapshotInv'
    <2>1. r \notin readers
      BY <1>7 DEF ReturnSync, ProcessInv
    <2>2. IsolationInv' /\ SoundInv'
      BY <1>7, <2>1, StorageForgotten DEF ReturnSync, MemTypeOK
    <2>3. /\ UNCHANGED <<file, temp>>
          /\ \A q \in Savers : save'[q] = "rename" => save[q] = "rename" /\ copy'[q] = copy[q]
      BY <1>7 DEF ReturnSync, Forget, TypeOK, MemTypeOK
    <2> QED
      BY <2>2, <2>3 DEF SnapshotInv
  <1>8. CASE SaverReturn
    <2>1. Saver \notin readers
      BY <1>8 DEF SaverReturn, ProcessInv
    <2>2. IsolationInv' /\ SoundInv'
      BY <1>8, <2>1, StorageForgotten DEF SaverReturn
    <2>3. /\ UNCHANGED <<file, temp>>
          /\ \A q \in Savers : save'[q] = "rename" => save[q] = "rename" /\ copy'[q] = copy[q]
      BY <1>8 DEF SaverReturn, Forget, TypeOK, MemTypeOK
    <2> QED
      BY <2>2, <2>3 DEF SnapshotInv
  <1>9. CASE SaverTick \/ SaverStop \/ Signal \/ Shutdown \/ FinalSave
    <2>1. UNCHANGED memVars /\ UNCHANGED <<file, temp>>
      BY <1>9 DEF SaverTick, SaverStop, Signal, Shutdown, FinalSave
    <2>2. IsolationInv' /\ SoundInv'
      BY <2>1, StorageUntouched DEF memVars
    <2>3. \A q \in Savers : save'[q] = "rename" => save[q] = "rename"
      BY <1>9 DEF SaverTick, SaverStop, Signal, Shutdown, FinalSave, TypeOK
    <2> QED
      BY <2>1, <2>2, <2>3 DEF SnapshotInv, memVars
  <1>10. CASE Exit \/ Crash
    <2>1. ProcessGone
      BY <1>10 DEF Exit, Crash
    <2>2. IsolationInv' /\ SoundInv'
      BY <2>1, StorageGone
    <2>3. file' = file /\ \A p \in Savers : save'[p] = "off"
      BY <2>1 DEF ProcessGone
    <2> QED
      BY <2>2, <2>3 DEF SnapshotInv
  <1>11. CASE UNCHANGED vars
    <2>1. UNCHANGED memVars /\ UNCHANGED <<file, save, temp>>
      BY <1>11 DEF vars, pVars
    <2>2. IsolationInv' /\ SoundInv'
      BY <2>1, StorageUntouched DEF memVars
    <2> QED
      BY <2>1, <2>2 DEF SnapshotInv, memVars
  <1> QED
    BY <1>1, <1>2, <1>3, <1>4, <1>5, <1>6, <1>7, <1>8, <1>9, <1>10, <1>11
       DEF Next, Handler, SaverLoop, MainLoop, SaveStep, Finished

LEMMA SnapshotInit == Init => SnapshotInv
  <1> SUFFICES ASSUME Init PROVE SnapshotInv
    OBVIOUS
  <1>1. TypeOK /\ ProcessInv
    BY InitType, InvariantInit DEF IInv
  <1>2. IsolationInv /\ SoundInv
    BY <1>1, EmptyIsSnapshot
       DEF Init, MemInit, TypeOK, IsolationInv, LockInv, HalfInv, NoHalfBatch, SoundInv, Snapshot
  <1>3. file = NoFile /\ \A p \in Savers : save[p] = "off"
    BY DEF Init
  <1> QED
    BY <1>1, <1>2, <1>3 DEF SnapshotInv

LEMMA SnapshotAlways == Spec => []SnapshotInv
  <1> DEFINE Inv == TypeOK /\ ProcessInv /\ SnapshotInv
  <1>1. Init => Inv
    BY InitType, InvariantInit, SnapshotInit DEF IInv
  <1>2. Inv /\ [Next]_vars => Inv'
    BY TypeStep, ProcessStep, SnapshotStep
  <1>3. Inv => SnapshotInv
    OBVIOUS
  <1> HIDE DEF Inv
  <1> QED
    BY <1>1, <1>2, <1>3, PTL DEF Spec

(* The file is always a state the storage was in, each request whole in it *)
(* and each metric counted once, through saves, restores and crashes       *)
(* (main.go:220-239, 253-315).                                             *)
THEOREM SnapshotInFile == Spec => []FileIsSnapshot
  <1>1. SnapshotInv => FileIsSnapshot
    <2> SUFFICES ASSUME SnapshotInv PROVE FileIsSnapshot
      OBVIOUS
    <2>1. CASE file = NoFile
      BY <2>1, PersistenceAssumption DEF FileIsSnapshot
    <2>2. CASE Snapshot(file)
      BY <2>2, PersistenceAssumption DEF Snapshot, Sound, FileIsSnapshot
    <2> QED
      BY <2>1, <2>2 DEF SnapshotInv
  <1> QED
    BY <1>1, SnapshotAlways, PTL

(* What was promised of the storage on its own holds in the server, with   *)
(* its saves as readers and its restores as a fresh start: after any       *)
(* number of crashes the maps hold each metric once that was saved or has  *)
(* come since, and no save reads a batch half applied (main.go:40-69,      *)
(* 220-315, storage.go:51-70, 117-133).                                    *)
THEOREM ServerAccounts == Spec => [](StorageAccounted /\ NoHalfBatch)
  <1>1. SnapshotInv => StorageAccounted /\ NoHalfBatch
    BY DEF SnapshotInv, SoundInv, Sound, StorageAccounted, IsolationInv
  <1> QED
    BY <1>1, SnapshotAlways, PTL

-----------------------------------------------------------------------------
(***************************************************************************)
(* Why UpdatesAnswered and SignalStops hold: whoever has mu, or s.mu, is   *)
(* at work with it, and the order in which the two are taken is the same   *)
(* everywhere, so somebody can always go on.                               *)
(***************************************************************************)
HoldersInv ==
    /\ writer # None => call[writer] \in {"waiting", "writing"}
    /\ smu # None => Active(smu)
    /\ \A r \in Requests : call[r] = "saving" => Active(r)
    /\ \A r \in Requests : call[r] \in {"saving", "saved"} => Mode = "sync"
    /\ phase = "closed" => save[Main] # "off"
    /\ phase \in {"running", "signalled"} => save[Main] = "idle"

(* saveMetrics of p has a next step, its return included. *)
SaveCanGo(p) ==
    \/ save[p] \in {"encode", "write", "rename", "done"}
    \/ save[p] = "read" /\ (p \in readers \/ RLockMu)

HandlerCanGo(r) ==
    \/ call[r] = "open" /\ writer = None
    \/ call[r] = "waiting" /\ ReadersGone
    \/ call[r] \in {"writing", "err", "saved"}
    \/ call[r] = "ok" /\ (Mode = "sync" => MuFree)
    \/ call[r] = "saving" /\ SaveCanGo(r)

ProcessCanGo ==
    \/ \E r \in Requests : HandlerCanGo(r)
    \/ \E p \in {Saver, Main} : Active(p) /\ SaveCanGo(p)

(* While a handler is at work, a save is under way or run() is on its way  *)
(* out, a handler, the ticker's save, the final one or run() can go on.    *)
NeverStuck ==
    /\ \A r \in Requests : call[r] \notin {"new", "replied", "killed"} => ProcessCanGo
    /\ \A p \in {Saver, Main} : Active(p) => ProcessCanGo
    /\ phase = "closed" => save[Main] = "idle" \/ ProcessCanGo

LEMMA HoldersStep ==
  ASSUME TypeOK, ProcessInv, HoldersInv, [Next]_vars
  PROVE  HoldersInv'
  <1> USE DEF TypeOK, ProcessInv, HoldersInv, Active
  <1>0. Saver \in Savers /\ Main \in Savers /\ Requests \subseteq Savers
    BY DEF Savers
  <1> USE <1>0, SaversApart, NoneIsNobody
  <1>1. CASE Start
    <2>1. writer = None /\ smu = None
      BY <1>1 DEF Start, MemTypeOK, Stopped
    <2> QED
      BY <1>1, <2>1 DEF Start, Stopped
  <1>2. ASSUME NEW r \in Requests, Accept(r) PROVE HoldersInv'
    BY <1>2 DEF Accept, pVars, MemTypeOK
  <1>3. ASSUME NEW r \in Requests, UpdateStore(r) PROVE HoldersInv'
    BY <1>3 DEF UpdateStore, Update, AnnounceWriter, BeginUpdate, ApplyNext,
                EndUpdate, MemTypeOK, pVars
  <1>4. ASSUME NEW r \in Requests, LockSync(r) PROVE HoldersInv'
    BY <1>4 DEF LockSync, MemTypeOK
  <1>5. ASSUME NEW p \in Savers, SaveStep(p) PROVE HoldersInv'
    BY <1>5 DEF SaveStep, ReadStore, CreateTemp, WriteTemp, Rename, SaveFails,
                CopyGauges, CopyCounters, memVars
  <1>6. ASSUME NEW r \in Requests, ReturnSync(r) PROVE HoldersInv'
    BY <1>6 DEF ReturnSync, MemTypeOK
  <1>7. ASSUME NEW r \in Requests, Reply(r) PROVE HoldersInv'
    BY <1>7 DEF Reply, MemTypeOK
  <1>8. CASE SaverTick \/ SaverReturn \/ SaverStop
    BY <1>8 DEF SaverTick, SaverReturn, SaverStop, memVars, MemTypeOK
  <1>9. CASE Signal \/ Shutdown \/ FinalSave
    BY <1>9 DEF Signal, Shutdown, FinalSave, memVars, MemTypeOK
  <1>10. CASE Exit \/ Crash
    BY <1>10 DEF Exit, Crash, ProcessGone, MemTypeOK, CallStates
  <1>11. CASE UNCHANGED vars
    BY <1>11 DEF vars, memVars, pVars
  <1> QED
    BY <1>1, <1>2, <1>3, <1>4, <1>5, <1>6, <1>7, <1>8, <1>9, <1>10, <1>11
       DEF Next, Handler, SaverLoop, MainLoop, SaveStep, Finished

LEMMA HoldersInit == Init => HoldersInv
  BY DEF Init, MemInit, HoldersInv

(* Who waits for mu waits for an update at work with it, or for readers,   *)
(* and those can finish their copies.                                      *)
LEMMA ReadersCanGo ==
  ASSUME TypeOK, ProcessInv, readers # {}
  PROVE  ProcessCanGo
  <1>1. PICK p \in readers : save[p] = "read" /\ p \in Savers
    BY SaversApart DEF ProcessInv, TypeOK, MemTypeOK
  <1>2. SaveCanGo(p) /\ Active(p)
    BY <1>1 DEF SaveCanGo, Active
  <1>3. CASE p \in Requests
    BY <1>2, <1>3 DEF ProcessInv, HandlerCanGo, ProcessCanGo
  <1>4. CASE p \in {Saver, Main}
    BY <1>2, <1>4 DEF ProcessCanGo
  <1> QED
    BY <1>1, <1>3, <1>4 DEF Savers

LEMMA WriterCanGo ==
  ASSUME TypeOK, ProcessInv, HoldersInv, writer # None
  PROVE  ProcessCanGo
  <1>1. writer \in Requests /\ call[writer] \in {"waiting", "writing"}
    BY DEF TypeOK, MemTypeOK, HoldersInv
  <1>2. CASE readers # {}
    BY <1>2, ReadersCanGo
  <1>3. CASE readers = {}
    BY <1>1, <1>3 DEF ReadersGone, HandlerCanGo, ProcessCanGo
  <1> QED
    BY <1>2, <1>3

LEMMA SaveGoesOn ==
  ASSUME TypeOK, ProcessInv, HoldersInv, NEW p \in Savers, Active(p)
  PROVE  SaveCanGo(p) \/ ProcessCanGo
  BY WriterCanGo DEF Active, SaveCanGo, RLockMu

LEMMA HandlerSaveGoesOn ==
  ASSUME TypeOK, ProcessInv, HoldersInv, NEW r \in Requests, Active(r)
  PROVE  ProcessCanGo
  BY SaveGoesOn DEF Savers, ProcessInv, HandlerCanGo, ProcessCanGo

LEMMA ProcessGoesOn == TypeOK /\ ProcessInv /\ HoldersInv => NeverStuck
  <1> SUFFICES ASSUME TypeOK, ProcessInv, HoldersInv PROVE NeverStuck
    OBVIOUS
  <1>1. ASSUME NEW r \in Requests, call[r] \notin {"new", "replied", "killed"}
        PROVE  ProcessCanGo
    <2>1. call[r] \in {"open", "waiting", "writing", "ok", "err", "saving", "saved"}
      BY <1>1 DEF TypeOK, MemTypeOK, CallStates
    <2>2. CASE call[r] \in {"open", "waiting"}
      BY <2>2, WriterCanGo, ReadersCanGo DEF ReadersGone, HandlerCanGo, ProcessCanGo
    <2>3. CASE call[r] = "saving"
      BY <2>3, HandlerSaveGoesOn DEF HoldersInv
    <2>4. CASE call[r] = "ok"
      <3>1. CASE MuFree
        BY <2>4, <3>1 DEF HandlerCanGo, ProcessCanGo
      <3>2. CASE smu # None
        BY <3>2, HandlerSaveGoesOn DEF HoldersInv, TypeOK
      <3> QED
        BY <3>1, <3>2 DEF MuFree
    <2>5. CASE call[r] \in {"writing", "err", "saved"}
      BY <2>5 DEF HandlerCanGo, ProcessCanGo
    <2> QED
      BY <2>1, <2>2, <2>3, <2>4, <2>5
  <1>2. ASSUME NEW p \in {Saver, Main}, Active(p) PROVE ProcessCanGo
    BY <1>2, SaveGoesOn DEF Savers, ProcessCanGo
  <1>3. ASSUME phase = "closed", save[Main] # "idle" PROVE ProcessCanGo
    <2>1. Active(Main)
      BY <1>3 DEF HoldersInv, TypeOK, Savers, SaveStates, Active
    <2> QED
      BY <2>1, <1>2
  <1> QED
    BY <1>1, <1>2, <1>3 DEF NeverStuck

(* Neither mu nor the mutex of syncStorage nor both together ever stop the *)
(* handlers, the ticker or the shutdown: for any requests, restarts and    *)
(* failing I/O there is always one who can go on (main.go:47-69, 125-142,  *)
(* 220-239, storage.go:51-70, 117-133).                                    *)
THEOREM ServerNeverStuck == Spec => []NeverStuck
  <1>1. Init => TypeOK /\ ProcessInv
    BY InitType, InvariantInit DEF IInv
  <1> QED
    BY <1>1, TypeStep, ProcessStep, HoldersInit, HoldersStep, ProcessGoesOn, PTL DEF Spec

-----------------------------------------------------------------------------
(***************************************************************************)
(* The process keeps the promise of DurableSpec.  The mapping of Promise,  *)
(* value by value, and its steps in these names; Store is the mapping of   *)
(* the storage on its own.                                                 *)
(***************************************************************************)
AnswerOf(r) ==
    CASE call[r] \in {"new", "open", "waiting"} -> "none"
      [] call[r] = "writing" -> Verdict(r)
      [] call[r] \in {"ok", "saving", "saved"} -> "ok"
      [] call[r] = "replied" -> IF r \in acked THEN "ok" ELSE "err"
      [] call[r] = "killed" -> "lost"
      [] OTHER -> call[r]

IsSaved(r) ==
    \/ call[r] = "saved"
    \/ call[r] = "saving" /\ (HasCopy(r) \/ save[r] = "done")
    \/ call[r] = "replied" /\ r \in acked /\ Mode = "sync"

TakenBy(p) == IF HasCopy(p) THEN copy[p] ELSE NoFile

Answers == [r \in Requests |-> AnswerOf(r)]
Told == {r \in Requests : call[r] = "replied"}
SavedSet == {r \in Requests : IsSaved(r)}
Taken == [p \in Savers |-> TakenBy(p)]

MBoot ==
    /\ Stopped /\ ~Stopped'
    /\ IF Restore /\ file # NoFile
       THEN Store' = file \/ ("load" \in IOFails /\ Store' = Empty)
       ELSE Store' = Empty
    /\ Answers' = Answers /\ Told' = Told /\ SavedSet' = SavedSet
    /\ Taken' = Taken /\ file' = file

MApply(r) ==
    /\ ~Stopped /\ ~Stopped'
    /\ Answers[r] = "none"
    /\ Store' = ApplyRest(Store, r)
    /\ Answers' = [Answers EXCEPT ![r] = Verdict(r)]
    /\ Told' = Told /\ SavedSet' = SavedSet /\ Taken' = Taken /\ file' = file

MTake(p) ==
    /\ ~Stopped /\ ~Stopped'
    /\ Taken[p] = NoFile
    /\ p \in Requests => /\ Mode = "sync" /\ Answers[p] = "ok"
                         /\ \A r \in Requests : Taken[r] = NoFile
    /\ Taken' = [Taken EXCEPT ![p] = Store]
    /\ SavedSet' = SavedSet \cup ({p} \cap Requests)
    /\ Store' = Store /\ Answers' = Answers /\ Told' = Told /\ file' = file

MPut(p) ==                      \* Publish or GiveUp
    /\ Taken[p] # NoFile
    /\ file' = Taken[p] \/ file' = file
    /\ Taken' = [Taken EXCEPT ![p] = NoFile]
    /\ Stopped' <=> Stopped
    /\ Store' = Store /\ Answers' = Answers /\ Told' = Told /\ SavedSet' = SavedSet

MTell(r) ==
    /\ r \notin Told
    /\ \/ Answers[r] = "err"
       \/ Answers[r] = "ok" /\ (Mode = "sync" => r \in SavedSet /\ Taken[r] = NoFile)
    /\ Told' = Told \cup {r}
    /\ Stopped' <=> Stopped
    /\ Store' = Store /\ Answers' = Answers /\ SavedSet' = SavedSet
    /\ Taken' = Taken /\ file' = file

MDown ==
    /\ ~Stopped /\ Stopped'
    /\ Store' = Empty
    /\ \E lost \in SUBSET (Requests \ Told) :
         /\ Answers' = [r \in Requests |-> IF r \in lost THEN "lost" ELSE Answers[r]]
         /\ \A r \in Requests \ Told : Answers[r] \in {"ok", "err"} => r \in lost
    /\ SavedSet' = SavedSet \cap Told
    /\ Taken' = [p \in Savers |-> NoFile]
    /\ Told' = Told /\ file' = file

MStays ==
    /\ Stopped' <=> Stopped
    /\ Store' = Store /\ Answers' = Answers /\ Told' = Told /\ SavedSet' = SavedSet
    /\ Taken' = Taken /\ file' = file

PromisedStep ==
    \/ MBoot \/ MDown \/ MStays
    \/ \E r \in Requests : MApply(r) \/ MTell(r)
    \/ \E p \in Savers : MTake(p) \/ MPut(p)

LEMMA SameRestPromised == ASSUME NEW k, NEW r PROVE Promise!ApplyRest(k, r) = ApplyRest(k, r)
  BY Zenon
     DEF Promise!ApplyRest, ApplyRest, Promise!ValidPrefix, ValidPrefix,
         Promise!NextIndex, NextIndex, Promise!ApplyMetric, ApplyMetric,
         Promise!Total, Total, Promise!Wrap, Wrap, Promise!Max, Max,
         Promise!FoldLeft, FoldLeft, Promise!MapThenFoldSet, MapThenFoldSet

LEMMA SameVerdictPromised == ASSUME NEW r PROVE Promise!Verdict(r) = Verdict(r)
  <1>1. Promise!ValidPrefix(r) = ValidPrefix(r)
    BY Zenon DEF Promise!ValidPrefix, ValidPrefix, Promise!Max, Max
  <1> QED
    BY <1>1 DEF Promise!Verdict, Verdict

LEMMA PromisedInit == Init => Promise!DurableInit
  <1> SUFFICES ASSUME Init PROVE Promise!DurableInit
    OBVIOUS
  <1>1. Stopped /\ file = NoFile /\ writer = None /\ mem = Empty
    BY DEF Init, MemInit, Stopped
  <1>2. Answers = [r \in Requests |-> "none"]
    BY DEF Init, Answers, AnswerOf
  <1>3. Told = {} /\ SavedSet = {}
    BY DEF Init, Told, SavedSet, IsSaved
  <1>4. Taken = [p \in Savers |-> NoFile]
    BY DEF Init, Taken, TakenBy, HasCopy
  <1> QED
    BY <1>1, <1>2, <1>3, <1>4
       DEF Answers, AnswerOf, Told, SavedSet, IsSaved, Taken, TakenBy, Savers, Empty,
           Promise!DurableInit, Promise!Empty, Promise!NothingTaken

LEMMA PromisedStepIs == PromisedStep => [Promise!DurableNext]_(Promise!durableVars)
  <1> SUFFICES ASSUME PromisedStep PROVE [Promise!DurableNext]_(Promise!durableVars)
    OBVIOUS
  <1> USE DEF Store, Answers, AnswerOf, Told, SavedSet, IsSaved, Taken, TakenBy
  <1>0. Requests \cup {Saver, Main} = Savers
    BY DEF Savers
  <1>1. CASE MBoot
    <2>1. Promise!Boot
      BY <1>1 DEF MBoot, Promise!Boot, Promise!Empty, Empty
    <2> QED
      BY <2>1 DEF Promise!DurableNext
  <1>2. CASE MDown
    <2>1. Promise!GoDown
      BY <1>0, <1>2 DEF MDown, Promise!GoDown, Promise!Empty, Empty, Promise!NothingTaken
    <2> QED
      BY <2>1 DEF Promise!DurableNext
  <1>3. CASE MStays
    BY <1>3 DEF MStays, Promise!durableVars
  <1>4. ASSUME NEW r \in Requests, MApply(r)
        PROVE  [Promise!DurableNext]_(Promise!durableVars)
    <2>1. Promise!Apply(r)
      BY <1>4, SameRestPromised, SameVerdictPromised DEF MApply, Promise!Apply
    <2> QED
      BY <2>1 DEF Promise!DurableNext
  <1>5. ASSUME NEW r \in Requests, MTell(r)
        PROVE  [Promise!DurableNext]_(Promise!durableVars)
    <2>1. Promise!Tell(r)
      BY <1>5 DEF MTell, Promise!Tell
    <2> QED
      BY <2>1 DEF Promise!DurableNext
  <1>6. ASSUME NEW p \in Savers, MTake(p)
        PROVE  [Promise!DurableNext]_(Promise!durableVars)
    <2>1. Promise!TakeCopy(p)
      BY <1>6 DEF MTake, Promise!TakeCopy, Promise!MaySave
    <2> QED
      BY <1>0, <2>1 DEF Promise!DurableNext
  <1>7. ASSUME NEW p \in Savers, MPut(p)
        PROVE  [Promise!DurableNext]_(Promise!durableVars)
    <2>1. Promise!Publish(p) \/ Promise!GiveUp(p)
      BY <1>7 DEF MPut, Promise!Publish, Promise!GiveUp
    <2> QED
      BY <1>0, <2>1 DEF Promise!DurableNext
  <1> QED
    BY <1>1, <1>2, <1>3, <1>4, <1>5, <1>6, <1>7 DEF PromisedStep

(* Only what was answered is acknowledged. *)
AckInv == \A r \in acked : call[r] = "replied"

PromiseInv == TypeOK /\ ProcessInv /\ HoldersInv /\ SnapshotInv /\ AckInv

LEMMA AckStep == TypeOK /\ AckInv /\ [Next]_vars => AckInv'
  <1> SUFFICES ASSUME TypeOK, AckInv, [Next]_vars PROVE AckInv'
    OBVIOUS
  <1>0. call \in [Requests -> CallStates] /\ acked \subseteq Requests
    BY DEF TypeOK, MemTypeOK
  <1>1. CASE acked' = acked /\ \A r \in Requests : call[r] = "replied" => call'[r] = "replied"
    BY <1>0, <1>1 DEF AckInv
  <1>2. ASSUME NEW r \in Requests, Reply(r) PROVE AckInv'
    BY <1>0, <1>2 DEF Reply, AckInv
  <1>3. ASSUME NEW r \in Requests, Accept(r) \/ UpdateStore(r) \/ LockSync(r) \/ ReturnSync(r)
        PROVE  AckInv'
    BY <1>0, <1>1, <1>3 DEF Accept, UpdateStore, Update, AnnounceWriter, BeginUpdate, ApplyNext,
                            EndUpdate, LockSync, ReturnSync, pVars
  <1>4. ASSUME NEW p \in Savers, SaveStep(p) PROVE AckInv'
    BY <1>1, <1>4 DEF SaveStep, ReadStore, CreateTemp, WriteTemp, Rename, SaveFails,
                      CopyGauges, CopyCounters, memVars
  <1>5. CASE \/ Start \/ SaverTick \/ SaverReturn \/ SaverStop \/ Signal \/ Shutdown
             \/ FinalSave \/ UNCHANGED vars
    BY <1>1, <1>5 DEF Start, SaverTick, SaverReturn, SaverStop, Signal, Shutdown, FinalSave,
                      memVars, pVars, vars
  <1>6. CASE Exit \/ Crash
    BY <1>0, <1>1, <1>6 DEF Exit, Crash, ProcessGone
  <1>7. Saver \in Savers /\ Main \in Savers /\ Requests \subseteq Savers
    BY DEF Savers
  <1> QED
    BY <1>2, <1>3, <1>4, <1>5, <1>6, <1>7
       DEF Next, Handler, SaverLoop, MainLoop, Finished

(* What decides the mapped values, when a step changes call, save and copy *)
(* little or not at all.                                                   *)
LEMMA AnswersStay ==
  ASSUME \A r \in Requests : AnswerOf(r)' = AnswerOf(r)
  PROVE  Answers' = Answers
  BY DEF Answers

LEMMA SavedStay ==
  ASSUME \A r \in Requests : IsSaved(r)' <=> IsSaved(r)
  PROVE  SavedSet' = SavedSet
  BY DEF SavedSet

LEMMA TakenStay ==
  ASSUME \A p \in Savers : TakenBy(p)' = TakenBy(p)
  PROVE  Taken' = Taken
  BY DEF Taken

LEMMA CallsStay ==
  ASSUME UNCHANGED <<call, acked, writer, mem>>
  PROVE  Answers' = Answers /\ Told' = Told /\ Store' = Store
  BY DEF Answers, AnswerOf, Told, Store

LEMMA StoreStays ==
  ASSUME UNCHANGED <<writer, mem>>,
         writer # None => (call'[writer] = "writing" <=> call[writer] = "writing")
  PROVE  Store' = Store
  BY DEF Store

(* A call moves on where the abstract server sees no difference.           *)
LEMMA CallMoves ==
  ASSUME TypeOK, ProcessInv, AckInv, NEW r \in Requests,
         NEW c \in {"open", "waiting", "saving", "saved"}, call' = [call EXCEPT ![r] = c],
         <<call[r], c>> \in {<<"new", "open">>, <<"open", "waiting">>,
                             <<"ok", "saving">>, <<"saving", "saved">>},
         acked' = acked
  PROVE  Answers' = Answers /\ Told' = Told
  <1>1. call \in [Requests -> CallStates]
    BY DEF TypeOK, MemTypeOK
  <1>2. \A q \in Requests : q # r => call'[q] = call[q]
    BY <1>1
  <1>3. call'[r] = c
    BY <1>1
  <1>4. \A q \in Requests : AnswerOf(q)' = AnswerOf(q)
    BY <1>2, <1>3 DEF AnswerOf
  <1>5. Told' = Told
    BY <1>2, <1>3 DEF Told
  <1> QED
    BY <1>4, <1>5, AnswersStay

(* Steps of update handlers. *)
LEMMA HandlerPromised ==
  ASSUME PromiseInv, NEW r \in Requests,
         Accept(r) \/ UpdateStore(r) \/ LockSync(r) \/ ReturnSync(r) \/ Reply(r)
  PROVE  PromisedStep
  <1>0. /\ TypeOK /\ ProcessInv /\ AckInv /\ IsolationInv /\ SoundInv
        /\ mem \in Contents /\ call \in [Requests -> CallStates] /\ save \in [Savers -> SaveStates]
        /\ copy \in [Savers -> Contents]
        /\ \A q \in Requests : call[q] \in {"waiting", "writing"} => writer = q
        /\ \A q \in Requests : InPrefix(mem, q)
        /\ r # None /\ r \in Savers /\ (writer # None => writer \in Requests)
    BY SaversApart, NoneIsNobody
       DEF PromiseInv, SnapshotInv, IsolationInv, LockInv, TypeOK, MemTypeOK, SoundInv, Sound, Savers
  <1>1. CASE Accept(r)
    <2>1. /\ call[r] = "new" /\ call' = [call EXCEPT ![r] = "open"]
          /\ UNCHANGED <<mem, writer, copy, phase, acked, save, file>>
      BY <1>1 DEF Accept, pVars
    <2>2. Answers' = Answers /\ Told' = Told
      BY <1>0, <2>1, CallMoves
    <2>3. Store' = Store
      BY <1>0, <2>1, StoreStays
    <2>4. SavedSet' = SavedSet /\ Taken' = Taken
      BY <1>0, <2>1, SavedStay, TakenStay DEF IsSaved, HasCopy, TakenBy
    <2> QED
      BY <2>1, <2>2, <2>3, <2>4 DEF PromisedStep, MStays, Stopped
  <1>2. CASE UpdateStore(r)
    <2>1. /\ UNCHANGED <<copy, phase, acked, save, file>>
          /\ Update(r)
      BY <1>2 DEF UpdateStore, pVars, Update, AnnounceWriter, BeginUpdate, ApplyNext, EndUpdate
    <2>2. /\ call[r] \in {"open", "waiting", "writing"}
          /\ \E c \in {"waiting", "writing", "ok", "err"} : call' = [call EXCEPT ![r] = c]
      BY <1>0, <2>1 DEF Update, AnnounceWriter, BeginUpdate, ApplyNext, EndUpdate
    <2>3. SavedSet' = SavedSet /\ Taken' = Taken /\ Told' = Told
      <3>1. \A q \in Requests : q # r => call'[q] = call[q]
        BY <1>0, <2>2
      <3>2. call'[r] \in {"waiting", "writing", "ok", "err"}
        BY <1>0, <2>2
      <3>3. \A q \in Requests : IsSaved(q)' <=> IsSaved(q)
        BY <2>1, <2>2, <3>1, <3>2 DEF IsSaved, HasCopy
      <3>4. \A p \in Savers : TakenBy(p)' = TakenBy(p)
        BY <2>1 DEF TakenBy, HasCopy
      <3>5. Told' = Told
        BY <2>2, <3>1, <3>2 DEF Told
      <3> QED
        BY <3>3, <3>4, <3>5, SavedStay, TakenStay
    <2>4. ~Stopped /\ ~Stopped'
      BY <1>0, <2>1, <2>2 DEF ProcessInv, Stopped
    <2>5. CASE AnnounceWriter(r)
      <3>1. /\ writer = None /\ writer' = r /\ call[r] = "open" /\ mem' = mem
            /\ call' = [call EXCEPT ![r] = "waiting"]
        BY <2>5 DEF AnnounceWriter
      <3>2. Store' = Store
        BY <1>0, <3>1 DEF Store
      <3>3. Answers' = Answers
        BY <1>0, <2>1, <3>1, CallMoves
      <3> QED
        BY <2>1, <2>3, <2>4, <3>2, <3>3 DEF PromisedStep, MStays
    <2>6. CASE BeginUpdate(r)
      <3>1. /\ writer = r /\ writer' = r /\ call[r] = "waiting" /\ mem' = mem
            /\ call' = [call EXCEPT ![r] = "writing"]
        BY <1>0, <2>6 DEF BeginUpdate
      <3>2. Store' = ApplyRest(Store, r)
        BY <1>0, <3>1 DEF Store
      <3>3. AnswerOf(r)' = Verdict(r) /\ \A q \in Requests : q # r => AnswerOf(q)' = AnswerOf(q)
        BY <1>0, <2>1, <3>1 DEF AnswerOf
      <3>4. Answers[r] = "none"
        BY <3>1 DEF Answers, AnswerOf
      <3>5. Answers' = [Answers EXCEPT ![r] = Verdict(r)]
        <4>1. Answers' = [q \in Requests |-> AnswerOf(q)']
          BY DEF Answers
        <4> QED
          BY <3>3, <4>1 DEF Answers
      <3> QED
        BY <2>1, <2>3, <2>4, <3>2, <3>4, <3>5 DEF PromisedStep, MApply
    <2>7. CASE ApplyNext(r)
      <3>1. /\ writer = r /\ writer' = r /\ call[r] = "writing" /\ call' = call
        BY <1>0, <2>7 DEF ApplyNext
      <3>2. ApplyRest(mem', r) = ApplyRest(mem, r)
        BY <1>0, <2>7, RestOfTurn DEF ApplyNext
      <3>3. Store' = Store
        BY <1>0, <3>1, <3>2 DEF Store
      <3>4. Answers' = Answers
        BY <2>1, <3>1 DEF Answers, AnswerOf
      <3> QED
        BY <2>1, <2>3, <2>4, <3>3, <3>4 DEF PromisedStep, MStays
    <2>8. CASE EndUpdate(r)
      <3>1. /\ writer = r /\ writer' = None /\ call[r] = "writing" /\ mem' = mem
            /\ ~CanApply(mem, r)
            /\ call' = [call EXCEPT ![r] = IF Complete(mem, r) THEN "ok" ELSE "err"]
        BY <1>0, <2>8 DEF EndUpdate
      <3>2. Store' = Store
        BY <1>0, <3>1, RestOfNothing DEF Store
      <3>3. (IF Complete(mem, r) THEN "ok" ELSE "err") = Verdict(r)
        BY <1>0, <3>1, LoopEnds DEF Verdict
      <3>4. call' = [call EXCEPT ![r] = Verdict(r)] /\ Verdict(r) \in {"ok", "err"}
        BY <3>1, <3>3 DEF Verdict
      <3>5. \A q \in Requests : AnswerOf(q)' = AnswerOf(q)
        <4>1. \A q \in Requests : q # r => call'[q] = call[q]
          BY <1>0, <3>4
        <4>2. call'[r] = Verdict(r)
          BY <1>0, <3>4
        <4> HIDE DEF Stopped
        <4> QED
          BY <2>1, <3>1, <3>4, <4>1, <4>2 DEF AnswerOf
      <3> QED
        BY <2>1, <2>3, <2>4, <3>2, <3>5, AnswersStay DEF PromisedStep, MStays
    <2> QED
      BY <2>1, <2>5, <2>6, <2>7, <2>8 DEF Update
  <1>3. CASE LockSync(r)
    <2>1. /\ call[r] = "ok" /\ call' = [call EXCEPT ![r] = "saving"] /\ Mode = "sync"
          /\ save' = [save EXCEPT ![r] = "read"] /\ smu = None
          /\ UNCHANGED <<mem, writer, copy, phase, acked, file>>
      BY <1>3 DEF LockSync, MuFree
    <2>2. Answers' = Answers /\ Told' = Told
      BY <1>0, <2>1, CallMoves
    <2>3. Store' = Store
      BY <1>0, <2>1, StoreStays
    <2>4. save[r] \notin {"encode", "write", "rename", "done"}
      BY <1>0, <2>1, NoneIsNobody DEF ProcessInv, Active
    <2>5. SavedSet' = SavedSet
      <3>1. \A q \in Requests : IsSaved(q)' <=> IsSaved(q)
        BY <1>0, <2>1, <2>4 DEF IsSaved, HasCopy, Savers
      <3> QED
        BY <3>1, SavedStay
    <2>6. Taken' = Taken
      <3>1. \A p \in Savers : TakenBy(p)' = TakenBy(p)
        BY <1>0, <2>1, <2>4 DEF TakenBy, HasCopy
      <3> QED
        BY <3>1, TakenStay
    <2> QED
      BY <2>1, <2>2, <2>3, <2>5, <2>6 DEF PromisedStep, MStays, Stopped
  <1>4. CASE ReturnSync(r)
    <2>1. /\ call[r] = "saving" /\ call' = [call EXCEPT ![r] = "saved"]
          /\ save[r] = "done" /\ save' = [save EXCEPT ![r] = "idle"]
          /\ copy' = [copy EXCEPT ![r] = Empty]
          /\ UNCHANGED <<mem, writer, phase, acked, file>>
      BY <1>4 DEF ReturnSync, Forget
    <2>2. Answers' = Answers /\ Told' = Told
      BY <1>0, <2>1, CallMoves
    <2>3. Store' = Store
      BY <1>0, <2>1, StoreStays
    <2>4. SavedSet' = SavedSet
      <3>1. \A q \in Requests : IsSaved(q)' <=> IsSaved(q)
        BY <1>0, <2>1 DEF IsSaved, HasCopy, Savers
      <3> QED
        BY <3>1, SavedStay
    <2>5. Taken' = Taken
      <3>1. \A p \in Savers : TakenBy(p)' = TakenBy(p)
        BY <1>0, <2>1 DEF TakenBy, HasCopy
      <3> QED
        BY <3>1, TakenStay
    <2> QED
      BY <2>1, <2>2, <2>3, <2>4, <2>5 DEF PromisedStep, MStays, Stopped
  <1>5. CASE Reply(r)
    <2>1. /\ call[r] \in {"err", "ok", "saved"}
          /\ Mode = "sync" /\ call[r] # "err" => call[r] = "saved"
          /\ Mode # "sync" => call[r] # "saved"
          /\ call' = [call EXCEPT ![r] = "replied"]
          /\ acked' = IF call[r] = "err" THEN acked ELSE acked \cup {r}
          /\ UNCHANGED <<mem, writer, copy, phase, save, file>>
      BY <1>5 DEF Reply
    <2>2. Store' = Store
      BY <1>0, <2>1, StoreStays
    <2>3. \A q \in Requests : q # r => call'[q] = call[q] /\ (q \in acked' <=> q \in acked)
      BY <1>0, <2>1
    <2>4. call'[r] = "replied" /\ r \notin acked /\ (r \in acked' <=> call[r] # "err")
      BY <1>0, <2>1 DEF AckInv
    <2>5. Answers' = Answers
      <3>1. \A q \in Requests : AnswerOf(q)' = AnswerOf(q)
        BY <2>1, <2>3, <2>4 DEF AnswerOf
      <3> QED
        BY <3>1, AnswersStay
    <2>6. SavedSet' = SavedSet
      <3>1. \A q \in Requests : IsSaved(q)' <=> IsSaved(q)
        BY <2>1, <2>3, <2>4, PersistenceAssumption DEF IsSaved, HasCopy
      <3> QED
        BY <3>1, SavedStay
    <2>7. Taken' = Taken
      BY <2>1, TakenStay DEF TakenBy, HasCopy
    <2>8. r \notin Told /\ Told' = Told \cup {r}
      BY <2>1, <2>3, <2>4 DEF Told
    <2>9. Answers[r] = IF call[r] = "err" THEN "err" ELSE "ok"
      BY <2>1 DEF Answers, AnswerOf
    <2>10. Mode = "sync" /\ call[r] # "err" => r \in SavedSet
      BY <2>1 DEF SavedSet, IsSaved
    <2>11. Taken[r] = NoFile
      BY <1>0, <2>1 DEF Taken, TakenBy, HasCopy, ProcessInv, Active
    <2> QED
      BY <2>1, <2>2, <2>5, <2>6, <2>7, <2>8, <2>9, <2>10, <2>11
         DEF PromisedStep, MTell, Stopped
  <1> QED
    BY <1>1, <1>2, <1>3, <1>4, <1>5

(* Steps of a save.                                                        *)
LEMMA SavePromised ==
  ASSUME PromiseInv, NEW p \in Savers, SaveStep(p)
  PROVE  PromisedStep
  <1>0. /\ TypeOK /\ ProcessInv /\ SnapshotInv /\ IsolationInv /\ MemTypeOK /\ HalfInv
        /\ call \in [Requests -> CallStates] /\ save \in [Savers -> SaveStates]
        /\ copy \in [Savers -> Contents] /\ half \in [Savers -> Contents] /\ mem \in Contents
        /\ readers \subseteq Savers /\ Requests \subseteq Savers
        /\ \A r \in Requests : call[r] = "writing" => readers = {}
        /\ writer # None => writer \in Requests
    BY SaversApart DEF PromiseInv, SnapshotInv, IsolationInv, LockInv, TypeOK, MemTypeOK, Savers
  <1>1. /\ UNCHANGED <<mem, writer, call, phase, acked>> /\ Active(p)
        /\ \A q \in Savers : q # p => save'[q] = save[q] /\ copy'[q] = copy[q]
    BY <1>0 DEF SaveStep, ReadStore, CreateTemp, WriteTemp, Rename, SaveFails,
                CopyGauges, CopyCounters, memVars, Active
  <1>2. Answers' = Answers /\ Told' = Told /\ Store' = Store /\ (Stopped' <=> Stopped)
    BY <1>1, CallsStay DEF Stopped
  <1>3. p \in Requests => call[p] = "saving" /\ \A r \in Requests : r # p => ~Active(r)
    BY <1>0, <1>1 DEF ProcessInv
  <1>4. CASE ReadStore(p) /\ CopyCounters(p)
    <2>1. /\ save[p] = "read" /\ save' = [save EXCEPT ![p] = "encode"] /\ file' = file
          /\ p \in readers /\ copy' = [copy EXCEPT ![p] = [half[p] EXCEPT !.c = mem.c]]
      BY <1>4 DEF ReadStore, CopyGauges, CopyCounters
    <2>2. Store = mem
      BY <1>0, <2>1 DEF Store
    <2>3. copy'[p] = Store /\ save'[p] = "encode"
      BY <1>0, <2>1, <2>2, CopyIsStorage
    <2>4. Taken[p] = NoFile /\ \A r \in Requests : p \in Requests => Taken[r] = NoFile
      BY <1>0, <1>3, <2>1 DEF Taken, TakenBy, HasCopy, Active
    <2>5. Taken' = [Taken EXCEPT ![p] = Store]
      <3>1. TakenBy(p)' = Store /\ \A q \in Savers : q # p => TakenBy(q)' = TakenBy(q)
        BY <1>1, <2>3 DEF TakenBy, HasCopy
      <3>2. Taken' = [q \in Savers |-> TakenBy(q)']
        BY DEF Taken
      <3> QED
        BY <3>1, <3>2 DEF Taken
    <2>6. SavedSet' = SavedSet \cup ({p} \cap Requests)
      <3>1. \A r \in Requests : r # p => (IsSaved(r)' <=> IsSaved(r))
        BY <1>0, <1>1 DEF IsSaved, HasCopy
      <3>2. p \in Requests => IsSaved(p)'
        BY <1>1, <1>3, <2>3 DEF IsSaved, HasCopy
      <3> QED
        BY <3>1, <3>2 DEF SavedSet
    <2>7. p \in Requests => Mode = "sync" /\ Answers[p] = "ok"
      BY <1>3 DEF Answers, AnswerOf, PromiseInv, HoldersInv
    <2>8. ~Stopped
      BY <1>0, <2>1 DEF ProcessInv
    <2> QED
      BY <1>2, <2>1, <2>4, <2>5, <2>6, <2>7, <2>8 DEF PromisedStep, MTake
  <1>5. CASE ReadStore(p) /\ CopyGauges(p)
    <2>1. save[p] = "read" /\ save' = save /\ UNCHANGED <<copy, file>>
      BY <1>0, <1>5 DEF ReadStore, CopyGauges, CopyCounters
    <2>2. Taken' = Taken /\ SavedSet' = SavedSet
      BY <1>1, <2>1, TakenStay, SavedStay DEF TakenBy, IsSaved, HasCopy
    <2> QED
      BY <1>2, <2>1, <2>2 DEF PromisedStep, MStays
  <1>6. CASE CreateTemp(p) \/ WriteTemp(p)
    <2>1. /\ save[p] \in {"encode", "write"} /\ save'[p] \in {"write", "rename"}
          /\ UNCHANGED <<copy, file>>
      BY <1>0, <1>6 DEF CreateTemp, WriteTemp, memVars
    <2>2. \A q \in Savers : HasCopy(q)' <=> HasCopy(q)
      BY <1>1, <2>1 DEF HasCopy
    <2>3. \A q \in Savers : save'[q] = "done" <=> save[q] = "done"
      BY <1>1, <2>1
    <2>4. Taken' = Taken
      BY <2>1, <2>2, TakenStay DEF TakenBy
    <2>5. SavedSet' = SavedSet
      <3>1. \A r \in Requests : IsSaved(r)' <=> IsSaved(r)
        BY <1>0, <1>1, <2>2, <2>3 DEF IsSaved
      <3> QED
        BY <3>1, SavedStay
    <2> QED
      BY <1>2, <2>1, <2>4, <2>5 DEF PromisedStep, MStays
  <1>7. CASE Rename(p) \/ SaveFails(p)
    <2>1. /\ HasCopy(p) /\ save'[p] = "done" /\ copy' = copy
          /\ file' = copy[p] \/ file' = file
      BY <1>0, <1>7 DEF Rename, SaveFails, memVars, HasCopy, SnapshotInv
    <2>2. copy[p] # NoFile
      BY <1>0, PersistenceAssumption
    <2>3. Taken[p] = copy[p]
      BY <2>1 DEF Taken, TakenBy
    <2>4. Taken' = [Taken EXCEPT ![p] = NoFile]
      <3>1. TakenBy(p)' = NoFile /\ \A q \in Savers : q # p => TakenBy(q)' = TakenBy(q)
        BY <1>1, <2>1 DEF TakenBy, HasCopy
      <3>2. Taken' = [q \in Savers |-> TakenBy(q)']
        BY DEF Taken
      <3> QED
        BY <3>1, <3>2 DEF Taken
    <2>5. SavedSet' = SavedSet
      <3>1. \A r \in Requests : IsSaved(r)' <=> IsSaved(r)
        BY <1>0, <1>1, <2>1 DEF IsSaved, HasCopy
      <3> QED
        BY <3>1, SavedStay
    <2> QED
      BY <1>2, <2>1, <2>2, <2>3, <2>4, <2>5 DEF PromisedStep, MPut
  <1> QED
    BY <1>4, <1>5, <1>6, <1>7 DEF SaveStep, ReadStore

(* Steps of the ticker and of run() that the abstract server does not see. *)
LEMMA LoopsPromised ==
  ASSUME PromiseInv,
         SaverTick \/ SaverReturn \/ SaverStop \/ Signal \/ Shutdown \/ FinalSave
  PROVE  MStays
  <1>0. /\ save \in [Savers -> SaveStates] /\ copy \in [Savers -> Contents]
        /\ Saver \in Savers /\ Main \in Savers
    BY SaversApart DEF PromiseInv, TypeOK, MemTypeOK, Savers
  <1>1. UNCHANGED <<mem, writer, call, acked, file>> /\ (Stopped' <=> Stopped)
    BY DEF SaverTick, SaverReturn, SaverStop, Signal, Shutdown, FinalSave, memVars, Stopped
  <1>2. \A p \in Savers : /\ save'[p] = save[p] \/ (p \notin Requests /\ ~HasCopy(p) /\ ~HasCopy(p)')
                          /\ copy'[p] = copy[p] \/ (~HasCopy(p) /\ ~HasCopy(p)')
    BY <1>0, SaversApart
       DEF SaverTick, SaverReturn, SaverStop, Signal, Shutdown, FinalSave, memVars, HasCopy, Forget
  <1>3. Taken' = Taken
    <2>1. \A p \in Savers : TakenBy(p)' = TakenBy(p)
      BY <1>2 DEF TakenBy, HasCopy
    <2> QED
      BY <2>1, TakenStay
  <1>4. SavedSet' = SavedSet
    <2>1. \A r \in Requests : IsSaved(r)' <=> IsSaved(r)
      BY <1>1, <1>2 DEF IsSaved, HasCopy, Savers
    <2> QED
      BY <2>1, SavedStay
  <1>5. Answers' = Answers /\ Told' = Told /\ Store' = Store
    BY <1>1, CallsStay
  <1> QED
    BY <1>1, <1>3, <1>4, <1>5 DEF MStays

LEMMA StartPromised ==
  ASSUME PromiseInv, Start
  PROVE  MBoot
  <1>1. /\ Stopped /\ ~Stopped' /\ mem' \in Restored /\ UNCHANGED <<writer, call, copy, acked, file>>
        /\ \A p \in Savers : save'[p] \in {"off", "idle"}
    BY DEF Start, Stopped
  <1>2. \A r \in Requests : save[r] = "off" /\ call[r] \in {"new", "replied", "killed"}
    BY <1>1 DEF PromiseInv, ProcessInv, Savers
  <1>3. \A p \in Savers : save[p] = "off"
    BY <1>1 DEF PromiseInv, ProcessInv
  <1>4. Store' = mem'
    <2>1. writer = None
      BY <1>2 DEF PromiseInv, HoldersInv, TypeOK, MemTypeOK
    <2> QED
      BY <1>1, <2>1 DEF Store
  <1>5. Restore /\ file # NoFile => Restored = {file} \cup IF "load" \in IOFails THEN {Empty} ELSE {}
    <2>1. ASSUME file # NoFile PROVE file \in Contents
      BY <2>1 DEF PromiseInv, SnapshotInv, Snapshot
    <2> QED
      BY <2>1, LoadIntoEmpty, PersistenceAssumption DEF Restored
  <1>6. ~(Restore /\ file # NoFile) => Restored = {Empty}
    BY DEF Restored
  <1>7. Answers' = Answers /\ Told' = Told
    BY <1>1 DEF Answers, AnswerOf, Told
  <1>8. SavedSet' = SavedSet
    BY <1>1, <1>2, SavedStay DEF IsSaved
  <1>9. Taken' = Taken
    BY <1>1, <1>3, TakenStay DEF TakenBy, HasCopy
  <1> QED
    BY <1>1, <1>4, <1>5, <1>6, <1>7, <1>8, <1>9 DEF MBoot

LEMMA DownPromised ==
  ASSUME PromiseInv, Exit \/ Crash
  PROVE  MDown
  <1>1. /\ ~Stopped /\ Stopped' /\ mem' = Empty /\ writer' = None
        /\ file' = file /\ acked' = acked
        /\ \A r \in Requests : call'[r] = IF call[r] \in {"new", "replied"} THEN call[r] ELSE "killed"
        /\ \A p \in Savers : save'[p] = "off"
    BY DEF Exit, Crash, ProcessGone, Stopped
  <1>2. \A r \in Requests : call[r] \in CallStates
    BY DEF PromiseInv, TypeOK, MemTypeOK
  <1> DEFINE lost == {r \in Requests : call[r] \notin {"new", "replied"}}
  <1>3. lost \in SUBSET (Requests \ Told)
    BY DEF Told
  <1>4. \A r \in Requests : AnswerOf(r)' = IF r \in lost THEN "lost" ELSE Answers[r]
    BY <1>1 DEF Answers, AnswerOf
  <1>5. Answers' = [r \in Requests |-> IF r \in lost THEN "lost" ELSE Answers[r]]
    <2>1. Answers' = [r \in Requests |-> AnswerOf(r)']
      BY DEF Answers
    <2> QED
      BY <1>4, <2>1, Zenon
  <1>6. \A r \in Requests \ Told : Answers[r] \in {"ok", "err"} => r \in lost
    BY DEF Told, Answers, AnswerOf
  <1>7. Told' = Told
    BY <1>1 DEF Told
  <1>8. SavedSet' = SavedSet \cap Told
    <2>1. \A r \in Requests : IsSaved(r)' <=> IsSaved(r) /\ call[r] = "replied"
      BY <1>1 DEF IsSaved
    <2> QED
      BY <2>1 DEF SavedSet, Told
  <1>9. Taken' = [p \in Savers |-> NoFile]
    <2>1. \A p \in Savers : TakenBy(p)' = NoFile
      BY <1>1 DEF TakenBy, HasCopy
    <2> QED
      BY <2>1 DEF Taken
  <1>10. Store' = Empty
    BY <1>1 DEF Store
  <1>11. \E L \in SUBSET (Requests \ Told) :
           /\ Answers' = [r \in Requests |-> IF r \in L THEN "lost" ELSE Answers[r]]
           /\ \A r \in Requests \ Told : Answers[r] \in {"ok", "err"} => r \in L
    <2> HIDE DEF lost
    <2> QED
      BY <1>3, <1>5, <1>6, Zenon
  <1> QED
    BY <1>1, <1>7, <1>8, <1>9, <1>10, <1>11 DEF MDown

LEMMA EveryStepIsPromised ==
  ASSUME PromiseInv, [Next]_vars
  PROVE  PromisedStep
  <1>0. Saver \in Savers /\ Main \in Savers /\ Requests \subseteq Savers
    BY DEF Savers
  <1>1. CASE UNCHANGED vars
    <2>1. UNCHANGED <<call, acked, writer, mem, save, copy, file, phase>>
      BY <1>1 DEF vars, memVars, pVars
    <2> QED
      BY <2>1, CallsStay, SavedStay, TakenStay
         DEF PromisedStep, MStays, IsSaved, TakenBy, HasCopy, Stopped
  <1>2. CASE Start
    BY <1>2, StartPromised DEF PromisedStep
  <1>3. CASE Exit \/ Crash
    BY <1>3, DownPromised DEF PromisedStep
  <1>4. CASE SaverTick \/ SaverReturn \/ SaverStop \/ Signal \/ Shutdown \/ FinalSave
    BY <1>4, LoopsPromised DEF PromisedStep
  <1> QED
    BY <1>0, <1>1, <1>2, <1>3, <1>4, HandlerPromised, SavePromised
       DEF Next, Handler, SaverLoop, MainLoop, Finished

(* Through saves that race or fail, signals, crashes and restarts, for any *)
(* requests and payloads, the process is a server that serves each call in *)
(* one step and replaces its file by atomic copies of its storage, one     *)
(* handler at a time; in sync mode a handler has made its copy, and put it *)
(* in the file or failed to, before it answers (main.go:40-69, 110-142,    *)
(* 220-315, storage.go:51-133).                                            *)
THEOREM PromiseKept == Spec => KeepsItsPromise
  <1>1. Init => PromiseInv
    <2> SUFFICES ASSUME Init PROVE PromiseInv
      OBVIOUS
    <2>1. TypeOK /\ ProcessInv /\ HoldersInv
      BY InitType, InvariantInit, HoldersInit DEF IInv
    <2>2. SnapshotInv
      BY SnapshotInit
    <2>3. AckInv
      BY DEF Init, AckInv
    <2> QED
      BY <2>1, <2>2, <2>3 DEF PromiseInv
  <1>2. PromiseInv /\ [Next]_vars => PromiseInv'
    BY TypeStep, ProcessStep, HoldersStep, SnapshotStep, AckStep DEF PromiseInv
  <1>3. PromiseInv /\ [Next]_vars => [Promise!DurableNext]_(Promise!durableVars)
    BY EveryStepIsPromised, PromisedStepIs
  <1>4. Init => Promise!DurableInit
    BY PromisedInit
  <1> QED
    BY <1>1, <1>2, <1>3, <1>4, PTL DEF Spec, KeepsItsPromise, Promise!DurableServer

=============================================================================
