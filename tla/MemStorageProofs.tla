-------------------------- MODULE MemStorageProofs --------------------------
(***************************************************************************)
(* The storage for any requests, payloads and readers: its types,          *)
(* NoHalfBatch, that it counts each metric once, and that it is the atomic *)
(* storage of StoreSpec.                                                   *)
(***************************************************************************)
EXTENDS MemStorage, MetricsProofs

(* Contents keep their type when their counters are replaced by counters.  *)
LEMMA ReplaceCounters ==
  ASSUME NEW k \in Contents, NEW l \in Contents
  PROVE  /\ [k EXCEPT !.c = l.c] \in Contents
         /\ [k EXCEPT !.c = l.c].done = k.done
         /\ [k EXCEPT !.c = l.c].g = k.g
         /\ [k EXCEPT !.c = l.c].c = l.c
  BY DEF Contents

(* The steps of the storage keep its variables well typed.                 *)
LEMMA StorageStepType ==
  ASSUME MemTypeOK,
         \/ \E r \in Requests : Update(r)
         \/ \E p \in Readers : CopyGauges(p) \/ CopyCounters(p)
  PROVE  MemTypeOK'
  <1> USE DEF MemTypeOK
  <1>1. ASSUME NEW r \in Requests, AnnounceWriter(r) PROVE MemTypeOK'
    BY <1>1 DEF AnnounceWriter, CallStates
  <1>2. ASSUME NEW r \in Requests, BeginUpdate(r) PROVE MemTypeOK'
    BY <1>2 DEF BeginUpdate, CallStates
  <1>3. ASSUME NEW r \in Requests, ApplyNext(r) PROVE MemTypeOK'
    <2>1. mem' \in Contents
      BY <1>3, ApplyMetricType DEF ApplyNext
    <2> QED
      BY <1>3, <2>1 DEF ApplyNext
  <1>4. ASSUME NEW r \in Requests, EndUpdate(r) PROVE MemTypeOK'
    BY <1>4 DEF EndUpdate, CallStates
  <1>5. ASSUME NEW p \in Readers, CopyGauges(p) PROVE MemTypeOK'
    <2>1. [mem EXCEPT !.c = Empty.c] \in Contents
      BY ReplaceCounters, EmptyIsContents
    <2> QED
      BY <1>5, <2>1 DEF CopyGauges
  <1>6. ASSUME NEW p \in Readers, CopyCounters(p) PROVE MemTypeOK'
    <2>1. [half[p] EXCEPT !.c = mem.c] \in Contents
      BY ReplaceCounters
    <2> QED
      BY <1>6, <2>1 DEF CopyCounters
  <1> QED
    BY <1>1, <1>2, <1>3, <1>4, <1>5, <1>6 DEF Update

LEMMA StorageInitType == StorageInit => MemTypeOK
  BY EmptyIsContents DEF StorageInit, MemInit, MemTypeOK, CallStates

(* Type correctness of storage.go's maps, lock and callers.                *)
THEOREM StorageTypeCorrect == StorageSpec => []MemTypeOK
  <1>1. MemTypeOK /\ [StorageNext]_memVars => MemTypeOK'
    <2> SUFFICES ASSUME MemTypeOK, [StorageNext]_memVars PROVE MemTypeOK'
      OBVIOUS
    <2>1. CASE UNCHANGED memVars
      BY <2>1 DEF memVars, MemTypeOK
    <2>2. CASE StorageNext
      BY <2>2, StorageStepType DEF StorageNext
    <2> QED
      BY <2>1, <2>2
  <1> QED
    BY StorageInitType, <1>1, PTL DEF StorageSpec

-----------------------------------------------------------------------------
(***************************************************************************)
(* NoHalfBatch speaks of finished copies; why it holds is in the lock.     *)
(* A call inside its loop keeps readers out, so at any other moment every  *)
(* request is whole in the storage, and a reader that is between its two   *)
(* loops has the gauges and the history of the storage as it stands.       *)
(***************************************************************************)
LockInv == /\ \A r \in Requests : call[r] \in {"waiting", "writing"} => writer = r
           /\ \A r \in Requests : call[r] = "writing" => readers = {}
           /\ \A r \in Requests : call[r] # "writing" => Whole(mem, r)

HalfInv == \A p \in readers : half[p].done = mem.done /\ half[p].g = mem.g

IsolationInv == MemTypeOK /\ LockInv /\ HalfInv /\ NoHalfBatch

(* Whole depends on the history component only. *)
LEMMA WholeOfDone ==
  ASSUME NEW k, NEW l, NEW r \in Requests, k.done[r] = l.done[r], Whole(k, r)
  PROVE  Whole(l, r)
  BY DEF Whole, CanApply, NextIndex

LEMMA IsolationStep ==
  IsolationInv /\ [StorageNext]_memVars => IsolationInv'
  <1> SUFFICES ASSUME IsolationInv, [StorageNext]_memVars PROVE IsolationInv'
    OBVIOUS
  <1> USE DEF IsolationInv
  <1>0. MemTypeOK'
    BY StorageStepType DEF StorageNext, MemTypeOK, memVars
  <1>1. ASSUME NEW r \in Requests, AnnounceWriter(r) PROVE IsolationInv'
    <2>1. LockInv'
      BY <1>1, NoneAssumption DEF AnnounceWriter, LockInv, MemTypeOK
    <2> QED
      BY <1>0, <1>1, <2>1 DEF AnnounceWriter, HalfInv, NoHalfBatch
  <1>2. ASSUME NEW r \in Requests, BeginUpdate(r) PROVE IsolationInv'
    <2>1. LockInv'
      BY <1>2 DEF BeginUpdate, LockInv, MemTypeOK, ReadersGone
    <2> QED
      BY <1>0, <1>2, <2>1 DEF BeginUpdate, HalfInv, NoHalfBatch
  <1>3. ASSUME NEW r \in Requests, ApplyNext(r) PROVE IsolationInv'
    <2>1. \A q \in Requests : q # r => mem'.done[q] = mem.done[q]
      <3>1. mem'.done = [mem.done EXCEPT ![r] = mem.done[r] + 1]
        BY <1>3, ApplyMetricType DEF ApplyNext, MemTypeOK
      <3>2. mem.done \in [Requests -> Nat]
        BY DEF MemTypeOK, Contents
      <3> QED
        BY <3>1, <3>2
    <2>2. readers = {}
      BY <1>3 DEF ApplyNext, LockInv
    <2>3. \A q \in Requests : call'[q] # "writing" => Whole(mem', q)
      BY <1>3, <2>1, WholeOfDone DEF ApplyNext, LockInv
    <2>4. LockInv'
      BY <1>3, <2>3 DEF ApplyNext, LockInv
    <2> QED
      BY <1>0, <1>3, <2>2, <2>4 DEF ApplyNext, HalfInv, NoHalfBatch
  <1>4. ASSUME NEW r \in Requests, EndUpdate(r) PROVE IsolationInv'
    <2>1. \A q \in Requests : q # r => call[q] \notin {"waiting", "writing"}
      BY <1>4 DEF EndUpdate, LockInv
    <2>2. call' \in [Requests -> CallStates] /\ call'[r] \in {"ok", "err"}
          /\ \A q \in Requests : q # r => call'[q] = call[q]
      BY <1>0, <1>4 DEF EndUpdate, MemTypeOK
    <2>3. LockInv'
      BY <1>4, <2>1, <2>2 DEF EndUpdate, LockInv, Whole
    <2> QED
      BY <1>0, <1>4, <2>3 DEF EndUpdate, HalfInv, NoHalfBatch
  <1>5. ASSUME NEW p \in Readers, CopyGauges(p) PROVE IsolationInv'
    <2>1. \A r \in Requests : call[r] # "writing"
      BY <1>5, NoneAssumption DEF CopyGauges, LockInv, RLockMu
    <2>2. LockInv'
      BY <1>5, <2>1 DEF CopyGauges, LockInv
    <2>3. [mem EXCEPT !.c = Empty.c].done = mem.done /\ [mem EXCEPT !.c = Empty.c].g = mem.g
      BY EmptyIsContents, ReplaceCounters DEF MemTypeOK
    <2>4. HalfInv'
      BY <1>5, <2>3 DEF CopyGauges, HalfInv, MemTypeOK
    <2> QED
      BY <1>0, <1>5, <2>2, <2>4 DEF CopyGauges, NoHalfBatch
  <1>6. ASSUME NEW p \in Readers, CopyCounters(p) PROVE IsolationInv'
    <2>1. \A r \in Requests : Whole(mem, r)
      BY <1>6 DEF CopyCounters, LockInv
    <2>2. copy'[p].done = mem.done
      BY <1>6, ReplaceCounters DEF CopyCounters, HalfInv, MemTypeOK
    <2>3. \A r \in Requests : Whole(copy'[p], r)
      BY <2>1, <2>2, WholeOfDone
    <2>4. NoHalfBatch'
      BY <1>6, <2>3 DEF CopyCounters, NoHalfBatch, MemTypeOK
    <2>5. LockInv'
      BY <1>6 DEF CopyCounters, LockInv
    <2> QED
      BY <1>0, <1>6, <2>4, <2>5 DEF CopyCounters, HalfInv
  <1>7. CASE UNCHANGED memVars
    BY <1>0, <1>7 DEF memVars, LockInv, HalfInv, NoHalfBatch
  <1> QED
    BY <1>1, <1>2, <1>3, <1>4, <1>5, <1>6, <1>7 DEF StorageNext, Update

LEMMA IsolationInit == StorageInit => IsolationInv
  BY StorageInitType
     DEF StorageInit, MemInit, IsolationInv, LockInv, HalfInv, NoHalfBatch, Whole, Empty

(* Readers never see a request half applied (storage.go:51-70, 117-133).   *)
THEOREM BatchIsolation == StorageSpec => []NoHalfBatch
  <1>1. IsolationInv => NoHalfBatch
    BY DEF IsolationInv
  <1> QED
    BY IsolationInit, IsolationStep, <1>1, PTL DEF StorageSpec

-----------------------------------------------------------------------------
(***************************************************************************)
(* What the storage holds, and what callers of GetAllMetrics got from it,  *)
(* is what its history says.  A copy is made in two loops, but nobody is   *)
(* in an update while one is under way, so it is the storage of the moment *)
(* it is finished.                                                         *)
(***************************************************************************)
SoundInv == Sound(mem) /\ \A p \in Readers : Sound(copy[p])

(* Every reader and the storage itself account for each metric once.       *)
StorageAccounted == Accounted(mem) /\ \A p \in Readers : Accounted(copy[p])

LEMMA SameContents ==
  ASSUME NEW k \in Contents, NEW l \in Contents, k.g = l.g, k.c = l.c, k.done = l.done
  PROVE  k = l
  BY DEF Contents

(* What GetAllMetrics returns (storage.go:117-133).                        *)
LEMMA CopyIsStorage ==
  ASSUME MemTypeOK, HalfInv, NEW p \in readers
  PROVE  [half[p] EXCEPT !.c = mem.c] = mem
  <1>1. half[p] \in Contents /\ mem \in Contents /\ half[p].done = mem.done /\ half[p].g = mem.g
    BY DEF MemTypeOK, HalfInv
  <1> DEFINE k == [half[p] EXCEPT !.c = mem.c]
  <1>2. k \in Contents /\ k.done = mem.done /\ k.g = mem.g /\ k.c = mem.c
    BY <1>1, ReplaceCounters
  <1> HIDE DEF k
  <1>3. k = mem
    BY <1>1, <1>2, SameContents
  <1> QED
    BY <1>3 DEF k

LEMMA SoundStep ==
  IsolationInv /\ SoundInv /\ [StorageNext]_memVars => SoundInv'
  <1> SUFFICES ASSUME IsolationInv, SoundInv, [StorageNext]_memVars PROVE SoundInv'
    OBVIOUS
  <1>1. ASSUME NEW r \in Requests, AnnounceWriter(r) \/ BeginUpdate(r) \/ EndUpdate(r)
        PROVE  SoundInv'
    BY <1>1 DEF AnnounceWriter, BeginUpdate, EndUpdate, SoundInv
  <1>2. ASSUME NEW r \in Requests, ApplyNext(r) PROVE SoundInv'
    <2>1. Sound(mem')
      BY <1>2, SoundTurn DEF ApplyNext, SoundInv, IsolationInv, MemTypeOK
    <2> QED
      BY <1>2, <2>1 DEF ApplyNext, SoundInv
  <1>3. ASSUME NEW p \in Readers, CopyGauges(p) PROVE SoundInv'
    BY <1>3 DEF CopyGauges, SoundInv
  <1>4. ASSUME NEW p \in Readers, CopyCounters(p) PROVE SoundInv'
    <2>1. copy' = [copy EXCEPT ![p] = mem]
      BY <1>4, CopyIsStorage DEF CopyCounters, IsolationInv
    <2>2. \A q \in Readers : copy'[q] \in {copy[q], mem}
      BY <2>1 DEF IsolationInv, MemTypeOK
    <2> QED
      BY <1>4, <2>2 DEF CopyCounters, SoundInv
  <1>5. CASE UNCHANGED memVars
    BY <1>5 DEF memVars, SoundInv
  <1> QED
    BY <1>1, <1>2, <1>3, <1>4, <1>5 DEF StorageNext, Update

LEMMA SoundInit == StorageInit => SoundInv
  BY EmptyIsSound DEF StorageInit, MemInit, SoundInv

(* No delta is lost, counted twice or counted for another counter, and no  *)
(* gauge shows what nobody sent, whatever updates and readers come         *)
(* together (storage.go:51-70, 117-133).                                   *)
THEOREM StorageAccounts == StorageSpec => []StorageAccounted
  <1>1. SoundInv => StorageAccounted
    BY DEF SoundInv, Sound, StorageAccounted
  <1> QED
    BY IsolationInit, IsolationStep, SoundInit, SoundStep, <1>1, PTL DEF StorageSpec

-----------------------------------------------------------------------------
(***************************************************************************)
(* The storage implements StoreSpec.  A request takes effect when it gets  *)
(* the lock: from there to EndUpdate the abstract store has the rest of    *)
(* its loop applied, which each turn leaves as it is (RestOfTurn).         *)
(***************************************************************************)
LEMMA SameRest == ASSUME NEW k, NEW r PROVE Abstract!ApplyRest(k, r) = ApplyRest(k, r)
  BY Zenon
     DEF Abstract!ApplyRest, ApplyRest, Abstract!ValidPrefix, ValidPrefix,
         Abstract!NextIndex, NextIndex, Abstract!ApplyMetric, ApplyMetric,
         Abstract!Total, Total, Abstract!Wrap, Wrap, Abstract!Max, Max,
         Abstract!FoldLeft, FoldLeft, Abstract!MapThenFoldSet, MapThenFoldSet

LEMMA SameVerdict == ASSUME NEW r PROVE Abstract!Verdict(r) = Verdict(r)
  <1>1. Abstract!ValidPrefix(r) = ValidPrefix(r)
    BY Zenon DEF Abstract!ValidPrefix, ValidPrefix, Abstract!Max, Max
  <1> QED
    BY <1>1 DEF Abstract!Verdict, Verdict

(* The refinement mapping of Abstract. *)
Store == IF writer # None /\ call[writer] = "writing" THEN ApplyRest(mem, writer) ELSE mem
Answer == [r \in Requests |-> CASE call[r] \in {"open", "waiting"} -> "none"
                                [] call[r] = "writing" -> Verdict(r)
                                [] OTHER -> call[r]]

RefinementInv == /\ IsolationInv /\ SoundInv
                 /\ \A r \in Requests : call[r] \in {"open", "waiting", "writing", "ok", "err"}

LEMMA MappedInit == StorageInit => Abstract!StoreInit
  <1> SUFFICES ASSUME StorageInit PROVE Abstract!StoreInit
    OBVIOUS
  <1>1. Store = Empty
    BY DEF StorageInit, MemInit, Store
  <1>2. Answer = [r \in Requests |-> "none"]
    BY DEF StorageInit, Answer
  <1> QED
    BY <1>1, <1>2 DEF StorageInit, MemInit, Store, Answer, Abstract!StoreInit, Abstract!Empty, Empty

(* What the steps of the storage are to the abstract one. *)
MappedStep ==
    \/ Store' = Store /\ Answer' = Answer /\ copy' = copy
    \/ \E r \in Requests : /\ Answer[r] = "none"
                           /\ Store' = ApplyRest(Store, r)
                           /\ Answer' = [Answer EXCEPT ![r] = Verdict(r)]
                           /\ copy' = copy
    \/ \E p \in Readers : /\ copy' = [copy EXCEPT ![p] = Store]
                          /\ Store' = Store /\ Answer' = Answer

LEMMA MappedStepIs == MappedStep => [Abstract!StoreNext]_(Abstract!storeVars)
  BY SameRest, SameVerdict
     DEF MappedStep, Store, Answer, Abstract!StoreNext, Abstract!OneStepUpdate,
         Abstract!OneStepView, Abstract!storeVars

LEMMA CallStep ==
  RefinementInv /\ [StorageNext]_memVars => RefinementInv'
  <1> SUFFICES ASSUME RefinementInv, [StorageNext]_memVars PROVE RefinementInv'
    OBVIOUS
  <1>1. IsolationInv' /\ SoundInv'
    BY IsolationStep, SoundStep DEF RefinementInv
  <1>2. call' = call \/ \E r \in Requests : \E c \in {"waiting", "writing", "ok", "err"} :
                          call' = [call EXCEPT ![r] = c]
    BY DEF StorageNext, Update, AnnounceWriter, BeginUpdate, ApplyNext, EndUpdate,
           CopyGauges, CopyCounters, memVars
  <1>3. call \in [Requests -> CallStates]
    BY DEF RefinementInv, IsolationInv, MemTypeOK
  <1> QED
    BY <1>1, <1>2, <1>3 DEF RefinementInv

LEMMA EveryStepIsMapped ==
  RefinementInv /\ [StorageNext]_memVars => MappedStep
  <1> SUFFICES ASSUME RefinementInv, [StorageNext]_memVars PROVE MappedStep
    OBVIOUS
  <1>0. /\ mem \in Contents /\ call \in [Requests -> CallStates]
        /\ \A r \in Requests : call[r] \in {"open", "waiting", "writing", "ok", "err"}
        /\ \A r \in Requests : call[r] \in {"waiting", "writing"} => writer = r
        /\ \A r \in Requests : call[r] = "writing" => readers = {}
        /\ \A r \in Requests : InPrefix(mem, r)
    BY DEF RefinementInv, IsolationInv, MemTypeOK, LockInv, SoundInv, Sound
  <1>1. ASSUME NEW r \in Requests, AnnounceWriter(r) PROVE MappedStep
    <2>1. /\ writer = None /\ writer' = r /\ call[r] = "open" /\ mem' = mem /\ copy' = copy
          /\ call' = [call EXCEPT ![r] = "waiting"]
      BY <1>1 DEF AnnounceWriter
    <2>2. Store' = Store
      BY <1>0, <2>1 DEF Store
    <2>3. Answer' = Answer
      BY <1>0, <2>1 DEF Answer
    <2> QED
      BY <2>1, <2>2, <2>3 DEF MappedStep
  <1>2. ASSUME NEW r \in Requests, BeginUpdate(r) PROVE MappedStep
    <2>1. /\ writer = r /\ writer' = r /\ call[r] = "waiting" /\ mem' = mem /\ copy' = copy
          /\ call' = [call EXCEPT ![r] = "writing"] /\ r # None
      BY <1>0, <1>2, NoneAssumption DEF BeginUpdate
    <2>2. Store' = ApplyRest(Store, r)
      BY <1>0, <2>1 DEF Store
    <2>3. Answer[r] = "none" /\ Answer' = [Answer EXCEPT ![r] = Verdict(r)]
      BY <1>0, <2>1 DEF Answer
    <2> QED
      BY <2>1, <2>2, <2>3 DEF MappedStep
  <1>3. ASSUME NEW r \in Requests, ApplyNext(r) PROVE MappedStep
    <2>1. /\ writer = r /\ writer' = r /\ call[r] = "writing" /\ call' = call /\ copy' = copy
          /\ r # None
      BY <1>0, <1>3, NoneAssumption DEF ApplyNext
    <2>2. ApplyRest(mem', r) = ApplyRest(mem, r)
      BY <1>0, <1>3, RestOfTurn DEF ApplyNext
    <2>3. Store' = Store
      BY <2>1, <2>2 DEF Store
    <2>4. Answer' = Answer
      BY <2>1 DEF Answer
    <2> QED
      BY <2>1, <2>3, <2>4 DEF MappedStep
  <1>4. ASSUME NEW r \in Requests, EndUpdate(r) PROVE MappedStep
    <2>1. /\ writer = r /\ writer' = None /\ call[r] = "writing" /\ mem' = mem /\ copy' = copy
          /\ r # None /\ ~CanApply(mem, r)
          /\ call' = [call EXCEPT ![r] = IF Complete(mem, r) THEN "ok" ELSE "err"]
      BY <1>0, <1>4, NoneAssumption DEF EndUpdate
    <2>2. Store' = Store
      BY <1>0, <2>1, RestOfNothing DEF Store
    <2>3. (IF Complete(mem, r) THEN "ok" ELSE "err") = Verdict(r)
      BY <1>0, <2>1, LoopEnds DEF Verdict
    <2>4. call' = [call EXCEPT ![r] = Verdict(r)] /\ Verdict(r) \in {"ok", "err"}
      BY <2>1, <2>3 DEF Verdict
    <2>5. Answer' = Answer
      BY <1>0, <2>1, <2>4 DEF Answer
    <2> QED
      BY <2>1, <2>2, <2>5 DEF MappedStep
  <1>5. ASSUME NEW p \in Readers, CopyGauges(p) PROVE MappedStep
    BY <1>5 DEF CopyGauges, MappedStep, Store, Answer
  <1>6. ASSUME NEW p \in Readers, CopyCounters(p) PROVE MappedStep
    <2>1. \A r \in Requests : call[r] # "writing"
      BY <1>0, <1>6 DEF CopyCounters
    <2>2. Store = mem /\ Store' = Store /\ Answer' = Answer
      <3>1. writer # None => writer \in Requests
        BY DEF RefinementInv, IsolationInv, MemTypeOK
      <3> QED
        BY <1>6, <2>1, <3>1 DEF CopyCounters, Store, Answer
    <2>3. copy' = [copy EXCEPT ![p] = mem]
      BY <1>6, CopyIsStorage DEF CopyCounters, RefinementInv, IsolationInv
    <2> QED
      BY <2>2, <2>3 DEF MappedStep
  <1>7. CASE UNCHANGED memVars
    BY <1>7 DEF memVars, MappedStep, Store, Answer
  <1> QED
    BY <1>1, <1>2, <1>3, <1>4, <1>5, <1>6, <1>7 DEF StorageNext, Update

(* Every run of the storage is a run of one that serves each call in a     *)
(* single step (MetricsStorage against the Storage interface, storage.go:  *)
(* 21-133).                                                                *)
THEOREM StorageLinearizes == StorageSpec => Linearizable
  <1>1. StorageInit => RefinementInv
    BY IsolationInit, SoundInit DEF RefinementInv, StorageInit
  <1>2. RefinementInv /\ [StorageNext]_memVars => RefinementInv'
    BY CallStep
  <1>3. RefinementInv /\ [StorageNext]_memVars => [Abstract!StoreNext]_(Abstract!storeVars)
    BY EveryStepIsMapped, MappedStepIs
  <1>4. StorageInit => Abstract!StoreInit
    BY MappedInit
  <1> QED
    BY <1>1, <1>2, <1>3, <1>4, PTL DEF StorageSpec, Linearizable, Abstract!OneStepSpec

-----------------------------------------------------------------------------
(***************************************************************************)
(* Why every update returns although readers keep coming: once a writer has *)
(* announced itself the readers that are in only leave, and who waits for  *)
(* mu waits for somebody who can go on with it.                            *)
(***************************************************************************)
WriterInv == writer # None => call[writer] \in {"waiting", "writing"}

CallCanGo(r) ==
    \/ call[r] = "open" /\ writer = None
    \/ call[r] = "waiting" /\ ReadersGone
    \/ call[r] = "writing"

(* A reader that is in needs nobody to leave. *)
StorageNeverStuck ==
    (\E r \in Requests : call[r] \notin {"ok", "err"}) =>
      readers # {} \/ \E r \in Requests : CallCanGo(r)

ReadersOnlyLeave == writer # None /\ writer' = writer => readers' \subseteq readers

LEMMA WriterStep == MemTypeOK /\ WriterInv /\ [StorageNext]_memVars => WriterInv'
  BY DEF StorageNext, Update, AnnounceWriter, BeginUpdate, ApplyNext, EndUpdate,
         CopyGauges, CopyCounters, memVars, WriterInv, MemTypeOK

LEMMA SomebodyCanGo ==
  MemTypeOK /\ WriterInv /\ (\A r \in Requests : call[r] \in {"open", "waiting", "writing", "ok", "err"})
    => StorageNeverStuck
  BY DEF MemTypeOK, WriterInv, StorageNeverStuck, CallCanGo, ReadersGone

LEMMA NoReaderComes == [StorageNext]_memVars => [ReadersOnlyLeave]_memVars
  <1> SUFFICES ASSUME StorageNext PROVE ReadersOnlyLeave
    BY DEF ReadersOnlyLeave, memVars
  <1> QED
    BY DEF StorageNext, Update, AnnounceWriter, BeginUpdate, ApplyNext, EndUpdate,
           CopyGauges, CopyCounters, RLockMu, ReadersOnlyLeave

(* No set of callers, writers and readers, is ever stuck at the RWMutex,   *)
(* and a writer waits only for readers who were in before it               *)
(* (storage.go:51-74, 117-133).                                            *)
THEOREM WritersAreServed ==
  StorageSpec => []StorageNeverStuck /\ [][ReadersOnlyLeave]_memVars
  <1>1. StorageInit => RefinementInv /\ WriterInv
    BY IsolationInit, SoundInit DEF RefinementInv, StorageInit, MemInit, WriterInv
  <1>2. RefinementInv /\ WriterInv /\ [StorageNext]_memVars => (RefinementInv /\ WriterInv)'
    BY CallStep, WriterStep DEF RefinementInv, IsolationInv
  <1>3. RefinementInv /\ WriterInv => StorageNeverStuck
    BY SomebodyCanGo DEF RefinementInv, IsolationInv
  <1> QED
    BY <1>1, <1>2, <1>3, NoReaderComes, PTL DEF StorageSpec
=============================================================================
