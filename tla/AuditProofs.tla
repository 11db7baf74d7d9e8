---------------------------- MODULE AuditProofs ----------------------------
(***************************************************************************)
(* For any set of update requests, queue capacity and observers: the audit *)
(* queue conserves the events it accepts, Close drains it, and what a      *)
(* handler got into it is delivered once.                                  *)
(***************************************************************************)
EXTENDS Audit, TLAPS

(* Sequences. *)
LEMMA ConcatAppend ==
  ASSUME NEW S, NEW s \in Seq(S), NEW t \in Seq(S), NEW x \in S
  PROVE  s \o Append(t, x) = Append(s \o t, x)
  OBVIOUS

LEMMA ConcatEmpty ==
  ASSUME NEW S, NEW s \in Seq(S)
  PROVE  s \o <<>> = s
  OBVIOUS

LEMMA MoveHead ==
  ASSUME NEW S, NEW s \in Seq(S), NEW t \in Seq(S), t # <<>>
  PROVE  (s \o <<Head(t)>>) \o Tail(t) = s \o t
  OBVIOUS

LEMMA ConcatOne ==
  ASSUME NEW S, NEW s \in Seq(S), NEW x \in S
  PROVE  s \o <<x>> = Append(s, x)
  OBVIOUS

-----------------------------------------------------------------------------
LEMMA InitType == Init => TypeOK
  <1> SUFFICES ASSUME Init PROVE TypeOK
    OBVIOUS
  <1>1. 1 \in Places /\ Cap \in Nat
    BY AuditAssumption DEF Places
  <1>2. <<>> \in Seq(Events) /\ Len(<<>>) <= Cap
    BY <1>1
  <1>3. tried \in [Places -> Seq(Events)]
    BY <1>2 DEF Init
  <1> QED
    BY <1>1, <1>2, <1>3 DEF Init, TypeOK, HandlerStates

LEMMA TypeStep == TypeOK /\ [Next]_auditVars => TypeOK'
  <1> SUFFICES ASSUME TypeOK, [Next]_auditVars PROVE TypeOK'
    OBVIOUS
  <1> USE DEF TypeOK, HandlerStates
  <1>1. ASSUME NEW e \in Events, ApplyUpdate(e) PROVE TypeOK'
    BY <1>1 DEF ApplyUpdate, subjectVars, workerVars
  <1>2. ASSUME NEW e \in Events, Notify(e) PROVE TypeOK'
    <2>1. CASE Enqueue(e)
      <3>1. Append(ch, e) \in Seq(Events) /\ Len(Append(ch, e)) <= Cap
        BY <2>1, AuditAssumption DEF Enqueue
      <3> QED
        BY <1>2, <2>1, <3>1 DEF Notify, Enqueue, workerVars
    <2>2. CASE Drop(e) \/ Panic(e)
      BY <1>2, <2>2 DEF Notify, Drop, Panic, workerVars
    <2> QED
      BY <1>2, <2>1, <2>2 DEF Notify
  <1>3. CASE Take
    <2>1. Head(ch) \in Events /\ Tail(ch) \in Seq(Events) /\ Len(Tail(ch)) <= Cap
      BY <1>3, AuditAssumption DEF Take
    <2> QED
      BY <1>3, <2>1, AuditAssumption DEF Take, Places
  <1>4. CASE Deliver
    <2>1. Append(tried[nxt], cur) \in Seq(Events) /\ Append(written, cur) \in Seq(Events)
      BY <1>4 DEF Deliver
    <2>2. tried' \in [Places -> Seq(Events)]
      BY <1>4, <2>1 DEF Deliver
    <2>3. written' \in Seq(Events)
      BY <1>4, <2>1 DEF Deliver, Outcomes
    <2>4. cur' \in Events \cup {Nothing} /\ nxt' \in Places
      BY <1>4, AuditAssumption DEF Deliver, Places
    <2> QED
      BY <1>4, <2>2, <2>3, <2>4 DEF Deliver, subjectVars
  <1>5. CASE EndRange
    BY <1>5 DEF EndRange, subjectVars
  <1>6. CASE StopServing \/ CloseChannel \/ Drained \/ CloseFile
    BY <1>6 DEF StopServing, CloseChannel, Drained, CloseFile, subjectVars, workerVars
  <1>7. CASE UNCHANGED auditVars
    BY <1>7 DEF auditVars
  <1> QED
    BY <1>1, <1>2, <1>3, <1>4, <1>5, <1>6, <1>7 DEF Next, Dispatch, Run, Exited

(* Type correctness, the bound on the queue included (audit.go:16-70).     *)
THEOREM AuditTypeCorrect == Spec => []TypeOK
  BY InitType, TypeStep, PTL DEF Spec

-----------------------------------------------------------------------------
LEMMA ConservationStep == TypeOK /\ Conservation /\ [Next]_auditVars => Conservation'
  <1> SUFFICES ASSUME TypeOK, Conservation, [Next]_auditVars,
                      NEW i \in Places
               PROVE  (tried[i] \o InHand(i) \o ch = accepted)'
    BY DEF Conservation, Places
  <1> USE DEF TypeOK
  <1>0. /\ tried[i] \in Seq(Events) /\ ch \in Seq(Events) /\ accepted \in Seq(Events)
        /\ InHand(i) \in Seq(Events)
        /\ tried[i] \o InHand(i) \in Seq(Events)
        /\ tried[i] \o InHand(i) \o ch = accepted
    BY DEF InHand, Conservation
  <1>1. CASE UNCHANGED <<tried, cur, nxt, ch, accepted>>
    BY <1>0, <1>1 DEF InHand
  <1>2. ASSUME NEW e \in Events, Notify(e), Enqueue(e)
        PROVE  (tried[i] \o InHand(i) \o ch = accepted)'
    <2>1. tried' = tried /\ InHand(i)' = InHand(i)
      BY <1>2 DEF Notify, workerVars, InHand
    <2>2. ch' = Append(ch, e) /\ accepted' = Append(accepted, e)
      BY <1>2 DEF Enqueue
    <2>3. (tried[i] \o InHand(i)) \o Append(ch, e) = Append((tried[i] \o InHand(i)) \o ch, e)
      <3>1. ASSUME NEW s \in Seq(Events)
            PROVE  s \o Append(ch, e) = Append(s \o ch, e)
        <4>1. ch \in Seq(Events)
          BY <1>0
        <4> HIDE DEF TypeOK
        <4> QED
          BY <4>1, ConcatAppend
      <3>2. tried[i] \o InHand(i) \in Seq(Events)
        BY <1>0
      <3> HIDE DEF TypeOK
      <3> QED
        BY <3>1, <3>2, Zenon
    <2> QED
      BY <1>0, <2>1, <2>2, <2>3
  <1>3. CASE Take
    <2>1. InHand(i) = <<>> /\ InHand(i)' = <<Head(ch)>>
      <3>1. Head(ch) \in Events
        BY <1>3 DEF Take
      <3> QED
        BY <1>3, <3>1, AuditAssumption DEF Take, InHand, Places
    <2>2. tried[i] \o ch = accepted
      BY <1>0, <2>1, ConcatEmpty
    <2>3. (tried[i] \o <<Head(ch)>>) \o Tail(ch) = tried[i] \o ch
      BY <1>0, <1>3, MoveHead DEF Take
    <2> QED
      BY <1>3, <2>1, <2>2, <2>3 DEF Take
  <1>4. CASE Deliver
    <2>0. ch' = ch /\ accepted' = accepted /\ cur \in Events
      BY <1>4 DEF Deliver, subjectVars
    <2>1. CASE i = nxt
      <3>1. InHand(i) = <<cur>> /\ InHand(i)' = <<>>
        BY <1>4, <2>1 DEF Deliver, InHand, Places
      <3>2. tried'[i] = Append(tried[i], cur)
        BY <1>4, <2>1 DEF Deliver
      <3>3. tried'[i] \o <<>> = tried[i] \o <<cur>>
        BY <1>0, <2>0, <3>2, ConcatOne, ConcatEmpty
      <3> QED
        BY <1>0, <2>0, <3>1, <3>3
    <2>2. CASE i # nxt
      <3>1. tried'[i] = tried[i]
        BY <1>4, <2>2 DEF Deliver
      <3>2. InHand(i)' = InHand(i)
        BY <1>4, <2>2, AuditAssumption DEF Deliver, InHand, Places
      <3> QED
        BY <1>0, <2>0, <3>1, <3>2
    <2> QED
      BY <2>1, <2>2
  <1>5. CASE EndRange \/ StopServing \/ CloseChannel \/ Drained \/ CloseFile
    BY <1>1, <1>5 DEF EndRange, StopServing, CloseChannel, Drained, CloseFile,
                      subjectVars, workerVars
  <1>6. ASSUME NEW e \in Events,
               ApplyUpdate(e) \/ (Notify(e) /\ (Drop(e) \/ Panic(e)))
        PROVE  (tried[i] \o InHand(i) \o ch = accepted)'
    BY <1>1, <1>6 DEF ApplyUpdate, Notify, Drop, Panic, subjectVars, workerVars
  <1>7. CASE UNCHANGED auditVars
    BY <1>1, <1>7 DEF auditVars
  <1> QED
    BY <1>2, <1>3, <1>4, <1>5, <1>6, <1>7 DEF Next, Dispatch, Run, Exited, Notify

LEMMA ConservationInit == Init => Conservation
  BY DEF Init, Conservation, InHand, Places

(* Every observer gets every accepted event once and in order              *)
(* (audit.go:53-70).                                                       *)
THEOREM EventsConserved == Spec => []Conservation
  BY InitType, TypeStep, ConservationInit, ConservationStep, PTL DEF Spec

-----------------------------------------------------------------------------
(***************************************************************************)
(* Once the worker is done nothing is left with it or in the queue, and    *)
(* nothing can be added; until run() is over the file takes every line.    *)
(***************************************************************************)
CloseInv ==
    /\ worker = "done" => closed /\ ch = <<>> /\ cur = Nothing
    /\ main \in {"drained", "exited"} => worker = "done"
    /\ Alive => fileOpen
    /\ \A i \in Places : Observers[i] = File /\ File \notin Failing => written = tried[i]

LEMMA CloseStep == TypeOK /\ CloseInv /\ [Next]_auditVars => CloseInv'
  <1> SUFFICES ASSUME TypeOK, CloseInv, [Next]_auditVars PROVE CloseInv'
    OBVIOUS
  <1> USE DEF TypeOK, CloseInv
  <1>1. ASSUME NEW e \in Events, ApplyUpdate(e) PROVE CloseInv'
    BY <1>1 DEF ApplyUpdate, subjectVars, workerVars, Alive
  <1>2. ASSUME NEW e \in Events, Notify(e) PROVE CloseInv'
    BY <1>2 DEF Notify, Enqueue, Drop, Panic, workerVars, Alive
  <1>3. CASE Take
    BY <1>3 DEF Take, Alive
  <1>4. CASE Deliver
    <2>1. UNCHANGED <<closed, ch, worker, main, fileOpen>> /\ worker # "done"
      BY <1>4 DEF Deliver, subjectVars
    <2>2. ASSUME NEW i \in Places, Observers[i] = File, File \notin Failing
          PROVE  written' = tried'[i]
      <3>1. CASE i = nxt
        BY <1>4, <2>2, <3>1 DEF Deliver, Outcomes, Alive
      <3>2. CASE i # nxt
        <4>1. Observers[nxt] # File
          BY <2>2, <3>2, AuditAssumption DEF Places
        <4> QED
          BY <1>4, <2>2, <3>2, <4>1 DEF Deliver, Outcomes
      <3> QED
        BY <3>1, <3>2
    <2> QED
      BY <2>1, <2>2 DEF Alive
  <1>5. CASE EndRange
    BY <1>5 DEF EndRange, RangeEnds, subjectVars, Alive
  <1>6. CASE StopServing \/ CloseChannel \/ Drained \/ CloseFile
    BY <1>6 DEF StopServing, CloseChannel, Drained, WaitWorker, CloseFile,
                subjectVars, workerVars, Alive
  <1>7. CASE UNCHANGED auditVars
    BY <1>7 DEF auditVars, Alive
  <1> QED
    BY <1>1, <1>2, <1>3, <1>4, <1>5, <1>6, <1>7 DEF Next, Dispatch, Run, Exited

LEMMA CloseInit == Init => CloseInv
  BY DEF Init, CloseInv, Alive, Places

LEMMA CloseDrains == TypeOK /\ Conservation /\ CloseInv => DrainedBeforeExit
  <1> SUFFICES ASSUME TypeOK, Conservation, CloseInv, main \in {"drained", "exited"},
                      NEW i \in Places
               PROVE  /\ tried[i] = accepted
                      /\ Observers[i] = File /\ File \notin Failing => written = accepted
    BY DEF DrainedBeforeExit
  <1>1. ch = <<>> /\ InHand(i) = <<>>
    BY DEF CloseInv, InHand
  <1>2. tried[i] \o <<>> \o <<>> = accepted
    BY <1>1 DEF Conservation
  <1>3. tried[i] \in Seq(Events)
    BY DEF TypeOK
  <1>4. tried[i] = accepted
    BY <1>2, <1>3, ConcatEmpty
  <1> QED
    BY <1>4 DEF CloseInv

(* When Close has returned, and so before the audit file is closed, every  *)
(* accepted event is delivered (audit.go:72-77, main.go:144-162).          *)
THEOREM CloseDrainsQueue == Spec => []DrainedBeforeExit
  BY InitType, TypeStep, ConservationInit, ConservationStep, CloseInit, CloseStep,
     CloseDrains, PTL DEF Spec

-----------------------------------------------------------------------------
(***************************************************************************)
(* What the handlers know of the queue: an event is in it, or was, exactly *)
(* when its Notify took the send, and no event is there twice.             *)
(***************************************************************************)
Among(e, s) == \E k \in 1..Len(s) : s[k] = e
Distinct(s) == \A j, k \in 1..Len(s) : s[j] = s[k] => j = k

NotifiedInv ==
    /\ \A e \in Events : handler[e] = "notified" <=> Among(e, accepted)
    /\ Distinct(accepted)

(* When Close has returned each observer was notified of each event whose  *)
(* Notify took the send, once, and of no event that was dropped or whose   *)
(* handler panicked.                                                       *)
NotifiedDelivered ==
    main \in {"drained", "exited"} =>
      \A i \in Places :
        /\ \A e \in Events : handler[e] = "notified" <=> Among(e, tried[i])
        /\ Distinct(tried[i])

LEMMA NotifiedStep == TypeOK /\ NotifiedInv /\ [Next]_auditVars => NotifiedInv'
  <1> SUFFICES ASSUME TypeOK, NotifiedInv, [Next]_auditVars PROVE NotifiedInv'
    OBVIOUS
  <1>1. CASE UNCHANGED <<handler, accepted>>
    BY <1>1 DEF NotifiedInv, Among, Distinct
  <1>2. ASSUME NEW e \in Events, UNCHANGED accepted, handler[e] # "notified",
               NEW s \in HandlerStates \ {"notified"}, handler' = [handler EXCEPT ![e] = s]
        PROVE  NotifiedInv'
    BY <1>2 DEF NotifiedInv, TypeOK, Among, Distinct
  <1>3. ASSUME NEW e \in Events, Notify(e), Enqueue(e) PROVE NotifiedInv'
    <2>1. /\ accepted \in Seq(Events) /\ handler[e] = "applied"
          /\ accepted' = Append(accepted, e)
          /\ handler' = [handler EXCEPT ![e] = "notified"]
      BY <1>3 DEF Notify, Enqueue, TypeOK
    <2>2. /\ Len(accepted) \in Nat /\ Len(accepted') = Len(accepted) + 1
          /\ accepted'[Len(accepted) + 1] = e
          /\ \A k \in 1..Len(accepted) : accepted'[k] = accepted[k]
          /\ \A k \in 1..Len(accepted') : k \in 1..Len(accepted) \/ k = Len(accepted) + 1
          /\ \A k \in 1..Len(accepted) : k \in 1..Len(accepted')
          /\ Len(accepted) + 1 \in 1..Len(accepted')
      BY <2>1
    <2>3. \A f \in Events : Among(f, accepted') <=> Among(f, accepted) \/ f = e
      <3> DEFINE n == Len(accepted)
                 longer == accepted'
      <3> HIDE DEF n, longer
      <3>1. /\ longer[n + 1] = e /\ \A k \in 1..n : longer[k] = accepted[k]
            /\ \A k \in 1..Len(longer) : k \in 1..n \/ k = n + 1
            /\ \A k \in 1..n : k \in 1..Len(longer)
            /\ n + 1 \in 1..Len(longer)
        BY <2>2 DEF n, longer
      <3>2. \A f \in Events : Among(f, longer) <=> (\E k \in 1..n : accepted[k] = f) \/ f = e
        BY <3>1 DEF Among
      <3> QED
        BY <3>2 DEF Among, n, longer
    <2>4. ~Among(e, accepted)
      BY <2>1 DEF NotifiedInv
    <2>5. Distinct(accepted')
      BY <2>2, <2>4 DEF NotifiedInv, Distinct, Among
    <2>6. \A f \in Events : handler'[f] = "notified" <=> handler[f] = "notified" \/ f = e
      BY <2>1 DEF TypeOK
    <2> QED
      BY <2>3, <2>5, <2>6 DEF NotifiedInv
  <1>4. ASSUME NEW e \in Events, Notify(e), Drop(e) \/ Panic(e) PROVE NotifiedInv'
    BY <1>2, <1>4 DEF Notify, Drop, Panic, HandlerStates
  <1>5. ASSUME NEW e \in Events, ApplyUpdate(e) PROVE NotifiedInv'
    BY <1>2, <1>5 DEF ApplyUpdate, subjectVars, HandlerStates
  <1>6. CASE Take \/ Deliver \/ EndRange \/ StopServing \/ CloseChannel \/ Drained \/ CloseFile
    BY <1>1, <1>6 DEF Take, Deliver, EndRange, StopServing, CloseChannel, Drained, CloseFile,
                      subjectVars
  <1>7. CASE UNCHANGED auditVars
    BY <1>1, <1>7 DEF auditVars
  <1> QED
    BY <1>3, <1>4, <1>5, <1>6, <1>7 DEF Next, Dispatch, Run, Exited, Notify

LEMMA NotifiedInit == Init => NotifiedInv
  BY DEF Init, NotifiedInv, Among, Distinct

(* An update whose handler got past Notify on the send is in the audit     *)
(* trail of every observer once the server is down, once and whatever      *)
(* dropped or panicked around it (audit.go:53-77, main.go:144-162).        *)
THEOREM NotifiedIsDelivered == Spec => []NotifiedDelivered
  <1>1. NotifiedInv /\ DrainedBeforeExit => NotifiedDelivered
    BY DEF NotifiedInv, DrainedBeforeExit, NotifiedDelivered
  <1> QED
    BY <1>1, InitType, TypeStep, NotifiedInit, NotifiedStep, CloseDrainsQueue, PTL DEF Spec

-----------------------------------------------------------------------------
(***************************************************************************)
(* Why Close returns.  Once the channel is closed nothing comes into it,   *)
(* and each step of the dispatch goroutine leaves less to do: fewer        *)
(* events, or as many and one observer less to notify, or its end.         *)
(***************************************************************************)
ClosedInv == closed <=> main \in {"waiting", "drained", "exited"}

ToNotify == IF cur = Nothing THEN 0 ELSE Len(Observers) + 1 - nxt

WorkShrinks ==
    closed => /\ Len(ch') <= Len(ch)
              /\ UNCHANGED workerVars \/ \/ Len(ch') < Len(ch)
                                         \/ Len(ch') = Len(ch) /\ ToNotify' < ToNotify
                                         \/ worker = "ranging" /\ worker' = "done"

(* While Close waits, the dispatch goroutine has ended or it can go on, and *)
(* it needs no handler for that.                                           *)
CloseNeverStuck ==
    main = "waiting" => \/ worker = "done" \/ cur # Nothing
                        \/ worker = "ranging" /\ (ch # <<>> \/ RangeEnds)

LEMMA ClosedStep == TypeOK /\ ClosedInv /\ [Next]_auditVars => ClosedInv'
  BY DEF TypeOK, ClosedInv, Next, ApplyUpdate, Notify, Dispatch, Take, Deliver, EndRange, Run,
         StopServing, CloseChannel, Drained, CloseFile, Exited, auditVars, subjectVars, workerVars

LEMMA WorkStep == TypeOK /\ [Next]_auditVars => [WorkShrinks]_auditVars
  <1> SUFFICES ASSUME TypeOK, Next, closed
               PROVE  /\ Len(ch') <= Len(ch)
                      /\ UNCHANGED workerVars \/ \/ Len(ch') < Len(ch)
                                                 \/ Len(ch') = Len(ch) /\ ToNotify' < ToNotify
                                                 \/ worker = "ranging" /\ worker' = "done"
    BY DEF WorkShrinks
  <1>0. Len(ch) \in Nat
    BY DEF TypeOK
  <1>1. CASE Take
    <2>1. Len(Tail(ch)) < Len(ch)
      BY <1>1 DEF Take, TypeOK
    <2> QED
      BY <1>0, <1>1, <2>1 DEF Take
  <1>2. CASE Deliver
    <2>1. Len(Observers) \in Nat /\ nxt \in 1..Len(Observers)
      BY AuditAssumption DEF TypeOK, Places
    <2>2. ToNotify' < ToNotify
      BY <1>2, <2>1 DEF Deliver, ToNotify
    <2> QED
      BY <1>0, <1>2, <2>2 DEF Deliver, subjectVars
  <1>3. CASE EndRange
    BY <1>0, <1>3 DEF EndRange, subjectVars
  <1>4. CASE UNCHANGED <<ch, workerVars>>
    BY <1>0, <1>4
  <1> QED
    BY <1>1, <1>2, <1>3, <1>4
       DEF Next, ApplyUpdate, Notify, Enqueue, Drop, Panic, Dispatch, Run, StopServing,
           CloseChannel, Drained, CloseFile, Exited, auditVars, subjectVars, workerVars

(* Close waits for a goroutine that can go on, with work that only shrinks *)
(* whatever the handlers still do (audit.go:53-77).                        *)
THEOREM CloseDrainsSteadily == Spec => []CloseNeverStuck /\ [][WorkShrinks]_auditVars
  <1>1. Init => ClosedInv
    BY DEF Init, ClosedInv
  <1>2. TypeOK /\ ClosedInv => CloseNeverStuck
    BY DEF TypeOK, ClosedInv, CloseNeverStuck, RangeEnds
  <1> QED
    BY <1>1, <1>2, InitType, TypeStep, ClosedStep, WorkStep, PTL DEF Spec
=============================================================================
