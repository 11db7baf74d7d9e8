-------------------------- MODULE CollectorProofs --------------------------
(***************************************************************************)
(* The safety of the collector's buffer.  While a goroutine has mu nobody  *)
(* adds to the buffer, so what it sends is the buffer: an answer to the    *)
(* batch is one to everything that the answer lets it remove.              *)
(***************************************************************************)
EXTENDS Collector, TLAPS

HeldInv == sender # "none" => sending = buffer

IdleInv == sender = "none" => sending = {} /\ attempt = 0

Inv == TypeOK /\ HeldInv /\ IdleInv /\ KeptUntilAnswered /\ AcceptedIsNotResent

LEMMA Initially == Init => Inv
  BY CollectorAssumption
  DEF Init, Inv, TypeOK, HeldInv, IdleInv, KeptUntilAnswered, AcceptedIsNotResent

-----------------------------------------------------------------------------
(* Each step below takes the invariant from one action. *)

LEMMA AddStep ==
  ASSUME Inv, NEW m \in Metrics, AddMetric(m)  PROVE Inv'
  <1>. USE DEF AddMetric, MuFree, Inv, TypeOK
  <1>1. sending = {}
    BY DEF IdleInv
  <1>2. m \notin accepted
    OBVIOUS
  <1>3. TypeOK'
    OBVIOUS
  <1>4. (HeldInv /\ IdleInv)'
    BY DEF HeldInv, IdleInv
  <1>5. KeptUntilAnswered'
    BY DEF KeptUntilAnswered
  <1>6. AcceptedIsNotResent'
    BY <1>1, <1>2 DEF AcceptedIsNotResent
  <1>. QED  BY <1>3, <1>4, <1>5, <1>6

LEMMA LockStep ==
  ASSUME Inv, Flush \/ NothingToSend \/ Lock  PROVE Inv'
  <1>. USE DEF Inv, TypeOK, HeldInv, IdleInv, KeptUntilAnswered, AcceptedIsNotResent
  <1>1. CASE Flush
    BY <1>1 DEF Flush
  <1>2. CASE NothingToSend
    BY <1>2 DEF NothingToSend, MuFree
  <1>3. CASE Lock
    BY <1>3 DEF Lock, MuFree
  <1>. QED  BY <1>1, <1>2, <1>3

LEMMA FailStep ==
  ASSUME Inv, FirstFails \/ RetryFails  PROVE Inv'
  <1>. USE CollectorAssumption
       DEF Inv, TypeOK, HeldInv, IdleInv, KeptUntilAnswered, AcceptedIsNotResent
  <1>1. CASE FirstFails
    BY <1>1 DEF FirstFails, Fails, Unlock
  <1>2. CASE RetryFails
    BY <1>2 DEF RetryFails, Fails, Unlock, AttemptsLeft
  <1>. QED  BY <1>1, <1>2

LEMMA AnswerStep ==
  ASSUME Inv, NEW status \in Statuses, FirstAnswered(status) \/ RetryAnswered(status)
  PROVE  Inv'
  <1>. USE CollectorAssumption DEF Inv, Statuses
  <1>1. sending = buffer
    BY DEF HeldInv, FirstAnswered, RetryAnswered
  <1>2. /\ accepted' \in SUBSET answered' /\ answered' \in SUBSET added
        /\ failures' \in 0..MaxFailures
        /\ status # "5xx" => buffer \subseteq answered'
        /\ answered \subseteq answered'
    BY <1>1 DEF TypeOK, FirstAnswered, RetryAnswered, Recorded, Fails
  <1>3. CASE FirstAnswered(status)
    <2>1. (TypeOK /\ HeldInv /\ IdleInv)'
      BY <1>2, <1>3 DEF TypeOK, HeldInv, IdleInv, FirstAnswered
    <2>2. KeptUntilAnswered'
      BY <1>2, <1>3 DEF KeptUntilAnswered, FirstAnswered
    <2>3. AcceptedIsNotResent'
      BY <1>3 DEF AcceptedIsNotResent, FirstAnswered, Recorded
    <2>. QED  BY <2>1, <2>2, <2>3
  <1>4. CASE RetryAnswered(status)
    <2>1. (TypeOK /\ HeldInv /\ IdleInv)'
      BY <1>2, <1>4 DEF TypeOK, HeldInv, IdleInv, RetryAnswered, Unlock
    <2>2. KeptUntilAnswered'
      BY <1>2, <1>4 DEF KeptUntilAnswered, RetryAnswered
    <2>3. AcceptedIsNotResent'
      BY <1>4 DEF AcceptedIsNotResent, RetryAnswered, Unlock
    <2>. QED  BY <2>1, <2>2, <2>3
  <1>. QED  BY <1>3, <1>4

LEMMA Preserved == Inv /\ [Next]_vars => Inv'
  <1>. SUFFICES ASSUME Inv, [Next]_vars  PROVE Inv'
    OBVIOUS
  <1>1. CASE UNCHANGED vars
    BY <1>1 DEF vars, Inv, TypeOK, HeldInv, IdleInv, KeptUntilAnswered, AcceptedIsNotResent
  <1>2. CASE \E m \in Metrics : AddMetric(m)
    BY <1>2, AddStep
  <1>3. CASE Flush \/ NothingToSend \/ Lock
    BY <1>3, LockStep
  <1>4. CASE FirstFails \/ RetryFails
    BY <1>4, FailStep
  <1>5. CASE \E status \in Statuses : FirstAnswered(status) \/ RetryAnswered(status)
    BY <1>5, AnswerStep
  <1>. QED  BY <1>1, <1>2, <1>3, <1>4, <1>5 DEF Next, SendBatch

-----------------------------------------------------------------------------
THEOREM AlwaysInv == Spec => []Inv
  BY Initially, Preserved, PTL DEF Spec

(* The types of the collector's state; attempts stay within WithMaxRetries *)
(* (collector.go:195-202).                                                 *)
THEOREM TypeCorrect == Spec => []TypeOK
  <1>1. Inv => TypeOK
    BY DEF Inv
  <1>. QED  BY <1>1, AlwaysInv, PTL

(* AddMetric and sendBatch lose no metric to a failing server, whatever    *)
(* number of callers, flushes and retries (collector.go:146-212).          *)
THEOREM BufferIsKept == Spec => []KeptUntilAnswered
  <1>1. Inv => KeptUntilAnswered
    BY DEF Inv
  <1>. QED  BY <1>1, AlwaysInv, PTL

(* sendBatch never sends again what was answered with 200, although its    *)
(* retries follow that answer (collector.go:188-212).                      *)
THEOREM NothingIsResent == Spec => []AcceptedIsNotResent
  <1>1. Inv => AcceptedIsNotResent
    BY DEF Inv
  <1>. QED  BY <1>1, AlwaysInv, PTL

-----------------------------------------------------------------------------
(***************************************************************************)
(* How long mu is held: the posts of the sender that has it are counted,   *)
(* each of its steps adds one or gives mu back, and WithMaxRetries bounds  *)
(* the count.  Nobody else can take a step meanwhile.                      *)
(***************************************************************************)
Posts == CASE sender = "none" -> 0
           [] sender = "first" -> 1
           [] sender = "retry" -> 1 + attempt

MuGivenBack == sender # "none" => sender' = "none" \/ Posts' = Posts + 1

(* AddMetric, the flusher and the snapshots wait for mu through at most    *)
(* one post more than the retries allow; no step of the sender leaves mu   *)
(* as it was (collector.go:146-212).                                       *)
THEOREM MuIsGivenBack ==
  Spec => [](Posts <= Retries + 2) /\ [][MuGivenBack]_vars
  <1>1. Inv => Posts <= Retries + 2
    BY CollectorAssumption DEF Inv, TypeOK, Posts
  <1>2. Inv /\ [Next]_vars => [MuGivenBack]_vars
    <2>. SUFFICES ASSUME Inv, Next, sender # "none"
                  PROVE  sender' = "none" \/ Posts' = Posts + 1
      BY DEF MuGivenBack
    <2>1. ~MuFree /\ attempt \in Int
      BY CollectorAssumption DEF MuFree, Inv, TypeOK
    <2>2. CASE FirstFails
      BY <2>2 DEF FirstFails, Unlock
    <2>3. CASE RetryFails
      BY <2>1, <2>3 DEF RetryFails, Unlock, Posts
    <2>4. ASSUME NEW status \in Statuses, FirstAnswered(status) \/ RetryAnswered(status)
          PROVE  sender' = "none" \/ Posts' = Posts + 1
      BY <2>4 DEF FirstAnswered, RetryAnswered, Unlock, Posts
    <2>. QED
      BY <2>1, <2>2, <2>3, <2>4 DEF Next, SendBatch, NothingToSend, Lock, Flush, AddMetric
  <1>. QED  BY <1>1, <1>2, AlwaysInv, PTL DEF Spec
=============================================================================
