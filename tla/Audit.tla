------------------------------- MODULE Audit -------------------------------
(***************************************************************************)
(* internal/audit/audit.go with its two callers: the update handlers,      *)
(* which hand an event to Subject.Notify once the storage has taken the    *)
(* update in (internal/handler/handlers.go), and run() of                  *)
(* cmd/server/main.go, whose deferred calls close the subject and then the *)
(* audit file.                                                             *)
(***************************************************************************)
EXTENDS Integers, Sequences

CONSTANTS Events,     \* one for each update request
          Cap,        \* defaultAuditBufSize
          Observers,  \* the observers of the subject, in order
          File,       \* the FileObserver among them
          Failing,    \* observers whose delivery may fail (and is only logged)
          Nothing     \* no event

ASSUME AuditAssumption ==
    /\ Cap \in Nat \ {0}
    /\ Len(Observers) \in Nat \ {0}
    /\ \A i, j \in 1..Len(Observers) : Observers[i] = Observers[j] => i = j
    /\ Nothing \notin Events

VARIABLES handler,   \* handler[e]: where the update of event e is
          ch,        \* Subject.ch
          closed,    \* close(s.ch) was called
          accepted,  \* history: the events ch has taken, in order
          worker,    \* the dispatch goroutine: "ranging" or "done"
          cur, nxt,  \* the event it delivers and the observer that is next
          tried,     \* tried[i]: events observer i was notified of, in order
          written,   \* events in the audit file, in order
          fileOpen,  \* the handle of the FileObserver is open
          main       \* where run() is

auditVars == <<handler, ch, closed, accepted, worker, cur, nxt,
               tried, written, fileOpen, main>>
subjectVars == <<ch, closed, accepted>>
workerVars == <<worker, cur, nxt, tried, written>>

Places == 1..Len(Observers)

Init ==
    /\ handler = [e \in Events |-> "idle"]
    /\ ch = <<>> /\ closed = FALSE /\ accepted = <<>>
    /\ worker = "ranging" /\ cur = Nothing /\ nxt = 1
    /\ tried = [i \in Places |-> <<>>]
    /\ written = <<>>
    /\ fileOpen = TRUE
    /\ main = "serving"

Alive == main # "exited"

-----------------------------------------------------------------------------
(* Update handlers. *)

(* The storage takes the update in.  Its request came while the server     *)
(* was listening, but ListenAndServe returns without the handlers that are *)
(* at work then, so this may happen until the process ends.                *)
ApplyUpdate(e) ==
    /\ Alive
    /\ handler[e] = "idle"
    /\ handler' = [handler EXCEPT ![e] = "applied"]
    /\ UNCHANGED <<subjectVars, workerVars, fileOpen, main>>

(* Subject.Notify.  A send on a closed channel panics, in a select too; the *)
(* process survives it, because Recoverer ends the request (main.go:171),  *)
(* what its sender is told is modelled in Handlers (PanicStatus).          *)
Enqueue(e) ==
    /\ ~closed /\ Len(ch) < Cap
    /\ ch' = Append(ch, e)
    /\ accepted' = Append(accepted, e)
    /\ handler' = [handler EXCEPT ![e] = "notified"]

Drop(e) ==
    /\ ~closed /\ Len(ch) >= Cap
    /\ handler' = [handler EXCEPT ![e] = "dropped"]
    /\ UNCHANGED <<ch, accepted>>

Panic(e) ==
    /\ closed
    /\ handler' = [handler EXCEPT ![e] = "panicked"]
    /\ UNCHANGED <<ch, accepted>>

NotifyBlocking(e) ==            \* mutant: s.ch <- e without the default branch
    /\ Alive
    /\ handler[e] = "applied"
    /\ Enqueue(e) \/ Panic(e)
    /\ UNCHANGED <<closed, workerVars, fileOpen, main>>

Notify(e) ==
    /\ Alive
    /\ handler[e] = "applied"
    /\ Enqueue(e) \/ Drop(e) \/ Panic(e)
    /\ UNCHANGED <<closed, workerVars, fileOpen, main>>

-----------------------------------------------------------------------------
(* dispatch *)

TakeLast ==                     \* mutant: the newest event first
    /\ Alive
    /\ worker = "ranging" /\ cur = Nothing /\ ch # <<>>
    /\ cur' = ch[Len(ch)]
    /\ nxt' = 1
    /\ ch' = SubSeq(ch, 1, Len(ch) - 1)
    /\ UNCHANGED <<handler, closed, accepted, worker, tried, written, fileOpen, main>>

Take ==
    /\ Alive
    /\ worker = "ranging" /\ cur = Nothing /\ ch # <<>>
    /\ cur' = Head(ch)
    /\ nxt' = 1
    /\ ch' = Tail(ch)
    /\ UNCHANGED <<handler, closed, accepted, worker, tried, written, fileOpen, main>>

(* The file gets the line if its handle is open and the write succeeds. *)
Outcomes(o) ==
    IF o # File THEN {written}
    ELSE (IF fileOpen THEN {Append(written, cur)} ELSE {})
         \cup (IF ~fileOpen \/ File \in Failing THEN {written} ELSE {})

(* o.Notify(e) of the next observer; an error is logged and the loop goes  *)
(* on to the one after it.                                                 *)
Deliver ==
    /\ Alive
    /\ cur # Nothing
    /\ tried' = [tried EXCEPT ![nxt] = Append(@, cur)]
    /\ written' \in Outcomes(Observers[nxt])
    /\ IF nxt = Len(Observers)
       THEN cur' = Nothing /\ nxt' = 1
       ELSE cur' = cur /\ nxt' = nxt + 1
    /\ UNCHANGED <<handler, subjectVars, worker, fileOpen, main>>

RangeForever == FALSE           \* mutant: for { e := <-s.ch ... } in place of range
RangeEnds == closed /\ ch = <<>>

EndRange ==
    /\ Alive
    /\ worker = "ranging" /\ cur = Nothing
    /\ RangeEnds
    /\ worker' = "done"
    /\ UNCHANGED <<handler, subjectVars, cur, nxt, tried, written, fileOpen, main>>

-----------------------------------------------------------------------------
(* run(), from the signal on. *)

(* ListenAndServe has returned; the final snapshot is taken. *)
StopServing ==
    /\ main = "serving"
    /\ main' = "stopping"
    /\ UNCHANGED <<handler, subjectVars, workerVars, fileOpen>>

(* auditSubject.Close() *)
CloseChannel ==
    /\ main = "stopping"
    /\ closed' = TRUE
    /\ main' = "waiting"
    /\ UNCHANGED <<handler, ch, accepted, workerVars, fileOpen>>

WaitSkipped == TRUE             \* mutant: Close without wg.Wait
WaitWorker == worker = "done"

(* wg.Wait() *)
Drained ==
    /\ main = "waiting"
    /\ WaitWorker
    /\ main' = "drained"
    /\ UNCHANGED <<handler, subjectVars, workerVars, fileOpen>>

(* fo.Close(), and the process is gone. *)
CloseFile ==
    /\ main = "drained"
    /\ fileOpen' = FALSE
    /\ main' = "exited"
    /\ UNCHANGED <<handler, subjectVars, workerVars>>

Exited == ~Alive /\ UNCHANGED auditVars

Dispatch == Take \/ Deliver \/ EndRange
Run == CloseChannel \/ Drained \/ CloseFile

Next ==
    \/ \E e \in Events : ApplyUpdate(e) \/ Notify(e)
    \/ Dispatch
    \/ StopServing \/ Run
    \/ Exited

(* Observers return: a file write does, and http.Client gives up after 5 s.*)
Fairness == WF_auditVars(Dispatch) /\ WF_auditVars(Run)

Spec == Init /\ [][Next]_auditVars /\ Fairness

-----------------------------------------------------------------------------
HandlerStates == {"idle", "applied", "notified", "dropped", "panicked"}

TypeOK ==
    /\ handler \in [Events -> HandlerStates]
    /\ ch \in Seq(Events) /\ Len(ch) <= Cap
    /\ closed \in BOOLEAN
    /\ accepted \in Seq(Events)
    /\ worker \in {"ranging", "done"}
    /\ cur \in Events \cup {Nothing}
    /\ nxt \in Places
    /\ tried \in [Places -> Seq(Events)]
    /\ written \in Seq(Events)
    /\ fileOpen \in BOOLEAN
    /\ main \in {"serving", "stopping", "waiting", "drained", "exited"}

(* What the dispatch goroutine still has to give observer i. *)
InHand(i) == IF cur # Nothing /\ nxt <= i THEN <<cur>> ELSE <<>>

(* Every observer is notified of every event the queue took, once and in   *)
(* the order it took them: what it has seen, what the worker holds for it  *)
(* and what is queued make up the accepted events (audit.go:53-70).        *)
Conservation ==
    \A i \in Places : tried[i] \o InHand(i) \o ch = accepted

(* After Close the observers have seen every accepted event, and a file    *)
(* whose writes succeed holds them all: Close "drains the event queue and  *)
(* waits" (audit.go:72-77), and runs before fo.Close (main.go:150, 161).   *)
DrainedBeforeExit ==
    main \in {"drained", "exited"} =>
      /\ \A i \in Places : tried[i] = accepted
      /\ \A i \in Places : Observers[i] = File /\ File \notin Failing
                             => written = accepted

(* "the handler is never blocked" (audit.go:62-63): whatever the queue and *)
(* the dispatch goroutine are at, an observer that never returns included, *)
(* a handler can get past Notify with its next step.                       *)
NotifyNeverBlocks ==
    \A e \in Events : Alive /\ handler[e] = "applied" => ENABLED Notify(e)

(* Close returns and the server exits, however full the queue was          *)
(* (audit.go:74-77, main.go:161).                                          *)
CloseReturns == main = "waiting" ~> main = "exited"

(* Close is there "to ensure all in-flight events are delivered"           *)
(* (audit.go:73): the event of an update under way then is not refused.    *)
InFlightDelivered == \A e \in Events : handler[e] # "panicked"
=============================================================================
