---------------------------- MODULE Persistence ----------------------------
(***************************************************************************)
(* cmd/server/main.go with file storage: update handlers over a            *)
(* MetricsStorage, the saves that put it in a file (after each write in    *)
(* sync mode, on a ticker otherwise, once more on shutdown), the restore   *)
(* at start-up, signals and crashes.                                       *)
(*                                                                         *)
(* A save runs in the goroutine of an update handler, in that of the       *)
(* ticker (Saver) or in run() itself (Main).                               *)
(***************************************************************************)
EXTENDS MemStorage

CONSTANTS Saver, Main,
          Mode,      \* "sync" (StoreIntervalSec = 0) or "periodic"
          Restore,   \* cfg.Restore
          ByRPC,     \* the requests that come in by gRPC
          IOFails,   \* which of "load", "create", "write", "rename" may fail
          MaxEpoch,  \* bound: how many times the process is started
          NoFile,    \* there is no file at path
          Torn       \* a file with only part of the data in it

Savers == Requests \cup {Saver, Main}

ASSUME PersistenceAssumption ==
    /\ Readers = Savers
    /\ Saver \notin Requests /\ Main \notin Requests /\ Saver # Main
    /\ NoFile \notin Contents /\ Torn \notin Contents /\ NoFile # Torn
    /\ Mode \in {"sync", "periodic"}
    /\ Restore \in BOOLEAN
    /\ ByRPC \subseteq Requests
    /\ IOFails \subseteq {"load", "create", "write", "rename"}
    /\ MaxEpoch \in Nat

VARIABLES phase,   \* of the process; see Phases
          epoch,   \* how many times it was started
          file,    \* the file at path
          smu,     \* who holds syncStorage.mu
          save,    \* save[p]: where p is in saveMetrics
          temp,    \* temp[p]: the temp file of the save p is in
          acked,   \* history: updates answered 200
          synced   \* history: those whose own save reached the file before any signal

pVars == <<phase, epoch, file, smu, save, temp, acked, synced>>
vars == <<memVars, pVars>>

(* down: never started, or crashed; signalled: ctx is done; closed: the    *)
(* listener is closed and ListenAndServe has returned; exited: run() did.  *)
Phases == {"down", "running", "signalled", "closed", "exited"}
Stopped == phase \in {"down", "exited"}

SaveStates == {"off", "idle", "read", "encode", "write", "rename", "done"}

Init ==
    /\ MemInit
    /\ call = [r \in Requests |-> "new"]
    /\ phase = "down"
    /\ epoch = 0
    /\ file = NoFile
    /\ smu = None
    /\ save = [p \in Savers |-> "off"]
    /\ temp = [p \in Savers |-> NoFile]
    /\ acked = {} /\ synced = {}

-----------------------------------------------------------------------------
(* Start-up. *)

(* UpdateGauge and UpdateCounter of every metric of file f, on contents k. *)
LoadInto(k, f) ==
    [g |-> [n \in Names |-> IF f.g[n] = Nil THEN k.g[n] ELSE f.g[n]],
     c |-> [n \in Names |-> IF f.c[n] = Nil THEN k.c[n]
                            ELSE Wrap(Total(k.c, n) + f.c[n])],
     done |-> [r \in Requests |-> k.done[r] + f.done[r]]]

(* What the storage can hold when the server starts to listen: a failed    *)
(* restore is only logged.                                                 *)
RestoreForgotten == {Empty}     \* mutant: the restore is left out

Restored ==
    IF Restore /\ file \notin {NoFile, Torn}
    THEN {LoadInto(Empty, file)} \cup IF "load" \in IOFails THEN {Empty} ELSE {}
    ELSE {Empty}

Start ==
    /\ Stopped
    /\ epoch < MaxEpoch
    /\ epoch' = epoch + 1
    /\ phase' = "running"
    /\ mem' \in Restored
    /\ save' = [p \in Savers |-> IF p = Saver /\ Mode = "sync" THEN "off" ELSE "idle"]
    /\ UNCHANGED <<writer, readers, call, half, copy,
                   file, smu, temp, acked, synced>>

-----------------------------------------------------------------------------
(* saveMetrics, called by p. *)

(* GetAllMetrics. *)
ReadStore(p) ==
    /\ save[p] = "read"
    /\ \/ CopyGauges(p) /\ UNCHANGED save
       \/ CopyCounters(p) /\ save' = [save EXCEPT ![p] = "encode"]
    /\ UNCHANGED <<phase, epoch, file, smu, temp, acked, synced>>

(* json.Marshal has no encoding for NaN and the infinities. *)
Encodable(k) == \A n \in Names : k.g[n] # NaN

(* mutant: os.Create(path) instead of a temp file *)
TruncateInPlace(p) ==
    /\ save[p] = "encode"
    /\ Encodable(copy[p])
    /\ file' = Torn
    /\ temp' = [temp EXCEPT ![p] = Torn]
    /\ save' = [save EXCEPT ![p] = "write"]
    /\ UNCHANGED <<memVars, phase, epoch, smu, acked, synced>>

CreateTemp(p) ==
    /\ save[p] = "encode"
    /\ Encodable(copy[p])
    /\ temp' = [temp EXCEPT ![p] = Torn]
    /\ save' = [save EXCEPT ![p] = "write"]
    /\ UNCHANGED <<memVars, phase, epoch, file, smu, acked, synced>>

(* Write and Close. *)
WriteTemp(p) ==
    /\ save[p] = "write"
    /\ temp' = [temp EXCEPT ![p] = copy[p]]
    /\ save' = [save EXCEPT ![p] = "rename"]
    /\ UNCHANGED <<memVars, phase, epoch, file, smu, acked, synced>>

Rename(p) ==
    /\ save[p] = "rename"
    /\ file' = temp[p]
    /\ temp' = [temp EXCEPT ![p] = NoFile]
    /\ save' = [save EXCEPT ![p] = "done"]
    /\ synced' = IF p \in Requests /\ phase = "running"
                 THEN synced \cup {p} ELSE synced
    /\ UNCHANGED <<memVars, phase, epoch, smu, acked>>

SaveRetries(p) ==               \* mutant: a save that fails is started again
    /\ save[p] = "encode" /\ ~Encodable(copy[p])
    /\ save' = [save EXCEPT ![p] = "read"]
    /\ UNCHANGED <<memVars, phase, epoch, file, smu, temp, acked, synced>>

(* An error return; the temp file, if there is one, is removed. *)
SaveFails(p) ==
    /\ \/ save[p] = "encode" /\ (~Encodable(copy[p]) \/ "create" \in IOFails)
       \/ save[p] = "write" /\ "write" \in IOFails
       \/ save[p] = "rename" /\ "rename" \in IOFails
    /\ temp' = [temp EXCEPT ![p] = NoFile]
    /\ save' = [save EXCEPT ![p] = "done"]
    /\ UNCHANGED <<memVars, phase, epoch, file, smu, acked, synced>>

SaveStep(p) ==
    ReadStore(p) \/ CreateTemp(p) \/ WriteTemp(p) \/ Rename(p) \/ SaveFails(p)

(* The locals of saveMetrics are gone. *)
Forget(p) == /\ half' = [half EXCEPT ![p] = Empty]
             /\ copy' = [copy EXCEPT ![p] = Empty]

-----------------------------------------------------------------------------
(* Update handlers. *)

(* run() does not wait for GracefulStop of the gRPC server, which goes on  *)
(* taking calls until its own goroutine has seen the signal.               *)
Accept(r) ==
    /\ phase \in {"running", "signalled"} \cup IF r \in ByRPC THEN {"closed"} ELSE {}
    /\ call[r] = "new"
    /\ call' = [call EXCEPT ![r] = "open"]
    /\ UNCHANGED <<mem, writer, readers, half, copy, pVars>>

UpdateStore(r) == Update(r) /\ UNCHANGED pVars

(* syncStorage: s.mu.Lock() after an update that succeeded. *)
MuForgotten == TRUE             \* mutant: syncStorage without its mutex
MuFree == smu = None

LockSync(r) ==
    /\ Mode = "sync"
    /\ call[r] = "ok"
    /\ MuFree
    /\ smu' = r
    /\ call' = [call EXCEPT ![r] = "saving"]
    /\ save' = [save EXCEPT ![r] = "read"]
    /\ UNCHANGED <<mem, writer, readers, half, copy,
                   phase, epoch, file, temp, acked, synced>>

(* The result of the save is dropped and the deferred Unlock runs. *)
ReturnAndHold(r) ==             \* mutant: the Unlock is forgotten
    /\ call[r] = "saving"
    /\ save[r] = "done"
    /\ call' = [call EXCEPT ![r] = "saved"]
    /\ save' = [save EXCEPT ![r] = "idle"]
    /\ Forget(r)
    /\ UNCHANGED <<mem, writer, readers,
                   phase, epoch, file, smu, temp, acked, synced>>

ReturnSync(r) ==
    /\ call[r] = "saving"
    /\ save[r] = "done"
    /\ smu' = None
    /\ call' = [call EXCEPT ![r] = "saved"]
    /\ save' = [save EXCEPT ![r] = "idle"]
    /\ Forget(r)
    /\ UNCHANGED <<mem, writer, readers,
                   phase, epoch, file, temp, acked, synced>>

(* The handler answers: 200, or 500 for an unknown metric type. *)
Reply(r) ==
    /\ call[r] \in {"err", IF Mode = "sync" THEN "saved" ELSE "ok"}
    /\ call' = [call EXCEPT ![r] = "replied"]
    /\ acked' = IF call[r] = "err" THEN acked ELSE acked \cup {r}
    /\ UNCHANGED <<mem, writer, readers, half, copy,
                   phase, epoch, file, smu, save, temp, synced>>

-----------------------------------------------------------------------------
(* The ticker goroutine.  Once ctx is done a tick that is ready too may    *)
(* still be chosen by select.                                              *)
SaverTick ==
    /\ ~Stopped
    /\ save[Saver] = "idle"
    /\ save' = [save EXCEPT ![Saver] = "read"]
    /\ UNCHANGED <<memVars, phase, epoch, file, smu, temp, acked, synced>>

SaverTicksOnce ==               \* mutant: time.After in place of a ticker
    /\ save[Saver] = "done"
    /\ save' = [save EXCEPT ![Saver] = "off"]
    /\ Forget(Saver)
    /\ UNCHANGED <<mem, writer, readers, call,
                   phase, epoch, file, smu, temp, acked, synced>>

SaverReturn ==
    /\ save[Saver] = "done"
    /\ save' = [save EXCEPT ![Saver] = "idle"]
    /\ Forget(Saver)
    /\ UNCHANGED <<mem, writer, readers, call,
                   phase, epoch, file, smu, temp, acked, synced>>

SaverStop ==
    /\ phase \in {"signalled", "closed"}
    /\ save[Saver] = "idle"
    /\ save' = [save EXCEPT ![Saver] = "off"]
    /\ UNCHANGED <<memVars, phase, epoch, file, smu, temp, acked, synced>>

-----------------------------------------------------------------------------
(* Shutdown and crashes. *)

Signal ==
    /\ phase = "running"
    /\ phase' = "signalled"
    /\ UNCHANGED <<memVars, epoch, file, smu, save, temp, acked, synced>>

(* srv.Shutdown closes the listener; ListenAndServe returns at once, while *)
(* Shutdown goes on waiting for the handlers in its own goroutine.         *)
Shutdown ==
    /\ phase = "signalled"
    /\ phase' = "closed"
    /\ UNCHANGED <<memVars, epoch, file, smu, save, temp, acked, synced>>

FinalSave ==
    /\ phase = "closed"
    /\ save[Main] = "idle"
    /\ save' = [save EXCEPT ![Main] = "read"]
    /\ UNCHANGED <<memVars, phase, epoch, file, smu, temp, acked, synced>>

(* The process ends: only the file and what clients were told remain. *)
ProcessGone ==
    /\ mem' = Empty
    /\ writer' = None
    /\ readers' = {}
    /\ half' = [p \in Savers |-> Empty]
    /\ copy' = [p \in Savers |-> Empty]
    /\ call' = [r \in Requests |->
                  IF call[r] \in {"new", "replied"} THEN call[r] ELSE "killed"]
    /\ smu' = None
    /\ save' = [p \in Savers |-> "off"]
    /\ temp' = [p \in Savers |-> NoFile]
    /\ UNCHANGED <<epoch, file, acked, synced>>

(* run() returns; handlers still at work die with the process. *)
Exit ==
    /\ phase = "closed"
    /\ save[Main] = "done"
    /\ phase' = "exited"
    /\ ProcessGone

Crash ==
    /\ ~Stopped
    /\ phase' = "down"
    /\ ProcessGone

Finished == Stopped /\ epoch = MaxEpoch /\ UNCHANGED vars

Handler(r) ==
    UpdateStore(r) \/ LockSync(r) \/ SaveStep(r) \/ ReturnSync(r) \/ Reply(r)
SaverLoop == SaverTick \/ SaveStep(Saver) \/ SaverReturn
MainLoop == Shutdown \/ FinalSave \/ SaveStep(Main) \/ Exit

Next ==
    \/ Start
    \/ \E r \in Requests : Accept(r) \/ Handler(r)
    \/ SaverLoop \/ SaverStop
    \/ Signal \/ MainLoop \/ Crash
    \/ Finished

(***************************************************************************)
(* Every goroutine that can take a step takes one.  Weak fairness does for *)
(* the locks: only finitely many requests compete for them.  Nothing makes *)
(* a request, a signal, a crash or a start happen.                         *)
(***************************************************************************)
Fairness ==
    /\ \A r \in Requests : WF_vars(Handler(r))
    /\ WF_vars(SaverLoop)
    /\ WF_vars(MainLoop)

Spec == Init /\ [][Next]_vars /\ Fairness

-----------------------------------------------------------------------------
Files == Contents \cup {NoFile, Torn}

TypeOK ==
    /\ MemTypeOK
    /\ phase \in Phases
    /\ epoch \in 0..MaxEpoch
    /\ file \in Files
    /\ smu \in Requests \cup {None}
    /\ save \in [Savers -> SaveStates]
    /\ temp \in [Savers -> Files]
    /\ acked \subseteq Requests
    /\ synced \subseteq Requests

(* File f includes all of request r. *)
Holds(f, r) == f \notin {NoFile, Torn} /\ Complete(f, r)

(* The file is a state the storage was in: never torn, no request half in  *)
(* it, no delta counted twice or lost by a restore, whatever save, crash   *)
(* or restart comes between (main.go:273 "to avoid corrupt state if the    *)
(* process is killed mid-write", storage.go:34 "a snapshot copy").         *)
FileIsSnapshot ==
    /\ file # Torn
    /\ file # NoFile => Accounted(file) /\ \A r \in Requests : Whole(file, r)

(* Sync mode with Restore: once the save of a write has reached the file   *)
(* of a running server, the write stays in the file through every later    *)
(* save, the final one, crashes and restarts (main.go:40-69, 110-116).     *)
SyncDurability ==
    (Mode = "sync" /\ Restore /\ "load" \notin IOFails) =>
      \A r \in synced : Holds(file, r)

(* While the server runs a save never takes an update out of the file: the *)
(* copies of concurrent saves reach it in the order they were made         *)
(* (syncStorage.mu, main.go:49-51).                                        *)
FileNeverRegresses ==
    [][phase = "running" /\ phase' = "running" /\ file # NoFile =>
         /\ file' \notin {NoFile, Torn}
         /\ \A r \in Requests : file.done[r] <= file'.done[r]]_vars

(* An accepted update is answered, or cut off by the end of the process:   *)
(* no handler waits for ever on mu or s.mu (main.go:47-69).                *)
UpdatesAnswered ==
    \A r \in Requests : call[r] = "open" ~> call[r] \in {"replied", "killed"}

(* A signal ends the process, handlers or no handlers (main.go:220-239).   *)
SignalStops == phase = "signalled" ~> Stopped

(* Periodic mode: an update the storage has taken in reaches the file if   *)
(* the server runs on (main.go:125-142).  Two premises, for saves fail and *)
(* only the log tells: create, write and rename do not fail every time     *)
(* (main.go:294-313), and no gauge is NaN, which stops the saves of all    *)
(* metrics until another value takes its place (main.go:288-291).          *)
SavesGetThrough ==
    SF_vars(CreateTemp(Saver)) /\ SF_vars(WriteTemp(Saver)) /\ SF_vars(Rename(Saver))

PeriodicSaves ==
    SavesGetThrough =>
      \A r \in Requests :
        phase = "running" /\ Complete(mem, r)
          ~> Holds(file, r) \/ phase # "running" \/ ~Encodable(mem)

(* "Final snapshot on shutdown" (main.go:232): after a clean exit the file *)
(* has every update that was answered 200, also by a handler still at work *)
(* at the signal (main.go:220-239).                                        *)
FinalSnapshotComplete == phase = "exited" => \A r \in acked : Holds(file, r)

-----------------------------------------------------------------------------
(***************************************************************************)
(* The process keeps what DurableSpec promises.  An update takes effect    *)
(* when it gets mu, a save has its copy when GetAllMetrics returns and     *)
(* puts it in the file with the rename.                                    *)
(***************************************************************************)
HasCopy(p) == save[p] \in {"encode", "write", "rename"}

Promise == INSTANCE DurableSpec WITH
    Sync       <- Mode = "sync",
    Background <- {Saver, Main},
    LoadFails  <- "load" \in IOFails,
    Nothing    <- NoFile,
    up     <- ~Stopped,
    store  <- IF writer # None /\ call[writer] = "writing"
              THEN ApplyRest(mem, writer) ELSE mem,
    answer <- [r \in Requests |->
                 CASE call[r] \in {"new", "open", "waiting"} -> "none"
                   [] call[r] = "writing" -> Verdict(r)
                   [] call[r] \in {"ok", "saving", "saved"} -> "ok"
                   [] call[r] = "replied" -> IF r \in acked THEN "ok" ELSE "err"
                   [] call[r] = "killed" -> "lost"
                   [] OTHER -> call[r]],
    told   <- {r \in Requests : call[r] = "replied"},
    saved  <- {r \in Requests :
                 \/ call[r] = "saved"
                 \/ call[r] = "saving" /\ (HasCopy(r) \/ save[r] = "done")
                 \/ call[r] = "replied" /\ r \in acked /\ Mode = "sync"},
    taken  <- [p \in Savers |-> IF HasCopy(p) THEN copy[p] ELSE NoFile],
    disk   <- file

(* Through saves that race or fail, signals, crashes and restarts, a run   *)
(* of the process is a run of a server whose saves are atomic copies put   *)
(* in the file at once, one handler at a time, and before the handler's    *)
(* answer in sync mode (main.go:40-69, 110-142, 220-315).                  *)
KeepsItsPromise == Promise!DurableServer
=============================================================================
