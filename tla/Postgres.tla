------------------------------ MODULE Postgres ------------------------------
(***************************************************************************)
(* internal/storage/postgresql.go: updates as transactions of a database,  *)
(* tried again after some connection errors.  A batch is a transaction of  *)
(* one statement per metric; UpdateGauge and UpdateCounter are a single    *)
(* statement, which is its own transaction.                                *)
(*                                                                         *)
(* The database is modelled by what this code uses of it: READ COMMITTED   *)
(* upserts that lock their row to the end of the transaction, a deadlock   *)
(* detector, BIGINT, and transactions that outlive a broken connection     *)
(* for a while, one whose commit was on its way included.                  *)
(***************************************************************************)
EXTENDS Metrics, FiniteSets

CONSTANTS Batches,   \* the requests made by BatchUpdate
          Retries,   \* len(delays)
          MaxConns   \* connections of the pool

ASSUME PostgresAssumption ==
    /\ IsFiniteSet(Requests)
    /\ Batches \subseteq Requests
    /\ \A r \in Requests \ Batches :
         /\ Len(Payload[r]) = 1
         /\ Payload[r][1].mtype # "unknown" /\ Payload[r][1].val # Nil
    /\ Retries \in Nat
    /\ MaxConns \in Nat \ {0}

Rows == {"gauge", "counter"} \X Names
Row(m) == <<m.mtype, m.id>>
Values == GaugeVals \cup Int64
NoRows == [x \in Rows |-> Nil]

(* The transaction of each call of fn in withRetry. *)
Txs == Requests \X (1..Retries + 1)

VARIABLES db,        \* committed rows, Nil for an absent one
          tx,        \* tx[t]: what the server knows of transaction t
          draft,     \* draft[t]: the rows t has written, which it has locked
          broken,    \* transactions whose connection is broken
          log,       \* history: committed transactions in order
          at,        \* at[r]: where the call is
          attempt,   \* attempt[r]: number of the call of fn
          pos        \* pos[r]: index of the metric the loop is at

serverVars == <<db, tx, draft, log>>
callVars   == <<at, attempt, pos>>
pgVars     == <<serverVars, broken, callVars>>

Init ==
    /\ db = NoRows
    /\ tx = [t \in Txs |-> "none"]
    /\ draft = [t \in Txs |-> NoRows]
    /\ broken = {}
    /\ log = <<>>
    /\ at = [r \in Requests |-> "open"]
    /\ attempt = [r \in Requests |-> 1]
    /\ pos = [r \in Requests |-> 1]

-----------------------------------------------------------------------------
(* The database. *)

Tx(r) == <<r, attempt[r]>>
Live(t) == tx[t] \in {"active", "commit"}

RowIgnored(t, x) == TRUE        \* mutant: SELECT, then an UPDATE with the sum
RowFree(t, x) == \A u \in Txs \ {t} : draft[u][x] = Nil

Current(t, x) == IF draft[t][x] # Nil THEN draft[t][x] ELSE db[x]

(* The value of the upsert: EXCLUDED.value, added to what a counter has.   *)
Upserted(t, m) ==
    IF m.mtype = "gauge" \/ Current(t, Row(m)) = Nil
    THEN m.val
    ELSE Current(t, Row(m)) + m.val

InRange(t, m) == m.mtype = "counter" => Upserted(t, m) \in Int64

Unlocked(t) == [draft EXCEPT ![t] = NoRows]

(* COMMIT, or the end of a statement on its own. *)
Commit(t) ==
    /\ tx[t] = "commit"
    /\ db' = [x \in Rows |-> IF draft[t][x] # Nil THEN draft[t][x] ELSE db[x]]
    /\ log' = Append(log, t)
    /\ tx' = [tx EXCEPT ![t] = IF t \in broken THEN "ended" ELSE "committed"]
    /\ draft' = Unlocked(t)
    /\ UNCHANGED <<broken, callVars>>

(* The server notices that the client of t is gone. *)
Discard(t) ==
    /\ Live(t) /\ t \in broken
    /\ tx' = [tx EXCEPT ![t] = "ended"]
    /\ draft' = Unlocked(t)
    /\ UNCHANGED <<db, log, broken, callVars>>

(* A single statement that waited for its row when its client was told of  *)
(* an error.                                                               *)
LateStatement(t) ==
    LET m == Payload[t[1]][1] IN
    /\ tx[t] = "active" /\ t \in broken /\ t[1] \notin Batches
    /\ RowFree(t, Row(m)) /\ InRange(t, m)
    /\ draft' = [draft EXCEPT ![t][Row(m)] = Upserted(t, m)]
    /\ tx' = [tx EXCEPT ![t] = "commit"]
    /\ UNCHANGED <<db, log, broken, callVars>>

-----------------------------------------------------------------------------
(* The calls. *)

HasDelay(r) == attempt[r] <= Retries

(* fn returns an error, of class 08 or not; of the last attempt it is the  *)
(* error of the call, which UpdateGauge and UpdateCounter only log.        *)
Fails(r, class08) ==
    /\ at' = [at EXCEPT ![r] = IF class08 /\ HasDelay(r) THEN "delay" ELSE "failed"]
    /\ pos' = [pos EXCEPT ![r] = 1]
    /\ UNCHANGED attempt

(* The deferred Rollback, which gives the connection back. *)
Forgotten(r) == UNCHANGED <<tx, draft>>     \* mutant: no deferred Rollback
RolledBack(r) ==
    /\ tx' = [tx EXCEPT ![Tx(r)] = "ended"]
    /\ draft' = Unlocked(Tx(r))

Connected == {t \in Txs : t \notin broken /\ tx[t] \in {"active", "commit", "committed"}}

Begin(r) ==
    /\ at[r] = "open"
    /\ Cardinality(Connected) < MaxConns
    /\ tx' = [tx EXCEPT ![Tx(r)] = "active"]
    /\ at' = [at EXCEPT ![r] = "loop"]
    /\ UNCHANGED <<db, draft, log, broken, attempt, pos>>

(* No connection, or ctx is done while waiting for one. *)
BeginFails(r, class08) ==
    /\ at[r] = "open"
    /\ Fails(r, class08)
    /\ UNCHANGED <<serverVars, broken>>

(* The metric the loop of batchUpdateTx is at. *)
Here(r) == Payload[r][pos[r]]
InLoop(r) == at[r] = "loop" /\ pos[r] <= Len(Payload[r])
AtStatement(r) == InLoop(r) /\ Here(r).mtype # "unknown" /\ Here(r).val # Nil

SkipNil(r) ==
    /\ InLoop(r) /\ Here(r).mtype # "unknown" /\ Here(r).val = Nil
    /\ pos' = [pos EXCEPT ![r] = @ + 1]
    /\ UNCHANGED <<serverVars, broken, at, attempt>>

UnknownSkipped(r) ==            \* mutant: continue at an unknown type
    /\ InLoop(r) /\ Here(r).mtype = "unknown"
    /\ pos' = [pos EXCEPT ![r] = @ + 1]
    /\ UNCHANGED <<serverVars, broken, at, attempt>>

UnknownType(r) ==
    /\ InLoop(r) /\ Here(r).mtype = "unknown"
    /\ RolledBack(r)
    /\ Fails(r, FALSE)
    /\ UNCHANGED <<db, log, broken>>

Exec(r) ==
    LET t == Tx(r)  m == Here(r) IN
    /\ AtStatement(r)
    /\ RowFree(t, Row(m)) /\ InRange(t, m)
    /\ draft' = [draft EXCEPT ![t][Row(m)] = Upserted(t, m)]
    /\ pos' = [pos EXCEPT ![r] = @ + 1]
    /\ IF r \in Batches
       THEN UNCHANGED <<tx, at>>
       ELSE /\ tx' = [tx EXCEPT ![t] = "commit"]
            /\ at' = [at EXCEPT ![r] = "committing"]
    /\ UNCHANGED <<db, log, broken, attempt>>

(* Unlike the maps in memory, BIGINT does not wrap. *)
OutOfRange(r) ==
    LET t == Tx(r)  m == Here(r) IN
    /\ AtStatement(r)
    /\ RowFree(t, Row(m)) /\ ~InRange(t, m)
    /\ RolledBack(r)
    /\ Fails(r, FALSE)
    /\ UNCHANGED <<db, log, broken>>

(* r waits for a row that q has locked. *)
WaitsFor(r, q) ==
    /\ AtStatement(r)
    /\ q # r /\ Live(Tx(q)) /\ Tx(q) \notin broken
    /\ draft[Tx(q)][Row(Here(r))] # Nil

(* r is one of some batches that wait for one another. *)
Deadlocked(r) ==
    \E S \in SUBSET Batches :
      /\ r \in S
      /\ \A q \in S : (\E p \in S : WaitsFor(q, p)) /\ (\E p \in S : WaitsFor(p, q))

(* 40P01, an error that isRetriableDBError does not know. *)
DeadlockVictim(r) ==
    /\ Deadlocked(r)
    /\ RolledBack(r)
    /\ Fails(r, FALSE)
    /\ UNCHANGED <<db, log, broken>>

SendCommit(r) ==
    /\ at[r] = "loop" /\ pos[r] > Len(Payload[r])
    /\ tx' = [tx EXCEPT ![Tx(r)] = "commit"]
    /\ at' = [at EXCEPT ![r] = "committing"]
    /\ UNCHANGED <<db, draft, log, broken, attempt, pos>>

RetriedAnyway(r) ==             \* mutant: withRetry goes on after a nil error
    /\ at[r] = "committing" /\ tx[Tx(r)] = "committed"
    /\ tx' = [tx EXCEPT ![Tx(r)] = "ended"]
    /\ Fails(r, TRUE)
    /\ UNCHANGED <<db, draft, log, broken>>

Returns(r) ==
    /\ at[r] = "committing" /\ tx[Tx(r)] = "committed"
    /\ tx' = [tx EXCEPT ![Tx(r)] = "ended"]
    /\ at' = [at EXCEPT ![r] = "ok"]
    /\ UNCHANGED <<db, draft, log, broken, attempt, pos>>

(* The connection breaks, or ctx is done, which breaks it as well.  The    *)
(* server goes on with what it was sent until it notices.                  *)
Breaks(r) ==
    /\ at[r] \in {"loop", "committing"}
    /\ broken' = broken \cup {Tx(r)}
    /\ tx' = IF tx[Tx(r)] = "committed" THEN [tx EXCEPT ![Tx(r)] = "ended"] ELSE tx
    /\ UNCHANGED <<db, draft, log>>

CommitErrorLost(r, class08) ==  \* mutant: tx.Commit(ctx); return nil
    /\ Breaks(r)
    /\ IF at[r] = "committing"
       THEN at' = [at EXCEPT ![r] = "ok"] /\ UNCHANGED <<attempt, pos>>
       ELSE Fails(r, class08)

ConnError(r, class08) ==
    /\ Breaks(r)
    /\ Fails(r, class08)

DelayOver(r) ==
    /\ at[r] = "delay"
    /\ at' = [at EXCEPT ![r] = "open"]
    /\ attempt' = [attempt EXCEPT ![r] = @ + 1]
    /\ UNCHANGED <<serverVars, broken, pos>>

(* ctx is done while withRetry waits; the other calls have Background.     *)
CtxDone(r) ==
    /\ at[r] = "delay" /\ r \in Batches
    /\ at' = [at EXCEPT ![r] = "failed"]
    /\ UNCHANGED <<serverVars, broken, attempt, pos>>

-----------------------------------------------------------------------------
(* What a call does by itself, and what happens to it. *)
Proceeds(r) ==
    \/ Begin(r) \/ SkipNil(r) \/ UnknownType(r) \/ Exec(r) \/ OutOfRange(r)
    \/ DeadlockVictim(r) \/ SendCommit(r) \/ Returns(r) \/ DelayOver(r)

Disturbed(r) ==
    \/ \E class08 \in BOOLEAN : BeginFails(r, class08) \/ ConnError(r, class08)
    \/ CtxDone(r)

Next ==
    \/ \E r \in Requests : Proceeds(r) \/ Disturbed(r)
    \/ \E t \in Txs : Commit(t) \/ Discard(t) \/ LateStatement(t)

(* The server answers what it is sent and notices dead clients; a call     *)
(* that can go on does.  Nothing makes connections break.                  *)
Fairness ==
    /\ \A r \in Requests : WF_pgVars(Proceeds(r))
    /\ \A t \in Txs : WF_pgVars(Commit(t) \/ Discard(t))

Spec == Init /\ [][Next]_pgVars /\ Fairness

-----------------------------------------------------------------------------
TypeOK ==
    /\ db \in [Rows -> Values \cup {Nil}]
    /\ tx \in [Txs -> {"none", "active", "commit", "committed", "ended"}]
    /\ draft \in [Txs -> [Rows -> Values \cup {Nil}]]
    /\ broken \in SUBSET Txs
    /\ log \in Seq(Txs)
    /\ at \in [Requests -> {"open", "loop", "committing", "delay", "ok", "failed"}]
    /\ attempt \in [Requests -> 1..Retries + 1]
    /\ pos \in [Requests -> Nat \ {0}]
    /\ Cardinality(Connected) <= MaxConns

Committed == {log[i] : i \in 1..Len(log)}

(* The committed tables are what the committed requests give when they run *)
(* one after the other, each of them whole: no delta is lost between two   *)
(* transactions on one row (postgresql.go:96-97, 188-214).                 *)
ApplyRow(rows, m) ==
    IF m.mtype = "unknown" \/ m.val = Nil THEN rows
    ELSE [rows EXCEPT ![Row(m)] =
            IF m.mtype = "gauge" \/ @ = Nil THEN m.val ELSE @ + m.val]

Replay ==
    FoldLeft(LAMBDA rows, t : FoldLeft(ApplyRow, rows, Payload[t[1]]),
             NoRows, log)

Serializable == db = Replay

(* A nil error means that the last attempt is committed; after an error    *)
(* only an attempt whose connection broke can have been committed all the  *)
(* same (postgresql.go:172-234).                                           *)
AnswersTell ==
    \A r \in Requests :
      /\ at[r] = "ok" => Tx(r) \in Committed
      /\ at[r] = "failed" => \A t \in Committed : t[1] = r => t \in broken

(* A delta is counted once, however often it is retried, unless the        *)
(* connection of an attempt broke in its commit (postgresql.go:217-252).   *)
CountedOnce ==
    \A i, k \in 1..Len(log) : i < k /\ log[i][1] = log[k][1] =>
      log[i] # log[k] /\ (log[i] \in broken \/ log[k] \in broken)

(* "BatchUpdate atomically applies a slice of metric updates" (storage.go: *)
(* 28): nothing of a batch with an unknown type is ever committed, whatever *)
(* precedes it in the batch (postgresql.go:186, 209-210).                  *)
RefusedIsRolledBack ==
    \A t \in Committed : \A i \in 1..Len(Payload[t[1]]) :
      Payload[t[1]][i].mtype # "unknown"

(* A call that waits or has returned holds no connection and, unless the   *)
(* server has yet to notice a broken one, no row (postgresql.go:186).      *)
NothingLeaks ==
    \A t \in Txs \ broken :
      Live(t) \/ draft[t] # NoRows => t = Tx(t[1]) /\ at[t[1]] \in {"loop", "committing"}

(* Nobody waits for everybody: until all calls have returned, one of them  *)
(* can go on or the server can, or the batches that wait for one another   *)
(* are a cycle the deadlock detector breaks.  No single statement is ever  *)
(* in such a cycle, and a full pool always has a connection in use by a    *)
(* call that can be waited for (postgresql.go:172-214).                    *)
CanMove(r) ==
    \/ at[r] = "delay" \/ Deadlocked(r)
    \/ at[r] = "open" /\ Cardinality(Connected) < MaxConns
    \/ at[r] = "loop" /\ (AtStatement(r) => RowFree(Tx(r), Row(Here(r))))
    \/ at[r] = "committing" /\ tx[Tx(r)] = "committed"

NeverStuck ==
    (\E r \in Requests : at[r] \notin {"ok", "failed"}) =>
      \/ \E r \in Requests : CanMove(r)
      \/ \E t \in Txs : tx[t] = "commit" \/ (Live(t) /\ t \in broken)

(* Every call returns: batches that lock the same rows in other orders, a  *)
(* pool without a free connection and broken connections included          *)
(* (postgresql.go:172-234).                                                *)
CallsReturn == \A r \in Requests : <>(at[r] \in {"ok", "failed"})
=============================================================================
