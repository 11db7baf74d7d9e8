--------------------------- MODULE PostgresProofs ---------------------------
(***************************************************************************)
(* For any batches, number of retries and size of the pool: what a call of *)
(* PostgresStorage returns is true of the tables, nothing is counted twice *)
(* unless a commit went unanswered, no connection or row is kept, and the  *)
(* tables are those of the committed requests one after the other.         *)
(***************************************************************************)
EXTENDS Postgres, MetricsProofs

(* Where a call is and what the server has of its transaction. *)
CallInv ==
    \A r \in Requests :
      /\ at[r] = "open" => tx[Tx(r)] = "none" /\ Tx(r) \notin broken
      /\ at[r] = "loop" => tx[Tx(r)] = "active" /\ Tx(r) \notin broken
      /\ at[r] = "committing" => tx[Tx(r)] \in {"commit", "committed"} /\ Tx(r) \notin broken
      /\ at[r] = "delay" => attempt[r] <= Retries

(* Attempts to come have no transaction yet; a connection is in use only   *)
(* by the call that is in its loop or its commit; rows are locked by       *)
(* transactions that are neither over nor to come.                         *)
TxInv ==
    \A t \in Txs :
      /\ t[2] > attempt[t[1]] => tx[t] = "none" /\ t \notin broken
      /\ t \in Connected => t = Tx(t[1]) /\ at[t[1]] \in {"loop", "committing"}
      /\ ~Live(t) => draft[t] = NoRows

(* A committed transaction is known as such by its call, or cut off. *)
LogInv ==
    /\ \A i \in 1..Len(log) : tx[log[i]] \in {"committed", "ended"}
    /\ \A i, k \in 1..Len(log) : log[i] = log[k] => i = k
    /\ \A t \in Txs : tx[t] = "committed" => t \in Committed
    /\ \A r \in Requests : at[r] = "ok" => Tx(r) \in Committed
    /\ \A t \in Committed :
         t \in broken \/ (t = Tx(t[1]) /\ at[t[1]] \in {"committing", "ok"})

IInv == TypeOK /\ CallInv /\ TxInv /\ LogInv

-----------------------------------------------------------------------------
LEMMA TxParts ==
  ASSUME NEW t \in Txs
  PROVE  t[1] \in Requests /\ t[2] \in 1..Retries + 1 /\ t = <<t[1], t[2]>>
  BY DEF Txs

LEMMA TxCurrent ==
  ASSUME IInv, NEW r \in Requests
  PROVE  Tx(r) \in Txs /\ Tx(r)[1] = r /\ Tx(r)[2] = attempt[r]
  BY DEF IInv, TypeOK, Txs, Tx

LEMMA TxsFinite == IsFiniteSet(Txs)
  <1>1. IsFiniteSet(1..Retries + 1)
    BY PostgresAssumption, FS_Interval
  <1> QED
    BY <1>1, PostgresAssumption, FS_Product DEF Txs

LEMMA ConnectedFinite == IsFiniteSet(Connected) /\ Cardinality(Connected) \in Nat
  <1>1. Connected \in SUBSET Txs
    BY DEF Connected
  <1> QED
    BY <1>1, TxsFinite, FS_Subset, FS_CardinalityType

(* The pool never grows but by a Begin. *)
LEMMA FewerConnected ==
  ASSUME Connected' \subseteq Connected, Cardinality(Connected) <= MaxConns
  PROVE  Cardinality(Connected') <= MaxConns
  <1>1. Connected' \in SUBSET Connected
    OBVIOUS
  <1>2. Cardinality(Connected') \in Nat /\ Cardinality(Connected') <= Cardinality(Connected)
    BY <1>1, ConnectedFinite, FS_Subset, FS_CardinalityType
  <1> QED
    BY <1>2, ConnectedFinite, PostgresAssumption

LEMMA CommittedTxs ==
  ASSUME IInv
  PROVE  Committed \subseteq Txs
  BY DEF IInv, TypeOK, Committed

LEMMA CommittedSame ==
  ASSUME UNCHANGED log
  PROVE  Committed' = Committed
  BY DEF Committed

LEMMA CommittedGrows ==
  ASSUME IInv, NEW t \in Txs, log' = Append(log, t)
  PROVE  /\ Committed' = Committed \cup {t}
         /\ log' \in Seq(Txs) /\ Len(log') = Len(log) + 1
         /\ \A i \in 1..Len(log) : log'[i] = log[i]
         /\ log'[Len(log) + 1] = t
  <1>1. log \in Seq(Txs)
    BY DEF IInv, TypeOK
  <1>2. /\ log' \in Seq(Txs) /\ Len(log') = Len(log) + 1
        /\ \A i \in 1..Len(log) : log'[i] = log[i]
        /\ log'[Len(log) + 1] = t
    BY <1>1
  <1>3. 1..Len(log') = 1..Len(log) \cup {Len(log) + 1}
    BY <1>1, <1>2
  <1>4. Committed' = Committed \cup {t}
    BY <1>2, <1>3 DEF Committed
  <1> QED
    BY <1>2, <1>4

LEMMA InitInv == Init => IInv
  <1> SUFFICES ASSUME Init PROVE IInv
    OBVIOUS
  <1>1. Connected = {} /\ Committed = {} /\ log = <<>> /\ Len(log) = 0
    BY DEF Init, Connected, Committed
  <1>2. Cardinality(Connected) <= MaxConns
    BY <1>1, FS_EmptySet, PostgresAssumption
  <1>3. NoRows \in [Rows -> Values \cup {Nil}]
    BY DEF NoRows
  <1>4. log \in Seq(Txs)
    BY <1>1
  <1>5. TypeOK
    BY <1>2, <1>3, <1>4, PostgresAssumption DEF Init, TypeOK
  <1>6. CallInv
    BY <1>5, PostgresAssumption DEF Init, CallInv, TypeOK, Tx, Txs
  <1>7. TxInv
    BY <1>1, TxParts DEF Init, TxInv
  <1>8. LogInv
    BY <1>1 DEF Init, LogInv
  <1> QED
    BY <1>5, <1>6, <1>7, <1>8 DEF IInv

-----------------------------------------------------------------------------
(* The steps of the server. *)

LEMMA CommitStep ==
  ASSUME IInv, NEW t \in Txs, Commit(t)
  PROVE  IInv'
  <1> USE DEF IInv
  <1>1. /\ tx[t] = "commit" /\ log' = Append(log, t)
        /\ db' = [x \in Rows |-> IF draft[t][x] # Nil THEN draft[t][x] ELSE db[x]]
        /\ tx' = [tx EXCEPT ![t] = IF t \in broken THEN "ended" ELSE "committed"]
        /\ draft' = [draft EXCEPT ![t] = NoRows]
        /\ UNCHANGED <<broken, at, attempt, pos>>
    BY DEF Commit, Unlocked, callVars
  <1>2. \A u \in Txs : u # t => tx'[u] = tx[u] /\ draft'[u] = draft[u]
    BY <1>1 DEF TypeOK
  <1>3. tx'[t] = (IF t \in broken THEN "ended" ELSE "committed") /\ draft'[t] = NoRows
    BY <1>1 DEF TypeOK
  <1>4. Connected' \subseteq Connected
    BY <1>1, <1>2, <1>3 DEF Connected
  <1>5. TypeOK'
    <2>1. db' \in [Rows -> Values \cup {Nil}]
      BY <1>1 DEF TypeOK
    <2>2. NoRows \in [Rows -> Values \cup {Nil}]
      BY DEF NoRows
    <2>3. Cardinality(Connected') <= MaxConns
      BY <1>4, FewerConnected DEF TypeOK
    <2> QED
      BY <1>1, <2>1, <2>2, <2>3, CommittedGrows DEF TypeOK
  <1>6. Tx(t[1])' = Tx(t[1])
    BY <1>1 DEF Tx
  <1>7. CallInv'
    BY <1>1, <1>2, <1>3, TxCurrent DEF CallInv, Tx
  <1>8. TxInv'
    BY <1>1, <1>2, <1>3, <1>4 DEF TxInv, Tx, Live
  <1>9. LogInv'
    <2>1. \A i \in 1..Len(log) : log[i] # t
      BY <1>1 DEF LogInv
    <2>2. log \in Seq(Txs)
      BY DEF TypeOK
    <2>3. \A i \in 1..Len(log') : i \in 1..Len(log) \/ i = Len(log) + 1
      BY <1>1, <2>2, CommittedGrows
    <2>4. \A i \in 1..Len(log') : tx'[log'[i]] \in {"committed", "ended"}
      <3>1. \A i \in 1..Len(log) : log[i] \in Txs
        BY <2>2
      <3> QED
        BY <1>1, <1>2, <1>3, <2>1, <2>3, <3>1, CommittedGrows DEF LogInv
    <2>5. \A i, k \in 1..Len(log') : log'[i] = log'[k] => i = k
      BY <1>1, <2>1, <2>3, CommittedGrows DEF LogInv
    <2>6. Committed' = Committed \cup {t}
      BY <1>1, CommittedGrows
    <2>7. t \in broken \/ (t = Tx(t[1]) /\ at[t[1]] \in {"committing", "ok"})
      <3>1. ASSUME t \notin broken PROVE t = Tx(t[1]) /\ at[t[1]] \in {"loop", "committing"}
        BY <1>1, <3>1 DEF TxInv, Connected
      <3>2. ASSUME t \notin broken, at[t[1]] = "loop" PROVE FALSE
        BY <1>1, <3>1, <3>2, TxParts DEF CallInv
      <3> QED
        BY <3>1, <3>2
    <2>8. \A u \in Committed' : u \in broken \/ (u = Tx(u[1])' /\ at[u[1]] \in {"committing", "ok"})
      BY <1>1, <2>6, <2>7 DEF LogInv, Tx
    <2>9. \A u \in Txs : tx'[u] = "committed" => u \in Committed'
      BY <1>2, <2>6 DEF LogInv
    <2>10. \A r \in Requests : at'[r] = "ok" => Tx(r)' \in Committed'
      BY <1>1, <2>6 DEF LogInv, Tx
    <2> QED
      BY <1>1, <2>4, <2>5, <2>8, <2>9, <2>10 DEF LogInv
  <1> QED
    BY <1>5, <1>7, <1>8, <1>9

(* A step that leaves the log and the calls alone, and takes a broken      *)
(* transaction from active to commit or to its end.                        *)
LEMMA OrphanStep ==
  ASSUME IInv, NEW t \in Txs, t \in broken, Live(t),
         NEW s \in {"commit", "ended"}, tx' = [tx EXCEPT ![t] = s],
         NEW rows \in [Rows -> Values \cup {Nil}], draft' = [draft EXCEPT ![t] = rows],
         s = "ended" => rows = NoRows,
         UNCHANGED <<db, log, broken, at, attempt, pos>>
  PROVE  IInv'
  <1> USE DEF IInv
  <1>1. \A u \in Txs : u # t => tx'[u] = tx[u] /\ draft'[u] = draft[u]
    BY DEF TypeOK
  <1>2. tx'[t] = s /\ draft'[t] = rows
    BY DEF TypeOK
  <1>3. Connected' = Connected
    BY <1>1, <1>2 DEF Connected
  <1>4. TypeOK'
    BY <1>3, FewerConnected DEF TypeOK
  <1>5. CallInv'
    BY <1>1, TxCurrent DEF CallInv, Tx
  <1>6. TxInv'
    BY <1>1, <1>2, <1>3 DEF TxInv, Tx, Live
  <1>7. LogInv'
    <2>1. \A i \in 1..Len(log) : log[i] \in Txs /\ log[i] # t
      <3>1. log \in Seq(Txs)
        BY DEF TypeOK
      <3>2. tx[t] \notin {"committed", "ended"}
        BY DEF Live
      <3> QED
        BY <3>1, <3>2 DEF LogInv
    <2> QED
      BY <1>1, <1>2, <2>1, CommittedSame DEF LogInv, Tx
  <1> QED
    BY <1>4, <1>5, <1>6, <1>7

LEMMA DiscardStep ==
  ASSUME IInv, NEW t \in Txs, Discard(t)
  PROVE  IInv'
  <1>1. NoRows \in [Rows -> Values \cup {Nil}]
    BY DEF NoRows
  <1> QED
    BY <1>1, OrphanStep DEF Discard, Unlocked, callVars

(* What an upsert writes is a value of its table. *)
LEMMA UpsertType ==
  ASSUME IInv, NEW t \in Txs, NEW r \in Requests, NEW i \in 1..Len(Payload[r]),
         Payload[r][i].mtype # "unknown", Payload[r][i].val # Nil,
         InRange(t, Payload[r][i])
  PROVE  /\ Row(Payload[r][i]) \in Rows
         /\ Upserted(t, Payload[r][i]) \in Values
  <1>1. Payload[r][i] \in Metric
    BY PayloadAssumption
  <1>2. Payload[r][i].mtype \in {"gauge", "counter"} /\ Payload[r][i].id \in Names
    BY <1>1 DEF Metric, MetricTypes
  <1>3. Row(Payload[r][i]) \in Rows
    BY <1>2 DEF Row, Rows
  <1>4. CASE Payload[r][i].mtype = "gauge"
    BY <1>3, <1>4, PayloadAssumption DEF Upserted, Values
  <1>5. CASE Payload[r][i].mtype = "counter"
    BY <1>3, <1>5 DEF InRange, Values
  <1> QED
    BY <1>2, <1>4, <1>5

LEMMA LateStatementStep ==
  ASSUME IInv, NEW t \in Txs, LateStatement(t)
  PROVE  IInv'
  <1>1. t[1] \in Requests \ Batches
    BY TxParts DEF LateStatement
  <1>2. 1 \in 1..Len(Payload[t[1]]) /\ Payload[t[1]][1].mtype # "unknown" /\ Payload[t[1]][1].val # Nil
    BY <1>1, PostgresAssumption
  <1>3. /\ Row(Payload[t[1]][1]) \in Rows
        /\ Upserted(t, Payload[t[1]][1]) \in Values
    BY <1>1, <1>2, UpsertType DEF LateStatement
  <1> DEFINE rows == [draft[t] EXCEPT ![Row(Payload[t[1]][1])] = Upserted(t, Payload[t[1]][1])]
  <1>4. rows \in [Rows -> Values \cup {Nil}]
    BY <1>3 DEF IInv, TypeOK
  <1>5. draft' = [draft EXCEPT ![t] = rows]
    BY DEF LateStatement, IInv, TypeOK
  <1> HIDE DEF rows
  <1> QED
    BY <1>4, <1>5, OrphanStep DEF LateStatement, Live, callVars

-----------------------------------------------------------------------------
(* The steps of a call.  Each changes its own transaction at most, and     *)
(* nothing of other calls.                                                 *)

Own(r) ==
    /\ \A q \in Requests \ {r} : at'[q] = at[q] /\ attempt'[q] = attempt[q]
    /\ \A t \in Txs \ {Tx(r)} : /\ tx'[t] = tx[t] /\ draft'[t] = draft[t]
                               /\ (t \in broken' <=> t \in broken)
    /\ UNCHANGED log

(* What is left to show of a step that keeps the attempt: its own call and *)
(* its own transaction.                                                    *)
LEMMA CallStep ==
  ASSUME IInv, NEW r \in Requests, Own(r), UNCHANGED attempt,
         TypeOK',
         at'[r] = "open" => tx'[Tx(r)] = "none" /\ Tx(r) \notin broken',
         at'[r] = "loop" => tx'[Tx(r)] = "active" /\ Tx(r) \notin broken',
         at'[r] = "committing" => tx'[Tx(r)] \in {"commit", "committed"} /\ Tx(r) \notin broken',
         at'[r] = "delay" => attempt[r] <= Retries,
         Tx(r) \in Connected' => at'[r] \in {"loop", "committing"},
         tx'[Tx(r)] \notin {"active", "commit"} => draft'[Tx(r)] = NoRows,
         tx[Tx(r)] \in {"committed", "ended"} => tx'[Tx(r)] \in {"committed", "ended"},
         tx'[Tx(r)] = "committed" => tx[Tx(r)] = "committed",
         at'[r] = "ok" => Tx(r) \in Committed,
         Tx(r) \in Committed => Tx(r) \in broken' \/ at'[r] \in {"committing", "ok"}
  PROVE  IInv'
  <1> USE DEF IInv
  <1>1. \A q \in Requests : Tx(q)' = Tx(q)
    BY DEF Tx
  <1>2. \A q \in Requests : Tx(q) \in Txs /\ Tx(q)[1] = q /\ (Tx(q) = Tx(r) => q = r)
    BY TxCurrent
  <1>3. CallInv'
    <2> SUFFICES ASSUME NEW q \in Requests
                 PROVE  /\ at'[q] = "open" => tx'[Tx(q)] = "none" /\ Tx(q) \notin broken'
                        /\ at'[q] = "loop" => tx'[Tx(q)] = "active" /\ Tx(q) \notin broken'
                        /\ at'[q] = "committing" => /\ tx'[Tx(q)] \in {"commit", "committed"}
                                                    /\ Tx(q) \notin broken'
                        /\ at'[q] = "delay" => attempt[q] <= Retries
      BY <1>1 DEF CallInv
    <2>1. CASE q = r
      BY <2>1
    <2>2. CASE q # r
      <3>1. Tx(q) \in Txs \ {Tx(r)}
        BY <1>2, <2>2
      <3>2. at'[q] = at[q] /\ tx'[Tx(q)] = tx[Tx(q)] /\ (Tx(q) \in broken' <=> Tx(q) \in broken)
        BY <2>2, <3>1 DEF Own
      <3> QED
        BY <3>2 DEF CallInv
    <2> QED
      BY <2>1, <2>2
  <1>4. \A t \in Txs \ {Tx(r)} : t \in Connected' <=> t \in Connected
    BY DEF Own, Connected
  <1>5. TxInv'
    <2> SUFFICES ASSUME NEW t \in Txs
                 PROVE  /\ t[2] > attempt[t[1]] => tx'[t] = "none" /\ t \notin broken'
                        /\ t \in Connected' => t = Tx(t[1]) /\ at'[t[1]] \in {"loop", "committing"}
                        /\ tx'[t] \notin {"active", "commit"} => draft'[t] = NoRows
      BY <1>1, TxParts DEF TxInv, Live
    <2>1. CASE t = Tx(r)
      <3>1. t[1] = r /\ ~(t[2] > attempt[r])
        BY <2>1, TxCurrent DEF TypeOK
      <3> QED
        BY <2>1, <3>1
    <2>2. CASE t # Tx(r)
      <3>1. /\ t \in Connected' <=> t \in Connected
            /\ tx'[t] = tx[t] /\ draft'[t] = draft[t] /\ (t \in broken' <=> t \in broken)
        BY <1>4, <2>2 DEF Own
      <3>2. t \in Connected' => t[1] # r
        BY <2>2, <3>1 DEF TxInv
      <3>3. t \in Connected' => at'[t[1]] = at[t[1]]
        BY <3>2, TxParts DEF Own
      <3> QED
        BY <3>1, <3>3 DEF TxInv, Live
    <2> QED
      BY <2>1, <2>2
  <1>6. Committed' = Committed /\ log' = log
    BY CommittedSame DEF Own
  <1>7. LogInv'
    <2>1. \A i \in 1..Len(log) : tx'[log[i]] \in {"committed", "ended"}
      <3> SUFFICES ASSUME NEW i \in 1..Len(log)
                   PROVE  tx'[log[i]] \in {"committed", "ended"}
        OBVIOUS
      <3>1. log[i] \in Txs
        BY DEF TypeOK
      <3>2. tx[log[i]] \in {"committed", "ended"}
        BY DEF LogInv
      <3>3. log[i] # Tx(r) => tx'[log[i]] = tx[log[i]]
        BY <3>1 DEF Own
      <3> QED
        BY <3>2, <3>3
    <2>2. \A t \in Txs : tx'[t] = "committed" => t \in Committed
      BY DEF LogInv, Own
    <2>3. \A q \in Requests : at'[q] = "ok" => Tx(q) \in Committed
      BY DEF LogInv, Own
    <2>4. ASSUME NEW t \in Committed
          PROVE  t \in broken' \/ (t = Tx(t[1]) /\ at'[t[1]] \in {"committing", "ok"})
      <3>1. t \in Txs
        BY CommittedTxs
      <3>2. CASE t = Tx(r)
        BY <1>2, <3>2
      <3>3. CASE t # Tx(r)
        <4>1. t \in broken' <=> t \in broken
          BY <3>1, <3>3 DEF Own
        <4>2. t = Tx(t[1]) => at'[t[1]] = at[t[1]]
          BY <3>1, <3>3, TxParts DEF Own
        <4> QED
          BY <4>1, <4>2 DEF LogInv
      <3> QED
        BY <3>2, <3>3
    <2>5. \A t \in Committed : Tx(t[1])' = Tx(t[1])
      BY DEF Tx
    <2> QED
      BY <1>1, <1>6, <2>1, <2>2, <2>3, <2>4, <2>5 DEF LogInv
  <1> QED
    BY <1>3, <1>5, <1>7

LEMMA NotCommitted ==
  ASSUME IInv, NEW t \in Txs, tx[t] \notin {"committed", "ended"}
  PROVE  t \notin Committed
  BY DEF IInv, LogInv, Committed

(* Before its last step the transaction of a call is under way, unlocked   *)
(* rows are those of no transaction.                                       *)
LEMMA CallFacts ==
  ASSUME IInv, NEW r \in Requests
  PROVE  /\ Tx(r) \in Txs
         /\ tx[Tx(r)] \notin {"active", "commit"} => draft[Tx(r)] = NoRows
         /\ at[r] \notin {"loop", "committing"} => Tx(r) \notin Connected
         /\ at[r] \in {"loop", "committing"} => tx[Tx(r)] \in {"active", "commit", "committed"}
         /\ at[r] \in {"open", "loop"} => Tx(r) \notin Committed
  <1>1. Tx(r) \in Txs /\ Tx(r)[1] = r
    BY TxCurrent
  <1>2. at[r] \in {"open", "loop"} => tx[Tx(r)] \notin {"committed", "ended"}
    BY DEF IInv, CallInv
  <1>3. /\ tx[Tx(r)] \notin {"active", "commit"} => draft[Tx(r)] = NoRows
        /\ at[r] \notin {"loop", "committing"} => Tx(r) \notin Connected
    BY <1>1 DEF IInv, TxInv, Live
  <1>4. at[r] \in {"loop", "committing"} => tx[Tx(r)] \in {"active", "commit", "committed"}
    BY DEF IInv, CallInv
  <1> QED
    BY <1>1, <1>2, <1>3, <1>4, NotCommitted

LEMMA BeginStep ==
  ASSUME IInv, NEW r \in Requests, Begin(r)
  PROVE  IInv'
  <1> USE DEF IInv
  <1>1. /\ at[r] = "open" /\ tx[Tx(r)] = "none" /\ Tx(r) \notin broken /\ Tx(r) \in Txs
        /\ tx' = [tx EXCEPT ![Tx(r)] = "active"]
        /\ at' = [at EXCEPT ![r] = "loop"]
        /\ UNCHANGED <<db, draft, log, broken, attempt, pos>>
    BY CallFacts DEF Begin, CallInv
  <1>2. Own(r) /\ at'[r] = "loop" /\ tx'[Tx(r)] = "active"
    BY <1>1 DEF Own, TypeOK
  <1>3. Cardinality(Connected') <= MaxConns
    <2>1. Connected' = Connected \cup {Tx(r)}
      BY <1>1 DEF Connected, TypeOK
    <2>2. Cardinality(Connected) < MaxConns
      BY DEF Begin
    <2>3. Cardinality(Connected') \in {Cardinality(Connected), Cardinality(Connected) + 1}
      BY <2>1, ConnectedFinite, FS_AddElement
    <2> QED
      BY <2>2, <2>3, ConnectedFinite, PostgresAssumption
  <1>4. TypeOK'
    BY <1>1, <1>3 DEF TypeOK
  <1> QED
    BY <1>1, <1>2, <1>4, CallFacts, CallStep

LEMMA FailsStep ==
  ASSUME IInv, NEW r \in Requests, NEW class08 \in BOOLEAN, Fails(r, class08)
  PROVE  /\ at'[r] \in {"delay", "failed"} /\ (at'[r] = "delay" => attempt[r] <= Retries)
         /\ \A q \in Requests \ {r} : at'[q] = at[q]
         /\ at' \in [Requests -> {"open", "loop", "committing", "delay", "ok", "failed"}]
         /\ pos' \in [Requests -> Nat \ {0}]
         /\ attempt' = attempt
  BY DEF Fails, HasDelay, IInv, TypeOK

LEMMA BeginFailsStep ==
  ASSUME IInv, NEW r \in Requests, NEW class08 \in BOOLEAN, BeginFails(r, class08)
  PROVE  IInv'
  <1>1. at[r] = "open" /\ UNCHANGED <<db, tx, draft, log, broken>> /\ Fails(r, class08)
    BY DEF BeginFails, serverVars
  <1>2. Connected' = Connected
    BY <1>1 DEF Connected
  <1>3. TypeOK'
    BY <1>1, <1>2, FailsStep, FewerConnected DEF IInv, TypeOK
  <1>4. Own(r)
    BY <1>1, FailsStep DEF Own
  <1> QED
    BY <1>1, <1>2, <1>3, <1>4, FailsStep, CallFacts, CallStep

(* An error of batchUpdateTx with the connection intact. *)
LEMMA RolledBackStep ==
  ASSUME IInv, NEW r \in Requests, at[r] = "loop",
         RolledBack(r), Fails(r, FALSE), UNCHANGED <<db, log, broken>>
  PROVE  IInv'
  <1> USE DEF IInv
  <1>1. Tx(r) \in Txs /\ tx[Tx(r)] = "active"
    BY CallFacts DEF CallInv
  <1>2. /\ tx'[Tx(r)] = "ended" /\ draft'[Tx(r)] = NoRows
        /\ \A t \in Txs \ {Tx(r)} : tx'[t] = tx[t] /\ draft'[t] = draft[t]
    BY <1>1 DEF RolledBack, Unlocked, TypeOK
  <1>3. Connected' \subseteq Connected /\ Tx(r) \notin Connected'
    BY <1>2 DEF Connected
  <1>4. NoRows \in [Rows -> Values \cup {Nil}]
    BY DEF NoRows
  <1>5. TypeOK'
    <2>1. tx' = [tx EXCEPT ![Tx(r)] = "ended"] /\ draft' = [draft EXCEPT ![Tx(r)] = NoRows]
      BY DEF RolledBack, Unlocked
    <2>2. Cardinality(Connected') <= MaxConns
      BY <1>3, FewerConnected DEF TypeOK
    <2> QED
      BY <1>1, <1>4, <2>1, <2>2, FailsStep DEF TypeOK
  <1>6. Own(r)
    BY <1>2, FailsStep DEF Own
  <1> QED
    BY <1>1, <1>2, <1>3, <1>5, <1>6, FailsStep, CallFacts, CallStep

LEMMA SkipNilStep ==
  ASSUME IInv, NEW r \in Requests, SkipNil(r)
  PROVE  IInv'
  <1>1. /\ at[r] = "loop" /\ UNCHANGED <<db, tx, draft, log, broken, at, attempt>>
        /\ pos' = [pos EXCEPT ![r] = @ + 1]
    BY DEF SkipNil, InLoop, serverVars
  <1>2. Connected' = Connected
    BY <1>1 DEF Connected
  <1>3. TypeOK'
    BY <1>1, <1>2, FewerConnected DEF IInv, TypeOK
  <1>4. Own(r)
    BY <1>1 DEF Own
  <1>5. tx[Tx(r)] = "active" /\ Tx(r) \notin broken
    BY <1>1 DEF IInv, CallInv
  <1> QED
    BY <1>1, <1>2, <1>3, <1>4, <1>5, CallFacts, CallStep

LEMMA ExecStep ==
  ASSUME IInv, NEW r \in Requests, Exec(r)
  PROVE  IInv'
  <1> USE DEF IInv
  <1>1. /\ at[r] = "loop" /\ pos[r] \in 1..Len(Payload[r])
        /\ Here(r).mtype # "unknown" /\ Here(r).val # Nil /\ InRange(Tx(r), Here(r))
    BY PayloadAssumption DEF Exec, AtStatement, InLoop, TypeOK
  <1>2. Tx(r) \in Txs /\ tx[Tx(r)] = "active" /\ Tx(r) \notin broken
    BY <1>1, CallFacts DEF CallInv
  <1>3. Row(Here(r)) \in Rows /\ Upserted(Tx(r), Here(r)) \in Values
    BY <1>1, <1>2, UpsertType DEF Here
  <1> DEFINE rows == [draft[Tx(r)] EXCEPT ![Row(Here(r))] = Upserted(Tx(r), Here(r))]
  <1>4. rows \in [Rows -> Values \cup {Nil}]
    BY <1>2, <1>3 DEF TypeOK
  <1>5. draft' = [draft EXCEPT ![Tx(r)] = rows]
    BY <1>2 DEF Exec, TypeOK
  <1> HIDE DEF rows
  <1>6. /\ pos' = [pos EXCEPT ![r] = @ + 1] /\ UNCHANGED <<db, log, broken, attempt>>
        /\ \/ tx' = tx /\ at' = at
           \/ /\ tx' = [tx EXCEPT ![Tx(r)] = "commit"]
              /\ at' = [at EXCEPT ![r] = "committing"]
    BY DEF Exec
  <1>7. /\ \/ tx'[Tx(r)] = "active" /\ at'[r] = "loop"
           \/ tx'[Tx(r)] = "commit" /\ at'[r] = "committing"
        /\ \A q \in Requests \ {r} : at'[q] = at[q]
        /\ \A t \in Txs \ {Tx(r)} : tx'[t] = tx[t] /\ draft'[t] = draft[t]
    BY <1>1, <1>2, <1>5, <1>6 DEF TypeOK
  <1>8. Connected' = Connected
    BY <1>2, <1>6, <1>7 DEF Connected
  <1>9. TypeOK'
    <2>1. /\ tx' \in [Txs -> {"none", "active", "commit", "committed", "ended"}]
          /\ at' \in [Requests -> {"open", "loop", "committing", "delay", "ok", "failed"}]
      BY <1>6 DEF TypeOK
    <2>2. draft' \in [Txs -> [Rows -> Values \cup {Nil}]]
      BY <1>4, <1>5 DEF TypeOK
    <2>3. pos' \in [Requests -> Nat \ {0}]
      BY <1>6 DEF TypeOK
    <2> QED
      BY <1>6, <1>8, <2>1, <2>2, <2>3, FewerConnected DEF TypeOK
  <1>10. Own(r)
    BY <1>6, <1>7 DEF Own
  <1> QED
    BY <1>1, <1>2, <1>6, <1>7, <1>9, <1>10, CallFacts, CallStep

LEMMA SendCommitStep ==
  ASSUME IInv, NEW r \in Requests, SendCommit(r)
  PROVE  IInv'
  <1> USE DEF IInv
  <1>1. /\ at[r] = "loop" /\ Tx(r) \in Txs /\ tx[Tx(r)] = "active" /\ Tx(r) \notin broken
        /\ tx' = [tx EXCEPT ![Tx(r)] = "commit"]
        /\ at' = [at EXCEPT ![r] = "committing"]
        /\ UNCHANGED <<db, draft, log, broken, attempt, pos>>
    BY CallFacts DEF SendCommit, CallInv
  <1>2. Own(r) /\ at'[r] = "committing" /\ tx'[Tx(r)] = "commit"
    BY <1>1 DEF Own, TypeOK
  <1>3. Connected' = Connected
    BY <1>1 DEF Connected, TypeOK
  <1>4. TypeOK'
    BY <1>1, <1>3, FewerConnected DEF TypeOK
  <1> QED
    BY <1>1, <1>2, <1>4, CallFacts, CallStep

LEMMA ReturnsStep ==
  ASSUME IInv, NEW r \in Requests, Returns(r)
  PROVE  IInv'
  <1> USE DEF IInv
  <1>1. /\ at[r] = "committing" /\ Tx(r) \in Txs /\ tx[Tx(r)] = "committed" /\ Tx(r) \notin broken
        /\ tx' = [tx EXCEPT ![Tx(r)] = "ended"]
        /\ at' = [at EXCEPT ![r] = "ok"]
        /\ UNCHANGED <<db, draft, log, broken, attempt, pos>>
    BY CallFacts DEF Returns, CallInv
  <1>2. Own(r) /\ at'[r] = "ok" /\ tx'[Tx(r)] = "ended"
    BY <1>1 DEF Own, TypeOK
  <1>3. Connected' \subseteq Connected /\ Tx(r) \notin Connected'
    BY <1>1 DEF Connected, TypeOK
  <1>4. TypeOK'
    BY <1>1, <1>3, FewerConnected DEF TypeOK
  <1>5. Tx(r) \in Committed
    BY <1>1 DEF LogInv
  <1> QED
    BY <1>1, <1>2, <1>3, <1>4, <1>5, CallFacts, CallStep

LEMMA ConnErrorStep ==
  ASSUME IInv, NEW r \in Requests, NEW class08 \in BOOLEAN, ConnError(r, class08)
  PROVE  IInv'
  <1> USE DEF IInv
  <1>1. /\ at[r] \in {"loop", "committing"} /\ Tx(r) \in Txs
        /\ tx[Tx(r)] \in {"active", "commit", "committed"}
        /\ broken' = broken \cup {Tx(r)}
        /\ tx' = IF tx[Tx(r)] = "committed" THEN [tx EXCEPT ![Tx(r)] = "ended"] ELSE tx
        /\ UNCHANGED <<db, draft, log>>
    BY CallFacts DEF ConnError, Breaks
  <1>2. Fails(r, class08)
    BY DEF ConnError
  <1>3. /\ tx'[Tx(r)] = IF tx[Tx(r)] = "committed" THEN "ended" ELSE tx[Tx(r)]
        /\ \A t \in Txs \ {Tx(r)} : tx'[t] = tx[t]
    BY <1>1 DEF TypeOK
  <1>4. Connected' \subseteq Connected /\ Tx(r) \notin Connected'
    BY <1>1, <1>3 DEF Connected
  <1>5. TypeOK'
    BY <1>1, <1>2, <1>4, FailsStep, FewerConnected DEF TypeOK
  <1>6. Own(r)
    BY <1>1, <1>2, <1>3, FailsStep DEF Own
  <1> QED
    BY <1>1, <1>2, <1>3, <1>4, <1>5, <1>6, FailsStep, CallFacts, CallStep

LEMMA CtxDoneStep ==
  ASSUME IInv, NEW r \in Requests, CtxDone(r)
  PROVE  IInv'
  <1>1. /\ at[r] = "delay" /\ at' = [at EXCEPT ![r] = "failed"]
        /\ UNCHANGED <<db, tx, draft, log, broken, attempt, pos>>
    BY DEF CtxDone, serverVars
  <1>2. Connected' = Connected
    BY <1>1 DEF Connected
  <1>3. TypeOK'
    BY <1>1, <1>2, FewerConnected DEF IInv, TypeOK
  <1>4. Own(r) /\ at'[r] = "failed"
    BY <1>1 DEF Own, IInv, TypeOK
  <1>5. Tx(r) \in Committed => Tx(r) \in broken
    BY <1>1, TxCurrent DEF IInv, LogInv
  <1> QED
    BY <1>1, <1>2, <1>3, <1>4, <1>5, CallFacts, CallStep

LEMMA DelayOverStep ==
  ASSUME IInv, NEW r \in Requests, DelayOver(r)
  PROVE  IInv'
  <1> USE DEF IInv
  <1>1. /\ at[r] = "delay" /\ at' = [at EXCEPT ![r] = "open"]
        /\ attempt' = [attempt EXCEPT ![r] = @ + 1]
        /\ UNCHANGED <<db, tx, draft, log, broken, pos>>
    BY DEF DelayOver, serverVars
  <1>2. attempt[r] \in 1..Retries /\ attempt'[r] = attempt[r] + 1 /\ at'[r] = "open"
    BY <1>1 DEF CallInv, TypeOK
  <1>3. \A q \in Requests \ {r} : at'[q] = at[q] /\ attempt'[q] = attempt[q] /\ Tx(q)' = Tx(q)
    BY <1>1 DEF TypeOK, Tx
  <1>4. Connected' = Connected /\ Committed' = Committed
    BY <1>1 DEF Connected, Committed
  <1>5. TypeOK'
    <2>1. attempt' \in [Requests -> 1..Retries + 1]
      BY <1>1, <1>2, PostgresAssumption DEF TypeOK
    <2> QED
      BY <1>1, <1>4, <2>1, FewerConnected DEF TypeOK
  <1>6. tx[Tx(r)'] = "none" /\ Tx(r)' \notin broken
    <2>1. /\ Tx(r)' = <<r, attempt[r] + 1>> /\ <<r, attempt[r] + 1>> \in Txs
          /\ <<r, attempt[r] + 1>>[1] = r /\ <<r, attempt[r] + 1>>[2] = attempt[r] + 1
      BY <1>2, PostgresAssumption DEF Tx, Txs
    <2>2. attempt[r] + 1 > attempt[r]
      BY <1>2
    <2> QED
      BY <2>1, <2>2 DEF TxInv
  <1>7. CallInv'
    BY <1>1, <1>2, <1>3, <1>6 DEF CallInv
  <1>8. TxInv'
    <2> SUFFICES ASSUME NEW t \in Txs
                 PROVE  /\ t[2] > attempt'[t[1]] => tx[t] = "none" /\ t \notin broken
                        /\ t \in Connected => t = Tx(t[1])' /\ at'[t[1]] \in {"loop", "committing"}
                        /\ tx[t] \notin {"active", "commit"} => draft[t] = NoRows
      BY <1>1, <1>4 DEF TxInv, Live
    <2>1. t[1] \in Requests /\ t[2] \in Int /\ attempt[t[1]] \in Int
      BY TxParts, PostgresAssumption DEF TypeOK
    <2>2. t[2] > attempt'[t[1]] => t[2] > attempt[t[1]]
      BY <1>2, <1>3, <2>1
    <2>3. t \in Connected => t[1] # r
      BY <1>1 DEF TxInv
    <2> QED
      BY <1>3, <2>1, <2>2, <2>3 DEF TxInv, Live
  <1>9. LogInv'
    <2>1. \A q \in Requests : at'[q] = "ok" => Tx(q)' \in Committed
      BY <1>2, <1>3 DEF LogInv
    <2>2. ASSUME NEW t \in Committed
          PROVE  t \in broken \/ (t = Tx(t[1])' /\ at'[t[1]] \in {"committing", "ok"})
      <3>1. t[1] \in Requests
        BY CommittedTxs, TxParts
      <3>2. t \in broken \/ t[1] # r
        BY <1>1 DEF LogInv
      <3> QED
        BY <1>3, <3>1, <3>2 DEF LogInv
    <2> QED
      BY <1>1, <1>4, <2>1, <2>2 DEF LogInv
  <1> QED
    BY <1>5, <1>7, <1>8, <1>9

LEMMA InvStep == IInv /\ [Next]_pgVars => IInv'
  <1> SUFFICES ASSUME IInv, [Next]_pgVars PROVE IInv'
    OBVIOUS
  <1>1. CASE UNCHANGED pgVars
    <2>1. UNCHANGED <<db, tx, draft, log, broken, at, attempt, pos>>
      BY <1>1 DEF pgVars, serverVars, callVars
    <2>2. Connected' = Connected /\ Committed' = Committed /\ \A r \in Requests : Tx(r)' = Tx(r)
      BY <2>1 DEF Connected, Committed, Tx
    <2>3. TypeOK'
      BY <2>1, <2>2, FewerConnected DEF IInv, TypeOK
    <2>4. CallInv'
      BY <2>1, <2>2 DEF IInv, CallInv
    <2>5. TxInv'
      BY <2>1, <2>2, TxParts DEF IInv, TxInv, Live
    <2>6. LogInv'
      BY <2>1, <2>2, CommittedTxs, TxParts DEF IInv, LogInv
    <2> QED
      BY <2>3, <2>4, <2>5, <2>6 DEF IInv
  <1>2. ASSUME NEW t \in Txs, Commit(t) \/ Discard(t) \/ LateStatement(t) PROVE IInv'
    BY <1>2, CommitStep, DiscardStep, LateStatementStep
  <1>3. ASSUME NEW r \in Requests, Proceeds(r) PROVE IInv'
    <2>1. CASE Begin(r) \/ SkipNil(r) \/ Exec(r) \/ SendCommit(r) \/ Returns(r) \/ DelayOver(r)
      BY <2>1, BeginStep, SkipNilStep, ExecStep, SendCommitStep, ReturnsStep, DelayOverStep
    <2>2. CASE UnknownType(r)
      BY <2>2, RolledBackStep DEF UnknownType, InLoop
    <2>3. CASE OutOfRange(r)
      BY <2>3, RolledBackStep DEF OutOfRange, AtStatement, InLoop
    <2>4. CASE DeadlockVictim(r)
      <3>1. at[r] = "loop"
        BY <2>4 DEF DeadlockVictim, Deadlocked, WaitsFor, AtStatement, InLoop
      <3> QED
        BY <2>4, <3>1, RolledBackStep DEF DeadlockVictim
    <2> QED
      BY <1>3, <2>1, <2>2, <2>3, <2>4 DEF Proceeds
  <1>4. ASSUME NEW r \in Requests, Disturbed(r) PROVE IInv'
    BY <1>4, BeginFailsStep, ConnErrorStep, CtxDoneStep DEF Disturbed
  <1> QED
    BY <1>1, <1>2, <1>3, <1>4 DEF Next

-----------------------------------------------------------------------------
(* Calls, transactions and the pool keep their types (postgresql.go:24-26, *)
(* 172-234): no more connections than MaxConns, no attempt past the last   *)
(* delay, counters within BIGINT.                                          *)
THEOREM PgTypeCorrect == Spec => []TypeOK
  <1>1. IInv => TypeOK
    BY DEF IInv
  <1> QED
    BY <1>1, InitInv, InvStep, PTL DEF Spec

(* What BatchUpdate returns is true of the tables, for any interleaving,   *)
(* any number of retries and any broken connections (172-234).             *)
THEOREM AnswersAreTrue == Spec => []AnswersTell
  <1>1. ASSUME IInv PROVE AnswersTell
    <2>1. ASSUME NEW r \in Requests, at[r] = "failed", NEW t \in Committed, t[1] = r
          PROVE  t \in broken
      BY <1>1, <2>1 DEF IInv, LogInv
    <2> QED
      BY <1>1, <2>1 DEF AnswersTell, IInv, LogInv
  <1> QED
    BY <1>1, InitInv, InvStep, PTL DEF Spec

(* Retries count a delta twice only when a connection breaks in a commit   *)
(* (217-252).                                                              *)
THEOREM RetriesCountOnce == Spec => []CountedOnce
  <1>1. ASSUME IInv PROVE CountedOnce
    <2> SUFFICES ASSUME NEW i \in 1..Len(log), NEW k \in 1..Len(log),
                        i < k, log[i][1] = log[k][1]
                 PROVE  log[i] # log[k] /\ (log[i] \in broken \/ log[k] \in broken)
      BY DEF CountedOnce
    <2>1. log[i] # log[k]
      BY <1>1 DEF IInv, LogInv
    <2>2. log[i] \in Committed /\ log[k] \in Committed
      BY DEF Committed
    <2>3. log[i] \in broken \/ log[i] = Tx(log[i][1])
      BY <1>1, <2>2 DEF IInv, LogInv
    <2>4. log[k] \in broken \/ log[k] = Tx(log[k][1])
      BY <1>1, <2>2 DEF IInv, LogInv
    <2> QED
      BY <2>1, <2>3, <2>4
  <1> QED
    BY <1>1, InitInv, InvStep, PTL DEF Spec

(* Every way out of batchUpdateTx gives its connection and its rows back   *)
(* (181-215).                                                              *)
THEOREM NoLeak == Spec => []NothingLeaks
  <1>1. ASSUME IInv PROVE NothingLeaks
    <2> SUFFICES ASSUME NEW t \in Txs \ broken, Live(t) \/ draft[t] # NoRows
                 PROVE  t = Tx(t[1]) /\ at[t[1]] \in {"loop", "committing"}
      BY DEF NothingLeaks
    <2>1. Live(t)
      BY <1>1 DEF IInv, TxInv
    <2>2. t \in Connected
      BY <2>1 DEF Live, Connected
    <2> QED
      BY <1>1, <2>2 DEF IInv, TxInv
  <1> QED
    BY <1>1, InitInv, InvStep, PTL DEF Spec

-----------------------------------------------------------------------------
(* What a loop has passed is of known type, so what is to be committed is. *)
Known(r) == \A i \in 1..Len(Payload[r]) : Payload[r][i].mtype # "unknown"

KnownInv ==
    /\ \A r \in Requests : at[r] = "loop" =>
         \A i \in 1..Len(Payload[r]) : i < pos[r] => Payload[r][i].mtype # "unknown"
    /\ \A t \in Txs : tx[t] \in {"commit", "committed"} => Known(t[1])
    /\ \A t \in Committed : Known(t[1])
    /\ \A r \in Requests : at[r] = "open" => pos[r] = 1
    /\ \A r \in Requests : at[r] = "delay" => pos[r] = 1

LEMMA SingleKnown ==
  ASSUME NEW r \in Requests \ Batches
  PROVE  Known(r)
  BY PostgresAssumption DEF Known

LEMMA KnownInit == Init => KnownInv
  BY PostgresAssumption DEF Init, KnownInv, Committed

LEMMA KnownStep == IInv /\ KnownInv /\ [Next]_pgVars => KnownInv'
  <1> SUFFICES ASSUME IInv, KnownInv, [Next]_pgVars PROVE KnownInv'
    OBVIOUS
  <1> USE DEF KnownInv
  <1>1. CASE UNCHANGED pgVars
    BY <1>1 DEF pgVars, serverVars, callVars, Committed
  <1>2. ASSUME NEW t \in Txs, Commit(t) PROVE KnownInv'
    <2>1. /\ tx[t] = "commit" /\ log' = Append(log, t) /\ UNCHANGED <<at, pos>>
          /\ \A u \in Txs : u # t => tx'[u] = tx[u]
      BY <1>2 DEF Commit, callVars, IInv, TypeOK
    <2>2. Known(t[1]) /\ Committed' = Committed \cup {t}
      BY <2>1, CommittedGrows
    <2> QED
      BY <2>1, <2>2
  <1>3. ASSUME NEW t \in Txs, Discard(t) PROVE KnownInv'
    BY <1>3 DEF Discard, callVars, IInv, TypeOK, Committed
  <1>4. ASSUME NEW t \in Txs, LateStatement(t) PROVE KnownInv'
    <2>1. Known(t[1])
      BY <1>4, TxParts, SingleKnown DEF LateStatement
    <2>2. /\ UNCHANGED <<log, at, pos>>
          /\ \A u \in Txs : u # t => tx'[u] = tx[u]
      BY <1>4 DEF LateStatement, callVars, IInv, TypeOK
    <2> QED
      BY <2>1, <2>2, CommittedSame
  <1>5. ASSUME NEW r \in Requests, Proceeds(r) \/ Disturbed(r) PROVE KnownInv'
    <2>1. Tx(r) \in Txs /\ Tx(r)[1] = r
      BY TxCurrent
    <2>2. log' = log /\ Committed' = Committed
      BY <1>5, CommittedSame DEF Proceeds, Disturbed, Begin, BeginFails, SkipNil, UnknownType, Exec,
           OutOfRange, DeadlockVictim, SendCommit, Returns, ConnError, Breaks, DelayOver, CtxDone, serverVars
    <2>3. CASE Begin(r)
      BY <2>1, <2>2, <2>3 DEF Begin, IInv, TypeOK
    <2>4. CASE SkipNil(r)
      BY <2>1, <2>2, <2>4 DEF SkipNil, InLoop, Here, serverVars, IInv, TypeOK
    <2>5. CASE Exec(r)
      <3>1. at[r] = "loop" /\ pos' = [pos EXCEPT ![r] = @ + 1] /\ Here(r).mtype # "unknown"
        BY <2>5 DEF Exec, AtStatement, InLoop
      <3>2. \A i \in 1..Len(Payload[r]) : i < pos'[r] => Payload[r][i].mtype # "unknown"
        BY <3>1 DEF Here, IInv, TypeOK
      <3>3. CASE r \in Batches
        BY <2>2, <2>5, <3>1, <3>2, <3>3 DEF Exec, IInv, TypeOK
      <3>4. CASE r \notin Batches
        BY <2>1, <2>2, <2>5, <3>1, <3>4, SingleKnown DEF Exec, IInv, TypeOK
      <3> QED
        BY <3>3, <3>4
    <2>6. CASE SendCommit(r)
      <3>1. Known(r)
        BY <2>6 DEF SendCommit, Known, IInv, TypeOK
      <3> QED
        BY <2>1, <2>2, <2>6, <3>1 DEF SendCommit, IInv, TypeOK
    <2>7. CASE Returns(r) \/ DelayOver(r) \/ CtxDone(r)
      BY <2>1, <2>2, <2>7 DEF Returns, DelayOver, CtxDone, serverVars, IInv, TypeOK
    <2>8. ASSUME NEW class08 \in BOOLEAN, Fails(r, class08),
                 \A t \in Txs : tx'[t] = tx[t] \/ tx'[t] = "ended"
          PROVE  KnownInv'
      BY <2>2, <2>8 DEF Fails, IInv, TypeOK
    <2>9. CASE \E class08 \in BOOLEAN : BeginFails(r, class08) \/ ConnError(r, class08)
      BY <2>1, <2>8, <2>9 DEF BeginFails, ConnError, Breaks, serverVars, IInv, TypeOK
    <2>10. CASE UnknownType(r) \/ OutOfRange(r) \/ DeadlockVictim(r)
      BY <2>1, <2>8, <2>10 DEF UnknownType, OutOfRange, DeadlockVictim, RolledBack, IInv, TypeOK
    <2> QED
      BY <1>5, <2>3, <2>4, <2>5, <2>6, <2>7, <2>9, <2>10 DEF Proceeds, Disturbed
  <1> QED
    BY <1>1, <1>2, <1>3, <1>4, <1>5 DEF Next

(* A batch with an unknown type leaves no trace, unlike in memory          *)
(* (186, 209-210).                                                         *)
THEOREM RefusedLeavesNothing == Spec => []RefusedIsRolledBack
  <1>1. KnownInv => RefusedIsRolledBack
    BY DEF KnownInv, Known, RefusedIsRolledBack
  <1> QED
    BY <1>1, InitInv, InvStep, KnownInit, KnownStep, PTL DEF Spec

-----------------------------------------------------------------------------
(***************************************************************************)
(* What Replay computes: ApplyRow, one metric and one transaction after    *)
(* the other.                                                              *)
(***************************************************************************)
(* Tables with numbers where counters are. *)
Tables == {rows \in [Rows -> GaugeVals \cup Int \cup {Nil}] :
             \A n \in Names : rows[<<"counter", n>>] \in Int \cup {Nil}}

Played(rows, metrics) == FoldLeft(ApplyRow, rows, metrics)

(* The tables after each metric. *)
RowTurns(f, rows, metrics) ==
  /\ f[0] = rows
  /\ \A i \in 1..Len(metrics) : f[i] = ApplyRow(f[i - 1], metrics[i])

LEMMA ApplyRowType ==
  ASSUME NEW rows \in Tables, NEW m \in Metric, WellFormed(m)
  PROVE  ApplyRow(rows, m) \in Tables
  <1>1. CASE m.mtype = "unknown" \/ m.val = Nil
    BY <1>1 DEF ApplyRow
  <1>2. CASE ~(m.mtype = "unknown" \/ m.val = Nil)
    <2>1. m.mtype \in {"gauge", "counter"} /\ m.id \in Names
      BY <1>2 DEF Metric, MetricTypes
    <2>2. Row(m) = <<m.mtype, m.id>> /\ Row(m) \in Rows
      BY <2>1 DEF Row, Rows
    <2> DEFINE v == IF m.mtype = "gauge" \/ rows[Row(m)] = Nil THEN m.val
                    ELSE rows[Row(m)] + m.val
    <2>3. ApplyRow(rows, m) = [rows EXCEPT ![Row(m)] = v]
      BY <1>2 DEF ApplyRow
    <2>4. m.mtype = "gauge" => v \in GaugeVals
      BY <1>2 DEF WellFormed
    <2>5. m.mtype = "counter" => v \in Int
      <3> SUFFICES ASSUME m.mtype = "counter" PROVE v \in Int
        OBVIOUS
      <3>1. m.val \in Int
        BY <1>2, Int64IsInt DEF WellFormed
      <3>2. rows[Row(m)] \in Int \cup {Nil}
        BY <2>1, <2>2 DEF Tables
      <3> QED
        BY <3>1, <3>2
    <2> HIDE DEF v
    <2>6. [rows EXCEPT ![Row(m)] = v] \in [Rows -> GaugeVals \cup Int \cup {Nil}]
      BY <2>1, <2>4, <2>5 DEF Tables
    <2>7. ASSUME NEW n \in Names
          PROVE  [rows EXCEPT ![Row(m)] = v][<<"counter", n>>] \in Int \cup {Nil}
      <3>1. <<"counter", n>> \in Rows /\ rows[<<"counter", n>>] \in Int \cup {Nil}
        BY DEF Rows, Tables
      <3>2. rows \in [Rows -> GaugeVals \cup Int \cup {Nil}]
        BY DEF Tables
      <3>3. CASE <<"counter", n>> = Row(m)
        BY <2>2, <2>5, <3>1, <3>2, <3>3
      <3>4. CASE <<"counter", n>> # Row(m)
        BY <3>1, <3>2, <3>4
      <3> QED
        BY <3>3, <3>4
    <2> QED
      BY <2>3, <2>6, <2>7 DEF Tables
  <1> QED
    BY <1>1, <1>2

LEMMA PlayedTurns ==
  ASSUME NEW rows \in Tables, NEW metrics \in Seq(Metric),
         \A i \in 1..Len(metrics) : WellFormed(metrics[i])
  PROVE  \E f : /\ RowTurns(f, rows, metrics)
                /\ Played(rows, metrics) = f[Len(metrics)]
                /\ \A i \in 0..Len(metrics) : f[i] \in Tables
  <1> DEFINE n == Len(metrics)
             join == [i \in 1..n |-> [v \in Tables |-> ApplyRow(v, metrics[i])]]
             last(s) == Max(s)
             iter(f) == [s \in SUBSET (1..n) |->
                          IF s = {} THEN rows
                          ELSE ApplyRow(f[s \ {last(s)}], metrics[last(s)])]
  <1>1. n \in Nat /\ DOMAIN metrics = 1..n /\ \A i \in 1..n : metrics[i] \in Metric
    OBVIOUS
  <1>2. join \in [1..n -> [Tables -> Tables]]
    BY <1>1, ApplyRowType
  <1>3. PICK g : /\ OnSubsets(g, 1..n) /\ FoldsOver(g, 1..n, rows, Latest(n), join)
                 /\ \A s \in SUBSET (1..n) : g[s] \in Tables
    <2> HIDE DEF join, n
    <2> QED
      BY <1>1, <1>2, LeftFoldExists
  <1>4. \A s \in SUBSET (1..n) : s # {} => /\ last(s) \in s /\ last(s) = Latest(n)[s]
                                          /\ s \ {last(s)} \in SUBSET (1..n)
    BY <1>1, MaxIsLargest DEF Latest
  <1>5. \A i \in 1..n : /\ 1..i \in SUBSET (1..n) /\ 1..i # {}
                        /\ last(1..i) = i /\ (1..i) \ {i} = 1..(i - 1)
    <2> HIDE DEF n
    <2> QED
      BY <1>1, MaxUpTo
  <1>6. \A s \in SUBSET (1..n) : g[s] = IF s = {} THEN rows
                                  ELSE ApplyRow(g[s \ {last(s)}], metrics[last(s)])
    <2> SUFFICES ASSUME NEW s \in SUBSET (1..n)
                 PROVE  g[s] = IF s = {} THEN rows
                               ELSE ApplyRow(g[s \ {last(s)}], metrics[last(s)])
      OBVIOUS
    <2>1. CASE s = {}
      BY <1>3, <2>1 DEF FoldsOver
    <2>2. CASE s # {}
      <3>1. g[s] = join[last(s)][g[s \ {last(s)}]]
        <4> HIDE DEF join, last, n
        <4> QED
          BY <1>3, <1>4, <2>2 DEF FoldsOver
      <3>2. last(s) \in 1..n /\ g[s \ {last(s)}] \in Tables
        BY <1>3, <1>4, <2>2
      <3> HIDE DEF last, n
      <3> QED
        BY <2>2, <3>1, <3>2
    <2> QED
      BY <2>1, <2>2
  <1> HIDE DEF last, join
  <1>7. g = iter(g)
    <2>1. \A s \in SUBSET (1..n) : iter(g)[s] = g[s]
      BY <1>6
    <2>2. g = [s \in SUBSET (1..n) |-> g[s]]
      BY <1>3, Zenon DEF OnSubsets
    <2>3. iter(g) = [s \in SUBSET (1..n) |-> iter(g)[s]]
      BY Zenon
    <2> HIDE DEF iter
    <2> QED
      BY <2>1, <2>2, <2>3, Zenon
  <1> DEFINE h == CHOOSE f : f = iter(f)
  <1>8. h = iter(h)
    <2> HIDE DEF iter
    <2> QED
      BY <1>7, Zenon
  <1>9. Played(rows, metrics) = h[1..n]
    <2>1. Played(rows, metrics) = (CHOOSE f : f = [s \in SUBSET (DOMAIN metrics) |->
                          IF s = {} THEN rows
                          ELSE ApplyRow(f[s \ {Max(s)}], metrics[Max(s)])])[DOMAIN metrics]
      BY Zenon DEF Played, FoldLeft, MapThenFoldSet
    <2> HIDE DEF n
    <2> QED
      BY <1>1, <2>1, Zenon DEF last
  <1>10. \A s \in SUBSET (1..n) : h[s] = IF s = {} THEN rows
                                   ELSE ApplyRow(h[s \ {last(s)}], metrics[last(s)])
    <2>1. \A s \in SUBSET (1..n) : iter(h)[s] = IF s = {} THEN rows
                                   ELSE ApplyRow(h[s \ {last(s)}], metrics[last(s)])
      <3> HIDE DEF h
      <3> QED
        BY Zenon
    <2> HIDE DEF iter, h
    <2> QED
      BY <1>8, <2>1
  <1> DEFINE f == [i \in 0..n |-> h[1..i]]
  <1> HIDE DEF h, iter, n
  <1>11. f[0] = rows
    <2>1. 1..0 = {} /\ {} \in SUBSET (1..n) /\ 0 \in 0..n
      BY <1>1
    <2> QED
      BY <1>10, <2>1
  <1>12. \A i \in 1..n : f[i] = ApplyRow(f[i - 1], metrics[i])
    <2> SUFFICES ASSUME NEW i \in 1..n PROVE f[i] = ApplyRow(f[i - 1], metrics[i])
      OBVIOUS
    <2>1. h[1..i] = ApplyRow(h[1..(i - 1)], metrics[i])
      BY <1>5, <1>10
    <2>2. i \in 0..n /\ i - 1 \in 0..n
      BY <1>1
    <2> QED
      BY <2>1, <2>2
  <1>13. f[n] = Played(rows, metrics)
    BY <1>1, <1>9
  <1> HIDE DEF f
  <1>14. \A i \in 0..n : f[i] \in Tables
    <2> DEFINE P == {i \in 0..n : f[i] \in Tables}
    <2>1. 0 \in P
      BY <1>1, <1>11
    <2>2. \A i \in 1..n : i - 1 \in P => i \in P
      BY <1>1, <1>12, ApplyRowType DEF n
    <2>3. \A i \in 0..n : i \in P
      <3> HIDE DEF P
      <3> QED
        BY <1>1, <2>1, <2>2, UpTo
    <2> QED
      BY <2>3
  <1> QED
    BY <1>11, <1>12, <1>13, <1>14 DEF RowTurns, n

(* The tables once the loop over the metrics of r has passed the first j.  *)
After(rows, r, j) == Played(rows, SubSeq(Payload[r], 1, j))

(* Metric i of request r writes row x. *)
Writes(r, i, x) ==
  LET m == Payload[r][i] IN m.mtype # "unknown" /\ m.val # Nil /\ Row(m) = x

LEMMA PayloadIs ==
  ASSUME NEW r \in Requests
  PROVE  /\ Payload[r] \in Seq(Metric) /\ Len(Payload[r]) \in Nat
         /\ \A i \in 1..Len(Payload[r]) : Payload[r][i] \in Metric /\ WellFormed(Payload[r][i])
  <1>1. Payload[r] \in Seq(Metric)
    BY PayloadType
  <1>2. \A i \in 1..Len(Payload[r]) : WellFormed(Payload[r][i])
    BY <1>1, MetricType DEF WellFormed
  <1> QED
    BY <1>1, <1>2

(* Each metric of the loop is one more turn. *)
LEMMA LoopTurns ==
  ASSUME NEW rows \in Tables, NEW r \in Requests
  PROVE  /\ After(rows, r, 0) = rows
         /\ \A j \in 1..Len(Payload[r]) :
              After(rows, r, j) = ApplyRow(After(rows, r, j - 1), Payload[r][j])
         /\ \A j \in 0..Len(Payload[r]) : After(rows, r, j) \in Tables
         /\ After(rows, r, Len(Payload[r])) = Played(rows, Payload[r])
  <1> DEFINE n == Len(Payload[r])
  <1>1. /\ n \in Nat /\ Payload[r] \in Seq(Metric)
        /\ \A i \in 1..n : Payload[r][i] \in Metric /\ WellFormed(Payload[r][i])
    BY PayloadIs
  <1>2. PICK f : /\ RowTurns(f, rows, Payload[r]) /\ Played(rows, Payload[r]) = f[n]
                 /\ \A i \in 0..n : f[i] \in Tables
    BY <1>1, PlayedTurns
  <1>3. f[0] = rows /\ \A i \in 1..n : f[i] = ApplyRow(f[i - 1], Payload[r][i])
    BY <1>2 DEF RowTurns
  <1>4. ASSUME NEW j \in 0..n PROVE After(rows, r, j) = f[j]
    <2> DEFINE metrics == SubSeq(Payload[r], 1, j)
    <2>1. /\ metrics \in Seq(Metric) /\ Len(metrics) = j
          /\ \A i \in 1..j : metrics[i] = Payload[r][i] /\ i \in 1..n
      BY <1>1
    <2> HIDE DEF metrics, n
    <2>2. PICK h : RowTurns(h, rows, metrics) /\ Played(rows, metrics) = h[j]
      BY <1>1, <2>1, PlayedTurns
    <2>3. h[0] = rows /\ \A i \in 1..j : h[i] = ApplyRow(h[i - 1], Payload[r][i])
      BY <2>1, <2>2 DEF RowTurns
    <2> DEFINE P == {i \in 0..j : h[i] = f[i]}
    <2>4. 0 \in P
      BY <1>1, <1>3, <2>3
    <2>5. \A i \in 1..j : i - 1 \in P => i \in P
      BY <1>1, <1>3, <2>1, <2>3
    <2>6. \A i \in 0..j : i \in P
      <3>1. j \in Nat
        BY <1>1
      <3> HIDE DEF P
      <3> QED
        BY <2>4, <2>5, <3>1, UpTo
    <2>7. j \in P
      BY <1>1, <2>6
    <2> QED
      BY <2>2, <2>7 DEF After, metrics
  <1> HIDE DEF n
  <1>5. \A j \in 0..n : After(rows, r, j) \in Tables
    BY <1>2, <1>4
  <1>6. \A j \in 1..n : After(rows, r, j) = ApplyRow(After(rows, r, j - 1), Payload[r][j])
    <2>1. \A j \in 1..n : j \in 0..n /\ j - 1 \in 0..n
      BY <1>1
    <2> QED
      BY <1>3, <1>4, <2>1
  <1>7. After(rows, r, 0) = rows /\ After(rows, r, n) = Played(rows, Payload[r])
    BY <1>1, <1>2, <1>3, <1>4
  <1> QED
    BY <1>5, <1>6, <1>7 DEF n

LEMMA RowAfterOne ==
  ASSUME NEW rows \in Tables, NEW r \in Requests, NEW i \in 1..Len(Payload[r]), NEW x \in Rows
  PROVE  ApplyRow(rows, Payload[r][i])[x] =
           IF ~Writes(r, i, x) THEN rows[x]
           ELSE IF Payload[r][i].mtype = "gauge" \/ rows[x] = Nil
                THEN Payload[r][i].val ELSE rows[x] + Payload[r][i].val
  <1> DEFINE m == Payload[r][i]
             v == IF m.mtype = "gauge" \/ rows[Row(m)] = Nil THEN m.val
                  ELSE rows[Row(m)] + m.val
  <1>1. rows \in [Rows -> GaugeVals \cup Int \cup {Nil}]
    BY DEF Tables
  <1>2. CASE m.mtype = "unknown" \/ m.val = Nil
    BY <1>2 DEF ApplyRow, Writes
  <1>3. CASE ~(m.mtype = "unknown" \/ m.val = Nil)
    <2>1. ApplyRow(rows, m) = [rows EXCEPT ![Row(m)] = v]
      BY <1>3 DEF ApplyRow
    <2>2. Writes(r, i, x) <=> Row(m) = x
      BY <1>3 DEF Writes
    <2> QED
      BY <1>1, <2>1, <2>2
  <1> QED
    BY <1>2, <1>3

(* What a loop does to a row depends on that row alone. *)
LEMMA RowsApart ==
  ASSUME NEW rows \in Tables, NEW others \in Tables, NEW r \in Requests,
         NEW x \in Rows, rows[x] = others[x], NEW j \in 0..Len(Payload[r])
  PROVE  After(rows, r, j)[x] = After(others, r, j)[x]
  <1> DEFINE n == Len(Payload[r])
             P == {i \in 0..n : After(rows, r, i)[x] = After(others, r, i)[x]}
  <1>1. n \in Nat
    BY PayloadIs
  <1>2. 0 \in P
    BY <1>1, LoopTurns
  <1>3. ASSUME NEW i \in 1..n, i - 1 \in P PROVE i \in P
    <2>1. /\ After(rows, r, i) = ApplyRow(After(rows, r, i - 1), Payload[r][i])
          /\ After(others, r, i) = ApplyRow(After(others, r, i - 1), Payload[r][i])
          /\ After(rows, r, i - 1) \in Tables /\ After(others, r, i - 1) \in Tables
      BY <1>1, LoopTurns
    <2> QED
      BY <1>1, <1>3, <2>1, RowAfterOne
  <1>4. \A i \in 0..n : i \in P
    <2> HIDE DEF P, n
    <2> QED
      BY <1>1, <1>2, <1>3, UpTo
  <1> QED
    BY <1>4

LEMMA RowNotWritten ==
  ASSUME NEW rows \in Tables, NEW r \in Requests, NEW x \in Rows,
         NEW j \in 0..Len(Payload[r]), \A i \in 1..j : ~Writes(r, i, x)
  PROVE  After(rows, r, j)[x] = rows[x]
  <1> DEFINE P == {i \in 0..j : After(rows, r, i)[x] = rows[x]}
  <1>1. j \in Nat /\ Len(Payload[r]) \in Nat
    BY PayloadIs
  <1>2. 0 \in P
    BY <1>1, LoopTurns
  <1>3. ASSUME NEW i \in 1..j, i - 1 \in P PROVE i \in P
    <2>1. i \in 1..Len(Payload[r]) /\ i - 1 \in 0..Len(Payload[r])
      BY <1>1
    <2>2. /\ After(rows, r, i) = ApplyRow(After(rows, r, i - 1), Payload[r][i])
          /\ After(rows, r, i - 1) \in Tables
      BY <2>1, LoopTurns
    <2> QED
      BY <1>1, <1>3, <2>1, <2>2, RowAfterOne
  <1>4. \A i \in 0..j : i \in P
    <2> HIDE DEF P
    <2> QED
      BY <1>1, <1>2, <1>3, UpTo
  <1> QED
    BY <1>1, <1>4

LEMMA PlayedType ==
  ASSUME NEW rows \in Tables, NEW r \in Requests
  PROVE  Played(rows, Payload[r]) \in Tables
  <1>1. Len(Payload[r]) \in 0..Len(Payload[r])
    BY PayloadIs
  <1> QED
    BY <1>1, LoopTurns

LEMMA NoRowsIsTables == NoRows \in Tables
  BY DEF NoRows, Tables, Rows

(* What Replay is of the sequence ts of transactions.                      *)
History(ts) ==
  FoldLeft(LAMBDA rows, t : FoldLeft(ApplyRow, rows, Payload[t[1]]), NoRows, ts)

HistoryTurns(f, ts) ==
  /\ f[0] = NoRows
  /\ \A i \in 1..Len(ts) : f[i] = Played(f[i - 1], Payload[ts[i][1]])

LEMMA HistoryTurnsExist ==
  ASSUME NEW ts \in Seq(Txs)
  PROVE  \E f : /\ HistoryTurns(f, ts)
                /\ History(ts) = f[Len(ts)]
                /\ \A i \in 0..Len(ts) : f[i] \in Tables
  <1> DEFINE n == Len(ts)
             join == [i \in 1..n |-> [v \in Tables |-> Played(v, Payload[ts[i][1]])]]
             last(s) == Max(s)
             iter(f) == [s \in SUBSET (1..n) |->
                          IF s = {} THEN NoRows
                          ELSE Played(f[s \ {last(s)}], Payload[ts[last(s)][1]])]
  <1>1. n \in Nat /\ DOMAIN ts = 1..n /\ \A i \in 1..n : ts[i] \in Txs
    OBVIOUS
  <1>2. join \in [1..n -> [Tables -> Tables]]
    BY <1>1, PlayedType, TxParts
  <1>3. PICK g : /\ OnSubsets(g, 1..n) /\ FoldsOver(g, 1..n, NoRows, Latest(n), join)
                 /\ \A s \in SUBSET (1..n) : g[s] \in Tables
    <2> HIDE DEF join, n
    <2> QED
      BY <1>1, <1>2, NoRowsIsTables, LeftFoldExists
  <1>4. \A s \in SUBSET (1..n) : s # {} => /\ last(s) \in s /\ last(s) = Latest(n)[s]
                                          /\ s \ {last(s)} \in SUBSET (1..n)
    BY <1>1, MaxIsLargest DEF Latest
  <1>5. \A i \in 1..n : /\ 1..i \in SUBSET (1..n) /\ 1..i # {}
                        /\ last(1..i) = i /\ (1..i) \ {i} = 1..(i - 1)
    <2> HIDE DEF n
    <2> QED
      BY <1>1, MaxUpTo
  <1>6. \A s \in SUBSET (1..n) : g[s] = IF s = {} THEN NoRows
                                  ELSE Played(g[s \ {last(s)}], Payload[ts[last(s)][1]])
    <2> SUFFICES ASSUME NEW s \in SUBSET (1..n)
                 PROVE  g[s] = IF s = {} THEN NoRows
                               ELSE Played(g[s \ {last(s)}], Payload[ts[last(s)][1]])
      OBVIOUS
    <2>1. CASE s = {}
      BY <1>3, <2>1 DEF FoldsOver
    <2>2. CASE s # {}
      <3>1. g[s] = join[last(s)][g[s \ {last(s)}]]
        <4> HIDE DEF join, last, n
        <4> QED
          BY <1>3, <1>4, <2>2 DEF FoldsOver
      <3>2. last(s) \in 1..n /\ g[s \ {last(s)}] \in Tables
        BY <1>3, <1>4, <2>2
      <3> HIDE DEF last, n
      <3> QED
        BY <2>2, <3>1, <3>2
    <2> QED
      BY <2>1, <2>2
  <1> HIDE DEF last, join
  <1>7. g = iter(g)
    <2>1. \A s \in SUBSET (1..n) : iter(g)[s] = g[s]
      BY <1>6
    <2>2. g = [s \in SUBSET (1..n) |-> g[s]]
      BY <1>3, Zenon DEF OnSubsets
    <2>3. iter(g) = [s \in SUBSET (1..n) |-> iter(g)[s]]
      BY Zenon
    <2> HIDE DEF iter
    <2> QED
      BY <2>1, <2>2, <2>3, Zenon
  <1> DEFINE h == CHOOSE f : f = iter(f)
  <1>8. h = iter(h)
    <2> HIDE DEF iter
    <2> QED
      BY <1>7, Zenon
  <1>9. History(ts) = h[1..n]
    <2>1. History(ts) = (CHOOSE f : f = [s \in SUBSET (DOMAIN ts) |->
                          IF s = {} THEN NoRows
                          ELSE Played(f[s \ {Max(s)}], Payload[ts[Max(s)][1]])])[DOMAIN ts]
      BY Zenon DEF History, Played, FoldLeft, MapThenFoldSet
    <2> HIDE DEF n
    <2> QED
      BY <1>1, <2>1, Zenon DEF last
  <1>10. \A s \in SUBSET (1..n) : h[s] = IF s = {} THEN NoRows
                                   ELSE Played(h[s \ {last(s)}], Payload[ts[last(s)][1]])
    <2>1. \A s \in SUBSET (1..n) : iter(h)[s] = IF s = {} THEN NoRows
                                   ELSE Played(h[s \ {last(s)}], Payload[ts[last(s)][1]])
      <3> HIDE DEF h
      <3> QED
        BY Zenon
    <2> HIDE DEF iter, h
    <2> QED
      BY <1>8, <2>1
  <1> DEFINE f == [i \in 0..n |-> h[1..i]]
  <1> HIDE DEF h, iter, n
  <1>11. f[0] = NoRows
    <2>1. 1..0 = {} /\ {} \in SUBSET (1..n) /\ 0 \in 0..n
      BY <1>1
    <2> QED
      BY <1>10, <2>1
  <1>12. \A i \in 1..n : f[i] = Played(f[i - 1], Payload[ts[i][1]])
    <2> SUFFICES ASSUME NEW i \in 1..n PROVE f[i] = Played(f[i - 1], Payload[ts[i][1]])
      OBVIOUS
    <2>1. h[1..i] = Played(h[1..(i - 1)], Payload[ts[i][1]])
      BY <1>5, <1>10
    <2>2. i \in 0..n /\ i - 1 \in 0..n
      BY <1>1
    <2> QED
      BY <2>1, <2>2
  <1>13. f[n] = History(ts)
    BY <1>1, <1>9
  <1> HIDE DEF f
  <1>14. \A i \in 0..n : f[i] \in Tables
    <2> DEFINE P == {i \in 0..n : f[i] \in Tables}
    <2>1. 0 \in P
      BY <1>1, <1>11, NoRowsIsTables
    <2>2. \A i \in 1..n : i - 1 \in P => i \in P
      BY <1>1, <1>12, PlayedType, TxParts DEF n
    <2>3. \A i \in 0..n : i \in P
      <3> HIDE DEF P
      <3> QED
        BY <1>1, <2>1, <2>2, UpTo
    <2> QED
      BY <2>3
  <1> QED
    BY <1>11, <1>12, <1>13, <1>14 DEF HistoryTurns, n

LEMMA HistoryType ==
  ASSUME NEW ts \in Seq(Txs)
  PROVE  History(ts) \in Tables
  <1>1. PICK f : /\ History(ts) = f[Len(ts)]
                 /\ \A i \in 0..Len(ts) : f[i] \in Tables
    BY HistoryTurnsExist
  <1>2. Len(ts) \in 0..Len(ts)
    OBVIOUS
  <1> QED
    BY <1>1, <1>2

LEMMA NoHistory == History(<<>>) = NoRows
  <1>1. <<>> \in Seq(Txs) /\ Len(<<>>) = 0
    OBVIOUS
  <1>2. PICK f : HistoryTurns(f, <<>>) /\ History(<<>>) = f[0]
    BY <1>1, HistoryTurnsExist
  <1> QED
    BY <1>1, <1>2 DEF HistoryTurns

(* One more transaction at the end of the log is played on what was there. *)
LEMMA LongerHistory ==
  ASSUME NEW ts \in Seq(Txs), NEW u \in Txs
  PROVE  History(Append(ts, u)) = Played(History(ts), Payload[u[1]])
  <1> DEFINE n == Len(ts)
             longer == Append(ts, u)
  <1>1. /\ n \in Nat /\ longer \in Seq(Txs) /\ Len(longer) = n + 1 /\ longer[n + 1] = u
        /\ \A i \in 1..n : longer[i] = ts[i]
    OBVIOUS
  <1> HIDE DEF longer
  <1>2. PICK f : /\ HistoryTurns(f, ts) /\ History(ts) = f[n]
                 /\ \A i \in 0..n : f[i] \in Tables
    BY HistoryTurnsExist
  <1>3. PICK h : HistoryTurns(h, longer) /\ History(longer) = h[n + 1]
    BY <1>1, HistoryTurnsExist
  <1>4. /\ f[0] = NoRows /\ h[0] = NoRows
        /\ \A i \in 1..n : /\ f[i] = Played(f[i - 1], Payload[ts[i][1]])
                            /\ h[i] = Played(h[i - 1], Payload[ts[i][1]])
        /\ h[n + 1] = Played(h[n], Payload[u[1]])
    <2>1. \A i \in 1..(n + 1) : h[i] = Played(h[i - 1], Payload[longer[i][1]])
      BY <1>1, <1>3 DEF HistoryTurns
    <2>2. n + 1 \in 1..(n + 1) /\ (n + 1) - 1 = n /\ \A i \in 1..n : i \in 1..(n + 1)
      BY <1>1
    <2>3. h[n + 1] = Played(h[n], Payload[u[1]])
      BY <1>1, <2>1, <2>2
    <2> QED
      BY <1>1, <1>2, <1>3, <2>1, <2>2, <2>3 DEF HistoryTurns
  <1> HIDE DEF n
  <1> DEFINE P == {i \in 0..n : h[i] = f[i]}
  <1>5. 0 \in P
    <2>1. 0 \in 0..n
      BY <1>1
    <2> QED
      BY <1>4, <2>1
  <1>6. ASSUME NEW i \in 1..n, i - 1 \in P PROVE i \in P
    BY <1>1, <1>4, <1>6
  <1>7. \A i \in 0..n : i \in P
    <2> HIDE DEF P
    <2> QED
      BY <1>1, <1>5, <1>6, UpTo
  <1>8. h[n] = f[n]
    BY <1>1, <1>7
  <1> QED
    BY <1>2, <1>3, <1>4, <1>8 DEF longer

-----------------------------------------------------------------------------
(***************************************************************************)
(* The drafts of the transactions that can still commit.  A row is written *)
(* by one of them at a time, and what it holds is what the loop makes of   *)
(* the committed row, whoever commits other rows meanwhile: this is what   *)
(* locking a row to the end of the transaction buys (188-214).             *)
(***************************************************************************)
LockedOnce ==
    \A t, u \in Txs : \A x \in Rows :
      draft[t][x] # Nil /\ draft[u][x] # Nil => t = u

(* The draft of t holds the rows its first j metrics write. *)
DraftIs(t, j) ==
    \A x \in Rows :
      /\ draft[t][x] # Nil => draft[t][x] = After(db, t[1], j)[x]
      /\ draft[t][x] = Nil => \A i \in 1..j : ~Writes(t[1], i, x)

Finished == \A t \in Txs : tx[t] = "commit" => DraftIs(t, Len(Payload[t[1]]))

(* The loop of r has drafted what it has passed. *)
Drafting(r) ==
    at[r] = "loop" =>
      /\ pos[r] <= Len(Payload[r]) + 1
      /\ r \notin Batches => pos[r] = 1
      /\ DraftIs(Tx(r), pos[r] - 1)

(* A statement on its own locks its row when it is executed, at once ready *)
(* to commit.                                                              *)
NotYet == \A t \in Txs : tx[t] = "active" /\ t[1] \notin Batches => draft[t] = NoRows

DraftInv == /\ LockedOnce /\ Finished /\ NotYet
            /\ \A r \in Requests : Drafting(r)

SerialInv == DraftInv /\ Serializable

LEMMA EmptyDraft ==
  ASSUME NEW t \in Txs, draft[t] = NoRows
  PROVE  DraftIs(t, 0)
  BY DEF DraftIs, NoRows

LEMMA SerialInit == Init => SerialInv
  <1> SUFFICES ASSUME Init PROVE SerialInv
    OBVIOUS
  <1>1. LockedOnce
    BY DEF Init, LockedOnce, NoRows
  <1>2. Serializable
    BY NoHistory DEF Init, Serializable, Replay, History
  <1> QED
    BY <1>1, <1>2 DEF Init, SerialInv, DraftInv, Finished, NotYet, Drafting

LEMMA ReplayIs == Replay = History(log) /\ Replay' = History(log')
  <1>1. Replay = History(log)
    BY Zenon DEF Replay, History
  <1>2. (Replay = History(log))'
    BY <1>1, PTL
  <1> QED
    BY <1>1, <1>2

LEMMA DbIsTables ==
  ASSUME IInv, Serializable
  PROVE  db \in Tables
  BY HistoryType, ReplayIs DEF Serializable, IInv, TypeOK

(* A step that writes no row: it leaves a draft as it is or ends it.       *)
LEMMA SerialKept ==
  ASSUME IInv, SerialInv, UNCHANGED <<db, log>>,
         \A t \in Txs : draft'[t] = draft[t] \/ (draft'[t] = NoRows /\ tx'[t] = "ended"),
         \A t \in Txs : tx'[t] = "commit" =>
           tx[t] = "commit" \/ DraftIs(t, Len(Payload[t[1]])),
         \A t \in Txs : tx'[t] = "active" => tx[t] = "active" \/ draft[t] = NoRows,
         \A q \in Requests : at'[q] = "loop" =>
           /\ Tx(q)' \in Txs /\ tx'[Tx(q)'] # "ended"
           /\ pos'[q] <= Len(Payload[q]) + 1
           /\ q \notin Batches => pos'[q] = 1
           /\ DraftIs(Tx(q)', pos'[q] - 1)
  PROVE  SerialInv'
  <1> USE DEF SerialInv, DraftInv
  <1>1. LockedOnce'
    BY DEF LockedOnce, NoRows
  <1>2. ASSUME NEW t \in Txs, tx'[t] # "ended", NEW j, DraftIs(t, j) PROVE DraftIs(t, j)'
    <2>1. draft'[t] = draft[t] /\ db' = db
      BY <1>2
    <2>2. After(db', t[1], j) = After(db, t[1], j)
      BY <2>1
    <2> QED
      BY <1>2, <2>1, <2>2 DEF DraftIs
  <1>3. Finished'
    BY <1>2 DEF Finished
  <1>4. NotYet'
    BY DEF NotYet
  <1>5. \A r \in Requests : Drafting(r)'
    BY <1>2 DEF Drafting
  <1>6. Serializable'
    BY ReplayIs DEF Serializable
  <1> QED
    BY <1>1, <1>3, <1>4, <1>5, <1>6

(* The upsert of metric j, which no other transaction holds a lock on.     *)
LEMMA WroteRow ==
  ASSUME IInv, SerialInv, NEW t \in Txs, NEW j \in 1..Len(Payload[t[1]]), DraftIs(t, j - 1),
         Payload[t[1]][j].mtype # "unknown", Payload[t[1]][j].val # Nil,
         RowFree(t, Row(Payload[t[1]][j])), InRange(t, Payload[t[1]][j]),
         draft' = [draft EXCEPT ![t][Row(Payload[t[1]][j])] = Upserted(t, Payload[t[1]][j])],
         UNCHANGED db
  PROVE  /\ \A u \in Txs \ {t} : draft'[u] = draft[u]
         /\ LockedOnce' /\ DraftIs(t, j)'
  <1> DEFINE r == t[1]
             m == Payload[r][j]
             w == Row(m)
  <1>1. r \in Requests
    BY TxParts
  <1>2. w \in Rows /\ Upserted(t, m) \in Values
    BY <1>1, UpsertType
  <1>3. Nil \notin Values
    BY ValueAssumption DEF Values
  <1>4. draft \in [Txs -> [Rows -> Values \cup {Nil}]]
    BY DEF IInv, TypeOK
  <1>5. /\ \A u \in Txs \ {t} : draft'[u] = draft[u]
        /\ draft'[t] = [draft[t] EXCEPT ![w] = Upserted(t, m)]
    BY <1>2, <1>4
  <1>6. \A x \in Rows : draft'[t][x] = IF x = w THEN Upserted(t, m) ELSE draft[t][x]
    BY <1>2, <1>4, <1>5
  <1>7. LockedOnce'
    <2> SUFFICES ASSUME NEW u \in Txs, NEW v \in Txs, NEW x \in Rows,
                        draft'[u][x] # Nil, draft'[v][x] # Nil
                 PROVE  u = v
      BY DEF LockedOnce
    <2>1. CASE x = w
      BY <1>5, <2>1 DEF RowFree
    <2>2. CASE x # w
      BY <1>5, <1>6, <2>2 DEF LockedOnce, DraftInv, SerialInv
    <2> QED
      BY <2>1, <2>2
  <1>8. /\ j \in Nat /\ j - 1 \in 0..Len(Payload[r]) /\ (j - 1) + 1 = j
        /\ \A i \in 1..j : i \in 1..(j - 1) \/ i = j
    BY <1>1, PayloadIs
  <1>9. db \in Tables
    BY DbIsTables DEF SerialInv
  <1>10. /\ After(db, r, j) = ApplyRow(After(db, r, j - 1), m)
         /\ After(db, r, j - 1) \in Tables
    BY <1>1, <1>8, <1>9, LoopTurns
  <1>11. \A x \in Rows : Writes(r, j, x) <=> x = w
    BY DEF Writes
  <1>12. Current(t, w) = After(db, r, j - 1)[w]
    <2>1. CASE draft[t][w] # Nil
      BY <1>2, <2>1 DEF Current, DraftIs
    <2>2. CASE draft[t][w] = Nil
      <3>1. \A i \in 1..(j - 1) : ~Writes(r, i, w)
        BY <1>2, <2>2 DEF DraftIs
      <3>2. After(db, r, j - 1)[w] = db[w]
        BY <1>1, <1>2, <1>8, <1>9, <3>1, RowNotWritten
      <3> QED
        BY <2>2, <3>2 DEF Current
    <2> QED
      BY <2>1, <2>2
  <1>13. After(db, r, j)[w] = Upserted(t, m)
    BY <1>1, <1>2, <1>10, <1>11, <1>12, RowAfterOne DEF Upserted
  <1>14. ASSUME NEW x \in Rows, x # w PROVE After(db, r, j)[x] = After(db, r, j - 1)[x]
    BY <1>1, <1>10, <1>11, <1>14, RowAfterOne
  <1>15. DraftIs(t, j)'
    <2> SUFFICES ASSUME NEW x \in Rows
                 PROVE  /\ draft'[t][x] # Nil => draft'[t][x] = After(db, r, j)[x]
                        /\ draft'[t][x] = Nil => \A i \in 1..j : ~Writes(r, i, x)
      BY DEF DraftIs
    <2>1. CASE x = w
      BY <1>2, <1>3, <1>6, <1>13, <2>1
    <2>2. CASE x # w
      <3>1. draft'[t][x] = draft[t][x]
        BY <1>6, <2>2
      <3>2. draft[t][x] # Nil => draft[t][x] = After(db, r, j)[x]
        BY <1>14, <2>2 DEF DraftIs
      <3>3. draft[t][x] = Nil => \A i \in 1..j : ~Writes(r, i, x)
        BY <1>8, <1>11, <2>2 DEF DraftIs
      <3> QED
        BY <3>1, <3>2, <3>3
    <2> QED
      BY <2>1, <2>2
  <1> QED
    BY <1>5, <1>7, <1>15

(* COMMIT: the committed rows become what the loop of t makes of them, and *)
(* the drafts of others stay what their loops make of them.                *)
LEMMA SerialCommit ==
  ASSUME IInv, SerialInv, NEW t \in Txs, Commit(t)
  PROVE  SerialInv'
  <1> DEFINE r == t[1]
             n == Len(Payload[r])
  <1>1. /\ tx[t] = "commit" /\ log' = Append(log, t)
        /\ db' = [x \in Rows |-> IF draft[t][x] # Nil THEN draft[t][x] ELSE db[x]]
        /\ tx' = [tx EXCEPT ![t] = IF t \in broken THEN "ended" ELSE "committed"]
        /\ draft' = [draft EXCEPT ![t] = NoRows]
        /\ UNCHANGED <<broken, at, attempt, pos>>
    BY DEF Commit, Unlocked, callVars
  <1>2. /\ \A u \in Txs : u # t => tx'[u] = tx[u] /\ draft'[u] = draft[u]
        /\ tx'[t] \in {"ended", "committed"} /\ draft'[t] = NoRows
    BY <1>1 DEF IInv, TypeOK
  <1>3. r \in Requests /\ n \in Nat /\ n \in 0..n
    BY TxParts, PayloadIs
  <1>4. db \in Tables /\ log \in Seq(Txs)
    BY DbIsTables DEF SerialInv, IInv, TypeOK
  <1>5. After(db, r, n) \in Tables /\ After(db, r, n) = Played(db, Payload[r])
    BY <1>3, <1>4, LoopTurns
  <1>6. db' = Played(db, Payload[r])
    <2>1. DraftIs(t, n)
      BY <1>1 DEF SerialInv, DraftInv, Finished
    <2>2. ASSUME NEW x \in Rows PROVE db'[x] = After(db, r, n)[x]
      <3>1. CASE draft[t][x] # Nil
        BY <1>1, <2>1, <3>1 DEF DraftIs
      <3>2. CASE draft[t][x] = Nil
        <4>1. \A i \in 1..n : ~Writes(r, i, x)
          BY <2>1, <3>2 DEF DraftIs
        <4>2. After(db, r, n)[x] = db[x]
          BY <1>3, <1>4, <4>1, RowNotWritten
        <4> QED
          BY <1>1, <3>2, <4>2
      <3> QED
        BY <3>1, <3>2
    <2>3. db' = [x \in Rows |-> db'[x]] /\ After(db, r, n) = [x \in Rows |-> After(db, r, n)[x]]
      <3>1. DOMAIN db' = Rows
        BY <1>1
      <3> QED
        BY <1>1, <1>5 DEF Tables
    <2> HIDE DEF n, r
    <2> QED
      BY <1>5, <2>2, <2>3
  <1>7. Serializable'
    <2>1. History(log') = Played(History(log), Payload[r])
      BY <1>1, <1>4, LongerHistory
    <2> QED
      BY <1>6, <2>1, ReplayIs DEF SerialInv, Serializable
  <1>8. db' \in Tables
    BY <1>5, <1>6
  <1>9. LockedOnce'
    BY <1>2 DEF LockedOnce, NoRows, SerialInv, DraftInv
  <1>10. ASSUME NEW u \in Txs, u # t, NEW j \in 0..Len(Payload[u[1]]), DraftIs(u, j)
         PROVE  DraftIs(u, j)'
    <2> SUFFICES ASSUME NEW x \in Rows
                 PROVE  /\ draft'[u][x] # Nil => draft'[u][x] = After(db', u[1], j)[x]
                        /\ draft'[u][x] = Nil => \A i \in 1..j : ~Writes(u[1], i, x)
      BY DEF DraftIs
    <2>1. draft'[u] = draft[u] /\ u[1] \in Requests
      BY <1>2, <1>10, TxParts
    <2>2. CASE draft[u][x] = Nil
      BY <1>10, <2>1, <2>2 DEF DraftIs
    <2>3. CASE draft[u][x] # Nil
      <3>1. draft[t][x] = Nil
        BY <1>10, <2>3 DEF SerialInv, DraftInv, LockedOnce
      <3>2. db'[x] = db[x]
        BY <1>1, <3>1
      <3>3. After(db', u[1], j)[x] = After(db, u[1], j)[x]
        <4> DEFINE after == db'
        <4>1. after \in Tables /\ after[x] = db[x]
          BY <1>8, <3>2
        <4> HIDE DEF after
        <4>2. After(after, u[1], j)[x] = After(db, u[1], j)[x]
          BY <1>4, <1>10, <2>1, <4>1, RowsApart
        <4> QED
          BY <4>2 DEF after
      <3> QED
        BY <1>10, <2>1, <2>3, <3>3 DEF DraftIs
    <2> QED
      BY <2>2, <2>3
  <1>11. Finished'
    <2> SUFFICES ASSUME NEW u \in Txs, tx'[u] = "commit"
                 PROVE  DraftIs(u, Len(Payload[u[1]]))'
      BY DEF Finished
    <2>1. u # t /\ tx[u] = "commit"
      BY <1>2
    <2>2. Len(Payload[u[1]]) \in 0..Len(Payload[u[1]])
      BY TxParts, PayloadIs
    <2> QED
      BY <1>10, <2>1, <2>2 DEF SerialInv, DraftInv, Finished
  <1>12. NotYet'
    BY <1>2 DEF NotYet, SerialInv, DraftInv
  <1>13. ASSUME NEW q \in Requests PROVE Drafting(q)'
    <2> SUFFICES ASSUME at'[q] = "loop"
                 PROVE  /\ pos'[q] <= Len(Payload[q]) + 1
                        /\ q \notin Batches => pos'[q] = 1
                        /\ DraftIs(Tx(q), pos[q] - 1)'
      BY DEF Drafting
    <2>1. /\ at[q] = "loop" /\ pos'[q] = pos[q] /\ Tx(q)' = Tx(q) /\ Tx(q) \in Txs /\ Tx(q)[1] = q
          /\ pos[q] \in Nat \ {0} /\ tx[Tx(q)] = "active"
      BY <1>1, TxCurrent DEF Tx, IInv, TypeOK, CallInv
    <2>2. /\ pos[q] <= Len(Payload[q]) + 1
          /\ q \notin Batches => pos[q] = 1
          /\ DraftIs(Tx(q), pos[q] - 1)
      BY <2>1 DEF SerialInv, DraftInv, Drafting
    <2>3. Tx(q) # t
      BY <1>1, <2>1
    <2>4. pos[q] - 1 \in 0..Len(Payload[Tx(q)[1]])
      BY <2>1, <2>2, PayloadIs
    <2>5. DraftIs(Tx(q), pos[q] - 1)'
      <3> DEFINE u == Tx(q)
                 j == pos[q] - 1
      <3>1. u \in Txs /\ u # t /\ j \in 0..Len(Payload[u[1]]) /\ DraftIs(u, j) /\ u' = u /\ j' = j
        BY <1>1, <2>1, <2>2, <2>3, <2>4
      <3> HIDE DEF u, j
      <3>2. DraftIs(u, j)'
        BY <1>10, <3>1 DEF DraftIs
      <3> QED
        BY <3>2 DEF u, j
    <2> QED
      BY <2>1, <2>2, <2>5
  <1> QED
    BY <1>7, <1>9, <1>11, <1>12, <1>13 DEF SerialInv, DraftInv

(* A statement on its own that was late. *)
LEMMA SerialLate ==
  ASSUME IInv, SerialInv, NEW t \in Txs, LateStatement(t)
  PROVE  SerialInv'
  <1>1. /\ tx[t] = "active" /\ t \in broken /\ t[1] \in Requests \ Batches
        /\ RowFree(t, Row(Payload[t[1]][1])) /\ InRange(t, Payload[t[1]][1])
        /\ draft' = [draft EXCEPT ![t][Row(Payload[t[1]][1])] = Upserted(t, Payload[t[1]][1])]
        /\ tx' = [tx EXCEPT ![t] = "commit"]
        /\ UNCHANGED <<db, log, broken, at, attempt, pos>>
    BY TxParts DEF LateStatement, callVars
  <1>2. /\ Len(Payload[t[1]]) = 1 /\ 1 \in 1..Len(Payload[t[1]])
        /\ Payload[t[1]][1].mtype # "unknown" /\ Payload[t[1]][1].val # Nil
    BY <1>1, PostgresAssumption
  <1>3. DraftIs(t, 1 - 1)
    BY <1>1, EmptyDraft DEF SerialInv, DraftInv, NotYet
  <1>4. /\ \A u \in Txs \ {t} : draft'[u] = draft[u]
        /\ LockedOnce' /\ DraftIs(t, 1)'
    BY <1>1, <1>2, <1>3, WroteRow
  <1>5. tx'[t] = "commit" /\ \A u \in Txs \ {t} : tx'[u] = tx[u]
    BY <1>1 DEF IInv, TypeOK
  <1>6. ASSUME NEW u \in Txs \ {t}, NEW j, DraftIs(u, j) PROVE DraftIs(u, j)'
    <2>1. draft'[u] = draft[u] /\ After(db', u[1], j) = After(db, u[1], j)
      BY <1>1, <1>4
    <2> QED
      BY <1>6, <2>1 DEF DraftIs
  <1>7. Finished'
    BY <1>2, <1>4, <1>5, <1>6 DEF SerialInv, DraftInv, Finished
  <1>8. NotYet'
    BY <1>4, <1>5 DEF SerialInv, DraftInv, NotYet
  <1>9. ASSUME NEW q \in Requests PROVE Drafting(q)'
    <2>1. at[q] = "loop" => Tx(q) \in Txs \ {t}
      BY <1>1, TxCurrent DEF IInv, CallInv
    <2>2. at'[q] = at[q] /\ pos'[q] = pos[q] /\ Tx(q)' = Tx(q)
      BY <1>1 DEF Tx
    <2> QED
      BY <1>6, <2>1, <2>2 DEF SerialInv, DraftInv, Drafting
  <1>10. Serializable'
    BY <1>1, ReplayIs DEF SerialInv, Serializable
  <1> QED
    BY <1>4, <1>7, <1>8, <1>9, <1>10 DEF SerialInv, DraftInv

LEMMA SerialExec ==
  ASSUME IInv, SerialInv, NEW r \in Requests, Exec(r)
  PROVE  SerialInv'
  <1>0. pos[r] \in 1..Len(Payload[r])
    BY PayloadIs DEF Exec, AtStatement, InLoop, IInv, TypeOK
  <1>1. PICK t \in Txs, j \in 1..Len(Payload[r]) : t = Tx(r) /\ j = pos[r]
    BY <1>0, TxCurrent
  <1>2. /\ at[r] = "loop"
        /\ Payload[r][j].mtype # "unknown" /\ Payload[r][j].val # Nil
        /\ RowFree(t, Row(Payload[r][j])) /\ InRange(t, Payload[r][j])
        /\ draft' = [draft EXCEPT ![t][Row(Payload[r][j])] = Upserted(t, Payload[r][j])]
        /\ pos' = [pos EXCEPT ![r] = @ + 1]
        /\ UNCHANGED <<db, log, broken, attempt>>
    BY <1>1 DEF Exec, AtStatement, InLoop, Here
  <1>3. t[1] = r /\ tx[t] = "active"
    BY <1>1, <1>2, TxCurrent DEF IInv, CallInv
  <1>4. DraftIs(t, j - 1) /\ (r \notin Batches => j = 1)
    BY <1>1, <1>2 DEF SerialInv, DraftInv, Drafting
  <1>5. /\ \A u \in Txs \ {t} : draft'[u] = draft[u]
        /\ LockedOnce' /\ DraftIs(t, j)'
    BY <1>2, <1>3, <1>4, WroteRow
  <1>6. ASSUME NEW u \in Txs \ {t}, NEW k, DraftIs(u, k) PROVE DraftIs(u, k)'
    <2>1. draft'[u] = draft[u] /\ After(db', u[1], k) = After(db, u[1], k)
      BY <1>2, <1>5
    <2> QED
      BY <1>6, <2>1 DEF DraftIs
  <1>7. /\ \A u \in Txs \ {t} : tx'[u] = tx[u]
        /\ r \in Batches => tx'[t] = "active"
        /\ r \notin Batches => tx'[t] = "commit" /\ at'[r] = "committing"
        /\ \A q \in Requests \ {r} : at'[q] = at[q] /\ pos'[q] = pos[q]
        /\ pos'[r] = j + 1
        /\ \A q \in Requests : Tx(q)' = Tx(q)
    <2>1. \A q \in Requests : Tx(q)' = Tx(q)
      BY <1>2 DEF Tx
    <2>2. \A q \in Requests \ {r} : at'[q] = at[q] /\ pos'[q] = pos[q]
      BY <1>2 DEF Exec, IInv, TypeOK
    <2>3. pos'[r] = j + 1
      BY <1>1, <1>2 DEF IInv, TypeOK
    <2>4. /\ \A u \in Txs \ {t} : tx'[u] = tx[u]
          /\ r \in Batches => tx'[t] = "active"
          /\ r \notin Batches => tx'[t] = "commit" /\ at'[r] = "committing"
      BY <1>1, <1>3 DEF Exec, IInv, TypeOK
    <2> QED
      BY <2>1, <2>2, <2>3, <2>4
  <1>8. Finished'
    <2> SUFFICES ASSUME NEW u \in Txs, tx'[u] = "commit"
                 PROVE  DraftIs(u, Len(Payload[u[1]]))'
      BY DEF Finished
    <2>1. CASE u = t
      <3>1. r \notin Batches /\ Len(Payload[r]) = 1 /\ j = 1
        BY <1>4, <1>7, <2>1, PostgresAssumption
      <3> QED
        BY <1>3, <1>5, <2>1, <3>1
    <2>2. CASE u # t
      BY <1>6, <1>7, <2>2 DEF SerialInv, DraftInv, Finished
    <2> QED
      BY <2>1, <2>2
  <1>9. NotYet'
    <2> SUFFICES ASSUME NEW u \in Txs, tx'[u] = "active", u[1] \notin Batches
                 PROVE  draft'[u] = NoRows
      BY DEF NotYet
    <2> QED
      BY <1>3, <1>5, <1>7 DEF SerialInv, DraftInv, NotYet
  <1>10. ASSUME NEW q \in Requests, at'[q] = "loop"
         PROVE  /\ pos'[q] <= Len(Payload[q]) + 1
                /\ q \notin Batches => pos'[q] = 1
                /\ DraftIs(Tx(q), pos[q] - 1)'
    <2>1. CASE q = r
      <3>1. r \in Batches /\ pos'[q] - 1 = j /\ pos'[q] <= Len(Payload[q]) + 1 /\ Tx(q)' = t
        BY <1>1, <1>7, <1>10, <2>1, PayloadIs
      <3> QED
        BY <1>5, <2>1, <3>1
    <2>2. CASE q # r
      <3>1. Tx(q) \in Txs \ {t}
        BY <1>3, <2>2, TxCurrent
      <3>2. at[q] = "loop" /\ pos'[q] = pos[q] /\ Tx(q)' = Tx(q)
        BY <1>7, <1>10, <2>2
      <3> QED
        BY <1>6, <3>1, <3>2 DEF SerialInv, DraftInv, Drafting
    <2> QED
      BY <2>1, <2>2
  <1>11. \A q \in Requests : Drafting(q)'
    BY <1>10 DEF Drafting
  <1>12. Serializable'
    BY <1>2, ReplayIs DEF SerialInv, Serializable
  <1> QED
    BY <1>5, <1>8, <1>9, <1>11, <1>12 DEF SerialInv, DraftInv

(* A step of the call of r that writes no row. *)
LEMMA SerialCall ==
  ASSUME IInv, SerialInv, NEW r \in Requests, UNCHANGED <<db, log>>,
         \A q \in Requests \ {r} : /\ at'[q] = at[q] /\ pos'[q] = pos[q]
                                   /\ attempt'[q] = attempt[q],
         \A t \in Txs \ {Tx(r)} : tx'[t] = tx[t] /\ draft'[t] = draft[t],
         draft'[Tx(r)] = draft[Tx(r)] \/ (draft'[Tx(r)] = NoRows /\ tx'[Tx(r)] = "ended"),
         tx'[Tx(r)] = "commit" => tx[Tx(r)] = "commit" \/ DraftIs(Tx(r), Len(Payload[r])),
         tx'[Tx(r)] = "active" => tx[Tx(r)] = "active" \/ draft[Tx(r)] = NoRows,
         at'[r] = "loop" => /\ Tx(r)' = Tx(r) /\ tx'[Tx(r)] # "ended"
                            /\ pos'[r] <= Len(Payload[r]) + 1
                            /\ r \notin Batches => pos'[r] = 1
                            /\ DraftIs(Tx(r), pos'[r] - 1)
  PROVE  SerialInv'
  <1>1. \A q \in Requests : Tx(q) \in Txs /\ Tx(q)[1] = q
    BY TxCurrent
  <1>2. ASSUME NEW q \in Requests, at'[q] = "loop"
        PROVE  /\ Tx(q)' \in Txs /\ tx'[Tx(q)'] # "ended"
               /\ pos'[q] <= Len(Payload[q]) + 1
               /\ q \notin Batches => pos'[q] = 1
               /\ DraftIs(Tx(q)', pos'[q] - 1)
    <2>1. CASE q = r
      BY <1>1, <1>2, <2>1
    <2>2. CASE q # r
      <3>1. Tx(q)' = Tx(q) /\ Tx(q) \in Txs \ {Tx(r)} /\ at[q] = "loop" /\ pos'[q] = pos[q]
        BY <1>1, <1>2, <2>2 DEF Tx
      <3>2. tx'[Tx(q)] = "active"
        BY <3>1 DEF IInv, CallInv
      <3> QED
        BY <3>1, <3>2 DEF SerialInv, DraftInv, Drafting
    <2> QED
      BY <2>1, <2>2
  <1>3. \A t \in Txs : draft'[t] = draft[t] \/ (draft'[t] = NoRows /\ tx'[t] = "ended")
    OBVIOUS
  <1>4. \A t \in Txs : tx'[t] = "commit" => tx[t] = "commit" \/ DraftIs(t, Len(Payload[t[1]]))
    BY <1>1
  <1>5. \A t \in Txs : tx'[t] = "active" => tx[t] = "active" \/ draft[t] = NoRows
    OBVIOUS
  <1> QED
    BY <1>2, <1>3, <1>4, <1>5, SerialKept

(* An error of batchUpdateTx with the connection intact. *)
LEMMA SerialRolledBack ==
  ASSUME IInv, SerialInv, NEW r \in Requests,
         RolledBack(r), Fails(r, FALSE), UNCHANGED <<db, log>>
  PROVE  SerialInv'
  <1>1. Tx(r) \in Txs
    BY TxCurrent
  <1>2. /\ tx'[Tx(r)] = "ended" /\ draft'[Tx(r)] = NoRows
        /\ \A t \in Txs \ {Tx(r)} : tx'[t] = tx[t] /\ draft'[t] = draft[t]
    BY <1>1 DEF RolledBack, Unlocked, IInv, TypeOK
  <1>3. /\ \A q \in Requests \ {r} : at'[q] = at[q] /\ pos'[q] = pos[q] /\ attempt'[q] = attempt[q]
        /\ at'[r] # "loop"
    BY DEF Fails, HasDelay, IInv, TypeOK
  <1> QED
    BY <1>2, <1>3, SerialCall

LEMMA SerialDiscard ==
  ASSUME IInv, SerialInv, NEW t \in Txs, Discard(t)
  PROVE  SerialInv'
  <1>1. /\ t \in broken /\ tx'[t] = "ended" /\ draft'[t] = NoRows
        /\ \A u \in Txs \ {t} : tx'[u] = tx[u] /\ draft'[u] = draft[u]
        /\ UNCHANGED <<db, log, at, attempt, pos>>
    BY DEF Discard, Unlocked, callVars, IInv, TypeOK
  <1>2. ASSUME NEW q \in Requests, at'[q] = "loop"
        PROVE  /\ Tx(q)' \in Txs /\ tx'[Tx(q)'] # "ended"
               /\ pos'[q] <= Len(Payload[q]) + 1
               /\ q \notin Batches => pos'[q] = 1
               /\ DraftIs(Tx(q)', pos'[q] - 1)
    <2>1. Tx(q)' = Tx(q) /\ pos'[q] = pos[q] /\ at[q] = "loop" /\ Tx(q) \in Txs
      BY <1>1, <1>2, TxCurrent DEF Tx
    <2>2. Tx(q) # t /\ tx[Tx(q)] = "active"
      BY <1>1, <2>1 DEF IInv, CallInv
    <2> QED
      BY <1>1, <2>1, <2>2 DEF SerialInv, DraftInv, Drafting
  <1>3. \A u \in Txs : draft'[u] = draft[u] \/ (draft'[u] = NoRows /\ tx'[u] = "ended")
    BY <1>1
  <1>4. \A u \in Txs : tx'[u] # "ended" => tx'[u] = tx[u]
    BY <1>1
  <1> QED
    BY <1>1, <1>2, <1>3, <1>4, SerialKept

LEMMA SerialBegin ==
  ASSUME IInv, SerialInv, KnownInv, NEW r \in Requests, Begin(r)
  PROVE  SerialInv'
  <1>1. /\ at[r] = "open" /\ tx[Tx(r)] = "none" /\ Tx(r) \in Txs /\ pos[r] = 1
    BY TxCurrent DEF Begin, IInv, CallInv, KnownInv
  <1>2. draft[Tx(r)] = NoRows
    BY <1>1 DEF IInv, TxInv, Live
  <1>3. /\ tx' = [tx EXCEPT ![Tx(r)] = "active"]
        /\ at' = [at EXCEPT ![r] = "loop"]
        /\ UNCHANGED <<db, draft, log, broken, attempt, pos>>
    BY DEF Begin
  <1>4. /\ \A q \in Requests \ {r} : at'[q] = at[q] /\ pos'[q] = pos[q] /\ attempt'[q] = attempt[q]
        /\ \A t \in Txs \ {Tx(r)} : tx'[t] = tx[t] /\ draft'[t] = draft[t]
        /\ tx'[Tx(r)] = "active" /\ Tx(r)' = Tx(r) /\ pos'[r] = 1
    BY <1>1, <1>3 DEF IInv, TypeOK, Tx
  <1>5. DraftIs(Tx(r), pos'[r] - 1)
    <2>1. pos'[r] - 1 = 0
      BY <1>4
    <2> QED
      BY <1>1, <1>2, <2>1, EmptyDraft
  <1>6. 1 <= Len(Payload[r]) + 1
    BY PayloadIs
  <1> QED
    BY <1>2, <1>3, <1>4, <1>5, <1>6, SerialCall

(* A metric without a value is no statement (190, 201). *)
LEMMA SerialSkipNil ==
  ASSUME IInv, SerialInv, NEW r \in Requests, SkipNil(r)
  PROVE  SerialInv'
  <1>0. pos[r] \in 1..Len(Payload[r])
    BY PayloadIs DEF SkipNil, InLoop, IInv, TypeOK
  <1>1. PICK j \in 1..Len(Payload[r]) : j = pos[r]
    BY <1>0
  <1>2. /\ at[r] = "loop" /\ Payload[r][j].val = Nil
        /\ pos' = [pos EXCEPT ![r] = @ + 1]
        /\ UNCHANGED <<db, tx, draft, log, broken, at, attempt>>
    BY <1>1 DEF SkipNil, InLoop, Here, serverVars
  <1>3. Tx(r) \in Txs /\ Tx(r)[1] = r /\ tx[Tx(r)] = "active"
    BY <1>2, TxCurrent DEF IInv, CallInv
  <1>4. r \in Batches
    BY <1>2, PostgresAssumption
  <1>5. /\ j \in Nat /\ Len(Payload[r]) \in Nat /\ j - 1 \in 0..Len(Payload[r])
        /\ \A i \in 1..j : i \in 1..(j - 1) \/ i = j
    BY PayloadIs
  <1>6. ASSUME NEW x \in Rows
        PROVE  ~Writes(r, j, x) /\ After(db, r, j)[x] = After(db, r, j - 1)[x]
    <2>1. ~Writes(r, j, x)
      BY <1>2 DEF Writes
    <2>2. db \in Tables
      BY DbIsTables DEF SerialInv
    <2>3. After(db, r, j) = ApplyRow(After(db, r, j - 1), Payload[r][j])
          /\ After(db, r, j - 1) \in Tables
      BY <1>5, <2>2, LoopTurns
    <2> QED
      BY <2>1, <2>3, RowAfterOne
  <1>7. DraftIs(Tx(r), j)
    <2>1. DraftIs(Tx(r), j - 1)
      BY <1>1, <1>2 DEF SerialInv, DraftInv, Drafting
    <2> QED
      BY <1>3, <1>5, <1>6, <2>1 DEF DraftIs
  <1>8. /\ \A q \in Requests \ {r} : pos'[q] = pos[q]
        /\ pos'[r] = j + 1 /\ pos'[r] - 1 = j /\ pos'[r] <= Len(Payload[r]) + 1
    BY <1>1, <1>2, <1>5 DEF IInv, TypeOK
  <1>9. Tx(r)' = Tx(r)
    BY <1>2 DEF Tx
  <1> QED
    BY <1>2, <1>3, <1>4, <1>7, <1>8, <1>9, SerialCall

LEMMA SerialSendCommit ==
  ASSUME IInv, SerialInv, NEW r \in Requests, SendCommit(r)
  PROVE  SerialInv'
  <1>1. /\ at[r] = "loop" /\ pos[r] > Len(Payload[r]) /\ Tx(r) \in Txs
        /\ tx' = [tx EXCEPT ![Tx(r)] = "commit"]
        /\ at' = [at EXCEPT ![r] = "committing"]
        /\ UNCHANGED <<db, draft, log, broken, attempt, pos>>
    BY TxCurrent DEF SendCommit
  <1>2. pos[r] - 1 = Len(Payload[r])
    BY <1>1, PayloadIs DEF SerialInv, DraftInv, Drafting, IInv, TypeOK
  <1>3. DraftIs(Tx(r), Len(Payload[r]))
    BY <1>1, <1>2 DEF SerialInv, DraftInv, Drafting
  <1>4. /\ \A q \in Requests \ {r} : at'[q] = at[q]
        /\ \A t \in Txs \ {Tx(r)} : tx'[t] = tx[t]
        /\ tx'[Tx(r)] = "commit" /\ at'[r] = "committing"
    BY <1>1 DEF IInv, TypeOK
  <1> QED
    BY <1>1, <1>3, <1>4, SerialCall

(* An answer, an error of the connection, a delay. *)
LEMMA SerialAnswered ==
  ASSUME IInv, SerialInv, NEW r \in Requests,
         \/ Returns(r) \/ DelayOver(r) \/ CtxDone(r)
         \/ \E class08 \in BOOLEAN : BeginFails(r, class08) \/ ConnError(r, class08)
  PROVE  SerialInv'
  <1>1. /\ UNCHANGED <<db, log, draft>> /\ at'[r] # "loop"
        /\ \A q \in Requests \ {r} : at'[q] = at[q] /\ pos'[q] = pos[q] /\ attempt'[q] = attempt[q]
    BY DEF Returns, DelayOver, CtxDone, BeginFails, ConnError, Breaks, Fails, HasDelay, serverVars,
           IInv, TypeOK
  <1>2. /\ \A t \in Txs \ {Tx(r)} : tx'[t] = tx[t]
        /\ tx'[Tx(r)] \in {tx[Tx(r)], "ended"}
    BY TxCurrent DEF Returns, DelayOver, CtxDone, BeginFails, ConnError, Breaks, serverVars,
           IInv, TypeOK
  <1> QED
    BY <1>1, <1>2, SerialCall

LEMMA SerialStep == IInv /\ KnownInv /\ SerialInv /\ [Next]_pgVars => SerialInv'
  <1> SUFFICES ASSUME IInv, KnownInv, SerialInv, [Next]_pgVars PROVE SerialInv'
    OBVIOUS
  <1>1. CASE UNCHANGED pgVars
    <2>1. UNCHANGED <<db, tx, draft, log, at, attempt, pos>> /\ \A q \in Requests : Tx(q)' = Tx(q)
      BY <1>1 DEF pgVars, serverVars, callVars, Tx
    <2>2. ASSUME NEW q \in Requests, at'[q] = "loop"
          PROVE  /\ Tx(q)' \in Txs /\ tx'[Tx(q)'] # "ended"
                 /\ pos'[q] <= Len(Payload[q]) + 1
                 /\ q \notin Batches => pos'[q] = 1
                 /\ DraftIs(Tx(q)', pos'[q] - 1)
      BY <2>1, <2>2, TxCurrent DEF SerialInv, DraftInv, Drafting, IInv, CallInv
    <2> QED
      BY <2>1, <2>2, SerialKept
  <1>2. ASSUME NEW t \in Txs, Commit(t) \/ Discard(t) \/ LateStatement(t) PROVE SerialInv'
    BY <1>2, SerialCommit, SerialDiscard, SerialLate
  <1>3. ASSUME NEW r \in Requests, Proceeds(r) PROVE SerialInv'
    <2>1. CASE Begin(r) \/ SkipNil(r) \/ Exec(r) \/ SendCommit(r)
      BY <2>1, SerialBegin, SerialSkipNil, SerialExec, SerialSendCommit
    <2>2. CASE UnknownType(r) \/ OutOfRange(r) \/ DeadlockVictim(r)
      BY <2>2, SerialRolledBack DEF UnknownType, OutOfRange, DeadlockVictim
    <2>3. CASE Returns(r) \/ DelayOver(r)
      BY <2>3, SerialAnswered
    <2> QED
      BY <1>3, <2>1, <2>2, <2>3 DEF Proceeds
  <1>4. ASSUME NEW r \in Requests, Disturbed(r) PROVE SerialInv'
    BY <1>4, SerialAnswered DEF Disturbed
  <1> QED
    BY <1>1, <1>2, <1>3, <1>4 DEF Next

(* The tables are those of the committed requests one after the other, for *)
(* any batches, any number of transactions at a time and any broken        *)
(* connections (96-97, 188-214): no delta is lost and none is half there.  *)
THEOREM CommitsSerialize == Spec => []Serializable
  <1>1. SerialInv => Serializable
    BY DEF SerialInv
  <1> QED
    BY <1>1, InitInv, InvStep, KnownInit, KnownStep, SerialInit, SerialStep, PTL DEF Spec

-----------------------------------------------------------------------------
(***************************************************************************)
(* Why every call returns.  NeverStuck says that there is always a next    *)
(* step while a call is out, and StepsAdvance that every step takes a call *)
(* or a transaction further along a road that ends; that a step which can  *)
(* be taken is taken is the fairness of Spec, and left to the runs.        *)
(***************************************************************************)

(* A statement of the loop is about a row. *)
LEMMA StatementRow ==
  ASSUME IInv, NEW r \in Requests, AtStatement(r)
  PROVE  Row(Here(r)) \in Rows
  <1>1. pos[r] \in 1..Len(Payload[r])
    BY PayloadType DEF IInv, TypeOK, AtStatement, InLoop
  <1>2. Here(r) \in Metric /\ Here(r).mtype # "unknown"
    BY <1>1, PayloadType DEF AtStatement, Here
  <1> QED
    BY <1>2 DEF Metric, MetricTypes, Row, Rows

(* A row that is locked against r is locked by a live transaction of       *)
(* another call, if no client is gone.                                     *)
LEMMA LockedByOther ==
  ASSUME IInv, NEW r \in Requests, AtStatement(r), ~RowFree(Tx(r), Row(Here(r))),
         \A t \in Txs : ~(Live(t) /\ t \in broken)
  PROVE  \E q \in Requests : WaitsFor(r, q) /\ at[q] \in {"loop", "committing"}
  <1>1. PICK t \in Txs \ {Tx(r)} : draft[t][Row(Here(r))] # Nil
    BY DEF RowFree
  <1>2. Row(Here(r)) \in Rows
    BY StatementRow
  <1>3. Live(t) /\ t \notin broken
    BY <1>1, <1>2 DEF IInv, TxInv, NoRows
  <1>4. t = Tx(t[1]) /\ at[t[1]] \in {"loop", "committing"}
    BY <1>3 DEF IInv, TxInv, Connected, Live
  <1>5. t[1] \in Requests /\ t[1] # r
    BY <1>1, <1>4, TxParts
  <1> QED
    BY <1>1, <1>3, <1>4, <1>5 DEF WaitsFor

(* A full pool is full of calls that are at work: the pool has room for    *)
(* one at least.                                                           *)
LEMMA FullPool ==
  ASSUME IInv, ~(Cardinality(Connected) < MaxConns)
  PROVE  \E q \in Requests : at[q] \in {"loop", "committing"}
  <1>1. Connected # {}
    BY ConnectedFinite, FS_EmptySet, PostgresAssumption
  <1>2. PICK t \in Connected : TRUE
    BY <1>1
  <1>3. t \in Txs
    BY DEF Connected
  <1> QED
    BY <1>2, <1>3, TxParts DEF IInv, TxInv

(* Calls that all wait for one another contain some that are waited for as *)
(* well, every one of them: a smallest such group is a cycle.              *)
ClosedUnderWaiting(S) == S # {} /\ \A q \in S : \E p \in S : WaitsFor(q, p)

LEMMA CycleExists ==
  ASSUME NEW W \in SUBSET Requests, ClosedUnderWaiting(W)
  PROVE  \E S \in SUBSET W :
           /\ ClosedUnderWaiting(S)
           /\ \A q \in S : \E p \in S : WaitsFor(p, q)
  <1> DEFINE T == {S \in SUBSET W : ClosedUnderWaiting(S)}
  <1>1. IsFiniteSet(W)
    BY PostgresAssumption, FS_Subset
  <1>2. T \subseteq SUBSET W /\ T # {}
    OBVIOUS
  <1>3. PICK S \in T : \A u \in T : u \subseteq S => u = S
    <2> HIDE DEF T
    <2> QED
      BY <1>1, <1>2, SmallestSubset
  <1> DEFINE U == {q \in S : \E p \in S : WaitsFor(p, q)}
  <1>4. U \in T
    <2>1. \A q \in S : \E p \in U : WaitsFor(q, p)
      BY <1>3 DEF ClosedUnderWaiting
    <2>2. U # {}
      BY <1>3, <2>1 DEF ClosedUnderWaiting
    <2> QED
      BY <1>3, <2>1, <2>2 DEF ClosedUnderWaiting
  <1>5. U = S
    BY <1>3, <1>4
  <1> QED
    BY <1>3, <1>5

(* An update of one row never makes another call wait before it is ready   *)
(* to commit, so who waits and is waited for is a batch.                   *)
LEMMA CycleOfBatches ==
  ASSUME IInv, DraftInv, NEW p \in Requests, NEW q \in Requests,
         at[q] = "loop", WaitsFor(p, q)
  PROVE  q \in Batches
  <1>1. Tx(q) \in Txs /\ Tx(q)[1] = q /\ tx[Tx(q)] = "active"
    BY TxCurrent DEF IInv, CallInv
  <1>2. AtStatement(p) /\ draft[Tx(q)][Row(Here(p))] # Nil
    BY DEF WaitsFor
  <1>3. Row(Here(p)) \in Rows
    BY <1>2, StatementRow
  <1> QED
    BY <1>1, <1>2, <1>3 DEF DraftInv, NotYet, NoRows

LEMMA SomethingMoves == IInv /\ DraftInv => NeverStuck
  <1> SUFFICES ASSUME IInv, DraftInv,
                      NEW r \in Requests, at[r] \notin {"ok", "failed"},
                      \A q \in Requests : ~CanMove(q),
                      \A t \in Txs : tx[t] # "commit" /\ ~(Live(t) /\ t \in broken)
               PROVE  FALSE
    BY DEF NeverStuck
  <1> DEFINE W == {q \in Requests : at[q] = "loop"}
  <1>1. \A q \in Requests : at[q] \in {"open", "loop", "ok", "failed"}
    <2> SUFFICES ASSUME NEW q \in Requests, at[q] \in {"committing", "delay"} PROVE FALSE
      BY DEF IInv, TypeOK
    <2>1. at[q] = "committing" => tx[Tx(q)] = "committed"
      BY TxCurrent DEF IInv, CallInv
    <2> QED
      BY <2>1 DEF CanMove
  <1>2. W # {}
    <2>1. CASE at[r] = "loop"
      BY <2>1
    <2>2. CASE at[r] = "open"
      <3>1. ~(Cardinality(Connected) < MaxConns)
        BY <2>2 DEF CanMove
      <3>2. PICK q \in Requests : at[q] \in {"loop", "committing"}
        BY <3>1, FullPool
      <3> QED
        BY <1>1, <3>2
    <2> QED
      BY <1>1, <2>1, <2>2
  <1>3. ClosedUnderWaiting(W)
    <2> SUFFICES ASSUME NEW q \in W PROVE \E p \in W : WaitsFor(q, p)
      BY <1>2 DEF ClosedUnderWaiting
    <2>1. AtStatement(q) /\ ~RowFree(Tx(q), Row(Here(q)))
      BY DEF CanMove
    <2>2. PICK p \in Requests : WaitsFor(q, p) /\ at[p] \in {"loop", "committing"}
      BY <2>1, LockedByOther
    <2> QED
      BY <1>1, <2>2
  <1>4. PICK S \in SUBSET W : /\ ClosedUnderWaiting(S)
                             /\ \A q \in S : \E p \in S : WaitsFor(p, q)
    BY <1>3, CycleExists
  <1>5. S \in SUBSET Batches
    BY <1>4, CycleOfBatches
  <1>6. PICK q \in S : TRUE
    BY <1>4 DEF ClosedUnderWaiting
  <1>7. Deadlocked(q)
    BY <1>4, <1>5, <1>6 DEF Deadlocked, ClosedUnderWaiting
  <1> QED
    BY <1>6, <1>7 DEF CanMove

(* Whatever batches lock which rows in which order, however small the pool *)
(* and however the connections break, the calls never all wait (172-214).  *)
THEOREM CallsNeverStuck == Spec => []NeverStuck
  <1>1. Init => IInv /\ KnownInv /\ SerialInv
    BY InitInv, KnownInit, SerialInit
  <1>2. IInv /\ KnownInv /\ SerialInv /\ [Next]_pgVars => (IInv /\ KnownInv /\ SerialInv)'
    BY InvStep, KnownStep, SerialStep
  <1>3. IInv /\ KnownInv /\ SerialInv => NeverStuck
    BY SomethingMoves DEF SerialInv
  <1> QED
    BY <1>1, <1>2, <1>3, PTL DEF Spec

(* How far a call is in one attempt, and how far a transaction is.         *)
Stage == [open |-> 0, loop |-> 1, committing |-> 2, delay |-> 3, ok |-> 4, failed |-> 4]
TxStage == [none |-> 0, active |-> 1, commit |-> 2, committed |-> 3, ended |-> 4]

CallAdvances(r) ==
    \/ attempt'[r] > attempt[r]
    \/ attempt'[r] = attempt[r] /\ Stage[at'[r]] > Stage[at[r]]
    \/ UNCHANGED <<attempt[r], at[r]>> /\ at[r] = "loop" /\ pos'[r] > pos[r]

CallStays(r) == UNCHANGED <<attempt[r], at[r], pos[r]>>

TxAdvances(t) == TxStage[tx'[t]] > TxStage[tx[t]]

(* The road of a call: Retries + 1 attempts, and one turn of the loop for  *)
(* each metric.                                                            *)
RoadEnds ==
    \A r \in Requests : attempt[r] <= Retries + 1 /\ (at[r] = "loop" => pos[r] <= Len(Payload[r]) + 1)

StepAdvances ==
    /\ \A r \in Requests : CallStays(r) \/ CallAdvances(r)
    /\ \A t \in Txs : UNCHANGED tx[t] \/ TxAdvances(t)
    /\ \/ \E r \in Requests : CallAdvances(r)
       \/ \E t \in Txs : TxAdvances(t)

LEMMA FailsAdvances ==
  ASSUME IInv, NEW r \in Requests, NEW class08 \in BOOLEAN, Fails(r, class08),
         at[r] \in {"open", "loop", "committing"}
  PROVE  CallAdvances(r) /\ \A q \in Requests \ {r} : CallStays(q)
  <1>1. at'[r] \in {"delay", "failed"} /\ attempt'[r] = attempt[r]
    BY DEF Fails, IInv, TypeOK
  <1>2. \A q \in Requests \ {r} : UNCHANGED <<attempt[q], at[q], pos[q]>>
    BY DEF Fails, IInv, TypeOK
  <1> QED
    BY <1>1, <1>2 DEF CallAdvances, CallStays, Stage

LEMMA RolledBackAdvances ==
  ASSUME IInv, NEW r \in Requests, RolledBack(r), Fails(r, FALSE), at[r] = "loop"
  PROVE  StepAdvances
  <1>1. Tx(r) \in Txs /\ tx[Tx(r)] = "active"
    BY TxCurrent DEF IInv, CallInv
  <1>2. /\ TxAdvances(Tx(r))
        /\ \A t \in Txs \ {Tx(r)} : UNCHANGED tx[t]
    BY <1>1 DEF RolledBack, TxAdvances, TxStage, IInv, TypeOK
  <1>3. CallAdvances(r) /\ \A q \in Requests \ {r} : CallStays(q)
    BY FailsAdvances
  <1> QED
    BY <1>2, <1>3 DEF StepAdvances

(* A step of the server moves one transaction and no call. *)
LEMMA ServerAdvances ==
  ASSUME IInv, NEW t \in Txs, Commit(t) \/ Discard(t) \/ LateStatement(t)
  PROVE  StepAdvances
  <1>1. UNCHANGED <<at, attempt, pos>>
    BY DEF Commit, Discard, LateStatement, callVars
  <1>2. \A u \in Txs \ {t} : UNCHANGED tx[u]
    BY DEF Commit, Discard, LateStatement, IInv, TypeOK
  <1>3. TxAdvances(t)
    BY DEF Commit, Discard, LateStatement, Live, TxAdvances, TxStage, IInv, TypeOK
  <1> QED
    BY <1>1, <1>2, <1>3 DEF StepAdvances, CallStays

LEMMA ProceedAdvances ==
  ASSUME IInv, NEW r \in Requests, Proceeds(r)
  PROVE  StepAdvances
  <1> USE DEF IInv, TypeOK
  <1>1. CASE UnknownType(r) \/ OutOfRange(r) \/ DeadlockVictim(r)
    <2>1. at[r] = "loop"
      BY <1>1 DEF UnknownType, OutOfRange, DeadlockVictim, Deadlocked, WaitsFor, AtStatement, InLoop
    <2>2. RolledBack(r) /\ Fails(r, FALSE)
      BY <1>1 DEF UnknownType, OutOfRange, DeadlockVictim
    <2> QED
      BY <2>1, <2>2, RolledBackAdvances
  <1>2. CASE Begin(r) \/ SendCommit(r) \/ Returns(r)
    <2>1. Tx(r) \in Txs
      BY TxCurrent
    <2>2. CallAdvances(r) /\ \A q \in Requests \ {r} : CallStays(q)
      BY <1>2 DEF Begin, SendCommit, Returns, CallAdvances, CallStays, Stage
    <2>3. TxAdvances(Tx(r))
      BY <1>2, <2>1 DEF Begin, SendCommit, Returns, TxAdvances, TxStage, CallInv
    <2>4. \A t \in Txs \ {Tx(r)} : UNCHANGED tx[t]
      BY <1>2 DEF Begin, SendCommit, Returns
    <2> QED
      BY <2>1, <2>2, <2>3, <2>4 DEF StepAdvances
  <1>3. CASE SkipNil(r)
    <2>1. CallAdvances(r) /\ \A q \in Requests \ {r} : CallStays(q)
      BY <1>3 DEF SkipNil, InLoop, CallAdvances, CallStays
    <2> QED
      BY <1>3, <2>1 DEF SkipNil, serverVars, StepAdvances
  <1>4. CASE Exec(r)
    <2>1. Tx(r) \in Txs /\ tx[Tx(r)] = "active" /\ at[r] = "loop"
      BY <1>4, TxCurrent DEF Exec, AtStatement, InLoop, CallInv
    <2>2. CallAdvances(r) /\ \A q \in Requests \ {r} : CallStays(q)
      <3>1. CASE r \in Batches
        BY <1>4, <2>1, <3>1 DEF Exec, CallAdvances, CallStays
      <3>2. CASE r \notin Batches
        BY <1>4, <2>1, <3>2 DEF Exec, CallAdvances, CallStays, Stage
      <3> QED
        BY <3>1, <3>2
    <2>3. \A t \in Txs : UNCHANGED tx[t] \/ TxAdvances(t)
      BY <1>4, <2>1 DEF Exec, TxAdvances, TxStage
    <2> QED
      BY <2>2, <2>3 DEF StepAdvances
  <1>5. CASE DelayOver(r)
    <2>1. CallAdvances(r) /\ \A q \in Requests \ {r} : CallStays(q)
      BY <1>5 DEF DelayOver, CallAdvances, CallStays
    <2> QED
      BY <1>5, <2>1 DEF DelayOver, serverVars, StepAdvances
  <1> QED
    BY <1>1, <1>2, <1>3, <1>4, <1>5 DEF Proceeds

LEMMA DisturbedAdvances ==
  ASSUME IInv, NEW r \in Requests, Disturbed(r)
  PROVE  StepAdvances
  <1> USE DEF IInv, TypeOK
  <1>1. ASSUME NEW class08 \in BOOLEAN, BeginFails(r, class08) PROVE StepAdvances
    <2>1. CallAdvances(r) /\ \A q \in Requests \ {r} : CallStays(q)
      BY <1>1, FailsAdvances DEF BeginFails
    <2> QED
      BY <1>1, <2>1 DEF BeginFails, serverVars, StepAdvances
  <1>2. ASSUME NEW class08 \in BOOLEAN, ConnError(r, class08) PROVE StepAdvances
    <2>1. CallAdvances(r) /\ \A q \in Requests \ {r} : CallStays(q)
      BY <1>2, FailsAdvances DEF ConnError, Breaks
    <2>2. \A t \in Txs : UNCHANGED tx[t] \/ TxAdvances(t)
      BY <1>2, TxCurrent DEF ConnError, Breaks, TxAdvances, TxStage
    <2> QED
      BY <2>1, <2>2 DEF StepAdvances
  <1>3. CASE CtxDone(r)
    <2>1. CallAdvances(r) /\ \A q \in Requests \ {r} : CallStays(q)
      BY <1>3 DEF CtxDone, CallAdvances, CallStays, Stage
    <2> QED
      BY <1>3, <2>1 DEF CtxDone, serverVars, StepAdvances
  <1> QED
    BY <1>1, <1>2, <1>3 DEF Disturbed

LEMMA NextAdvances == IInv /\ [Next]_pgVars => [StepAdvances]_pgVars
  BY ServerAdvances, ProceedAdvances, DisturbedAdvances DEF Next

(* No step is taken back and none goes round in a circle: a call makes at  *)
(* most Retries + 1 attempts and one turn of the loop for each metric, so  *)
(* no behaviour has infinitely many steps (181-252).                       *)
THEOREM StepsAdvance == Spec => [][StepAdvances]_pgVars /\ []RoadEnds
  <1>1. Init => IInv /\ KnownInv /\ SerialInv
    BY InitInv, KnownInit, SerialInit
  <1>2. IInv /\ KnownInv /\ SerialInv /\ [Next]_pgVars => (IInv /\ KnownInv /\ SerialInv)'
    BY InvStep, KnownStep, SerialStep
  <1>3. IInv /\ SerialInv => RoadEnds
    BY DEF IInv, TypeOK, SerialInv, DraftInv, Drafting, RoadEnds
  <1> QED
    BY <1>1, <1>2, <1>3, NextAdvances, PTL DEF Spec
=============================================================================
